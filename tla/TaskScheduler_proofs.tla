------------------------ MODULE TaskScheduler_proofs ------------------------
(***************************************************************************)
(* Proofs about TaskScheduler with its work signal, for every set of       *)
(* mutations, any split into tracked and direct ones, any capacity of the  *)
(* event bus and any number of storage errors: the loop does not sleep on  *)
(* work it has not seen, and the marks of track_task_mutation last until a *)
(* pass has read what the mutation wrote.                                  *)
(***************************************************************************)
EXTENDS TaskScheduler, TLAPS

-----------------------------------------------------------------------------
(* The inductive invariant. *)

\* The signal, its commands and the subscription.
SignalTyped ==
    /\ version \in Nat /\ unknown \in Nat
    /\ mutation \in [Mutations -> Progress]
    /\ commands \in Seq(Mutations \cup {Fence})
    /\ committed \subseteq Mutations
    /\ sub \in [pc : {"begin", "fence", "fencing", "ready"},
                seen : Nat, settled : Nat, read : Nat]

\* The writer's queue: a command is dispatched once, by a mutation that waits
\* for it or was dropped, and nobody dispatches behind the fence.
Positions == 1 .. Len(commands)
QueueSound ==
    /\ \A i, j \in Positions : commands[i] = commands[j] => i = j
    /\ \A i \in Positions :
          /\ commands[i] = Fence => i = Len(commands) /\ sub.pc = "fencing"
          /\ commands[i] # Fence => mutation[commands[i]] \in {"dispatched", "dropped"}

\* Only a command that was run has committed.
CommitSound ==
    \A m \in committed : mutation[m] \in {"changed", "ended", "dropped"}

\* A command nobody waits for is still in the writer.
Hanging == \E i \in Positions :
               commands[i] \in Mutations /\ mutation[commands[i]] = "dropped"

\* A version is announced before it is seen, and an uncertain outcome is not
\* settled while its command is in the writer: a subscription that is ready has
\* then not seen the drop.
SeenSound ==
    /\ sub.seen <= version /\ sub.settled <= unknown
    /\ sub.pc \in {"fence", "fencing"} => sub.read <= unknown
    /\ Hanging => sub.settled < unknown
    /\ Hanging /\ sub.pc = "ready" => sub.seen < version

SignalInv == SignalTyped /\ QueueSound /\ CommitSound /\ SeenSound

\* A pass, at rest or under way.
PassRecord ==
    [holder : {"none", "run", "service"},
     pc : {"drain", "rebuild", "clear", "collect", "reload", "ack",
           "process", "check"},
     round : 1 .. 2, failed : BOOLEAN, partial : BOOLEAN,
     todo : [Mutations -> Nat], task : Mutations \cup {Fence}]

\* The scheduler, as far as the arguments need its types.
SchedTyped ==
    /\ loop \in {"top", "raised", "passing", "parked"} /\ begin \in BOOLEAN
    /\ needsRebuild \in BOOLEAN /\ erased \in BOOLEAN
    /\ tracking \in [Mutations -> {"out", "in", "returned", "published",
                                   "failed", "done", "gone"}]
    /\ dirty \in [Mutations -> Nat] /\ events \subseteq Mutations
    /\ cache \subseteq committed
    /\ pass \in PassRecord

\* track_task_mutation goes on once the write was answered.
TrackingSound ==
    \A m \in Mutations :
        tracking[m] \in {"returned", "published", "failed", "done"} =>
            mutation[m] = "ended"

\* Where the loop and its subscription stand.
LoopSound ==
    /\ loop \in {"passing", "parked"} => ~begin
    /\ loop = "raised" => begin /\ sub.pc = "begin"
    /\ ~begin => sub.pc = "ready"
    /\ loop = "passing" <=> pass.holder = "run"

\* From the moment the loop raises it to the pass, the rebuild flag is up.
FlagUp == begin /\ (loop = "raised" \/ sub.pc # "begin") => needsRebuild \/ erased

\* Committed, not in the cache, and announced.
Missed == {m \in committed \ cache : ~GuardLive(m)}

\* A task the scheduler is still to read: a rebuild is asked for and the pass, or
\* the next one, has not made it yet; or the task is marked, and this pass is
\* still to copy or to read the mark, or has met rows it could not read and will
\* not let the loop sleep.
RebuildAhead == needsRebuild /\ (pass.holder = "none" \/ pass.pc \in {"drain", "rebuild"})
MarkAhead(m) ==
    /\ dirty[m] > 0
    /\ pass.holder # "none" =>
          /\ pass.pc = "ack" => pass.task # m
          /\ \/ pass.partial
             \/ pass.pc \in {"drain", "rebuild", "clear", "collect"}
             \/ pass.pc \in {"reload", "ack"} /\ pass.todo[m] > 0
Ahead(m) == RebuildAhead \/ MarkAhead(m)

\* After begin_pass, what is missed and was seen is still to be read; a loop
\* that parks has read it.
NothingMissed ==
    ~begin /\ version = sub.seen /\ ~erased =>
        \A m \in Missed : loop # "parked" /\ Ahead(m)

\* The mutations the hint of track_task_mutation is for.
Owing == {m \in committed \ cache : tracking[m] = "done"}

\* A mark that moved since the pass copied it is not removed: what was read
\* before the mutation had committed does not count for it.
MarksSound ==
    /\ \A m \in Mutations : pass.todo[m] <= dirty[m]
    /\ \A m \in Owing : dirty[m] > 0
    /\ pass.pc = "ack" =>
          /\ pass.task \in Mutations
          /\ pass.task \in Owing => pass.todo[pass.task] < dirty[pass.task]

LoopInv == LoopSound /\ FlagUp /\ NothingMissed
HintInv == TrackingSound /\ MarksSound

IInv == SignalInv /\ SchedTyped /\ LoopInv /\ HintInv

-----------------------------------------------------------------------------
(* The work signal. *)

\* Queues are appended to and popped.
LEMMA AppendQueue ==
    ASSUME NEW S, NEW s \in Seq(S), NEW x \in S
    PROVE  /\ Append(s, x) \in Seq(S) /\ Len(Append(s, x)) = Len(s) + 1
           /\ Append(s, x)[Len(s) + 1] = x /\ Len(s) \in Nat
           /\ \A i \in 1 .. Len(s) : Append(s, x)[i] = s[i]
  OBVIOUS

LEMMA TailQueue ==
    ASSUME NEW S, NEW s \in Seq(S), s # <<>>
    PROVE  /\ Tail(s) \in Seq(S) /\ Len(Tail(s)) = Len(s) - 1 /\ Len(s) \in Nat \ {0}
           /\ Head(s) = s[1] /\ Head(s) \in S
           /\ \A i \in 1 .. Len(Tail(s)) : Tail(s)[i] = s[i + 1]
  OBVIOUS

\* A mutation that has nothing in the writer may change as it likes, as long as
\* it is not taken for committed.
LEMMA MutationMoves ==
    ASSUME SignalInv, NEW m \in Mutations, NEW st \in Progress,
           \A i \in Positions : commands[i] # m,
           m \in committed => st \in {"changed", "ended", "dropped"},
           mutation' = [mutation EXCEPT ![m] = st],
           version' \in Nat, version' >= version, unknown' \in Nat, unknown' >= unknown,
           commands' = commands, committed' = committed, sub' = sub
    PROVE  SignalInv'
  <1>1. mutation' \in [Mutations -> Progress] /\ mutation'[m] = st
        /\ \A v \in Mutations \ {m} : mutation'[v] = mutation[v]
    BY DEF SignalInv, SignalTyped
  <1>2. \A i \in Positions : commands[i] # Fence => commands[i] \in Mutations \ {m}
    BY DEF SignalInv, SignalTyped, Positions
  <1>3. Positions' = Positions
    BY DEF Positions
  <1>4. QueueSound'
    BY <1>1, <1>2, <1>3 DEF SignalInv, QueueSound
  <1>5. CommitSound'
    BY <1>1 DEF SignalInv, SignalTyped, CommitSound
  <1>6. Hanging' => Hanging
    BY <1>1, <1>3 DEF Hanging
  <1>7. /\ {version, unknown, sub.seen, sub.settled, sub.read} \subseteq Nat
    BY DEF SignalInv, SignalTyped
  <1>8. SeenSound'
    BY <1>6, <1>7 DEF SignalInv, SeenSound
  <1>9. SignalTyped'
    BY <1>1 DEF SignalInv, SignalTyped
  <1> QED  BY <1>4, <1>5, <1>8, <1>9 DEF SignalInv

\* changing()
LEMMA ChangingKeeps ==
    ASSUME SignalInv, NEW m \in Mutations, Changing(m) PROVE SignalInv' /\ m \notin committed
  <1>1. /\ mutation[m] = "idle" /\ mutation' = [mutation EXCEPT ![m] = "changing"]
        /\ version' = version /\ unknown' = unknown /\ commands' = commands
        /\ committed' = committed /\ sub' = sub
    BY DEF Changing
  <1>2. m \notin committed /\ \A i \in Positions : commands[i] # m
    BY <1>1, FenceAssumption DEF SignalInv, QueueSound, CommitSound
  <1>3. version' \in Nat /\ version' >= version /\ unknown' \in Nat /\ unknown' >= unknown
    BY <1>1 DEF SignalInv, SignalTyped
  <1>4. "changing" \in Progress
    BY DEF Progress
  <1> QED  BY <1>1, <1>2, <1>3, <1>4, MutationMoves

\* completed(changed): the command was run, so none is in the writer.
LEMMA CompletedKeeps ==
    ASSUME SignalInv, NEW m \in Mutations, Completed(m)
    PROVE  /\ SignalInv'
           /\ m \in committed => sub'.seen < version'
  <1>1. /\ mutation[m] \in {"changed", "same"} /\ mutation' = [mutation EXCEPT ![m] = "ended"]
        /\ version' = IF mutation[m] = "changed" THEN version + 1 ELSE version
        /\ unknown' = unknown /\ commands' = commands
        /\ committed' = committed /\ sub' = sub
    BY DEF Completed
  <1>2. \A i \in Positions : commands[i] # m
    BY <1>1, FenceAssumption DEF SignalInv, QueueSound
  <1>3. version' \in Nat /\ version' >= version /\ unknown' \in Nat /\ unknown' >= unknown
    BY <1>1 DEF SignalInv, SignalTyped
  <1>4. "ended" \in Progress
    BY DEF Progress
  <1>5. SignalInv'
    BY <1>1, <1>2, <1>3, <1>4, MutationMoves
  <1>6. m \in committed => version' = version + 1
    BY <1>1 DEF SignalInv, CommitSound
  <1>7. sub.seen \in Nat /\ version \in Nat /\ sub.seen <= version
    BY DEF SignalInv, SignalTyped, SeenSound
  <1>8. m \in committed => sub.seen < version'
    BY <1>6, <1>7
  <1> QED  BY <1>1, <1>5, <1>8

\* The guard of an answered write goes without completed().
LEMMA FailedKeeps ==
    ASSUME SignalInv, NEW m \in Mutations, Failed(m)
    PROVE  SignalInv' /\ sub'.seen < version'
  <1>1. /\ mutation[m] = "failed" /\ mutation' = [mutation EXCEPT ![m] = "ended"]
        /\ version' = version + 1 /\ unknown' = unknown + 1
        /\ commands' = commands /\ committed' = committed /\ sub' = sub
    BY DEF Failed, Released
  <1>2. \A i \in Positions : commands[i] # m
    BY <1>1, FenceAssumption DEF SignalInv, QueueSound
  <1>3. version' \in Nat /\ version' >= version /\ unknown' \in Nat /\ unknown' >= unknown
    BY <1>1 DEF SignalInv, SignalTyped
  <1>4. "ended" \in Progress
    BY DEF Progress
  <1>5. SignalInv'
    BY <1>1, <1>2, <1>3, <1>4, MutationMoves
  <1>6. sub.seen < version'
    BY <1>1 DEF SignalInv, SignalTyped, SeenSound
  <1> QED  BY <1>1, <1>5, <1>6

\* A dropped future leaves its command in the writer; the new version and the
\* new epoch say so.
LEMMA DropWriteKeeps ==
    ASSUME SignalInv, NEW m \in Mutations, DropWrite(m)
    PROVE  SignalInv' /\ sub'.seen < version'
  <1>1. /\ GuardLive(m) /\ mutation' = [mutation EXCEPT ![m] = "dropped"]
        /\ version' = version + 1 /\ unknown' = unknown + 1
        /\ commands' = commands /\ committed' = committed /\ sub' = sub
    BY DEF DropWrite, Released
  <1>2. mutation' \in [Mutations -> Progress] /\ mutation'[m] = "dropped"
        /\ \A v \in Mutations \ {m} : mutation'[v] = mutation[v]
    BY <1>1 DEF SignalInv, SignalTyped, Progress
  <1>3. Positions' = Positions
    BY <1>1 DEF Positions
  <1>4. \A i \in Positions : commands[i] \in Mutations \cup {Fence}
    BY DEF SignalInv, SignalTyped, Positions
  <1>5. QueueSound'
    BY <1>1, <1>2, <1>3, <1>4 DEF SignalInv, QueueSound
  <1>6. CommitSound'
    BY <1>1, <1>2 DEF SignalInv, SignalTyped, CommitSound
  <1>7. /\ {version, unknown, sub.seen, sub.settled, sub.read} \subseteq Nat
    BY DEF SignalInv, SignalTyped
  <1>8. SeenSound' /\ sub'.seen < version'
    BY <1>1, <1>7 DEF SignalInv, SeenSound
  <1>9. SignalTyped'
    BY <1>1, <1>2 DEF SignalInv, SignalTyped
  <1> QED  BY <1>5, <1>6, <1>8, <1>9 DEF SignalInv
\* A command goes to the writer: nobody waits for the fence, so there is none.
LEMMA DispatchWriteKeeps ==
    ASSUME SignalInv, NEW m \in Mutations, DispatchWrite(m)
    PROVE  SignalInv'
  <1>1. /\ mutation[m] = "changing" /\ sub.pc # "fencing"
        /\ mutation' = [mutation EXCEPT ![m] = "dispatched"]
        /\ commands' = Append(commands, m)
        /\ version' = version /\ unknown' = unknown
        /\ committed' = committed /\ sub' = sub
    BY DEF DispatchWrite, WriterFree
  <1>2. mutation' \in [Mutations -> Progress] /\ mutation'[m] = "dispatched"
        /\ \A v \in Mutations \ {m} : mutation'[v] = mutation[v]
    BY <1>1 DEF SignalInv, SignalTyped, Progress
  <1> DEFINE n == Len(commands)
  <1>3. /\ commands' \in Seq(Mutations \cup {Fence}) /\ Len(commands') = n + 1
        /\ commands'[n + 1] = m /\ n \in Nat
        /\ \A i \in 1 .. n : commands'[i] = commands[i]
    BY <1>1, AppendQueue DEF SignalInv, SignalTyped
  <1>4. \A i \in 1 .. n : commands[i] \in Mutations \ {m}
    BY <1>1 DEF SignalInv, SignalTyped, QueueSound, Positions
  <1> HIDE DEF n
  <1>5. Positions = 1 .. n /\ Positions' = (1 .. n) \cup {n + 1} /\ n + 1 \notin 1 .. n
    BY <1>3 DEF Positions, n
  <1>6. QueueSound'
    <2>1. \A i, j \in Positions' : commands'[i] = commands'[j] => i = j
      BY <1>3, <1>4, <1>5 DEF SignalInv, QueueSound
    <2>2. ASSUME NEW i \in Positions'
          PROVE  /\ commands'[i] # Fence
                 /\ mutation'[commands'[i]] \in {"dispatched", "dropped"}
      <3>1. CASE i = n + 1
        BY <1>2, <1>3, <3>1, FenceAssumption
      <3>2. CASE i \in 1 .. n
        BY <1>2, <1>3, <1>4, <1>5, <3>2, FenceAssumption DEF SignalInv, QueueSound
      <3> QED  BY <1>5, <3>1, <3>2
    <2> QED  BY <2>1, <2>2 DEF QueueSound
  <1>7. CommitSound'
    BY <1>1, <1>2 DEF SignalInv, SignalTyped, CommitSound
  <1>8. Hanging' => Hanging
    BY <1>2, <1>3, <1>4, <1>5 DEF Hanging
  <1>9. SeenSound'
    BY <1>1, <1>8 DEF SignalInv, SeenSound
  <1>10. SignalTyped'
    BY <1>1, <1>2, <1>3 DEF SignalInv, SignalTyped
  <1> QED  BY <1>6, <1>7, <1>9, <1>10 DEF SignalInv

\* What is left of the queue after its first command.
LEMMA PopKeeps ==
    ASSUME SignalInv, commands # <<>>, commands' = Tail(commands),
           sub'.pc = sub.pc \/ Head(commands) = Fence,
           mutation' \in [Mutations -> Progress],
           \A v \in Mutations \ {Head(commands)} : mutation'[v] = mutation[v]
    PROVE  /\ commands' \in Seq(Mutations \cup {Fence}) /\ QueueSound'
           /\ \A i \in Positions' : commands'[i] # Head(commands)
           /\ Head(commands) \in Mutations => mutation[Head(commands)] \in {"dispatched", "dropped"}
           /\ Head(commands) = Fence => Positions' = {} /\ sub.pc = "fencing"
           /\ Hanging' => Hanging
  <1>1. /\ commands' \in Seq(Mutations \cup {Fence}) /\ Len(commands') = Len(commands) - 1
        /\ Len(commands) \in Nat \ {0}
        /\ Head(commands) = commands[1] /\ Head(commands) \in Mutations \cup {Fence}
        /\ \A i \in 1 .. Len(commands') : commands'[i] = commands[i + 1]
    BY TailQueue DEF SignalInv, SignalTyped
  <1> DEFINE n == Len(commands)
  <1>0. /\ n \in Nat \ {0} /\ Len(commands') = n - 1
        /\ Positions = 1 .. n /\ Positions' = 1 .. (n - 1)
    BY <1>1 DEF Positions
  <1> HIDE DEF n
  <1>2. /\ 1 \in Positions
        /\ \A i \in Positions' : i + 1 \in Positions /\ i + 1 # 1 /\ i \in Nat
    BY <1>0
  <1>3. \A i \in Positions' : commands'[i] = commands[i + 1]
    BY <1>1 DEF Positions
  <1>4. ASSUME NEW i \in Positions' PROVE commands'[i] # Head(commands)
    <2>1. PICK a \in Positions : a = i + 1 /\ a # 1
      BY <1>2
    <2>2. commands[a] # commands[1]
      BY <1>2, <2>1 DEF SignalInv, QueueSound
    <2> QED  BY <1>1, <1>3, <2>1, <2>2
  <1>5. /\ Head(commands) \in Mutations => mutation[Head(commands)] \in {"dispatched", "dropped"}
        /\ Head(commands) = Fence => Len(commands) = 1 /\ sub.pc = "fencing"
    BY <1>1, <1>2, FenceAssumption DEF SignalInv, QueueSound
  <1>6. Head(commands) = Fence => Positions' = {}
    BY <1>1, <1>5 DEF Positions
  <1>7. \A i \in Positions' : commands'[i] \in (Mutations \cup {Fence}) \ {Head(commands)}
    BY <1>1, <1>4 DEF Positions
  <1>8. QueueSound'
    <2>1. \A i, j \in Positions' : commands'[i] = commands'[j] => i = j
      <3>1. ASSUME NEW i \in Positions', NEW j \in Positions', commands'[i] = commands'[j]
            PROVE  i = j
        <4>1. PICK a \in Positions, b \in Positions : a = i + 1 /\ b = j + 1
          BY <1>2
        <4>2. commands[a] = commands[b]
          BY <1>3, <3>1, <4>1
        <4>3. a = b
          BY <4>2 DEF SignalInv, QueueSound
        <4> QED  BY <1>2, <4>1, <4>3
      <3> QED  BY <3>1
    <2>2. ASSUME NEW i \in Positions', commands'[i] = Fence
          PROVE  i = Len(commands') /\ sub'.pc = "fencing"
      <3>1. i + 1 = Len(commands) /\ sub.pc = "fencing" /\ Head(commands) # Fence
        BY <1>2, <1>3, <1>4, <2>2 DEF SignalInv, QueueSound
      <3>2. i + 1 = n /\ i \in Nat /\ n \in Nat
        BY <1>0, <1>2, <3>1 DEF n
      <3>3. sub'.pc = "fencing"
        BY <3>1
      <3> QED  BY <1>0, <3>2, <3>3
    <2>3. ASSUME NEW i \in Positions', commands'[i] # Fence
          PROVE  mutation'[commands'[i]] \in {"dispatched", "dropped"}
      BY <1>2, <1>3, <1>7, <2>3 DEF SignalInv, QueueSound
    <2> QED  BY <2>1, <2>2, <2>3 DEF QueueSound
  <1>9. Hanging' => Hanging
    <2> SUFFICES ASSUME Hanging' PROVE Hanging
      OBVIOUS
    <2>1. PICK i \in Positions' : commands'[i] \in Mutations /\ mutation'[commands'[i]] = "dropped"
      BY DEF Hanging
    <2>2. i + 1 \in Positions /\ commands[i + 1] \in Mutations /\ mutation[commands[i + 1]] = "dropped"
      BY <1>2, <1>3, <1>7, <2>1
    <2> QED  BY <2>2 DEF Hanging
  <1> QED  BY <1>1, <1>4, <1>5, <1>6, <1>8, <1>9

\* The writer runs a command; one that nobody waits for was hanging.
LEMMA RunWriteKeeps ==
    ASSUME SignalInv, RunWrite
    PROVE  /\ SignalInv' /\ sub' = sub /\ version' = version /\ committed \subseteq committed'
           /\ \A m \in committed' \ committed :
                 /\ mutation[m] \in {"dispatched", "dropped"}
                 /\ GuardLive(m)' \/ Hanging
           /\ \A m \in committed : mutation'[m] = mutation[m]
           /\ \A m \in Mutations : mutation[m] = "ended" => mutation'[m] = "ended"
  <1>0. PICK m \in Mutations : m = Head(commands)
    BY DEF RunWrite
  <1>1. PICK result \in {"changed", "same", "failed"} :
          /\ committed' = IF result = "changed" THEN committed \cup {m} ELSE committed
          /\ mutation' = IF mutation[m] = "dispatched"
                         THEN [mutation EXCEPT ![m] = result] ELSE mutation
    BY <1>0 DEF RunWrite
  <1>2. /\ commands # <<>> /\ m \in Mutations /\ commands' = Tail(commands)
        /\ version' = version /\ unknown' = unknown /\ sub' = sub
    BY <1>0 DEF RunWrite
  <1>3. /\ mutation' \in [Mutations -> Progress]
        /\ \A v \in Mutations \ {m} : mutation'[v] = mutation[v]
        /\ mutation[m] = "dispatched" => mutation'[m] = result
        /\ mutation[m] # "dispatched" => mutation'[m] = mutation[m]
    BY <1>1, <1>2 DEF SignalInv, SignalTyped, Progress
  <1>4. /\ commands' \in Seq(Mutations \cup {Fence}) /\ QueueSound'
        /\ mutation[m] \in {"dispatched", "dropped"}
        /\ Hanging' => Hanging
    BY <1>0, <1>2, <1>3, PopKeeps
  <1>5. m \notin committed \/ mutation[m] = "dropped"
    BY <1>4 DEF SignalInv, CommitSound
  <1>6. CommitSound'
    BY <1>1, <1>3, <1>4, <1>5 DEF SignalInv, SignalTyped, CommitSound
  <1>7. SeenSound'
    BY <1>2, <1>4 DEF SignalInv, SeenSound
  <1>8. SignalTyped'
    BY <1>1, <1>2, <1>3, <1>4 DEF SignalInv, SignalTyped
  <1>9. mutation[m] = "dropped" => Hanging
    <2>1. 1 \in Positions /\ commands[1] = m
      BY <1>0, <1>2, TailQueue DEF SignalInv, SignalTyped, Positions
    <2> QED  BY <1>2, <2>1 DEF Hanging
  <1>10. mutation[m] = "dispatched" /\ result = "changed" => GuardLive(m)'
    BY <1>3 DEF GuardLive
  <1>11. \A v \in committed' \ committed :
            v = m /\ result = "changed" /\ mutation[v] \in {"dispatched", "dropped"}
    BY <1>1, <1>4
  <1> QED
    BY <1>1, <1>2, <1>3, <1>4, <1>5, <1>6, <1>7, <1>8, <1>9, <1>10, <1>11
       DEF SignalInv, SignalTyped

\* begin_pass: with no epoch unsettled, nothing is hanging.
LEMMA BeginPassKeeps ==
    ASSUME SignalInv, BeginPass
    PROVE  SignalInv' /\ sub'.pc # "begin"
  <1>1. /\ sub.pc = "begin"
        /\ sub' = [sub EXCEPT !.seen = version, !.read = unknown,
                              !.pc = IF unknown = sub.settled THEN "ready" ELSE "fence"]
        /\ version' = version /\ unknown' = unknown /\ mutation' = mutation
        /\ commands' = commands /\ committed' = committed
    BY DEF BeginPass
  <1>2. /\ sub'.seen = version /\ sub'.read = unknown /\ sub'.settled = sub.settled
        /\ sub'.pc = IF unknown = sub.settled THEN "ready" ELSE "fence"
        /\ sub' \in [pc : {"begin", "fence", "fencing", "ready"},
                     seen : Nat, settled : Nat, read : Nat]
    BY <1>1 DEF SignalInv, SignalTyped
  <1>3. Positions' = Positions /\ (Hanging' <=> Hanging)
    BY <1>1 DEF Positions, Hanging
  <1>4. QueueSound' /\ CommitSound'
    BY <1>1, <1>2, <1>3 DEF SignalInv, QueueSound, CommitSound
  <1>5. {version, unknown, sub.seen, sub.settled, sub.read} \subseteq Nat
    BY DEF SignalInv, SignalTyped
  <1>6. SeenSound'
    <2>1. Hanging => sub.settled < unknown
      BY DEF SignalInv, SeenSound
    <2>2. Hanging => sub'.pc # "ready"
      BY <1>2, <1>5, <2>1
    <2> QED  BY <1>1, <1>2, <1>3, <1>5, <2>1, <2>2 DEF SignalInv, SeenSound
  <1>7. SignalTyped'
    BY <1>1, <1>2 DEF SignalInv, SignalTyped
  <1> QED  BY <1>2, <1>4, <1>6, <1>7 DEF SignalInv

\* The fence is sent, behind every command.
LEMMA DispatchFenceKeeps ==
    ASSUME SignalInv, DispatchFence
    PROVE  SignalInv' /\ sub.pc = "fence" /\ sub'.pc = "fencing"
  <1>1. /\ sub.pc = "fence" /\ sub' = [sub EXCEPT !.pc = "fencing"]
        /\ commands' = Append(commands, Fence)
        /\ version' = version /\ unknown' = unknown /\ mutation' = mutation
        /\ committed' = committed
    BY DEF DispatchFence
  <1>2. /\ sub'.seen = sub.seen /\ sub'.read = sub.read /\ sub'.settled = sub.settled
        /\ sub'.pc = "fencing"
        /\ sub' \in [pc : {"begin", "fence", "fencing", "ready"},
                     seen : Nat, settled : Nat, read : Nat]
    BY <1>1 DEF SignalInv, SignalTyped
  <1> DEFINE n == Len(commands)
  <1>3. /\ commands' \in Seq(Mutations \cup {Fence}) /\ Len(commands') = n + 1
        /\ commands'[n + 1] = Fence /\ n \in Nat
        /\ \A i \in 1 .. n : commands'[i] = commands[i]
    BY <1>1, AppendQueue DEF SignalInv, SignalTyped
  <1>4. \A i \in 1 .. n : commands[i] # Fence
    BY <1>1 DEF SignalInv, QueueSound, Positions
  <1>5. Positions = 1 .. n /\ Positions' = (1 .. n) \cup {n + 1} /\ n + 1 \notin 1 .. n
    BY <1>3 DEF Positions
  <1> HIDE DEF n
  <1>6. QueueSound'
    <2>1. \A i, j \in Positions' : commands'[i] = commands'[j] => i = j
      BY <1>3, <1>4, <1>5 DEF SignalInv, QueueSound
    <2>2. ASSUME NEW i \in Positions', commands'[i] = Fence
          PROVE  i = Len(commands')
      BY <1>3, <1>4, <1>5, <2>2
    <2>3. ASSUME NEW i \in Positions', commands'[i] # Fence
          PROVE  mutation'[commands'[i]] \in {"dispatched", "dropped"}
      BY <1>1, <1>3, <1>5, <2>3 DEF SignalInv, QueueSound
    <2> QED  BY <1>2, <2>1, <2>2, <2>3 DEF QueueSound
  <1>7. Hanging' => Hanging
    BY <1>1, <1>3, <1>5, FenceAssumption DEF Hanging
  <1>8. SeenSound' /\ CommitSound'
    BY <1>1, <1>2, <1>7 DEF SignalInv, SeenSound, CommitSound
  <1>9. SignalTyped'
    BY <1>1, <1>2, <1>3 DEF SignalInv, SignalTyped
  <1> QED  BY <1>1, <1>2, <1>6, <1>8, <1>9 DEF SignalInv

\* The fence comes back to an empty queue: what it settles is not in the writer.
LEMMA RunFenceKeeps ==
    ASSUME SignalInv, NEW ok \in BOOLEAN, RunFence(ok)
    PROVE  SignalInv' /\ sub.pc = "fencing"
  <1>1. /\ commands # <<>> /\ Head(commands) = Fence /\ commands' = Tail(commands)
        /\ sub' = IF ok THEN [sub EXCEPT !.settled = sub.read, !.pc = "ready"]
                        ELSE [sub EXCEPT !.pc = "begin"]
        /\ version' = version /\ unknown' = unknown /\ mutation' = mutation
        /\ committed' = committed
    BY DEF RunFence
  <1>2. /\ sub'.seen = sub.seen /\ sub'.settled \in {sub.settled, sub.read}
        /\ sub'.pc \in {"ready", "begin"}
        /\ sub' \in [pc : {"begin", "fence", "fencing", "ready"},
                     seen : Nat, settled : Nat, read : Nat]
    BY <1>1 DEF SignalInv, SignalTyped
  <1>3. mutation' \in [Mutations -> Progress]
    BY <1>1 DEF SignalInv, SignalTyped
  <1>4. /\ commands' \in Seq(Mutations \cup {Fence}) /\ QueueSound'
        /\ Positions' = {} /\ sub.pc = "fencing"
    BY <1>1, <1>3, PopKeeps
  <1>5. ~Hanging'
    BY <1>4 DEF Hanging
  <1>6. SeenSound' /\ CommitSound'
    BY <1>1, <1>2, <1>4, <1>5 DEF SignalInv, SeenSound, CommitSound
  <1>7. SignalTyped'
    BY <1>1, <1>2, <1>4 DEF SignalInv, SignalTyped
  <1> QED  BY <1>4, <1>6, <1>7 DEF SignalInv

\* The wait is over, for a new version or for something else.
LEMMA WaitEndsKeeps ==
    ASSUME SignalInv, sub.pc = "ready", Changed \/ LeaveWait
    PROVE  SignalInv' /\ sub'.pc = "begin"
  <1>1. /\ \/ sub' = [sub EXCEPT !.seen = version, !.pc = "begin"]
           \/ sub' = [sub EXCEPT !.pc = "begin"]
        /\ version' = version /\ unknown' = unknown /\ mutation' = mutation
        /\ commands' = commands /\ committed' = committed
    BY DEF Changed, LeaveWait
  <1>2. /\ sub'.seen \in {sub.seen, version} /\ sub'.settled = sub.settled
        /\ sub'.pc = "begin"
        /\ sub' \in [pc : {"begin", "fence", "fencing", "ready"},
                     seen : Nat, settled : Nat, read : Nat]
    BY <1>1 DEF SignalInv, SignalTyped
  <1>3. Positions' = Positions /\ (Hanging' <=> Hanging)
    BY <1>1 DEF Positions, Hanging
  <1>4. QueueSound' /\ CommitSound'
    BY <1>1, <1>2, <1>3 DEF SignalInv, QueueSound, CommitSound
  <1>5. version \in Nat
    BY DEF SignalInv, SignalTyped
  <1>6. SeenSound'
    BY <1>1, <1>2, <1>3, <1>5 DEF SignalInv, SeenSound
  <1>7. SignalTyped'
    BY <1>1, <1>2 DEF SignalInv, SignalTyped
  <1> QED  BY <1>2, <1>4, <1>6, <1>7 DEF SignalInv

\* The signal is left alone.
LEMMA SignalStays == ASSUME SignalInv, UNCHANGED signalVars PROVE SignalInv'
  <1>1. /\ version' = version /\ unknown' = unknown /\ mutation' = mutation
        /\ commands' = commands /\ committed' = committed /\ sub' = sub
    BY DEF signalVars
  <1>2. Positions' = Positions /\ (Hanging' <=> Hanging)
    BY <1>1 DEF Positions, Hanging
  <1>3. QueueSound' /\ CommitSound' /\ SeenSound'
    BY <1>1, <1>2 DEF SignalInv, QueueSound, CommitSound, SeenSound
  <1> QED  BY <1>1, <1>3 DEF SignalInv, SignalTyped
-----------------------------------------------------------------------------
(* What the scheduler's steps have in common. *)

\* mark_task_dirty only ever moves a mark up.
LEMMA MarkedGrows ==
    ASSUME SchedTyped, NEW S
    PROVE  /\ Marked(S) \in [Mutations -> Nat]
           /\ \A m \in Mutations : Marked(S)[m] >= dirty[m]
           /\ \A m \in Mutations \cap S : Marked(S)[m] = dirty[m] + 1
  BY DEF Marked, SchedTyped

\* The bus holds wake-ups of tasks.
LEMMA PublishedTypes ==
    ASSUME events \subseteq Mutations, NEW S \in SUBSET Mutations, Published(S)
    PROVE  events' \subseteq Mutations
  BY DEF Published

\* Steps after which the hints owed are hints that were owed, and no mark moved
\* down, except the copies of the pass.
LEMMA MarksStay ==
    ASSUME IInv, Owing' \subseteq Owing,
           dirty' \in [Mutations -> Nat], \A m \in Mutations : dirty'[m] >= dirty[m],
           pass'.todo \in [Mutations -> Nat],
           \A m \in Mutations : pass'.todo[m] <= pass.todo[m],
           pass'.pc = "ack" => pass.pc = "ack" /\ pass'.task = pass.task
    PROVE  MarksSound'
  <1>1. /\ dirty \in [Mutations -> Nat] /\ pass.todo \in [Mutations -> Nat]
        /\ Owing \subseteq Mutations
    BY DEF IInv, SchedTyped, PassRecord, SignalInv, SignalTyped, Owing
  <1>2. \A m \in Mutations : pass'.todo[m] <= dirty'[m]
    <2>1. ASSUME NEW m \in Mutations PROVE pass'.todo[m] <= dirty'[m]
      <3>1. /\ pass'.todo[m] \in Nat /\ pass.todo[m] \in Nat
            /\ dirty[m] \in Nat /\ dirty'[m] \in Nat
        BY <1>1
      <3>2. pass.todo[m] <= dirty[m] /\ pass'.todo[m] <= pass.todo[m] /\ dirty[m] <= dirty'[m]
        BY DEF IInv, HintInv, MarksSound
      <3> QED  BY <3>1, <3>2
    <2> QED  BY <2>1
  <1>3. ASSUME NEW m \in Owing' PROVE dirty'[m] > 0
    <2>1. dirty[m] \in Nat /\ dirty'[m] \in Nat /\ dirty'[m] >= dirty[m] /\ dirty[m] > 0
      BY <1>1 DEF IInv, HintInv, MarksSound
    <2> QED  BY <2>1
  <1>4. ASSUME pass'.pc = "ack"
        PROVE  /\ pass'.task \in Mutations
               /\ pass'.task \in Owing' => pass'.todo[pass'.task] < dirty'[pass'.task]
    <2>1. PICK m \in Mutations : m = pass.task /\ m = pass'.task
      BY <1>4 DEF IInv, HintInv, MarksSound
    <2>2. m \in Owing => pass.todo[m] < dirty[m]
      BY <1>4, <2>1 DEF IInv, HintInv, MarksSound
    <2>3. /\ pass'.todo[m] \in Nat /\ pass.todo[m] \in Nat
          /\ dirty[m] \in Nat /\ dirty'[m] \in Nat
          /\ pass'.todo[m] <= pass.todo[m] /\ dirty[m] <= dirty'[m]
      BY <1>1
    <2>4. m \in Owing' => pass'.todo[m] < dirty'[m]
      BY <2>2, <2>3
    <2> QED  BY <2>1, <2>4
  <1> QED  BY <1>2, <1>3, <1>4 DEF MarksSound

\* Steps after which what is missed was missed before, and is still to be read.
LEMMA MissedStays ==
    ASSUME IInv, begin' = begin, erased => erased', sub' = sub,
           loop' = "parked" => loop = "parked",
           version' = sub.seen /\ sub.pc = "ready" =>
               /\ version = sub.seen /\ Missed' \subseteq Missed
               /\ \A m \in Missed' : Ahead(m) => Ahead(m)'
    PROVE  NothingMissed'
  <1>1. ~begin => sub.pc = "ready"
    BY DEF IInv, LoopInv, LoopSound
  <1> SUFFICES ASSUME ~begin', version' = sub'.seen, ~erased', NEW m \in Missed'
               PROVE  loop' # "parked" /\ Ahead(m)'
    BY DEF NothingMissed
  <1>2. m \in Missed /\ version = sub.seen /\ ~erased /\ ~begin /\ (Ahead(m) => Ahead(m)')
    BY <1>1
  <1>3. loop # "parked" /\ Ahead(m)
    BY <1>2 DEF IInv, LoopInv, NothingMissed
  <1> QED  BY <1>2, <1>3

\* Steps of the mutations, which the loop sees through the signal: what becomes
\* missed has been announced since the loop last looked.
LEMMA LoopStays ==
    ASSUME IInv, sub' = sub, loop' = loop, begin' = begin, pass' = pass, erased' = erased,
           needsRebuild' \in BOOLEAN, needsRebuild => needsRebuild',
           dirty' \in [Mutations -> Nat], \A m \in Mutations : dirty'[m] >= dirty[m],
           version' = sub.seen /\ sub.pc = "ready"
               => Missed' \subseteq Missed /\ version = sub.seen
    PROVE  LoopInv'
  <1>1. LoopSound'
    BY DEF IInv, LoopInv, LoopSound
  <1>2. FlagUp'
    BY DEF IInv, LoopInv, FlagUp
  <1>3. ASSUME NEW m \in Missed, Ahead(m) PROVE Ahead(m)'
    <2>1. m \in Mutations /\ dirty \in [Mutations -> Nat]
      BY DEF Missed, IInv, SignalInv, SignalTyped, SchedTyped
    <2>2. dirty[m] > 0 => dirty'[m] > 0
      BY <2>1
    <2> QED  BY <1>3, <2>2 DEF Ahead, RebuildAhead, MarkAhead
  <1>4. NothingMissed'
    BY <1>3, MissedStays
  <1> QED  BY <1>1, <1>2, <1>4 DEF LoopInv

\* A step that commits nothing and releases no guard of what is committed.
LEMMA NoneNewMissed ==
    ASSUME committed' = committed, cache \subseteq cache',
           \A m \in committed : mutation'[m] = mutation[m]
    PROVE  Missed' \subseteq Missed
  BY DEF Missed, GuardLive

-----------------------------------------------------------------------------
(* Mutations. *)

LEMMA BeginMutationKeeps ==
    ASSUME IInv, NEW m \in Mutations, BeginMutation(m)
    PROVE  IInv'
  <1>1. Changing(m) /\ SignalInv' /\ m \notin committed
    BY ChangingKeeps DEF BeginMutation, IInv
  <1>2. /\ mutation[m] = "idle" /\ mutation' = [mutation EXCEPT ![m] = "changing"]
        /\ version' = version /\ committed' = committed /\ sub' = sub
    BY <1>1 DEF Changing
  <1>3. /\ loop' = loop /\ begin' = begin /\ needsRebuild' = needsRebuild
        /\ events' = events /\ cache' = cache /\ pass' = pass /\ erased' = erased
        /\ \/ dirty' = Marked({m}) /\ tracking' = [tracking EXCEPT ![m] = "in"]
           \/ dirty' = dirty /\ tracking' = tracking
    BY DEF BeginMutation
  <1>4. /\ dirty' \in [Mutations -> Nat] /\ \A v \in Mutations : dirty'[v] >= dirty[v]
    <2>1. dirty \in [Mutations -> Nat]
      BY DEF IInv, SchedTyped
    <2>2. Marked({m}) \in [Mutations -> Nat] /\ \A v \in Mutations : Marked({m})[v] >= dirty[v]
      BY MarkedGrows DEF IInv
    <2> QED  BY <1>3, <2>1, <2>2
  <1>5. /\ tracking' \in [Mutations -> {"out", "in", "returned", "published",
                                        "failed", "done", "gone"}]
        /\ \A v \in Mutations : tracking'[v] \in {tracking[v], "in"}
    BY <1>3 DEF IInv, SchedTyped
  <1>6. SchedTyped'
    BY <1>2, <1>3, <1>4, <1>5 DEF IInv, SchedTyped
  <1>7. \A v \in committed : mutation'[v] = mutation[v]
    BY <1>1, <1>2 DEF IInv, SignalInv, SignalTyped
  <1>8. LoopInv'
    BY <1>2, <1>3, <1>4, <1>7, LoopStays, NoneNewMissed DEF IInv, SchedTyped
  <1>9. TrackingSound'
    BY <1>2, <1>5 DEF IInv, HintInv, TrackingSound, SignalInv, SignalTyped
  <1>10. MarksSound'
    <2>1. Owing' \subseteq Owing
      BY <1>2, <1>3, <1>5 DEF Owing, IInv, SignalInv, SignalTyped
    <2>2. /\ pass'.todo \in [Mutations -> Nat]
          /\ \A v \in Mutations : pass'.todo[v] <= pass.todo[v]
      BY <1>3 DEF IInv, SchedTyped, PassRecord
    <2> QED  BY <1>3, <1>4, <2>1, <2>2, MarksStay
  <1> QED  BY <1>1, <1>6, <1>8, <1>9, <1>10 DEF IInv, HintInv

\* A step that moves no mark down and leaves the pass alone: hints stay owed.
LEMMA HintsStay ==
    ASSUME IInv, SignalInv', committed' = committed, cache' = cache, pass' = pass,
           dirty' \in [Mutations -> Nat], \A m \in Mutations : dirty'[m] >= dirty[m],
           \A m \in Mutations : tracking'[m] = "done" => tracking[m] = "done"
    PROVE  MarksSound'
  <1>1. Owing' \subseteq Owing
    BY DEF Owing, IInv, SignalInv, SignalTyped
  <1>2. /\ pass'.todo \in [Mutations -> Nat]
        /\ \A v \in Mutations : pass'.todo[v] <= pass.todo[v]
    BY DEF IInv, SchedTyped, PassRecord
  <1> QED  BY <1>1, <1>2, MarksStay

LEMMA EndWriteKeeps ==
    ASSUME IInv, NEW m \in Mutations, EndWrite(m)
    PROVE  IInv'
  <1>1. Completed(m) \/ Failed(m)
    BY DEF EndWrite
  <1>2. /\ SignalInv'
        /\ m \in committed => sub'.seen < version'
    BY <1>1, CompletedKeeps, FailedKeeps DEF IInv
  <1>3. /\ mutation' = [mutation EXCEPT ![m] = "ended"]
        /\ committed' = committed /\ sub' = sub /\ version' \in {version, version + 1}
    BY <1>1 DEF Completed, Failed, Released
  <1>4. /\ loop' = loop /\ begin' = begin /\ needsRebuild' = needsRebuild
        /\ dirty' = dirty /\ events' = events /\ cache' = cache /\ pass' = pass
        /\ erased' = erased
    BY DEF EndWrite
  <1>5. \/ tracking' = tracking
        \/ \E x \in {"returned", "published", "failed"} : tracking' = [tracking EXCEPT ![m] = x]
    BY DEF EndWrite
  <1>6. /\ tracking' \in [Mutations -> {"out", "in", "returned", "published",
                                        "failed", "done", "gone"}]
        /\ \A v \in Mutations \ {m} : tracking'[v] = tracking[v]
        /\ \A v \in Mutations : tracking'[v] = "done" => tracking[v] = "done"
    BY <1>5 DEF IInv, SchedTyped
  <1>7. SchedTyped'
    BY <1>3, <1>4, <1>6 DEF IInv, SchedTyped
  <1>8. LoopInv'
    <2>1. version' = sub.seen => Missed' \subseteq Missed /\ version = sub.seen
      <3> SUFFICES ASSUME version' = sub.seen PROVE Missed' \subseteq Missed /\ version = sub.seen
        OBVIOUS
      <3>1. /\ {version, version', sub.seen} \subseteq Nat /\ sub.seen <= version
        BY <1>2 DEF IInv, SignalInv, SignalTyped, SeenSound
      <3>2. m \notin committed /\ version = sub.seen
        BY <1>2, <1>3, <3>1
      <3>3. \A v \in committed : mutation'[v] = mutation[v]
        BY <1>3, <3>2 DEF IInv, SignalInv, SignalTyped
      <3> QED  BY <1>3, <1>4, <3>2, <3>3, NoneNewMissed
    <2>2. dirty' \in [Mutations -> Nat] /\ \A v \in Mutations : dirty'[v] >= dirty[v]
      BY <1>4 DEF IInv, SchedTyped
    <2> QED  BY <1>3, <1>4, <2>1, <2>2, LoopStays DEF IInv, SchedTyped
  <1>9. TrackingSound'
    BY <1>3, <1>6 DEF IInv, HintInv, TrackingSound, SignalInv, SignalTyped
  <1>10. MarksSound'
    <2>1. dirty' \in [Mutations -> Nat] /\ \A v \in Mutations : dirty'[v] >= dirty[v]
      BY <1>4 DEF IInv, SchedTyped
    <2> QED  BY <1>2, <1>3, <1>4, <1>6, <2>1, HintsStay
  <1> QED  BY <1>2, <1>7, <1>8, <1>9, <1>10 DEF IInv, HintInv

LEMMA PublishKeeps ==
    ASSUME IInv, NEW m \in Mutations, Publish(m)
    PROVE  IInv'
  <1>1. SignalInv' /\ committed' = committed /\ sub' = sub /\ version' = version
        /\ mutation' = mutation
    BY SignalStays DEF Publish, IInv, signalVars
  <1>2. /\ loop' = loop /\ begin' = begin /\ needsRebuild' = needsRebuild
        /\ dirty' = dirty /\ cache' = cache /\ pass' = pass /\ erased' = erased
        /\ tracking[m] = "returned" /\ tracking' = [tracking EXCEPT ![m] = "published"]
    BY DEF Publish
  <1>3. events' \subseteq Mutations
    <2>1. Published({m}) /\ {m} \in SUBSET Mutations /\ events \subseteq Mutations
      BY DEF Publish, IInv, SchedTyped
    <2> QED  BY <2>1, PublishedTypes
  <1>4. SchedTyped'
    BY <1>1, <1>2, <1>3 DEF IInv, SchedTyped
  <1>5. LoopInv'
    <2>1. dirty' \in [Mutations -> Nat] /\ \A v \in Mutations : dirty'[v] >= dirty[v]
      BY <1>2 DEF IInv, SchedTyped
    <2> QED  BY <1>1, <1>2, <2>1, LoopStays, NoneNewMissed DEF IInv, SchedTyped
  <1>6. TrackingSound'
    BY <1>1, <1>2 DEF IInv, SchedTyped, HintInv, TrackingSound
  <1>7. MarksSound'
    <2>1. /\ dirty' \in [Mutations -> Nat] /\ \A v \in Mutations : dirty'[v] >= dirty[v]
          /\ \A v \in Mutations : tracking'[v] = "done" => tracking[v] = "done"
      BY <1>2 DEF IInv, SchedTyped
    <2> QED  BY <1>1, <1>2, <2>1, HintsStay
  <1> QED  BY <1>1, <1>4, <1>5, <1>6, <1>7 DEF IInv, HintInv

\* The second mark: the hint is owed from now on, and newer than any copy.
LEMMA EndTrackingKeeps ==
    ASSUME IInv, NEW m \in Mutations, EndTracking(m)
    PROVE  IInv'
  <1>1. SignalInv' /\ committed' = committed /\ sub' = sub /\ version' = version
        /\ mutation' = mutation
    BY SignalStays DEF EndTracking, IInv, signalVars
  <1>2. /\ loop' = loop /\ begin' = begin /\ events' = events
        /\ cache' = cache /\ pass' = pass /\ erased' = erased
        /\ dirty' = Marked({m}) /\ needsRebuild' = (needsRebuild \/ tracking[m] = "failed")
        /\ tracking[m] \in {"published", "failed"} /\ tracking' = [tracking EXCEPT ![m] = "done"]
    BY DEF EndTracking
  <1>3. /\ dirty' \in [Mutations -> Nat] /\ dirty'[m] = dirty[m] + 1
        /\ \A v \in Mutations : dirty'[v] >= dirty[v]
    BY <1>2, MarkedGrows DEF IInv
  <1>4. needsRebuild' \in BOOLEAN /\ (needsRebuild => needsRebuild')
    BY <1>2 DEF IInv, SchedTyped
  <1>5. /\ tracking' \in [Mutations -> {"out", "in", "returned", "published",
                                        "failed", "done", "gone"}]
        /\ \A v \in Mutations \ {m} : tracking'[v] = tracking[v]
    BY <1>2 DEF IInv, SchedTyped
  <1>6. SchedTyped'
    BY <1>1, <1>2, <1>3, <1>4, <1>5 DEF IInv, SchedTyped
  <1>7. LoopInv'
    BY <1>1, <1>2, <1>3, <1>4, LoopStays, NoneNewMissed
  <1>8. TrackingSound'
    BY <1>1, <1>2, <1>5 DEF IInv, HintInv, TrackingSound
  <1>9. MarksSound'
    <2>1. Owing' \subseteq Owing \cup {m} /\ Owing \subseteq Mutations
      BY <1>1, <1>2, <1>5 DEF Owing, IInv, SignalInv, SignalTyped
    <2>2. ASSUME NEW v \in Mutations
          PROVE  /\ pass.todo[v] <= dirty'[v]
                 /\ v \in Owing' => dirty'[v] > 0
                 /\ v \in Owing' /\ pass.pc = "ack" /\ v = pass.task => pass.todo[v] < dirty'[v]
      <3>1. /\ dirty[v] \in Nat /\ dirty'[v] \in Nat /\ pass.todo[v] \in Nat
            /\ pass.todo[v] <= dirty[v] /\ dirty[v] <= dirty'[v]
        BY <1>3 DEF IInv, SchedTyped, PassRecord, HintInv, MarksSound
      <3>2. CASE v = m
        BY <1>3, <3>1, <3>2
      <3>3. CASE v # m
        <4>1. v \in Owing' => v \in Owing
          BY <2>1, <3>3
        <4>2. /\ v \in Owing => dirty[v] > 0
              /\ v \in Owing /\ pass.pc = "ack" /\ v = pass.task => pass.todo[v] < dirty[v]
          BY DEF IInv, HintInv, MarksSound
        <4> QED  BY <3>1, <4>1, <4>2
      <3> QED  BY <3>2, <3>3
    <2>3. pass.pc = "ack" => pass.task \in Mutations
      BY DEF IInv, HintInv, MarksSound
    <2> QED  BY <1>2, <2>1, <2>2, <2>3 DEF MarksSound
  <1> QED  BY <1>1, <1>6, <1>7, <1>8, <1>9 DEF IInv, HintInv

LEMMA DropMutationKeeps ==
    ASSUME IInv, NEW m \in Mutations, DropMutation(m)
    PROVE  IInv'
  <1>1. \/ DropWrite(m)
        \/ tracking[m] \in {"returned", "published", "failed"} /\ UNCHANGED signalVars
    BY DEF DropMutation
  <1>2. SignalInv' /\ (sub'.seen < version' \/ (mutation' = mutation /\ version' = version))
    BY <1>1, DropWriteKeeps, SignalStays DEF IInv, signalVars
  <1>3. /\ committed' = committed /\ sub' = sub
        /\ \A v \in Mutations \ {m} : mutation'[v] = mutation[v]
    BY <1>1 DEF DropWrite, Released, signalVars, IInv, SignalInv, SignalTyped
  <1>4. /\ loop' = loop /\ begin' = begin /\ dirty' = dirty /\ events' = events
        /\ cache' = cache /\ pass' = pass /\ erased' = erased
        /\ tracking' = [tracking EXCEPT ![m] = "gone"]
        /\ needsRebuild' = (needsRebuild \/ m \in Tracked)
    BY DEF DropMutation
  <1>5. needsRebuild' \in BOOLEAN /\ (needsRebuild => needsRebuild')
    BY <1>4 DEF IInv, SchedTyped
  <1>6. /\ tracking' \in [Mutations -> {"out", "in", "returned", "published",
                                        "failed", "done", "gone"}]
        /\ tracking'[m] = "gone" /\ \A v \in Mutations \ {m} : tracking'[v] = tracking[v]
    BY <1>4 DEF IInv, SchedTyped
  <1>7. SchedTyped'
    BY <1>3, <1>4, <1>5, <1>6 DEF IInv, SchedTyped
  <1>8. LoopInv'
    <2>1. version' = sub.seen => Missed' \subseteq Missed /\ version = sub.seen
      <3> SUFFICES ASSUME version' = sub.seen PROVE Missed' \subseteq Missed /\ version = sub.seen
        OBVIOUS
      <3>1. version' \in Nat
        BY <1>2 DEF SignalInv, SignalTyped
      <3>2. mutation' = mutation /\ version' = version
        BY <1>2, <1>3, <3>1
      <3> QED  BY <1>3, <1>4, <3>2, NoneNewMissed
    <2>2. dirty' \in [Mutations -> Nat] /\ \A v \in Mutations : dirty'[v] >= dirty[v]
      BY <1>4 DEF IInv, SchedTyped
    <2> QED  BY <1>3, <1>4, <1>5, <2>1, <2>2, LoopStays
  <1>9. TrackingSound'
    BY <1>3, <1>6 DEF IInv, HintInv, TrackingSound
  <1>10. MarksSound'
    <2>1. /\ dirty' \in [Mutations -> Nat] /\ \A v \in Mutations : dirty'[v] >= dirty[v]
          /\ \A v \in Mutations : tracking'[v] = "done" => tracking[v] = "done"
      BY <1>4, <1>6 DEF IInv, SchedTyped
    <2> QED  BY <1>2, <1>3, <1>4, <2>1, HintsStay
  <1> QED  BY <1>2, <1>7, <1>8, <1>9, <1>10 DEF IInv, HintInv
\* A dispatch, or the writer at work.
LEMMA DispatchedKeeps ==
    ASSUME IInv, Dispatched
    PROVE  IInv'
  <1>1. /\ loop' = loop /\ begin' = begin /\ tracking' = tracking
        /\ needsRebuild' = needsRebuild /\ dirty' = dirty /\ events' = events
        /\ cache' = cache /\ pass' = pass /\ erased' = erased
    BY DEF Dispatched, schedVars
  <1>0. dirty' \in [Mutations -> Nat] /\ \A v \in Mutations : dirty'[v] >= dirty[v]
    BY <1>1 DEF IInv, SchedTyped
  <1>2. CASE \E m \in Mutations : DispatchWrite(m)
    <2>1. PICK m \in Mutations : DispatchWrite(m)
      BY <1>2
    <2>2. SignalInv'
      BY <2>1, DispatchWriteKeeps DEF IInv
    <2>3. /\ mutation[m] = "changing" /\ mutation' = [mutation EXCEPT ![m] = "dispatched"]
          /\ committed' = committed /\ sub' = sub /\ version' = version
      BY <2>1 DEF DispatchWrite
    <2>4. \A v \in committed : mutation'[v] = mutation[v]
      BY <2>3 DEF IInv, SignalInv, SignalTyped, CommitSound
    <2>5. SchedTyped'
      BY <1>1, <2>3 DEF IInv, SchedTyped
    <2>6. LoopInv'
      BY <1>0, <1>1, <2>3, <2>4, LoopStays, NoneNewMissed DEF IInv, SchedTyped
    <2>7. TrackingSound'
      BY <1>1, <2>3 DEF IInv, HintInv, TrackingSound, SignalInv, SignalTyped
    <2>8. MarksSound'
      <3>1. /\ dirty' \in [Mutations -> Nat] /\ \A v \in Mutations : dirty'[v] >= dirty[v]
            /\ \A v \in Mutations : tracking'[v] = "done" => tracking[v] = "done"
        BY <1>1 DEF IInv, SchedTyped
      <3> QED  BY <1>1, <2>2, <2>3, <3>1, HintsStay
    <2> QED  BY <2>2, <2>5, <2>6, <2>7, <2>8 DEF IInv, HintInv
  <1>3. CASE RunWrite
    <2>1. /\ SignalInv' /\ sub' = sub /\ version' = version /\ committed \subseteq committed'
          /\ \A m \in committed' \ committed :
                /\ mutation[m] \in {"dispatched", "dropped"}
                /\ GuardLive(m)' \/ Hanging
          /\ \A m \in committed : mutation'[m] = mutation[m]
          /\ \A m \in Mutations : mutation[m] = "ended" => mutation'[m] = "ended"
      BY <1>3, RunWriteKeeps DEF IInv
    <2>2. SchedTyped'
      BY <1>1, <2>1 DEF IInv, SchedTyped
    <2>3. LoopInv'
      <3>1. ASSUME version = sub.seen, sub.pc = "ready" PROVE Missed' \subseteq Missed
        <4>1. version \in Nat /\ ~Hanging
          BY <3>1 DEF IInv, SignalInv, SignalTyped, SeenSound
        <4>2. ASSUME NEW m \in Missed' PROVE m \in Missed
          <5>1. m \in committed' \ cache' /\ ~GuardLive(m)'
            BY <4>2 DEF Missed
          <5>2. m \in committed
            BY <2>1, <4>1, <5>1
          <5>3. m \in committed \ cache /\ ~GuardLive(m)
            BY <1>1, <2>1, <5>1, <5>2 DEF GuardLive
          <5> QED  BY <5>3 DEF Missed
        <4> QED  BY <4>2
      <3> QED  BY <1>0, <1>1, <2>1, <3>1, LoopStays DEF IInv, SchedTyped
    <2>4. TrackingSound'
      BY <1>1, <2>1 DEF IInv, HintInv, TrackingSound
    <2>5. MarksSound'
      <3>1. Owing' \subseteq Owing
        <4>1. committed' \subseteq Mutations
          BY <2>1 DEF SignalInv, SignalTyped
        <4>2. ASSUME NEW m \in committed' \ committed PROVE tracking[m] # "done"
          BY <2>1, <4>1 DEF IInv, HintInv, TrackingSound
        <4> QED  BY <1>1, <4>2 DEF Owing
      <3>2. /\ dirty' \in [Mutations -> Nat] /\ \A v \in Mutations : dirty'[v] >= dirty[v]
            /\ pass'.todo \in [Mutations -> Nat]
            /\ \A v \in Mutations : pass'.todo[v] <= pass.todo[v]
        BY <1>1 DEF IInv, SchedTyped, PassRecord
      <3> QED  BY <1>1, <3>1, <3>2, MarksStay
    <2> QED  BY <2>1, <2>2, <2>3, <2>4, <2>5 DEF IInv, HintInv
  <1> QED  BY <1>2, <1>3 DEF Dispatched

-----------------------------------------------------------------------------
(* The run loop. *)

\* Steps of the loop leave the hints alone.
LEMMA HintsUntouched ==
    ASSUME IInv, SignalInv', committed' = committed, cache' = cache, pass' = pass,
           dirty' = dirty, tracking' = tracking, mutation' = mutation
    PROVE  HintInv'
  <1>1. /\ dirty' \in [Mutations -> Nat] /\ \A v \in Mutations : dirty'[v] >= dirty[v]
        /\ \A v \in Mutations : tracking'[v] = "done" => tracking[v] = "done"
    BY DEF IInv, SchedTyped
  <1>2. MarksSound'
    BY <1>1, HintsStay
  <1>3. TrackingSound'
    BY DEF IInv, HintInv, TrackingSound
  <1> QED  BY <1>2, <1>3 DEF HintInv

\* The flag is raised ...
LEMMA TopOfLoopKeeps ==
    ASSUME IInv, TopOfLoop
    PROVE  IInv'
  <1>1. /\ SignalInv' /\ committed' = committed /\ mutation' = mutation
        /\ sub' = sub /\ version' = version
    BY SignalStays DEF TopOfLoop, IInv, signalVars
  <1>2. /\ begin /\ sub.pc = "begin" /\ loop = "top" /\ needsRebuild' = TRUE /\ erased' = FALSE
        /\ loop' = "raised" /\ begin' = begin /\ tracking' = tracking /\ dirty' = dirty
        /\ events' = events /\ cache' = cache /\ pass' = pass
    BY DEF TopOfLoop
  <1>3. SchedTyped'
    BY <1>1, <1>2 DEF IInv, SchedTyped
  <1>4. LoopInv'
    BY <1>1, <1>2 DEF IInv, SchedTyped, LoopInv, LoopSound, FlagUp, NothingMissed
  <1>5. HintInv'
    BY <1>1, <1>2, HintsUntouched
  <1> QED  BY <1>1, <1>3, <1>4, <1>5 DEF IInv

\* ... before begin_pass acknowledges.
LEMMA AcknowledgeSignalKeeps ==
    ASSUME IInv, AcknowledgeSignal
    PROVE  IInv'
  <1>1. BeginPass /\ SignalInv' /\ sub'.pc # "begin"
    BY BeginPassKeeps DEF AcknowledgeSignal, IInv
  <1>2. committed' = committed /\ mutation' = mutation
    BY <1>1 DEF BeginPass
  <1>3. /\ loop = "raised" /\ loop' = "top" /\ needsRebuild' = needsRebuild
        /\ erased' = erased /\ begin' = begin /\ tracking' = tracking /\ dirty' = dirty
        /\ events' = events /\ cache' = cache /\ pass' = pass
    BY DEF AcknowledgeSignal
  <1>4. SchedTyped'
    BY <1>2, <1>3 DEF IInv, SchedTyped
  <1>5. begin /\ (needsRebuild \/ erased)
    BY <1>3 DEF IInv, LoopInv, LoopSound, FlagUp
  <1>6. LoopInv'
    BY <1>3, <1>5 DEF IInv, SchedTyped, LoopInv, LoopSound, FlagUp, NothingMissed
  <1>7. HintInv'
    BY <1>1, <1>2, <1>3, HintsUntouched
  <1> QED  BY <1>1, <1>4, <1>6, <1>7 DEF IInv

LEMMA FenceWriterKeeps ==
    ASSUME IInv, FenceWriter
    PROVE  IInv'
  <1>1. /\ SignalInv' /\ sub.pc \in {"fence", "fencing"}
        /\ committed' = committed /\ mutation' = mutation
    <2>1. DispatchFence \/ \E ok \in BOOLEAN : RunFence(ok)
      BY DEF FenceWriter
    <2>2. committed' = committed /\ mutation' = mutation
      BY <2>1 DEF DispatchFence, RunFence
    <2> QED  BY <2>1, <2>2, DispatchFenceKeeps, RunFenceKeeps DEF IInv
  <1>2. /\ loop' = loop /\ begin' = begin /\ tracking' = tracking
        /\ needsRebuild' = needsRebuild /\ dirty' = dirty /\ events' = events
        /\ cache' = cache /\ pass' = pass /\ erased' = erased
    BY DEF FenceWriter, schedVars
  <1>3. begin = TRUE /\ (needsRebuild \/ erased)
    BY <1>1 DEF IInv, SchedTyped, LoopInv, LoopSound, FlagUp
  <1>4. SchedTyped'
    BY <1>1, <1>2 DEF IInv, SchedTyped
  <1>5. LoopInv'
    BY <1>1, <1>2, <1>3 DEF IInv, LoopInv, LoopSound, FlagUp, NothingMissed
  <1>6. HintInv'
    BY <1>1, <1>2, HintsUntouched
  <1> QED  BY <1>1, <1>4, <1>5, <1>6 DEF IInv

\* A pass of holder h that has not begun yet.
Fresh(h) == [holder |-> h, pc |-> "drain", round |-> 1, failed |-> FALSE,
             partial |-> FALSE, todo |-> Unmarked, task |-> Fence]

LEMMA FreshPass ==
    /\ NoPass = Fresh("none")
    /\ [NoPass EXCEPT !.holder = "run"] = Fresh("run")
    /\ [NoPass EXCEPT !.holder = "service"] = Fresh("service")
  <1>1. NoPass = Fresh("none")
    BY Zenon DEF NoPass, Fresh
  <1>2. ASSUME NEW h \in {"run", "service"}, NEW p, p = [NoPass EXCEPT !.holder = h]
        PROVE  p = Fresh(h)
    BY <1>2 DEF NoPass, Fresh
  <1> QED  BY <1>1, <1>2

\* A pass that begins, or has ended, has nothing copied.
LEMMA PassBegins ==
    ASSUME IInv, NEW h \in {"none", "run", "service"}, pass' = Fresh(h),
           UNCHANGED signalVars,
           cache' = cache, dirty' = dirty, tracking' = tracking
    PROVE  /\ pass' \in PassRecord
           /\ pass'.holder = h /\ pass'.pc = "drain"
           /\ SignalInv' /\ HintInv'
           /\ Missed' \subseteq Missed /\ version' = version /\ sub' = sub /\ committed' = committed
  <1>1. /\ SignalInv' /\ version' = version /\ mutation' = mutation
        /\ committed' = committed /\ sub' = sub
    BY SignalStays DEF IInv, signalVars
  <1>2. /\ pass' \in PassRecord
        /\ pass'.holder = h /\ pass'.pc = "drain"
        /\ \A m \in Mutations : pass'.todo[m] = 0
    <2>1. Unmarked \in [Mutations -> Nat] /\ \A m \in Mutations : Unmarked[m] = 0
      BY DEF Unmarked
    <2>2. pass' = [holder |-> h, pc |-> "drain", round |-> 1, failed |-> FALSE,
                   partial |-> FALSE, todo |-> Unmarked, task |-> Fence]
      BY DEF Fresh
    <2> HIDE DEF Unmarked
    <2>3. pass' \in PassRecord
      <3>1. \A f \in BOOLEAN, n \in 1 .. 2, u \in [Mutations -> Nat] :
              [holder |-> h, pc |-> "drain", round |-> n, failed |-> f,
               partial |-> f, todo |-> u, task |-> Fence] \in PassRecord
        BY DEF PassRecord
      <3>2. FALSE \in BOOLEAN /\ 1 \in 1 .. 2
        OBVIOUS
      <3> QED  BY <2>1, <2>2, <3>1, <3>2, Zenon
    <2>4. pass'.holder = h /\ pass'.pc = "drain" /\ pass'.todo = Unmarked
      BY <2>2
    <2> QED  BY <2>1, <2>3, <2>4
  <1>3. MarksSound'
    <2>1. Owing' = Owing /\ Owing \subseteq Mutations
      BY <1>1 DEF Owing, IInv, SignalInv, SignalTyped
    <2>2. \A m \in Mutations : pass'.todo[m] <= dirty'[m]
      BY <1>2 DEF IInv, SchedTyped
    <2>3. pass'.pc # "ack"
      BY <1>2
    <2> QED  BY <2>1, <2>2, <2>3 DEF IInv, HintInv, MarksSound
  <1>4. TrackingSound'
    BY <1>1 DEF IInv, HintInv, TrackingSound
  <1>5. Missed' \subseteq Missed
    BY <1>1, NoneNewMissed
  <1> QED  BY <1>1, <1>2, <1>3, <1>4, <1>5 DEF HintInv

LEMMA RunPassKeeps ==
    ASSUME IInv, RunPass
    PROVE  IInv'
  <1>1. /\ pass' = [NoPass EXCEPT !.holder = "run"] /\ UNCHANGED signalVars
        /\ cache' = cache /\ dirty' = dirty /\ tracking' = tracking
        /\ loop = "top" /\ sub.pc = "ready" /\ pass.holder = "none"
        /\ loop' = "passing" /\ begin' = FALSE /\ needsRebuild' = needsRebuild
        /\ events' = events /\ erased' = erased
    BY DEF RunPass
  <1>2. /\ pass' \in PassRecord
        /\ pass'.holder = "run" /\ pass'.pc = "drain" /\ SignalInv' /\ HintInv'
        /\ Missed' \subseteq Missed /\ version' = version /\ sub' = sub /\ committed' = committed
    <2>1. PICK h \in {"none", "run", "service"} : h = "run"
      OBVIOUS
    <2>2. pass' = Fresh(h)
      BY <1>1, <2>1, FreshPass
    <2> QED  BY <1>1, <2>1, <2>2, PassBegins
  <1>3. SchedTyped'
    BY <1>1, <1>2 DEF IInv, SchedTyped
  <1>4. LoopInv'
    <2>1. begin => needsRebuild \/ erased
      BY <1>1 DEF IInv, LoopInv, FlagUp
    <2>3. LoopSound' /\ FlagUp'
      BY <1>1, <1>2 DEF LoopSound, FlagUp
    <2>4. NothingMissed'
      <3> SUFFICES ASSUME version = sub.seen, ~erased, NEW m \in Missed'
                   PROVE  Ahead(m)'
        BY <1>1, <1>2 DEF NothingMissed
      <3>1. needsRebuild \/ dirty[m] > 0
        BY <1>1, <1>2, <2>1
           DEF IInv, LoopInv, NothingMissed, Ahead, RebuildAhead, MarkAhead
      <3> QED  BY <1>1, <1>2, <3>1 DEF Ahead, RebuildAhead, MarkAhead
    <2> QED  BY <2>3, <2>4 DEF LoopInv
  <1> QED  BY <1>2, <1>3, <1>4 DEF IInv

LEMMA ServicePassKeeps ==
    ASSUME IInv, ServicePass
    PROVE  IInv'
  <1>1. /\ pass' = [NoPass EXCEPT !.holder = "service"] /\ UNCHANGED signalVars
        /\ cache' = cache /\ dirty' = dirty /\ tracking' = tracking
        /\ pass.holder = "none"
        /\ loop' = loop /\ begin' = begin /\ needsRebuild' = needsRebuild
        /\ events' = events /\ erased' = erased
    BY DEF ServicePass
  <1>2. /\ pass' \in PassRecord
        /\ pass'.holder = "service" /\ pass'.pc = "drain" /\ SignalInv' /\ HintInv'
        /\ Missed' \subseteq Missed /\ version' = version /\ sub' = sub /\ committed' = committed
    <2>1. PICK h \in {"none", "run", "service"} : h = "service"
      OBVIOUS
    <2>2. pass' = Fresh(h)
      BY <1>1, <2>1, FreshPass
    <2> QED  BY <1>1, <2>1, <2>2, PassBegins
  <1>3. SchedTyped'
    BY <1>1, <1>2 DEF IInv, SchedTyped
  <1>4. LoopInv'
    <2>1. LoopSound' /\ FlagUp'
      BY <1>1, <1>2 DEF IInv, LoopInv, LoopSound, FlagUp
    <2>2. ASSUME NEW m, Ahead(m) PROVE Ahead(m)'
      BY <1>1, <1>2, <2>2 DEF Ahead, RebuildAhead, MarkAhead
    <2>3. NothingMissed'
      BY <1>1, <1>2, <2>2, MissedStays
    <2> QED  BY <2>1, <2>3 DEF LoopInv
  <1> QED  BY <1>2, <1>3, <1>4 DEF IInv

\* Whatever wakes the loop, it begins again with begin_pass.
LEMMA WakeKeeps ==
    ASSUME IInv, WakeOnSignal \/ WakeOnNotify \/ WakeOnClock
    PROVE  IInv'
  <1>1. /\ Changed \/ LeaveWait
        /\ loop = "parked" /\ loop' = "top" /\ begin' = TRUE
        /\ needsRebuild' \in {needsRebuild, TRUE}
        /\ tracking' = tracking /\ dirty' = dirty /\ events' = events
        /\ cache' = cache /\ pass' = pass /\ erased' = erased
    BY DEF WakeOnSignal, WakeOnNotify, WakeOnClock
  <1>2. sub.pc = "ready"
    BY <1>1 DEF IInv, LoopInv, LoopSound
  <1>3. SignalInv' /\ sub'.pc = "begin"
    BY <1>1, <1>2, WaitEndsKeeps DEF IInv
  <1>4. committed' = committed /\ mutation' = mutation
    BY <1>1 DEF Changed, LeaveWait
  <1>5. SchedTyped'
    BY <1>1, <1>4 DEF IInv, SchedTyped
  <1>6. LoopInv'
    BY <1>1, <1>3 DEF IInv, LoopInv, LoopSound, FlagUp, NothingMissed
  <1>7. HintInv'
    BY <1>1, <1>3, <1>4, HintsUntouched
  <1> QED  BY <1>3, <1>5, <1>6, <1>7 DEF IInv
-----------------------------------------------------------------------------
(* The passes. *)

\* A step of a pass that neither copies nor acknowledges marks.
LEMMA PassGoesOn ==
    ASSUME IInv, UNCHANGED signalVars, tracking' = tracking,
           cache \subseteq cache', dirty' \in [Mutations -> Nat],
           \A m \in Mutations : dirty'[m] >= dirty[m],
           pass' \in PassRecord, pass'.todo = pass.todo, pass'.pc # "ack"
    PROVE  /\ SignalInv' /\ HintInv' /\ Missed' \subseteq Missed
           /\ version' = version /\ sub' = sub /\ committed' = committed
  <1>1. /\ SignalInv' /\ version' = version /\ mutation' = mutation
        /\ committed' = committed /\ sub' = sub
    BY SignalStays DEF IInv, signalVars
  <1>2. Owing' \subseteq Owing
    BY <1>1 DEF Owing
  <1>3. /\ pass'.todo \in [Mutations -> Nat]
        /\ \A m \in Mutations : pass'.todo[m] <= pass.todo[m]
    BY DEF IInv, SchedTyped, PassRecord
  <1>4. MarksSound'
    BY <1>2, <1>3, MarksStay
  <1>5. TrackingSound'
    BY <1>1 DEF IInv, HintInv, TrackingSound
  <1>6. Missed' \subseteq Missed
    BY <1>1, NoneNewMissed
  <1> QED  BY <1>1, <1>4, <1>5, <1>6 DEF HintInv

\* A mark that moves up counts for as much as before.
LEMMA MarksRemain ==
    ASSUME IInv, NEW m \in Missed, dirty[m] > 0,
           dirty' \in [Mutations -> Nat], \A v \in Mutations : dirty'[v] >= dirty[v]
    PROVE  dirty'[m] > 0
  <1>1. m \in Mutations /\ dirty[m] \in Nat /\ dirty'[m] \in Nat
    BY DEF Missed, IInv, SignalInv, SignalTyped, SchedTyped
  <1> QED  BY <1>1

LEMMA DrainEventsKeeps ==
    ASSUME IInv, DrainEvents
    PROVE  IInv'
  <1>1. /\ pass.holder # "none" /\ pass.pc = "drain"
        /\ dirty' = Marked(events) /\ needsRebuild' = (needsRebuild \/ lagged)
        /\ events' = {} /\ pass' = [pass EXCEPT !.pc = "rebuild"]
        /\ UNCHANGED signalVars /\ loop' = loop /\ begin' = begin /\ tracking' = tracking
        /\ cache' = cache /\ erased' = erased
    BY DEF DrainEvents, At, GotoPass
  <1>2. /\ pass' \in PassRecord /\ pass'.todo = pass.todo /\ pass'.pc = "rebuild"
        /\ pass'.holder = pass.holder
    BY <1>1 DEF IInv, SchedTyped, PassRecord
  <1>3. dirty' \in [Mutations -> Nat] /\ \A m \in Mutations : dirty'[m] >= dirty[m]
    BY <1>1, MarkedGrows DEF IInv
  <1>4. /\ SignalInv' /\ HintInv' /\ Missed' \subseteq Missed
        /\ version' = version /\ sub' = sub /\ committed' = committed
    BY <1>1, <1>2, <1>3, PassGoesOn
  <1>5. needsRebuild' \in BOOLEAN /\ (needsRebuild => needsRebuild')
    BY <1>1 DEF IInv, SchedTyped
  <1>6. SchedTyped'
    BY <1>1, <1>2, <1>3, <1>4, <1>5 DEF IInv, SchedTyped
  <1>7. LoopSound' /\ FlagUp'
    BY <1>1, <1>2, <1>4, <1>5 DEF IInv, LoopInv, LoopSound, FlagUp
  <1>8. NothingMissed'
    <2>1. ASSUME NEW m \in Missed, Ahead(m) PROVE Ahead(m)'
      <3>1. dirty[m] > 0 => dirty'[m] > 0
        BY <1>3, MarksRemain
      <3> QED  BY <1>1, <1>2, <1>5, <2>1, <3>1 DEF Ahead, RebuildAhead, MarkAhead
    <2> QED  BY <1>1, <1>4, <2>1, MissedStays
  <1> QED  BY <1>4, <1>6, <1>7, <1>8 DEF IInv, LoopInv

\* A pass ends, with a rebuild asked for or, once it has read, without.
LEMMA PassEnds ==
    ASSUME IInv, pass.holder # "none", pass' = NoPass, UNCHANGED signalVars,
           cache' = cache, dirty' = dirty, tracking' = tracking, events' = events,
           begin' = begin, erased' = erased, needsRebuild' \in BOOLEAN,
           needsRebuild => needsRebuild',
           loop' \in {"top", "raised", "parked"}, loop # "passing" => loop' = loop,
           loop = "passing" => loop' # "raised",
           loop' = "parked" => loop = "parked" \/ (pass.pc = "check" /\ ~pass.partial)
    PROVE  IInv'
  <1>1. pass' = Fresh("none")
    BY FreshPass
  <1>2. /\ pass' \in PassRecord /\ pass'.holder = "none" /\ pass'.pc = "drain"
        /\ SignalInv' /\ HintInv' /\ Missed' \subseteq Missed
        /\ version' = version /\ sub' = sub /\ committed' = committed
    <2>1. PICK h \in {"none", "run", "service"} : h = "none"
      OBVIOUS
    <2>2. pass' = Fresh(h)
      BY <1>1, <2>1, FreshPass
    <2> QED  BY <2>1, <2>2, PassBegins
  <1>3. SchedTyped'
    BY <1>2 DEF IInv, SchedTyped
  <1>4. LoopSound'
    BY <1>2 DEF IInv, LoopInv, LoopSound
  <1>5. FlagUp'
    BY <1>2 DEF IInv, LoopInv, FlagUp
  <1>6. NothingMissed'
    <2> SUFFICES ASSUME ~begin', version' = sub'.seen, ~erased', NEW m \in Missed'
                 PROVE  loop' # "parked" /\ Ahead(m)'
      BY DEF NothingMissed
    <2>1. loop # "parked" /\ Ahead(m)
      BY <1>2 DEF IInv, LoopInv, NothingMissed
    <2>2. needsRebuild \/ dirty[m] > 0
      BY <2>1 DEF Ahead, RebuildAhead, MarkAhead
    <2>3. Ahead(m)'
      BY <1>2, <2>2 DEF Ahead, RebuildAhead, MarkAhead
    <2>4. pass.pc = "check" => pass.partial
      BY <2>1 DEF Ahead, RebuildAhead, MarkAhead
    <2> QED  BY <2>1, <2>3, <2>4
  <1> QED  BY <1>2, <1>3, <1>4, <1>5, <1>6 DEF IInv, LoopInv

\* rebuild_due_queue: the cache is what has committed, but for rows that cannot
\* be read, whose tasks are marked.
LEMMA RebuildKeeps ==
    ASSUME IInv, Rebuild
    PROVE  IInv'
  <1>1. /\ pass.holder # "none" /\ pass.pc = "rebuild" /\ UNCHANGED signalVars
        /\ begin' = begin /\ tracking' = tracking /\ events' = events
        /\ erased' = erased
    BY DEF Rebuild, At
  <1>2. pass \in PassRecord /\ dirty \in [Mutations -> Nat] /\ cache \subseteq committed
    BY DEF IInv, SchedTyped
  <1>3. ASSUME dirty' \in [Mutations -> Nat], \A m \in Mutations : dirty'[m] >= dirty[m],
               needsRebuild' = needsRebuild, loop' = loop,
               cache \subseteq cache', cache' \subseteq committed,
               pass' \in PassRecord, pass'.todo = pass.todo, pass'.holder = pass.holder,
               pass'.pc \in {"clear", "collect"},
               \A m \in Missed' \cap Missed : Ahead(m) => Ahead(m)'
        PROVE  IInv'
    <2>1. /\ SignalInv' /\ HintInv' /\ Missed' \subseteq Missed
          /\ version' = version /\ sub' = sub /\ committed' = committed
      BY <1>1, <1>3, PassGoesOn
    <2>2. SchedTyped'
      BY <1>1, <1>3, <2>1 DEF IInv, SchedTyped
    <2>3. LoopSound' /\ FlagUp'
      BY <1>1, <1>3, <2>1 DEF IInv, LoopInv, LoopSound, FlagUp
    <2>4. NothingMissed'
      BY <1>1, <1>3, <2>1, MissedStays
    <2> QED  BY <2>1, <2>2, <2>3, <2>4 DEF IInv, LoopInv
  <1>4. CASE /\ ~needsRebuild /\ pass' = [pass EXCEPT !.pc = "collect"]
             /\ cache' = cache /\ dirty' = dirty
             /\ needsRebuild' = needsRebuild /\ loop' = loop
    <2>1. /\ pass' \in PassRecord /\ pass'.todo = pass.todo /\ pass'.pc = "collect"
          /\ pass'.holder = pass.holder
      BY <1>2, <1>4 DEF PassRecord
    <2>2. dirty' \in [Mutations -> Nat] /\ \A m \in Mutations : dirty'[m] >= dirty[m]
      BY <1>2, <1>4
    <2>3. \A m : Ahead(m) => Ahead(m)'
      BY <1>1, <1>4, <2>1 DEF Ahead, RebuildAhead, MarkAhead
    <2> QED  BY <1>2, <1>3, <1>4, <2>1, <2>2, <2>3
  <1>5. CASE /\ needsRebuild /\ pass' = [pass EXCEPT !.pc = "clear"]
             /\ cache' = committed /\ dirty' = dirty
             /\ needsRebuild' = needsRebuild /\ loop' = loop
    <2>1. /\ pass' \in PassRecord /\ pass'.todo = pass.todo /\ pass'.pc = "clear"
          /\ pass'.holder = pass.holder
      BY <1>2, <1>5 DEF PassRecord
    <2>2. dirty' \in [Mutations -> Nat] /\ \A m \in Mutations : dirty'[m] >= dirty[m]
      BY <1>2, <1>5
    <2>3. Missed' = {}
      BY <1>1, <1>5 DEF Missed, signalVars
    <2> QED  BY <1>2, <1>3, <1>5, <2>1, <2>2, <2>3
  <1>6. CASE /\ \E bad \in SUBSET committed :
                   /\ cache' = (committed \ bad) \cup (cache \cap bad)
                   /\ dirty' = Marked(bad)
             /\ pass' = [pass EXCEPT !.pc = "clear", !.partial = TRUE]
             /\ needsRebuild' = needsRebuild /\ loop' = loop
    <2>1. PICK bad \in SUBSET committed :
             cache' = (committed \ bad) \cup (cache \cap bad) /\ dirty' = Marked(bad)
      BY <1>6
    <2>2. /\ pass' \in PassRecord /\ pass'.todo = pass.todo /\ pass'.pc = "clear"
          /\ pass'.holder = pass.holder /\ pass'.partial = TRUE
      BY <1>2, <1>6 DEF PassRecord
    <2>3. /\ dirty' \in [Mutations -> Nat] /\ \A m \in Mutations : dirty'[m] >= dirty[m]
          /\ \A m \in Mutations \cap bad : dirty'[m] = dirty[m] + 1
      BY <2>1, MarkedGrows DEF IInv
    <2>4. cache \subseteq cache' /\ cache' \subseteq committed
      BY <1>2, <2>1
    <2>5. ASSUME NEW m \in Missed' PROVE Ahead(m)'
      <3>1. m \in Mutations \cap bad
        BY <1>1, <2>1 DEF Missed, signalVars, IInv, SignalInv, SignalTyped
      <3>2. dirty'[m] > 0
        BY <1>2, <2>3, <3>1
      <3> QED  BY <2>2, <3>2 DEF Ahead, MarkAhead
    <2> QED  BY <1>3, <1>6, <2>2, <2>3, <2>4, <2>5
  <1>7. CASE PassFails /\ cache' = cache /\ dirty' = dirty
    <2>1. /\ pass' = NoPass /\ needsRebuild' = TRUE
          /\ loop' = IF pass.holder = "run" THEN "top" ELSE loop
      BY <1>7 DEF PassFails
    <2>2. /\ loop = "passing" <=> pass.holder = "run"
          /\ loop \in {"top", "raised", "passing", "parked"}
      BY DEF IInv, SchedTyped, LoopInv, LoopSound
    <2>3. /\ loop' \in {"top", "raised", "parked"} /\ (loop' = "parked" => loop = "parked")
          /\ loop # "passing" => loop' = loop
          /\ loop = "passing" => loop' # "raised"
      BY <2>1, <2>2
    <2>4. needsRebuild' \in BOOLEAN /\ needsRebuild'
      BY <2>1
    <2> QED  BY <1>1, <1>7, <2>1, <2>3, <2>4, PassEnds
  <1>8. \/ /\ ~needsRebuild /\ pass' = [pass EXCEPT !.pc = "collect"]
           /\ cache' = cache /\ dirty' = dirty
           /\ needsRebuild' = needsRebuild /\ loop' = loop
        \/ /\ needsRebuild /\ pass' = [pass EXCEPT !.pc = "clear"]
           /\ cache' = committed /\ dirty' = dirty
           /\ needsRebuild' = needsRebuild /\ loop' = loop
        \/ /\ \E bad \in SUBSET committed :
                 /\ cache' = (committed \ bad) \cup (cache \cap bad)
                 /\ dirty' = Marked(bad)
           /\ pass' = [pass EXCEPT !.pc = "clear", !.partial = TRUE]
           /\ needsRebuild' = needsRebuild /\ loop' = loop
        \/ PassFails /\ cache' = cache /\ dirty' = dirty
    BY DEF Rebuild, GotoPass
  <1> QED  BY <1>4, <1>5, <1>6, <1>7, <1>8

\* The flag is lowered; the loop's own is lost if it had just been raised.
LEMMA ClearRebuildKeeps ==
    ASSUME IInv, ClearRebuild
    PROVE  IInv'
  <1>1. /\ pass.holder # "none" /\ pass.pc = "clear" /\ UNCHANGED signalVars
        /\ needsRebuild' = FALSE
        /\ erased' = (erased \/ (begin /\ (loop = "raised" \/ sub.pc # "begin")))
        /\ pass' = [pass EXCEPT !.pc = "collect"]
        /\ loop' = loop /\ begin' = begin /\ tracking' = tracking /\ dirty' = dirty
        /\ events' = events /\ cache' = cache
    BY DEF ClearRebuild, At, GotoPass
  <1>2. dirty' \in [Mutations -> Nat] /\ \A m \in Mutations : dirty'[m] >= dirty[m]
    BY <1>1 DEF IInv, SchedTyped
  <1>3. /\ pass' \in PassRecord /\ pass'.todo = pass.todo /\ pass'.pc = "collect"
        /\ pass'.holder = pass.holder
    BY <1>1 DEF IInv, SchedTyped, PassRecord
  <1>4. /\ SignalInv' /\ HintInv' /\ Missed' \subseteq Missed
        /\ version' = version /\ sub' = sub /\ committed' = committed
    BY <1>1, <1>2, <1>3, PassGoesOn
  <1>5. erased' \in BOOLEAN
    BY <1>1 DEF IInv, SchedTyped
  <1>6. SchedTyped'
    BY <1>1, <1>2, <1>3, <1>4, <1>5 DEF IInv, SchedTyped
  <1>7. LoopSound'
    BY <1>1, <1>3, <1>4 DEF IInv, LoopInv, LoopSound
  <1>8. FlagUp'
    BY <1>1, <1>4 DEF IInv, LoopInv, LoopSound, FlagUp
  <1>9. NothingMissed'
    <2>1. ASSUME NEW m \in Missed, Ahead(m) PROVE Ahead(m)'
      BY <1>1, <1>3, <2>1 DEF Ahead, RebuildAhead, MarkAhead
    <2> QED  BY <1>1, <1>4, <2>1, MissedStays
  <1> QED  BY <1>4, <1>6, <1>7, <1>8, <1>9 DEF IInv, LoopInv

\* A step of a pass behind its rebuild, when the marks are seen to.
LEMMA PassReads ==
    ASSUME IInv, pass.holder # "none", pass.pc \notin {"drain", "rebuild"},
           UNCHANGED signalVars, loop' = loop, begin' = begin, erased' = erased,
           tracking' = tracking, cache \subseteq cache', cache' \subseteq committed,
           events' \subseteq Mutations, dirty' \in [Mutations -> Nat],
           needsRebuild' \in BOOLEAN, needsRebuild => needsRebuild',
           pass' \in PassRecord, pass'.holder = pass.holder, MarksSound',
           \A m \in Missed' \cap Missed : MarkAhead(m) => MarkAhead(m)'
    PROVE  IInv'
  <1>1. /\ SignalInv' /\ version' = version /\ mutation' = mutation
        /\ committed' = committed /\ sub' = sub
    BY SignalStays DEF IInv, signalVars
  <1>2. SchedTyped'
    BY <1>1 DEF IInv, SchedTyped
  <1>3. TrackingSound'
    BY <1>1 DEF IInv, HintInv, TrackingSound
  <1>4. Missed' \subseteq Missed
    BY <1>1, NoneNewMissed
  <1>5. NothingMissed'
    <2>1. \A m \in Missed' : Ahead(m) => Ahead(m)'
      BY <1>4 DEF Ahead, RebuildAhead
    <2> QED  BY <1>1, <1>4, <2>1, MissedStays
  <1>6. LoopSound' /\ FlagUp'
    BY <1>1 DEF IInv, LoopInv, LoopSound, FlagUp
  <1> QED  BY <1>1, <1>2, <1>3, <1>5, <1>6 DEF IInv, LoopInv, HintInv

\* The copy of the marks is the marks.
LEMMA CollectDirtyKeeps ==
    ASSUME IInv, CollectDirty
    PROVE  IInv'
  <1>1. PICK expired \in SUBSET cache :
          /\ dirty' = Marked(expired)
          /\ pass' = [pass EXCEPT !.pc = "reload", !.todo = Marked(expired)]
    BY DEF CollectDirty
  <1>2. /\ pass.holder # "none" /\ pass.pc = "collect" /\ UNCHANGED signalVars
        /\ loop' = loop /\ begin' = begin /\ tracking' = tracking
        /\ needsRebuild' = needsRebuild /\ events' = events /\ cache' = cache
        /\ erased' = erased
    BY DEF CollectDirty, At
  <1>3. /\ dirty' \in [Mutations -> Nat] /\ dirty \in [Mutations -> Nat]
        /\ \A m \in Mutations : dirty'[m] >= dirty[m]
    BY <1>1, MarkedGrows DEF IInv, SchedTyped
  <1>4. pass' = [pass EXCEPT !.pc = "reload", !.todo = dirty']
    BY <1>1
  <1>5. /\ pass' \in PassRecord /\ pass'.todo = dirty' /\ pass'.pc = "reload"
        /\ pass'.holder = pass.holder
    BY <1>3, <1>4 DEF IInv, SchedTyped, PassRecord
  <1>6. MarksSound'
    <2>1. Owing' = Owing /\ Owing \subseteq Mutations
      BY <1>2 DEF Owing, signalVars, IInv, SignalInv, SignalTyped
    <2>2. ASSUME NEW m \in Owing PROVE dirty'[m] > 0
      <3>1. dirty[m] > 0 /\ dirty[m] \in Nat /\ dirty'[m] \in Nat /\ dirty'[m] >= dirty[m]
        BY <1>3, <2>1 DEF IInv, HintInv, MarksSound
      <3> QED  BY <3>1
    <2>3. \A m \in Mutations : pass'.todo[m] <= dirty'[m]
      BY <1>3, <1>5
    <2> QED  BY <1>5, <2>1, <2>2, <2>3 DEF MarksSound
  <1>7. /\ cache \subseteq cache' /\ cache' \subseteq committed /\ events' \subseteq Mutations
        /\ needsRebuild' \in BOOLEAN
    BY <1>2 DEF IInv, SchedTyped
  <1>8. ASSUME NEW m \in Missed' \cap Missed, MarkAhead(m) PROVE MarkAhead(m)'
    <2>1. dirty'[m] > 0
      BY <1>3, <1>8, MarksRemain DEF MarkAhead
    <2> QED  BY <1>5, <2>1 DEF MarkAhead
  <1> QED  BY <1>2, <1>3, <1>5, <1>6, <1>7, <1>8, PassReads

\* What is read is what has committed; a task that could not be read is left
\* out of the copy and keeps its mark.
LEMMA ReloadTaskKeeps ==
    ASSUME IInv, ReloadTask
    PROVE  IInv'
  <1>1. PICK m \in Mutations :
          \/ /\ cache' = IF m \in committed THEN cache \cup {m} ELSE cache
             /\ pass' = [pass EXCEPT !.pc = "ack", !.task = m]
             /\ needsRebuild' = needsRebuild
          \/ /\ needsRebuild' \in {TRUE, needsRebuild}
             /\ pass' = [pass EXCEPT !.todo[m] = 0, !.partial = TRUE]
             /\ cache' = cache
    BY DEF ReloadTask
  <1>2. /\ pass.holder # "none" /\ pass.pc = "reload" /\ UNCHANGED signalVars
        /\ loop' = loop /\ begin' = begin /\ tracking' = tracking
        /\ events' = events /\ dirty' = dirty /\ erased' = erased
    BY DEF ReloadTask, At
  <1>3. /\ dirty' \in [Mutations -> Nat] /\ pass.todo \in [Mutations -> Nat]
        /\ pass \in PassRecord /\ events' \subseteq Mutations
        /\ \A v \in Mutations : dirty'[v] >= dirty[v]
        /\ cache \subseteq cache' /\ cache' \subseteq committed
        /\ needsRebuild' \in BOOLEAN /\ (needsRebuild => needsRebuild')
    <2>1. /\ dirty' \in [Mutations -> Nat] /\ pass.todo \in [Mutations -> Nat]
          /\ pass \in PassRecord /\ events' \subseteq Mutations
          /\ \A v \in Mutations : dirty'[v] >= dirty[v]
      BY <1>2 DEF IInv, SchedTyped, PassRecord
    <2>2. cache \subseteq cache' /\ cache' \subseteq committed
      BY <1>1 DEF IInv, SchedTyped
    <2>3. needsRebuild' \in BOOLEAN /\ (needsRebuild => needsRebuild')
      BY <1>1 DEF IInv, SchedTyped
    <2> QED  BY <2>1, <2>2, <2>3
  <1>4. Owing' \subseteq Owing /\ Owing \subseteq Mutations /\ committed' = committed
    BY <1>2, <1>3 DEF Owing, signalVars, IInv, SignalInv, SignalTyped
  <1>5. CASE /\ cache' = IF m \in committed THEN cache \cup {m} ELSE cache
             /\ pass' = [pass EXCEPT !.pc = "ack", !.task = m]
    <2>1. /\ pass' \in PassRecord /\ pass'.todo = pass.todo /\ pass'.pc = "ack"
          /\ pass'.task = m /\ pass'.holder = pass.holder /\ pass'.partial = pass.partial
      BY <1>3, <1>5 DEF PassRecord
    <2>2. m \notin Owing'
      BY <1>4, <1>5 DEF Owing
    <2>3. MarksSound'
      BY <1>2, <1>4, <2>1, <2>2 DEF IInv, HintInv, MarksSound
    <2>4. m \notin Missed'
      BY <1>4, <1>5 DEF Missed
    <2>5. \A v \in Missed' \cap Missed : MarkAhead(v) => MarkAhead(v)'
      BY <1>2, <2>1, <2>4 DEF MarkAhead
    <2> QED  BY <1>2, <1>3, <2>1, <2>3, <2>5, PassReads
  <1>6. CASE pass' = [pass EXCEPT !.todo[m] = 0, !.partial = TRUE]
    <2>1. /\ pass' \in PassRecord /\ pass'.pc = "reload" /\ pass'.holder = pass.holder
          /\ pass'.todo = [pass.todo EXCEPT ![m] = 0] /\ pass'.partial = TRUE
      BY <1>2, <1>3, <1>6 DEF PassRecord
    <2>2. pass'.todo \in [Mutations -> Nat] /\ \A v \in Mutations : pass'.todo[v] <= pass.todo[v]
      BY <1>3, <2>1
    <2>3. MarksSound'
      BY <1>3, <1>4, <2>1, <2>2, MarksStay
    <2>4. \A v \in Missed' \cap Missed : MarkAhead(v) => MarkAhead(v)'
      BY <1>2, <2>1 DEF MarkAhead
    <2> QED  BY <1>2, <1>3, <2>1, <2>3, <2>4, PassReads
  <1> QED  BY <1>1, <1>5, <1>6

\* A mark is removed when it has not moved, and then nothing is owed for it.
LEMMA AckTaskKeeps ==
    ASSUME IInv, AckTask
    PROVE  IInv'
  <1>1. /\ pass.holder # "none" /\ pass.pc = "ack" /\ UNCHANGED signalVars
        /\ loop' = loop /\ begin' = begin /\ tracking' = tracking
        /\ needsRebuild' = needsRebuild /\ events' = events /\ cache' = cache
        /\ erased' = erased
    BY DEF AckTask, At
  <1>2. PICK m \in Mutations : m = pass.task /\ (m \in Owing => pass.todo[m] < dirty[m])
    BY <1>1 DEF IInv, HintInv, MarksSound
  <1>3. /\ dirty' = [dirty EXCEPT ![m] = IF dirty[m] = pass.todo[m] THEN 0 ELSE dirty[m]]
        /\ pass' = [pass EXCEPT !.pc = "reload", !.todo[m] = 0, !.task = Fence]
    BY <1>2 DEF AckTask
  <1>4. /\ dirty \in [Mutations -> Nat] /\ pass.todo \in [Mutations -> Nat]
        /\ pass \in PassRecord
    BY DEF IInv, SchedTyped, PassRecord
  <1>5. /\ dirty' \in [Mutations -> Nat]
        /\ \A v \in Mutations \ {m} : dirty'[v] = dirty[v]
        /\ dirty'[m] = IF dirty[m] = pass.todo[m] THEN 0 ELSE dirty[m]
    BY <1>3, <1>4
  <1>6. /\ pass' \in PassRecord /\ pass'.pc = "reload" /\ pass'.holder = pass.holder
        /\ pass'.todo = [pass.todo EXCEPT ![m] = 0] /\ pass'.partial = pass.partial
    BY <1>3, <1>4 DEF PassRecord
  <1>7. MarksSound'
    <2>1. Owing' = Owing /\ Owing \subseteq Mutations
      BY <1>1 DEF Owing, signalVars, IInv, SignalInv, SignalTyped
    <2>2. ASSUME NEW v \in Owing PROVE dirty'[v] > 0
      <3>1. dirty[v] > 0 /\ (v = m => dirty[m] # pass.todo[m])
        BY <1>2, <1>4, <2>1 DEF IInv, HintInv, MarksSound
      <3> QED  BY <1>5, <2>1, <3>1
    <2>3. ASSUME NEW v \in Mutations PROVE pass'.todo[v] <= dirty'[v]
      <3>1. CASE v = m
        BY <1>4, <1>5, <1>6, <3>1
      <3>2. CASE v # m
        <4>1. pass'.todo[v] = pass.todo[v] /\ dirty'[v] = dirty[v]
          BY <1>4, <1>5, <1>6, <3>2
        <4> QED  BY <4>1 DEF IInv, HintInv, MarksSound
      <3> QED  BY <3>1, <3>2
    <2> QED  BY <1>6, <2>1, <2>2, <2>3 DEF MarksSound
  <1>8. /\ cache \subseteq cache' /\ cache' \subseteq committed /\ events' \subseteq Mutations
        /\ needsRebuild' \in BOOLEAN
    BY <1>1 DEF IInv, SchedTyped
  <1>9. ASSUME NEW v \in Missed' \cap Missed, MarkAhead(v) PROVE MarkAhead(v)'
    <2>1. v \in Mutations \ {m}
      BY <1>1, <1>2, <1>9 DEF MarkAhead, Missed, IInv, SignalInv, SignalTyped
    <2>2. dirty'[v] = dirty[v] /\ pass'.todo[v] = pass.todo[v]
      BY <1>4, <1>5, <1>6, <2>1
    <2> QED  BY <1>1, <1>6, <1>9, <2>2 DEF MarkAhead
  <1> QED  BY <1>1, <1>5, <1>6, <1>7, <1>8, <1>9, PassReads

LEMMA EndRefreshKeeps ==
    ASSUME IInv, EndRefresh
    PROVE  IInv'
  <1>1. /\ pass.holder # "none" /\ pass.pc = "reload" /\ UNCHANGED signalVars
        /\ loop' = loop /\ begin' = begin /\ tracking' = tracking
        /\ needsRebuild' = needsRebuild /\ events' = events /\ cache' = cache
        /\ dirty' = dirty /\ erased' = erased /\ pass.todo = Unmarked
    BY DEF EndRefresh, At
  <1>2. PICK pc \in {"process", "check"} : pass' = [pass EXCEPT !.pc = pc]
    BY DEF EndRefresh, GotoPass
  <1>3. /\ pass' \in PassRecord /\ pass'.todo = pass.todo /\ pass'.pc # "ack"
        /\ pass'.holder = pass.holder /\ pass'.partial = pass.partial
    BY <1>2 DEF IInv, SchedTyped, PassRecord
  <1>4. /\ cache \subseteq cache' /\ cache' \subseteq committed /\ events' \subseteq Mutations
        /\ needsRebuild' \in BOOLEAN /\ dirty' \in [Mutations -> Nat]
        /\ \A m \in Mutations : dirty'[m] >= dirty[m]
    BY <1>1 DEF IInv, SchedTyped
  <1>5. MarksSound'
    BY <1>1, <1>3, <1>4, PassGoesOn DEF HintInv
  <1>6. ASSUME NEW m \in Missed' \cap Missed, MarkAhead(m) PROVE MarkAhead(m)'
    <2>1. pass.todo[m] = 0
      BY <1>1 DEF Unmarked, Missed, IInv, SignalInv, SignalTyped
    <2> QED  BY <1>1, <1>3, <1>6, <2>1 DEF MarkAhead
  <1> QED  BY <1>1, <1>3, <1>4, <1>5, <1>6, PassReads

LEMMA ProcessDueKeeps ==
    ASSUME IInv, ProcessDue
    PROVE  IInv'
  <1>1. /\ pass.holder # "none" /\ pass.pc = "process" /\ UNCHANGED signalVars
        /\ loop' = loop /\ begin' = begin /\ tracking' = tracking
        /\ needsRebuild' = needsRebuild /\ cache' = cache /\ erased' = erased
    BY DEF ProcessDue, At
  <1>2. PICK due \in SUBSET committed : dirty' = Marked(due) /\ Published(due)
    BY DEF ProcessDue
  <1>3. dirty' \in [Mutations -> Nat] /\ \A m \in Mutations : dirty'[m] >= dirty[m]
    BY <1>2, MarkedGrows DEF IInv
  <1>4. events' \subseteq Mutations
    <2>1. events \subseteq Mutations /\ due \in SUBSET Mutations
      BY DEF IInv, SchedTyped, SignalInv, SignalTyped
    <2> QED  BY <1>2, <2>1, PublishedTypes
  <1>5. /\ pass' \in PassRecord /\ pass'.todo = pass.todo /\ pass'.pc = "drain"
        /\ pass'.holder = pass.holder
    <2>1. pass \in PassRecord
      BY DEF IInv, SchedTyped
    <2>2. /\ pass.holder \in {"none", "run", "service"} /\ pass.todo \in [Mutations -> Nat]
          /\ pass.task \in Mutations \cup {Fence}
          /\ pass.failed \in BOOLEAN /\ pass.partial \in BOOLEAN
      BY <2>1 DEF PassRecord
    <2>3. \A h \in {"none", "run", "service"}, n \in 1 .. 2, f \in BOOLEAN, g \in BOOLEAN,
             u \in [Mutations -> Nat], t \in Mutations \cup {Fence} :
            [holder |-> h, pc |-> "drain", round |-> n, failed |-> f, partial |-> g,
             todo |-> u, task |-> t] \in PassRecord
      BY DEF PassRecord
    <2>4. TRUE \in BOOLEAN /\ 2 \in 1 .. 2
      OBVIOUS
    <2>5. CASE pass' = [pass EXCEPT !.pc = "drain", !.round = 2]
      <3>1. pass' = [holder |-> pass.holder, pc |-> "drain", round |-> 2,
                     failed |-> pass.failed, partial |-> pass.partial,
                     todo |-> pass.todo, task |-> pass.task]
        BY <2>1, <2>5 DEF PassRecord
      <3>2. pass' \in PassRecord
        BY <2>2, <2>3, <2>4, <3>1, Zenon
      <3> QED  BY <3>1, <3>2
    <2>6. CASE pass' = [pass EXCEPT !.pc = "drain", !.round = 2, !.failed = TRUE]
      <3>1. pass' = [holder |-> pass.holder, pc |-> "drain", round |-> 2,
                     failed |-> TRUE, partial |-> pass.partial,
                     todo |-> pass.todo, task |-> pass.task]
        BY <2>1, <2>6 DEF PassRecord
      <3>2. pass' \in PassRecord
        BY <2>2, <2>3, <2>4, <3>1, Zenon
      <3> QED  BY <3>1, <3>2
    <2>7. CASE pass' = [pass EXCEPT !.pc = "drain", !.round = 2, !.partial = TRUE]
      <3>1. pass' = [holder |-> pass.holder, pc |-> "drain", round |-> 2,
                     failed |-> pass.failed, partial |-> TRUE,
                     todo |-> pass.todo, task |-> pass.task]
        BY <2>1, <2>7 DEF PassRecord
      <3>2. pass' \in PassRecord
        BY <2>2, <2>3, <2>4, <3>1, Zenon
      <3> QED  BY <3>1, <3>2
    <2> QED  BY <2>5, <2>6, <2>7 DEF ProcessDue
  <1>6. /\ cache \subseteq cache' /\ cache' \subseteq committed /\ needsRebuild' \in BOOLEAN
    BY <1>1 DEF IInv, SchedTyped
  <1>7. MarksSound'
    BY <1>1, <1>3, <1>5, <1>6, PassGoesOn DEF HintInv
  <1>8. ASSUME NEW m \in Missed' \cap Missed, MarkAhead(m) PROVE MarkAhead(m)'
    <2>1. dirty'[m] > 0
      BY <1>3, <1>8, MarksRemain DEF MarkAhead
    <2> QED  BY <1>5, <2>1 DEF MarkAhead
  <1> QED  BY <1>1, <1>3, <1>4, <1>5, <1>6, <1>7, <1>8, PassReads

\* Only a pass that has read lets the loop park.
LEMMA EndPassKeeps ==
    ASSUME IInv, EndPass
    PROVE  IInv'
  <1>1. /\ pass.holder # "none" /\ pass.pc = "check" /\ UNCHANGED signalVars
        /\ begin' = begin /\ tracking' = tracking /\ dirty' = dirty /\ events' = events
        /\ cache' = cache /\ erased' = erased
    BY DEF EndPass, At
  <1>2. /\ loop = "passing" <=> pass.holder = "run"
        /\ loop \in {"top", "raised", "passing", "parked"}
        /\ needsRebuild \in BOOLEAN
    BY DEF IInv, SchedTyped, LoopInv, LoopSound
  <1>3. /\ pass' = NoPass
        /\ \/ pass.holder = "run" /\ loop' = "top"
           \/ pass.holder = "run" /\ loop' = "parked" /\ ~pass.partial
           \/ pass.holder # "run" /\ loop' = loop
    BY DEF EndPass, PassFails
  <1>4. /\ loop' \in {"top", "raised", "parked"} /\ (loop # "passing" => loop' = loop)
        /\ loop = "passing" => loop' # "raised"
        /\ loop' = "parked" => loop = "parked" \/ ~pass.partial
    BY <1>2, <1>3
  <1>5. needsRebuild' = TRUE \/ needsRebuild' = needsRebuild
    BY DEF EndPass, PassFails
  <1>6. needsRebuild' \in BOOLEAN /\ (needsRebuild => needsRebuild')
    BY <1>2, <1>5
  <1> QED  BY <1>1, <1>3, <1>4, <1>6, PassEnds

-----------------------------------------------------------------------------
(* The theorems. *)

LEMMA InitIInv == Init => IInv
  <1> SUFFICES ASSUME Init PROVE IInv
    OBVIOUS
  <1> USE DEF Init, SignalInit
  <1>1. Positions = {} /\ commands \in Seq(Mutations \cup {Fence}) /\ ~Hanging
    BY DEF Positions, Hanging
  <1>2. SignalInv
    BY <1>1 DEF SignalInv, SignalTyped, QueueSound, CommitSound, SeenSound, Progress
  <1>3. /\ pass = [holder |-> "none", pc |-> "drain", round |-> 1, failed |-> FALSE,
                   partial |-> FALSE, todo |-> Unmarked, task |-> Fence]
        /\ Unmarked \in [Mutations -> Nat] /\ \A m \in Mutations : Unmarked[m] = 0
    BY DEF NoPass, Unmarked
  <1>4. pass \in PassRecord
    <2>1. \A f \in BOOLEAN, n \in 1 .. 2, u \in [Mutations -> Nat] :
            [holder |-> "none", pc |-> "drain", round |-> n, failed |-> f,
             partial |-> f, todo |-> u, task |-> Fence] \in PassRecord
      BY DEF PassRecord
    <2>2. FALSE \in BOOLEAN /\ 1 \in 1 .. 2
      OBVIOUS
    <2> QED  BY <1>3, <2>1, <2>2, Zenon
  <1>5. pass.holder = "none" /\ pass.pc = "drain" /\ pass.todo = Unmarked
    BY <1>3
  <1>6. SchedTyped
    BY <1>3, <1>4 DEF SchedTyped
  <1>7. LoopInv
    BY <1>5 DEF LoopInv, LoopSound, FlagUp, NothingMissed
  <1>8. TrackingSound
    BY DEF TrackingSound
  <1>9. MarksSound
    BY <1>3, <1>5 DEF MarksSound, Owing
  <1> QED  BY <1>2, <1>6, <1>7, <1>8, <1>9 DEF IInv, HintInv

LEMMA NextIInv == IInv /\ [Next]_vars => IInv'
  <1> SUFFICES ASSUME IInv, [Next]_vars PROVE IInv'
    OBVIOUS
  <1>1. CASE Mutate
    BY <1>1, BeginMutationKeeps, EndWriteKeeps, PublishKeeps, EndTrackingKeeps,
       DropMutationKeeps, DispatchedKeeps DEF Mutate
  <1>2. CASE Loop \/ WakeOnClock
    BY <1>2, TopOfLoopKeeps, AcknowledgeSignalKeeps, FenceWriterKeeps, RunPassKeeps, WakeKeeps DEF Loop
  <1>3. CASE Refresh
    BY <1>3, DrainEventsKeeps, RebuildKeeps, ClearRebuildKeeps, CollectDirtyKeeps,
       ReloadTaskKeeps, AckTaskKeeps, EndRefreshKeeps, ProcessDueKeeps, EndPassKeeps
       DEF Refresh
  <1>4. CASE ServicePass
    BY <1>4, ServicePassKeeps
  <1>5. CASE UNCHANGED vars
    <2>1. /\ UNCHANGED signalVars /\ loop' = loop /\ begin' = begin /\ tracking' = tracking
          /\ needsRebuild' = needsRebuild /\ dirty' = dirty /\ events' = events
          /\ cache' = cache /\ pass' = pass /\ erased' = erased
      BY <1>5 DEF vars, schedVars
    <2>2. /\ SignalInv' /\ version' = version /\ mutation' = mutation
          /\ committed' = committed /\ sub' = sub
      BY <2>1, SignalStays DEF IInv, signalVars
    <2>3. SchedTyped'
      BY <2>1, <2>2 DEF IInv, SchedTyped
    <2>4. LoopInv'
      BY <2>1, <2>2, LoopStays, NoneNewMissed DEF IInv, SchedTyped
    <2>5. HintInv'
      BY <2>1, <2>2, HintsUntouched
    <2> QED  BY <2>2, <2>3, <2>4, <2>5 DEF IInv
  <1> QED  BY <1>1, <1>2, <1>3, <1>4, <1>5 DEF Next

\* The invariant of the scheduler and its work signal holds in every reachable
\* state, whatever is dropped, dispatched late, fails or laps the event bus.
THEOREM Inductive == Spec => []IInv
  BY InitIInv, NextIInv, PTL DEF Spec

\* NoMissedWork: the loop of scheduler.rs never sleeps on a committed mutation
\* that its cache has not taken in, unless the guard of the mutation is still to
\* be released or a service pass lowered the loop's own rebuild flag.
THEOREM NothingSleptOn == Spec => []NoMissedWork
  <1>1. IInv => NoMissedWork
    <2> SUFFICES ASSUME IInv, Asleep, ~erased PROVE Missed = {}
      BY DEF NoMissedWork, Missed
    <2>1. loop = "parked" /\ version = sub.seen /\ ~begin
      BY DEF Asleep, IInv, LoopInv, LoopSound
    <2> QED  BY <2>1 DEF IInv, LoopInv, NothingMissed
  <1> QED  BY <1>1, Inductive, PTL

\* AddressedHintSurvives: once track_task_mutation has returned, its task stays
\* marked until a pass has read what the mutation wrote.
THEOREM HintsSurvive == Spec => []AddressedHintSurvives
  <1>1. IInv => AddressedHintSurvives
    <2> SUFFICES ASSUME IInv, NEW m \in Tracked, tracking[m] = "done", m \in committed \ cache
                 PROVE  dirty[m] > 0
      BY DEF AddressedHintSurvives
    <2> QED  BY DEF IInv, HintInv, MarksSound, Owing
  <1> QED  BY <1>1, Inductive, PTL
=============================================================================
