----------------------------- MODULE WorkSignal -----------------------------
(***************************************************************************)
(* The invalidation signal of crates/sqlite/src/work_signal.rs, with the    *)
(* mutations that raise it and the subscription of one background consumer. *)
(*                                                                          *)
(* A mutation holds a WorkChange guard while its command is under way.  A   *)
(* command that was dispatched to the writer runs even when the future that *)
(* waits for it is dropped: the guard then only says that something may     *)
(* have changed, and a consumer sends a fence through the writer before it  *)
(* looks.  The commands of the single physical writer are a queue here.     *)
(***************************************************************************)
EXTENDS Naturals, Sequences

CONSTANTS
    Mutations,  \* writes that may create work for the consumer
    Fence       \* the SELECT 1 of settle_dispatched_writes

ASSUME FenceAssumption == Fence \notin Mutations

VARIABLES
    version,    \* version of the watch channel: changes announced so far
    unknown,    \* value of the watch channel: outcomes nobody knows
    mutation,   \* progress of every mutation
    commands,   \* dispatched to the writer, in order
    committed,  \* mutations that are durable
    sub         \* the consumer's WorkSubscription

signalVars == <<version, unknown, mutation, commands, committed, sub>>

\* changed, same, failed: answered, with new work, with none, with an error.
Progress == {"idle", "changing", "dispatched", "changed", "same", "failed",
             "ended", "dropped"}

GuardLive(m) ==
    mutation[m] \in {"changing", "dispatched", "changed", "same", "failed"}

SignalTypeOK ==
    /\ version \in Nat
    /\ unknown \in Nat
    /\ mutation \in [Mutations -> Progress]
    /\ commands \in Seq(Mutations \cup {Fence})
    /\ committed \subseteq Mutations
    /\ sub \in [pc : {"begin", "fence", "fencing", "ready"},
                seen : Nat, settled : Nat, read : Nat]

\* subscribe() marks the present version as seen; no epoch is settled but 0.
SignalInit ==
    /\ version = 0
    /\ unknown = 0
    /\ mutation = [m \in Mutations |-> "idle"]
    /\ commands = <<>>
    /\ committed = {}
    /\ sub = [pc |-> "begin", seen |-> 0, settled |-> 0, read |-> 0]

-----------------------------------------------------------------------------
(* Mutations. *)

\* The writer is reserved for whoever waits for a dispatched command.
WriterFree ==
    /\ \A m \in Mutations : mutation[m] # "dispatched"
    /\ sub.pc # "fencing"

Changing(m) ==
    /\ mutation[m] = "idle"
    /\ mutation' = [mutation EXCEPT ![m] = "changing"]
    /\ UNCHANGED <<version, unknown, commands, committed, sub>>

DispatchWrite(m) ==
    /\ mutation[m] = "changing"
    /\ WriterFree
    /\ mutation' = [mutation EXCEPT ![m] = "dispatched"]
    /\ commands' = Append(commands, m)
    /\ UNCHANGED <<version, unknown, committed, sub>>

\* The writer runs its next command.  Nobody hears of a dropped one.
RunWrite ==
    /\ commands # <<>>
    /\ Head(commands) \in Mutations
    /\ \E result \in {"changed", "same", "failed"} :
          LET m == Head(commands)
          IN  /\ committed' = IF result = "changed" THEN committed \cup {m}
                                                    ELSE committed
              /\ mutation' = IF mutation[m] = "dispatched"
                             THEN [mutation EXCEPT ![m] = result]
                             ELSE mutation
    /\ commands' = Tail(commands)
    /\ UNCHANGED <<version, unknown, sub>>

\* completed(changed): a change is announced, and nothing else.
Completed(m) ==
    /\ mutation[m] \in {"changed", "same"}
    /\ mutation' = [mutation EXCEPT ![m] = "ended"]
    /\ version' = IF mutation[m] = "changed" THEN version + 1 ELSE version
    /\ UNCHANGED <<unknown, commands, committed, sub>>

\* The guard goes without completed(): a new epoch of uncertainty.
Released(m, pc) ==
    /\ mutation' = [mutation EXCEPT ![m] = pc]
    /\ version' = version + 1
    /\ unknown' = unknown + 1
    /\ UNCHANGED <<commands, committed, sub>>

Failed(m) ==
    /\ mutation[m] = "failed"
    /\ Released(m, "ended")

\* The future of the mutation is dropped, at any point.
DropWrite(m) ==
    /\ GuardLive(m)
    /\ Released(m, "dropped")

-----------------------------------------------------------------------------
(* The subscription. *)

\* Mutant: the pass starts at once, whatever may still be in the writer.
BeginWithoutFence ==
    /\ sub.pc = "begin"
    /\ sub' = [sub EXCEPT !.seen = version, !.settled = unknown, !.pc = "ready"]
    /\ UNCHANGED <<version, unknown, mutation, commands, committed>>

\* begin_pass acknowledges first; unknown outcomes then ask for a fence.
BeginPass ==
    /\ sub.pc = "begin"
    /\ sub' = [sub EXCEPT !.seen = version, !.read = unknown,
                          !.pc = IF unknown = sub.settled THEN "ready"
                                                          ELSE "fence"]
    /\ UNCHANGED <<version, unknown, mutation, commands, committed>>

DispatchFence ==
    /\ sub.pc = "fence"
    /\ WriterFree
    /\ sub' = [sub EXCEPT !.pc = "fencing"]
    /\ commands' = Append(commands, Fence)
    /\ UNCHANGED <<version, unknown, mutation, committed>>

\* The fence comes back, or fails and the pass has to begin again.
RunFence(ok) ==
    /\ commands # <<>>
    /\ Head(commands) = Fence
    /\ sub' = IF ok THEN [sub EXCEPT !.settled = sub.read, !.pc = "ready"]
                    ELSE [sub EXCEPT !.pc = "begin"]
    /\ commands' = Tail(commands)
    /\ UNCHANGED <<version, unknown, mutation, committed>>

\* wait() returns once there is an unseen version, and marks it seen.
Changed ==
    /\ version # sub.seen
    /\ sub' = [sub EXCEPT !.seen = version, !.pc = "begin"]
    /\ UNCHANGED <<version, unknown, mutation, commands, committed>>

\* Another branch of the consumer's select! wins.
LeaveWait ==
    /\ sub' = [sub EXCEPT !.pc = "begin"]
    /\ UNCHANGED <<version, unknown, mutation, commands, committed>>
=============================================================================
