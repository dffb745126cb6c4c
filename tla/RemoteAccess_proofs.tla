------------------------ MODULE RemoteAccess_proofs ------------------------
(***************************************************************************)
(* Proofs about RemoteAccess, for any keys, restart limit, number of calls  *)
(* and length of the event channel.                                         *)
(*                                                                          *)
(* What makes the supervisor right is that the state keeps the handle and   *)
(* the shutdown channel of a task until the task has ended: so at most one  *)
(* task lives, it is the one of the state (Owned), a call that gave up has  *)
(* told it to stop (Held, Current), and a rejection that it has not yet     *)
(* published still waits in its event channel (Remembered).                 *)
(***************************************************************************)
EXTENDS RemoteAccess, SequenceTheorems, TLAPS

-----------------------------------------------------------------------------
(* The inductive invariant. *)

\* The places of supervise_rathole at which run_rathole_once owns a client.
InClient == {"shutdown", "event", "client", "draining", "stopping", "rejecting"}

\* The places at which the events of the client are still read.
Attentive == {"shutdown", "event", "client", "draining"}

Rejection == Status("Failed", "Rejected")

\* A task that lives is the one of the state, and a client belongs to it.
Owned ==
    /\ task = shutdown_tx
    /\ \A g \in Gens :
        /\ sup[g].pc # "ended" => g = task
        /\ client[g] # "off" => sup[g].pc \in InClient

\* The call that has the mutex is the last one, and no task but that of the
\* state was told to stop.
Held ==
    /\ told \subseteq {task}
    /\ holder # None => /\ holder = asked
                        /\ holder # "shutdown" => generation \in Gens

\* A task that was not told to stop runs for the key last asked for, and a URL
\* in the status is that of the task of the state.
Current ==
    /\ \A g \in Gens \ told : sup[g].pc # "ended" => key[g] = asked
    /\ status.url # None =>
         \E g \in Gens : sup[g].pc # "ended" /\ status.url = key[g]

\* The rejection still waits to be published.
Queued(q) == \E i \in 1 .. Len(q) : q[i] = "rejected"

\* A rejection is in the event channel, or published, or moot because the task
\* was told to stop.
Remembered ==
    /\ rejected \subseteq {task}
    /\ \A g \in Gens :
        /\ sup[g].pc = "rejecting" => status = Rejection
        /\ sup[g].pc = "stopping" => g \in told
        /\ g \in rejected =>
             /\ sup[g].pc \notin {"sleeping", "loop"}
             /\ sup[g].pc \in Attentive => Queued(events[g])
             /\ sup[g].pc = "ended" => g \in told \/ status = Rejection

IInv == TypeOK /\ Owned /\ Held /\ Current /\ Remembered

-----------------------------------------------------------------------------
(* Facts about the model's operators. *)

SupType == [pc : {"loop", "shutdown", "event", "client", "draining",
                  "stopping", "rejecting", "sleeping", "ended"},
            restarts : Nat, connected_once : BOOLEAN, suppress : BOOLEAN]

ClientType == {"off", "running", "told", "ended"}

StatusType == [state : States, error : Errors \cup {None}, url : Keys \cup {None}]

\* publish_status never shows a URL.
LEMMA StatusHasNoUrl ==
    ASSUME NEW s \in States, NEW e \in Errors \cup {None}
    PROVE  Status(s, e) \in StatusType /\ Status(s, e).url = None
  BY DEF Status, StatusType

\* The statuses that the supervisor publishes itself.
LEMMA OwnStatuses ==
    /\ \A s \in States :
          Status(s, None) \in StatusType /\ Status(s, None).url = None
    /\ \A s \in States : \A e \in Errors :
          Status(s, e) \in StatusType /\ Status(s, e).url = None
    /\ {"Starting", "Stopped", "Disabled", "Reconnecting", "Failed"} \subseteq States
    /\ {"InvalidSettings", "Rejected", "RelayConnectFailed", "ProcessExited",
        "RestartLimitReached"} \subseteq Errors
    /\ Rejection \in StatusType /\ Rejection.url = None
  BY StatusHasNoUrl DEF States, Errors, Rejection

\* What an event of the client leaves published: no URL, or the one of the
\* task's key.
LEMMA PublishedTypes ==
    ASSUME TypeOK, NEW g \in Gens, NEW e \in Events
    PROVE  /\ Published(g, e).status \in StatusType
           /\ Published(g, e).once \in BOOLEAN
           /\ Published(g, e).suppress \in BOOLEAN
           /\ Published(g, e).status.url \in {None, key[g], status.url}
           /\ e = "rejected" => Published(g, e).status = Rejection
  <1>1. /\ sup[g].connected_once \in BOOLEAN /\ sup[g].suppress \in BOOLEAN
        /\ key[g] \in Keys \cup {None}
        /\ status \in StatusType
    BY DEF TypeOK, StatusType
  <1>2. CASE e = "connecting"
    <2>1. Published(g, e) =
            [status |-> IF sup[g].suppress THEN status
                        ELSE Status(IF sup[g].connected_once THEN "Reconnecting"
                                    ELSE "Starting", None),
             once |-> sup[g].connected_once, suppress |-> sup[g].suppress]
      BY <1>2 DEF Published
    <2>2. /\ Published(g, e).status \in
                {status, Status("Reconnecting", None), Status("Starting", None)}
          /\ Published(g, e).once = sup[g].connected_once
          /\ Published(g, e).suppress = sup[g].suppress
      BY <2>1
    <2> QED  BY <1>1, <1>2, <2>2, OwnStatuses
  <1>3. CASE e = "connected"
    <2>1. Published(g, e) =
            [status |-> [Status("Connected", None) EXCEPT !.url = key[g]],
             once |-> TRUE, suppress |-> FALSE]
      BY <1>3 DEF Published
    <2>2. [Status("Connected", None) EXCEPT !.url = key[g]] =
            [state |-> "Connected", error |-> None, url |-> key[g]]
      BY DEF Status
    <2>3. /\ [state |-> "Connected", error |-> None, url |-> key[g]] \in StatusType
          /\ [state |-> "Connected", error |-> None, url |-> key[g]].url = key[g]
      BY <1>1 DEF StatusType, States
    <2>4. /\ Published(g, e).status \in StatusType
          /\ Published(g, e).status.url = key[g]
          /\ Published(g, e).once = TRUE /\ Published(g, e).suppress = FALSE
      BY <2>1, <2>2, <2>3
    <2> QED  BY <1>3, <2>4
  <1>4. CASE e = "reconnecting"
    <2>1. Published(g, e) =
            [status |-> Status(IF sup[g].connected_once THEN "Reconnecting"
                               ELSE "Failed", "RelayConnectFailed"),
             once |-> sup[g].connected_once,
             suppress |-> sup[g].suppress \/ ~sup[g].connected_once]
      BY <1>4 DEF Published
    <2>2. /\ Published(g, e).status \in
                {Status("Reconnecting", "RelayConnectFailed"),
                 Status("Failed", "RelayConnectFailed")}
          /\ Published(g, e).once = sup[g].connected_once
          /\ Published(g, e).suppress \in BOOLEAN
      BY <2>1
    <2> QED  BY <1>1, <1>4, <2>2, OwnStatuses
  <1>5. CASE e = "stopped"
    <2>1. Published(g, e) =
            [status |-> Status("Stopped", None), once |-> FALSE, suppress |-> FALSE]
      BY <1>5 DEF Published
    <2>2. /\ Published(g, e).status = Status("Stopped", None)
          /\ Published(g, e).once = FALSE /\ Published(g, e).suppress = FALSE
      BY <2>1
    <2> QED  BY <1>5, <2>2, OwnStatuses
  <1>6. CASE e = "rejected"
    <2>1. Published(g, e) =
            [status |-> Rejection, once |-> FALSE, suppress |-> TRUE]
      BY <1>6 DEF Published, Rejection
    <2> QED  BY <2>1, OwnStatuses
  <1> QED  BY <1>2, <1>3, <1>4, <1>5, <1>6 DEF Events

\* A rejection stays in the channel until it is at its head.
LEMMA QueuedTail ==
    ASSUME NEW q \in Seq(Events), q # <<>>, Queued(q), Head(q) # "rejected"
    PROVE  Queued(Tail(q))
  <1>1. PICK i \in 1 .. Len(q) : q[i] = "rejected"
    BY DEF Queued
  <1>2. Len(q) \in Nat /\ Len(Tail(q)) = Len(q) - 1 /\ Head(q) = q[1]
    BY LenProperties, HeadTailProperties
  <1>3. i # 1 /\ i - 1 \in 1 .. Len(Tail(q))
    BY <1>1, <1>2
  <1>4. Tail(q)[i - 1] = q[i]
    BY <1>2, <1>3, HeadTailProperties
  <1> QED  BY <1>1, <1>3, <1>4 DEF Queued

\* A reported rejection is in the channel, and later reports do not remove it.
LEMMA QueuedAppend ==
    ASSUME NEW q \in Seq(Events), NEW e \in Events, Queued(q) \/ e = "rejected"
    PROVE  Queued(Append(q, e))
  <1>1. /\ Len(q) \in Nat /\ Len(Append(q, e)) = Len(q) + 1
        /\ Append(q, e)[Len(q) + 1] = e
        /\ \A i \in 1 .. Len(q) : Append(q, e)[i] = q[i]
    BY LenProperties, AppendProperties
  <1>2. CASE e = "rejected"
    BY <1>1, <1>2 DEF Queued
  <1>3. CASE Queued(q)
    <2>1. PICK i \in 1 .. Len(q) : q[i] = "rejected"
      BY <1>3 DEF Queued
    <2> QED  BY <1>1, <2>1 DEF Queued
  <1> QED  BY <1>2, <1>3

\* An empty channel holds no rejection.
LEMMA QueuedEmpty == ~Queued(<<>>)
  BY DEF Queued

-----------------------------------------------------------------------------
(* The steps of a call. *)

\* The state forgets no task that lives, and calls no generation None.
LEMMA StateFacts ==
    ASSUME IInv
    PROVE  /\ None \notin Gens
           /\ None \notin Wants
           /\ task \in Gens \cup {None}
           /\ shutdown_tx = task
           /\ told \in SUBSET Gens
           /\ \A g \in Gens : sup[g] \in SupType /\ events[g] \in Seq(Events)
           /\ status \in StatusType
  BY RemoteAccessAssumption
     DEF IInv, TypeOK, Owned, Gens, SupType, StatusType

\* A call that takes the mutex tells the task to stop.
LEMMA TakeStateKeeps ==
    ASSUME IInv, NEW want \in Wants, TakeState(want)
    PROVE  IInv'
  <1> USE DEF IInv
  <1>1. /\ UNCHANGED <<shutdown_tx, task, status, dropped, key, sup, client,
                       events, rejected>>
        /\ told' = told \cup Listening
        /\ holder' = want /\ asked' = want
    BY DEF TakeState, supervised
  <1>2. generation' \in 0 .. MaxGeneration
        /\ (want # "shutdown" => generation' \in Gens)
    BY RemoteAccessAssumption DEF TakeState, TypeOK, Gens
  <1>3. told' \subseteq {task} /\ told \subseteq told'
        /\ told' \subseteq Gens
        /\ \A g \in Gens : sup[g].pc # "ended" => g \in told'
    BY <1>1, StateFacts DEF Held, Owned, Listening
  <1>4. TypeOK'
    BY <1>1, <1>2, <1>3 DEF TypeOK
  <1>5. Owned'
    BY <1>1 DEF Owned
  <1>6. Held'
    BY <1>1, <1>2, <1>3 DEF Held
  <1>7. Current'
    <2>1. ASSUME NEW g \in Gens \ told', sup[g].pc # "ended"
          PROVE  FALSE
      BY <1>3, <2>1, StateFacts DEF Owned
    <2> QED  BY <1>1, <2>1 DEF Current
  <1>8. Remembered'
    BY <1>1, <1>3 DEF Remembered
  <1> QED  BY <1>4, <1>5, <1>6, <1>7, <1>8

\* A call that is dropped leaves the task told.
LEMMA CancelKeeps ==
    ASSUME IInv, Cancel
    PROVE  IInv'
  <1> USE DEF IInv
  <1>1. /\ UNCHANGED <<generation, shutdown_tx, task, told, status, dropped,
                       asked, key, sup, client, events, rejected>>
        /\ holder' = None
    BY DEF Cancel, supervised
  <1>2. TypeOK'
    BY <1>1 DEF TypeOK
  <1>3. Owned' /\ Held' /\ Current' /\ Remembered'
    BY <1>1 DEF Owned, Held, Current, Remembered
  <1> QED  BY <1>2, <1>3

\* So does the drop of the supervisor.
LEMMA DropSupervisorKeeps ==
    ASSUME IInv, DropSupervisor
    PROVE  IInv'
  <1> USE DEF IInv
  <1>1. /\ UNCHANGED <<holder, generation, shutdown_tx, task, status, asked,
                       key, sup, client, events, rejected>>
        /\ told' = told \cup Listening
        /\ dropped' = TRUE
    BY DEF DropSupervisor, supervised
  <1>2. told' \subseteq {task} /\ told \subseteq told' /\ told' \subseteq Gens
    BY <1>1, StateFacts DEF Held, Listening
  <1>3. TypeOK'
    BY <1>1, <1>2 DEF TypeOK
  <1>4. Owned' /\ Held' /\ Current' /\ Remembered'
    BY <1>1, <1>2 DEF Owned, Held, Current, Remembered
  <1> QED  BY <1>3, <1>4

\* A call that finds the task ended finds no task alive at all.
LEMMA NobodyLives ==
    ASSUME IInv, task # None => sup[task].pc = "ended"
    PROVE  /\ \A g \in Gens : sup[g].pc = "ended" /\ client[g] = "off"
           /\ told \ {shutdown_tx} = {}
           /\ rejected \ {task} = {}
  <1> USE DEF IInv
  <1>1. \A g \in Gens : sup[g].pc = "ended"
    BY StateFacts DEF Owned
  <1>2. \A g \in Gens : client[g] = "off"
    BY <1>1 DEF Owned, InClient
  <1> QED  BY <1>1, <1>2, StateFacts DEF Held, Remembered

\* The replacement starts the one task that lives, for the key asked for.
LEMMA ReplaceKeeps ==
    ASSUME IInv, Replace
    PROVE  IInv'
  <1> USE DEF IInv
  <1>1. /\ \A g \in Gens : sup[g].pc = "ended" /\ client[g] = "off"
        /\ told' = {} /\ rejected' = {}
        /\ holder' = None
        /\ UNCHANGED <<generation, client, events, dropped, asked>>
    BY NobodyLives DEF Replace
  <1>2. holder = asked
    BY DEF Replace, Held
  <1>3. CASE /\ holder \in Keys
             /\ status' = Status("Starting", None)
             /\ task' = generation /\ shutdown_tx' = generation
             /\ key' = [key EXCEPT ![generation] = holder]
             /\ sup' = [sup EXCEPT ![generation] = [Ended EXCEPT !.pc = "loop"]]
    <2>1. generation \in Gens
      BY <1>3, RemoteAccessAssumption DEF Replace, Held, Calls
    <2>2. status' \in StatusType /\ status'.url = None
      BY <1>3, OwnStatuses
    <2> DEFINE s == [Ended EXCEPT !.pc = "loop"]
    <2>3. s \in SupType /\ s.pc = "loop"
      BY DEF Ended, SupType
    <2>4. sup' = [sup EXCEPT ![generation] = s]
      BY <1>3
    <2> HIDE DEF s
    <2>5. /\ sup' \in [Gens -> SupType]
          /\ sup'[generation].pc = "loop"
          /\ \A g \in Gens \ {generation} : sup'[g].pc = "ended"
      BY <1>1, <2>1, <2>3, <2>4 DEF TypeOK, SupType
    <2>6. key' \in [Gens -> Keys \cup {None}] /\ key'[generation] = asked
      BY <1>2, <1>3, <2>1 DEF TypeOK
    <2>7. TypeOK'
      BY <1>1, <1>3, <2>1, <2>2, <2>5, <2>6 DEF TypeOK, SupType, StatusType
    <2>8. Owned'
      BY <1>1, <1>3, <2>5 DEF Owned
    <2>9. Held' /\ Current'
      BY <1>1, <2>2, <2>5, <2>6 DEF Held, Current
    <2>10. Remembered'
      BY <1>1, <2>5 DEF Remembered
    <2> QED  BY <2>7, <2>8, <2>9, <2>10
  <1>4. CASE /\ holder \in Calls
             /\ status' = CASE holder = "shutdown" -> Status("Stopped", None)
                            [] holder = "disabled" -> Status("Disabled", None)
                            [] holder = "invalid" -> Status("Failed", "InvalidSettings")
             /\ task' = None /\ shutdown_tx' = None
             /\ UNCHANGED <<key, sup>>
    <2>1. status' \in {Status("Stopped", None), Status("Disabled", None),
                       Status("Failed", "InvalidSettings")}
      BY <1>4 DEF Calls
    <2>2. status' \in StatusType /\ status'.url = None
      BY <2>1, OwnStatuses
    <2>3. TypeOK'
      BY <1>1, <1>4, <2>2 DEF TypeOK, StatusType
    <2>4. Owned' /\ Held' /\ Current' /\ Remembered'
      BY <1>1, <1>4, <2>2 DEF Owned, Held, Current, Remembered
    <2> QED  BY <2>3, <2>4
  <1> QED  BY <1>3, <1>4 DEF Replace

-----------------------------------------------------------------------------
(* The steps of the supervised task. *)

\* What a step of task g may leave behind: its locals s, its client c and event
\* channel q, next to a key, a status and the calls' side.
Sound(g, s, c, q, k, st) ==
    /\ s \in SupType /\ c \in ClientType /\ q \in Seq(Events)
    /\ k \in Keys \cup {None} /\ st \in StatusType
    /\ c # "off" => s.pc \in InClient
    /\ s.pc # "ended" => k = key[g]
    /\ st.url # None => s.pc # "ended" /\ st.url = k
    /\ s.pc = "rejecting" => st = Rejection
    /\ s.pc = "stopping" => g \in told
    /\ g \in rejected =>
         /\ s.pc \notin {"sleeping", "loop"}
         /\ s.pc \in Attentive => Queued(q)
         /\ s.pc = "ended" => g \in told \/ st = Rejection

\* The step of a living task keeps the invariant if what it leaves is sound:
\* the task is the only one, so the status is its own.
LEMMA TaskStep ==
    ASSUME IInv, NEW g \in Gens, sup[g].pc # "ended",
           UNCHANGED <<call_side, rejected>>,
           NEW s, NEW c, NEW q, NEW k,
           sup' = [sup EXCEPT ![g] = s],
           client' = [client EXCEPT ![g] = c],
           events' = [events EXCEPT ![g] = q],
           key' = [key EXCEPT ![g] = k],
           Sound(g, s, c, q, k, status')
    PROVE  IInv'
  <1> USE DEF IInv
  <1>1. UNCHANGED <<holder, generation, shutdown_tx, task, told, dropped, asked,
                    rejected>>
    BY DEF call_side
  <1>2. /\ s \in SupType /\ c \in ClientType /\ q \in Seq(Events)
        /\ k \in Keys \cup {None} /\ status' \in StatusType
    BY DEF Sound
  <1>3. /\ sup' \in [Gens -> SupType] /\ sup'[g] = s
        /\ client' \in [Gens -> ClientType] /\ client'[g] = c
        /\ events' \in [Gens -> Seq(Events)] /\ events'[g] = q
        /\ key' \in [Gens -> Keys \cup {None}] /\ key'[g] = k
    BY <1>2 DEF TypeOK, SupType, ClientType
  <1>4. \A h \in Gens \ {g} : /\ sup'[h] = sup[h] /\ client'[h] = client[h]
                              /\ events'[h] = events[h] /\ key'[h] = key[h]
    BY DEF TypeOK
  <1>5. \A h \in Gens \ {g} : /\ sup[h].pc = "ended" /\ client[h] = "off"
                              /\ h # task
    BY DEF Owned, InClient
  <1>6. g = task
    BY DEF Owned
  <1>7. TypeOK'
    BY <1>1, <1>2, <1>3 DEF TypeOK, SupType, ClientType, StatusType
  <1>8. Owned'
    BY <1>1, <1>3, <1>4, <1>5, <1>6 DEF Owned, Sound
  <1>9. Held'
    BY <1>1 DEF Held
  <1>10. Current'
    <2>1. ASSUME NEW h \in Gens \ told, sup'[h].pc # "ended"
          PROVE  key'[h] = asked
      BY <1>3, <1>4, <1>5, <2>1 DEF Current, Sound
    <2>2. ASSUME status'.url # None
          PROVE  sup'[g].pc # "ended" /\ status'.url = key'[g]
      BY <1>3, <2>2 DEF Sound
    <2> QED  BY <1>1, <2>1, <2>2 DEF Current
  <1>11. Remembered'
    <2>1. ASSUME NEW h \in Gens, h # g
          PROVE  sup'[h].pc = "ended" /\ h \notin rejected
      BY <1>4, <1>5, <2>1 DEF Remembered
    <2> QED  BY <1>1, <1>3, <2>1 DEF Remembered, Sound
  <1> QED  BY <1>7, <1>8, <1>9, <1>10, <1>11

\* The task as it stands is sound, when the pc is not one that promises more.
LEMMA SoundNow ==
    ASSUME IInv, NEW g \in Gens, sup[g].pc # "ended"
    PROVE  /\ Sound(g, sup[g], client[g], events[g], key[g], status)
           /\ sup = [sup EXCEPT ![g] = sup[g]]
           /\ client = [client EXCEPT ![g] = client[g]]
           /\ events = [events EXCEPT ![g] = events[g]]
           /\ key = [key EXCEPT ![g] = key[g]]
  <1> USE DEF IInv
  <1>1. /\ sup = [sup EXCEPT ![g] = sup[g]]
        /\ client = [client EXCEPT ![g] = client[g]]
        /\ events = [events EXCEPT ![g] = events[g]]
        /\ key = [key EXCEPT ![g] = key[g]]
    BY DEF TypeOK
  <1>2. /\ sup[g] \in SupType /\ client[g] \in ClientType
        /\ events[g] \in Seq(Events) /\ key[g] \in Keys \cup {None}
        /\ status \in StatusType
    BY DEF TypeOK, SupType, ClientType, StatusType
  <1>3. status.url # None => status.url = key[g]
    BY DEF Current, Owned
  <1>4. client[g] # "off" => sup[g].pc \in InClient
    BY DEF Owned
  <1>5. Sound(g, sup[g], client[g], events[g], key[g], status)
    BY <1>2, <1>3, <1>4 DEF Sound, Remembered
  <1> QED  BY <1>1, <1>5

\* The task goes on at pc with its other locals, its key and its channel as
\* they are, next to client c.
GoesOn(g, pc, c) ==
    /\ sup' = [sup EXCEPT ![g].pc = pc]
    /\ client' = [client EXCEPT ![g] = c]
    /\ UNCHANGED <<key, events>>

\* Going on is sound unless it forgets a rejection.
LEMMA PcStep ==
    ASSUME IInv, NEW g \in Gens, sup[g].pc # "ended",
           NEW pc \in InClient \cup {"loop"},
           UNCHANGED <<call_side, rejected>>,
           NEW c \in ClientType, GoesOn(g, pc, c),
           status' \in {status, Status("Reconnecting", None)},
           c # "off" => pc \in InClient,
           pc # "rejecting",
           pc = "stopping" => g \in told,
           g \in rejected => /\ pc # "loop"
                             /\ pc \in Attentive => sup[g].pc \in Attentive
    PROVE  IInv'
  <1> DEFINE s == [sup[g] EXCEPT !.pc = pc]
  <1>1. sup[g] \in SupType
    BY StateFacts
  <1>2. s \in SupType /\ s.pc = pc
    BY <1>1 DEF SupType, InClient
  <1>3. /\ sup' = [sup EXCEPT ![g] = s]
        /\ client' = [client EXCEPT ![g] = c]
        /\ key' = [key EXCEPT ![g] = key[g]]
        /\ events' = [events EXCEPT ![g] = events[g]]
    BY SoundNow DEF GoesOn, IInv, TypeOK
  <1> HIDE DEF s
  <1>4. Sound(g, sup[g], client[g], events[g], key[g], status)
    BY SoundNow
  <1>5. status' \in StatusType /\ (status'.url # None => status'.url = key[g])
    BY <1>4, OwnStatuses DEF Sound
  <1>6. pc # "ended"
    BY DEF InClient
  <1>7. Sound(g, s, c, events[g], key[g], status')
    BY <1>2, <1>4, <1>5, <1>6 DEF Sound, InClient
  <1> QED  BY <1>3, <1>7, TaskStep

\* The task ends: it leaves neither a client nor a URL.
LEMMA EndStep ==
    ASSUME IInv, NEW g \in Gens, sup[g].pc # "ended",
           UNCHANGED <<call_side, rejected>>, End(g),
           status' \in StatusType, status'.url = None,
           g \in rejected => g \in told \/ status' = Rejection
    PROVE  IInv'
  <1>1. Ended \in SupType /\ Ended.pc = "ended"
    BY DEF Ended, SupType
  <1>2. <<>> \in Seq(Events)
    OBVIOUS
  <1>3. Sound(g, Ended, "off", <<>>, None, status')
    BY <1>1, <1>2 DEF Sound, ClientType, Attentive
  <1> QED  BY <1>3, TaskStep DEF End

\* A client that ended without a rejection is restarted after a while, or the
\* task gives up.
LEMMA RestartStep ==
    ASSUME IInv, NEW g \in Gens, sup[g].pc # "ended",
           UNCHANGED <<call_side, rejected>>, RestartOrGiveUp(g), g \notin rejected
    PROVE  IInv'
  <1>1. CASE ShouldRestart(g)
    <2>1. /\ status' = Status("Reconnecting", "ProcessExited")
          /\ sup' = [sup EXCEPT ![g] = [Ended EXCEPT !.pc = "sleeping",
                                             !.restarts = sup[g].restarts + 1]]
          /\ client' = [client EXCEPT ![g] = "off"]
          /\ events' = [events EXCEPT ![g] = <<>>]
          /\ UNCHANGED key
      BY <1>1 DEF RestartOrGiveUp
    <2> DEFINE s == [Ended EXCEPT !.pc = "sleeping",
                                  !.restarts = sup[g].restarts + 1]
    <2>2. s \in SupType /\ s.pc = "sleeping"
      <3>1. sup[g].restarts + 1 \in Nat
        BY StateFacts DEF SupType
      <3> QED  BY <3>1 DEF Ended, SupType
    <2>3. sup' = [sup EXCEPT ![g] = s]
      BY <2>1
    <2> HIDE DEF s
    <2>4. key' = [key EXCEPT ![g] = key[g]] /\ key[g] \in Keys \cup {None}
      BY <2>1, SoundNow DEF Sound
    <2>5. status' \in StatusType /\ status'.url = None /\ <<>> \in Seq(Events)
      BY <2>1, OwnStatuses
    <2>6. Sound(g, s, "off", <<>>, key[g], status')
      BY <2>2, <2>4, <2>5 DEF Sound, ClientType
    <2> QED  BY <2>1, <2>3, <2>4, <2>6, TaskStep
  <1>2. CASE ~ShouldRestart(g)
    <2>1. status' = Status("Failed", "RestartLimitReached") /\ End(g)
      BY <1>2 DEF RestartOrGiveUp
    <2>2. status' \in StatusType /\ status'.url = None
      BY <2>1, OwnStatuses
    <2> QED  BY <2>1, <2>2, EndStep
  <1> QED  BY <1>1, <1>2

\* An event is published and the task goes on: at "rejecting" after a
\* rejection, and otherwise with the rejections that still wait.
LEMMA PublishStep ==
    ASSUME IInv, NEW g \in Gens, sup[g].pc \in Attentive, events[g] # <<>>,
           UNCHANGED <<call_side, rejected>>,
           NEW pc \in Attentive \cup {"rejecting"}, PublishHead(g, pc),
           NEW c \in ClientType, client' = [client EXCEPT ![g] = c],
           pc = "rejecting" <=> Head(events[g]) = "rejected"
    PROVE  IInv'
  <1> DEFINE e == Head(events[g])
             after == Published(g, e)
             s == [pc |-> pc, restarts |-> sup[g].restarts,
                   connected_once |-> after.once, suppress |-> after.suppress]
             q == Tail(events[g])
  <1>1. sup[g].pc # "ended"
    BY DEF Attentive
  <1>2. Sound(g, sup[g], client[g], events[g], key[g], status)
    BY <1>1, SoundNow
  <1>3. e \in Events /\ q \in Seq(Events)
    BY <1>2, HeadTailProperties DEF Sound
  <1>4. /\ after.status \in StatusType
        /\ after.once \in BOOLEAN /\ after.suppress \in BOOLEAN
        /\ after.status.url \in {None, key[g], status.url}
        /\ e = "rejected" => after.status = Rejection
    BY <1>3, PublishedTypes DEF IInv
  <1>5. /\ status' = after.status
        /\ sup' = [sup EXCEPT ![g] = s]
        /\ events' = [events EXCEPT ![g] = q]
        /\ key' = [key EXCEPT ![g] = key[g]]
    <2>1. sup \in [Gens -> SupType] /\ events \in [Gens -> Seq(Events)]
      BY DEF IInv, TypeOK, SupType
    <2>2. key' = key /\ key = [key EXCEPT ![g] = key[g]]
      BY <1>1, SoundNow DEF PublishHead
    <2> QED  BY <2>1, <2>2 DEF PublishHead
  <1>6. s \in SupType /\ s.pc = pc
    BY <1>2, <1>4 DEF SupType, Sound, Attentive
  <1>7. g \in rejected /\ e # "rejected" => Queued(q)
    BY <1>2, QueuedTail DEF Sound
  <1> HIDE DEF s, q, after, e
  <1>8. status'.url # None => status'.url = key[g]
    BY <1>2, <1>4, <1>5 DEF Sound
  <1>9. Sound(g, s, c, q, key[g], status')
    BY <1>2, <1>3, <1>4, <1>5, <1>6, <1>7, <1>8
       DEF Sound, Attentive, InClient, e
  <1> QED  BY <1>1, <1>5, <1>9, TaskStep

-----------------------------------------------------------------------------
(* One lemma per action of the task and of its client. *)

\* run_rathole_once begins with an empty channel, and only without a rejection.
LEMMA RunOnceKeeps ==
    ASSUME IInv, NEW g \in Gens, RunOnce(g)
    PROVE  IInv'
  <1>1. sup[g].pc = "loop" /\ UNCHANGED <<call_side, rejected>>
    BY DEF RunOnce
  <1>2. g \notin rejected
    BY <1>1 DEF IInv, Remembered
  <1>3. CASE RestartOrGiveUp(g)
    BY <1>1, <1>2, <1>3, RestartStep
  <1>4. CASE /\ status' = IF sup[g].restarts > 0 THEN Status("Reconnecting", None)
                          ELSE status
             /\ client' = [client EXCEPT ![g] = "running"]
             /\ sup' = [sup EXCEPT ![g].pc = "shutdown"]
             /\ UNCHANGED <<key, events>>
    <2>1. GoesOn(g, "shutdown", "running")
      BY <1>4 DEF GoesOn
    <2>2. status' \in {status, Status("Reconnecting", None)}
      BY <1>4
    <2> QED
      BY <1>1, <1>2, <2>1, <2>2, PcStep DEF ClientType, InClient
  <1> QED  BY <1>3, <1>4 DEF RunOnce

\* The shutdown channel is looked at first.
LEMMA PollShutdownKeeps ==
    ASSUME IInv, NEW g \in Gens, PollShutdown(g)
    PROVE  IInv'
  <1>1. /\ sup[g].pc = "shutdown" /\ UNCHANGED <<call_side, rejected>>
        /\ status' = status
    BY DEF PollShutdown
  <1>2. client[g] \in ClientType /\ client = [client EXCEPT ![g] = client[g]]
    BY <1>1, SoundNow DEF Sound
  <1>3. CASE g \in told
    <2>1. PICK c \in ClientType : GoesOn(g, "stopping", c)
      BY <1>2, <1>3 DEF PollShutdown, GoesOn, ClientType
    <2> QED  BY <1>1, <1>3, <2>1, PcStep DEF InClient, Attentive
  <1>4. CASE g \notin told
    <2>1. GoesOn(g, "event", client[g])
      BY <1>2, <1>4 DEF PollShutdown, GoesOn
    <2> QED  BY <1>1, <1>2, <2>1, PcStep DEF InClient, Attentive
  <1> QED  BY <1>3, <1>4

\* Then the event channel.
LEMMA PollEventKeeps ==
    ASSUME IInv, NEW g \in Gens, PollEvent(g)
    PROVE  IInv'
  <1>1. sup[g].pc = "event" /\ UNCHANGED <<call_side, rejected>>
    BY DEF PollEvent
  <1>2. client \in [Gens -> ClientType] /\ client = [client EXCEPT ![g] = client[g]]
    BY <1>1, SoundNow DEF IInv, TypeOK, ClientType
  <1>3. CASE /\ sup' = [sup EXCEPT ![g].pc = "client"]
             /\ UNCHANGED <<key, client, events, status>>
    <2>1. GoesOn(g, "client", client[g]) /\ status' = status
      BY <1>2, <1>3 DEF GoesOn
    <2> QED  BY <1>1, <1>2, <2>1, PcStep DEF InClient, Attentive
  <1>4. CASE /\ events[g] # <<>> /\ Head(events[g]) # "rejected"
             /\ PublishHead(g, "shutdown")
             /\ UNCHANGED client
    BY <1>1, <1>2, <1>4, PublishStep DEF Attentive
  <1>5. CASE /\ events[g] # <<>> /\ Head(events[g]) = "rejected"
             /\ PublishHead(g, "rejecting")
             /\ client' = [client EXCEPT ![g] = IF @ = "running" THEN "told" ELSE @]
    <2>1. PICK c \in ClientType : client' = [client EXCEPT ![g] = c]
      BY <1>2, <1>5 DEF ClientType
    <2> QED  BY <1>1, <1>5, <2>1, PublishStep DEF Attentive
  <1> QED  BY <1>3, <1>4, <1>5 DEF PollEvent

\* Then the client.
LEMMA PollClientKeeps ==
    ASSUME IInv, NEW g \in Gens, PollClient(g)
    PROVE  IInv'
  <1>1. /\ sup[g].pc = "client" /\ UNCHANGED <<call_side, rejected>>
        /\ status' = status
    BY DEF PollClient
  <1>2. client = [client EXCEPT ![g] = client[g]] /\ client[g] \in ClientType
    BY <1>1, SoundNow DEF Sound
  <1>3. PICK pc \in {"draining", "shutdown"} : GoesOn(g, pc, client[g])
    BY <1>2 DEF PollClient, GoesOn
  <1> QED  BY <1>1, <1>2, <1>3, PcStep DEF InClient, Attentive

\* A client is given up for another one only when no rejection waits.
LEMMA DrainKeeps ==
    ASSUME IInv, NEW g \in Gens, Drain(g)
    PROVE  IInv'
  <1>1. sup[g].pc = "draining" /\ UNCHANGED <<call_side, rejected>>
    BY DEF Drain
  <1>2. CASE events[g] = <<>> /\ RestartOrGiveUp(g)
    <2>1. g \notin rejected
      BY <1>1, <1>2, QueuedEmpty DEF IInv, Remembered, Attentive
    <2> QED  BY <1>1, <1>2, <2>1, RestartStep
  <1>3. CASE /\ events[g] # <<>> /\ Head(events[g]) # "rejected"
             /\ PublishHead(g, "draining")
             /\ UNCHANGED client
    <2>1. client' = [client EXCEPT ![g] = client[g]] /\ client[g] \in ClientType
      BY <1>1, <1>3, SoundNow DEF Sound
    <2> QED  BY <1>1, <1>3, <2>1, PublishStep DEF Attentive
  <1>4. CASE status' = Published(g, "rejected").status /\ End(g)
    <2>1. status' = Rejection
      BY <1>4, PublishedTypes DEF IInv, Events
    <2>2. status' \in StatusType /\ status'.url = None
      BY <2>1, OwnStatuses
    <2> QED  BY <1>1, <1>4, <2>1, <2>2, EndStep
  <1> QED  BY <1>2, <1>3, <1>4 DEF Drain

\* The cleanup after a shutdown publishes it, and the one after a rejection
\* leaves the rejection published.
LEMMA ClientJoinedKeeps ==
    ASSUME IInv, NEW g \in Gens, ClientJoined(g)
    PROVE  IInv'
  <1>1. /\ sup[g].pc \in {"stopping", "rejecting"}
        /\ UNCHANGED <<call_side, rejected>> /\ End(g)
    BY DEF ClientJoined
  <1>2. CASE sup[g].pc = "stopping"
    <2>1. status' \in StatusType /\ status'.url = None
      BY <1>2, OwnStatuses DEF ClientJoined
    <2>2. g \in told
      BY <1>2 DEF IInv, Remembered
    <2> QED  BY <1>1, <2>1, <2>2, EndStep
  <1>3. CASE sup[g].pc = "rejecting"
    <2>1. status' = Rejection
      BY <1>3 DEF ClientJoined, IInv, Remembered
    <2>2. status' \in StatusType /\ status'.url = None
      BY <2>1, OwnStatuses
    <2> QED  BY <1>1, <2>1, <2>2, EndStep
  <1> QED  BY <1>1, <1>2, <1>3

\* The sleep between two clients.
LEMMA WakeKeeps ==
    ASSUME IInv, NEW g \in Gens, Wake(g)
    PROVE  IInv'
  <1>1. sup[g].pc = "sleeping" /\ UNCHANGED <<call_side, rejected>>
    BY DEF Wake
  <1>2. g \notin rejected /\ client[g] = "off"
    BY <1>1 DEF IInv, Remembered, Owned, InClient
  <1>3. CASE g \in told /\ status' = Status("Stopped", None) /\ End(g)
    <2>1. status' \in StatusType /\ status'.url = None
      BY <1>3, OwnStatuses
    <2> QED  BY <1>1, <1>3, <2>1, EndStep
  <1>4. CASE sup' = [sup EXCEPT ![g].pc = "loop"]
             /\ UNCHANGED <<key, client, events, status>>
    <2>1. client = [client EXCEPT ![g] = "off"]
      BY <1>1, <1>2, SoundNow
    <2>2. GoesOn(g, "loop", "off") /\ status' = status
      BY <1>4, <2>1 DEF GoesOn
    <2> QED  BY <1>1, <1>2, <2>2, PcStep DEF ClientType, Attentive
  <1> QED  BY <1>3, <1>4 DEF Wake

\* A report of the client lengthens its channel; a rejection is remembered there.
LEMMA ClientReportsKeeps ==
    ASSUME IInv, NEW g \in Gens, NEW e \in Events, ClientReports(g, e)
    PROVE  IInv'
  <1> USE DEF IInv
  <1>1. /\ UNCHANGED <<holder, generation, shutdown_tx, task, told, dropped,
                       asked, key, sup, client, status>>
        /\ events' = [events EXCEPT ![g] = Append(@, e)]
        /\ rejected' = IF e = "rejected" THEN rejected \cup {g} ELSE rejected
    BY DEF ClientReports, call_side
  <1>2. sup[g].pc \in InClient /\ g = task
    BY DEF ClientReports, Owned, InClient
  <1>3. /\ events[g] \in Seq(Events)
        /\ events'[g] = Append(events[g], e)
        /\ \A h \in Gens \ {g} : events'[h] = events[h]
        /\ events' \in [Gens -> Seq(Events)]
    <2>1. events \in [Gens -> Seq(Events)]
      BY DEF TypeOK
    <2>2. Append(events[g], e) \in Seq(Events)
      BY <2>1, AppendProperties
    <2> QED  BY <1>1, <2>1, <2>2
  <1>4. rejected' \in SUBSET Gens /\ rejected' \subseteq {task}
    BY <1>1, <1>2 DEF TypeOK, Remembered
  <1>5. TypeOK'
    BY <1>1, <1>3, <1>4 DEF TypeOK
  <1>6. Owned' /\ Held' /\ Current'
    BY <1>1 DEF Owned, Held, Current
  <1>7. Remembered'
    <2>1. ASSUME g \in rejected', sup[g].pc \in Attentive
          PROVE  Queued(events'[g])
      <3>1. Queued(events[g]) \/ e = "rejected"
        BY <1>1, <2>1 DEF Remembered
      <3> QED  BY <1>3, <3>1, QueuedAppend
    <2>2. g \in rejected' => sup[g].pc \notin {"sleeping", "loop", "ended"}
      BY <1>2 DEF InClient
    <2>3. ASSUME NEW h \in Gens, h # g
          PROVE  h \notin rejected'
      BY <1>2, <1>4, <2>3
    <2> QED  BY <1>1, <1>4, <2>1, <2>2, <2>3 DEF Remembered
  <1> QED  BY <1>5, <1>6, <1>7

\* The end of a client is noticed by its task only.
LEMMA ClientEndsKeeps ==
    ASSUME IInv, NEW g \in Gens, ClientEnds(g)
    PROVE  IInv'
  <1> USE DEF IInv
  <1>1. /\ UNCHANGED <<holder, generation, shutdown_tx, task, told, dropped,
                       asked, key, sup, events, status, rejected>>
        /\ client' = [client EXCEPT ![g] = "ended"]
        /\ client[g] # "off"
    BY DEF ClientEnds, call_side
  <1>2. TypeOK'
    BY <1>1 DEF TypeOK
  <1>3. Owned'
    BY <1>1 DEF Owned, TypeOK
  <1>4. Held' /\ Current' /\ Remembered'
    BY <1>1 DEF Held, Current, Remembered
  <1> QED  BY <1>2, <1>3, <1>4

-----------------------------------------------------------------------------
(* The theorems. *)

\* A new supervisor has no task.
LEMMA InitInvariant == Init => IInv
  <1> SUFFICES ASSUME Init PROVE IInv
    OBVIOUS
  <1> USE RemoteAccessAssumption
  <1>1. status \in StatusType /\ status.url = None
    BY OwnStatuses DEF Init, States
  <1>2. Ended \in SupType /\ Ended.pc = "ended"
    BY DEF Ended, SupType
  <1>3. TypeOK
    <2>1. generation \in 0 .. MaxGeneration
      BY DEF Init
    <2>2. sup \in [Gens -> SupType]
      BY <1>2 DEF Init
    <2>3. /\ key \in [Gens -> Keys \cup {None}]
          /\ client \in [Gens -> ClientType]
          /\ events \in [Gens -> Seq(Events)]
      BY DEF Init, ClientType
    <2> QED
      BY <1>1, <2>1, <2>2, <2>3 DEF Init, TypeOK, SupType, ClientType, StatusType
  <1>4. Owned /\ Held /\ Current /\ Remembered
    BY <1>1, <1>2 DEF Init, Owned, Held, Current, Remembered
  <1> QED  BY <1>3, <1>4 DEF IInv

\* Every step keeps the invariant.
LEMMA NextInvariant ==
    ASSUME IInv, [Next]_vars
    PROVE  IInv'
  <1>1. CASE UNCHANGED vars
    BY <1>1 DEF IInv, TypeOK, Owned, Held, Current, Remembered, vars
  <1>2. CASE Next
    BY <1>2, TakeStateKeeps, ReplaceKeeps, CancelKeeps, DropSupervisorKeeps,
       RunOnceKeeps, PollShutdownKeeps, PollEventKeeps, PollClientKeeps,
       DrainKeeps, ClientJoinedKeeps, WakeKeeps, ClientReportsKeeps,
       ClientEndsKeeps DEF Next
  <1> QED  BY <1>1, <1>2

\* The invariant is inductive, hence always true.
THEOREM Inductive == Spec => []IInv
  BY InitInvariant, NextInvariant, PTL DEF Spec

\* A shown URL is that of the key last asked for: the snapshot hides it while a
\* call holds the mutex or the task was told to stop, and otherwise the task
\* of the state runs for that key.
THEOREM UrlIsCurrent == Spec => []NoStaleUrl
  <1>1. ASSUME IInv
        PROVE  NoStaleUrl
    <2>1. CASE holder # None \/ shutdown_tx \in told
      <3>1. StatusSnapshot = [status EXCEPT !.url = None]
        BY <2>1 DEF StatusSnapshot
      <3>2. [status EXCEPT !.url = None].url = None
        BY <1>1, StateFacts DEF StatusType
      <3> QED  BY <3>1, <3>2 DEF NoStaleUrl
    <2>2. CASE ~(holder # None \/ shutdown_tx \in told)
      <3>1. StatusSnapshot = status
        BY <2>2 DEF StatusSnapshot
      <3>2. status.url \in {None, asked}
        BY <1>1, <2>2 DEF IInv, Owned, Current
      <3> QED  BY <3>1, <3>2 DEF NoStaleUrl
    <2> QED  BY <2>1, <2>2
  <1> QED  BY <1>1, Inductive, PTL

\* At most one relay client runs, and the state can stop it.
THEOREM ClientIsOwned == Spec => []OneClient
  <1>1. IInv => OneClient
    BY DEF IInv, Owned, OneClient, InClient
  <1> QED  BY <1>1, Inductive, PTL

\* A rejection is never followed by another client of its generation, and its
\* status stays until a call replaces it.
THEOREM RejectionStays == Spec => []RejectionIsFinal
  <1>1. ASSUME IInv
        PROVE  RejectionIsFinal
    <2>1. rejected \subseteq Gens
      BY <1>1 DEF IInv, TypeOK
    <2> QED  BY <1>1, <2>1 DEF IInv, Remembered, RejectionIsFinal, Rejection
  <1> QED  BY <1>1, Inductive, PTL
=============================================================================
