---------------------------- MODULE RemoteAccess ----------------------------
(***************************************************************************)
(* The supervisor of the relay client that makes a gateway reachable from  *)
(* outside (crates/tunnel/src/lib.rs).  apply and shutdown hold a mutex    *)
(* while they stop the previous client and join it; their futures can be   *)
(* dropped while they do.  The supervised task runs one relay client after *)
(* another and publishes what they report.                                 *)
(*                                                                         *)
(* A supervised task is known by the generation that spawned it, a public  *)
(* URL by the key the relay chose it for.  The relay client is a library.  *)
(***************************************************************************)
EXTENDS Naturals, Sequences

CONSTANTS
    Keys,           \* remote access keys
    MaxRestarts,    \* max_restarts, 0 for no limit
    MaxGeneration,  \* bound: calls of apply
    MaxQueued,      \* bound: events of the client that wait in the channel
    None

\* What a call can want: a running client for a key, or none (shutdown, remote
\* access disabled, settings that validate_run_config refuses).
Calls == {"shutdown", "disabled", "invalid"}
Wants == Keys \cup Calls

ASSUME RemoteAccessAssumption ==
    /\ MaxRestarts \in Nat /\ MaxGeneration \in Nat \ {0} /\ MaxQueued \in Nat \ {0}
    /\ None \notin Wants \cup Nat /\ Keys \cap Calls = {}

VARIABLES
    holder,       \* what the call wants that holds the mutex, or None
    generation,
    shutdown_tx,  \* the task whose shutdown channel the state holds
    task,         \* the task whose JoinHandle the state holds
    told,         \* the shutdown channels that were sent true
    key,          \* per task: the token of its run configuration
    sup,          \* per task: where supervise_rathole is, and its locals
    client,       \* per task: its relay client
    events,       \* per task: the client's unbounded event channel
    status,       \* the watch channel of the status
    dropped,      \* the supervisor was dropped
    asked,        \* history: what the last call that took the mutex wants
    rejected      \* history: tasks of the state whose client reported a rejection

vars == <<holder, generation, shutdown_tx, task, told, key, sup, client, events,
          status, dropped, asked, rejected>>

Gens == 1..MaxGeneration

\* Events of the relay client.  "rejected" stands for the three that end a
\* generation: authentication failed, no such service, no valid public URL.
Events == {"connecting", "connected", "reconnecting", "stopped", "rejected"}

States == {"Disabled", "Starting", "Connected", "Reconnecting", "Stopped", "Failed"}
Errors == {"InvalidSettings", "Rejected", "RelayConnectFailed", "ProcessExited",
           "RestartLimitReached"}

Status(state, error) == [state |-> state, error |-> error, url |-> None]

Ended == [pc |-> "ended", restarts |-> 0, connected_once |-> FALSE, suppress |-> FALSE]

TypeOK ==
    /\ holder \in Wants \cup {None} /\ generation \in 0..MaxGeneration
    /\ shutdown_tx \in Gens \cup {None} /\ task \in Gens \cup {None}
    /\ told \in SUBSET Gens
    /\ key \in [Gens -> Keys \cup {None}]
    /\ sup \in [Gens -> [pc : {"loop", "shutdown", "event", "client", "draining",
                               "stopping", "rejecting", "sleeping", "ended"},
                         restarts : Nat, connected_once : BOOLEAN, suppress : BOOLEAN]]
    /\ client \in [Gens -> {"off", "running", "told", "ended"}]
    /\ events \in [Gens -> Seq(Events)]
    /\ status \in [state : States, error : Errors \cup {None}, url : Keys \cup {None}]
    /\ dropped \in BOOLEAN /\ asked \in Wants \cup {None} /\ rejected \in SUBSET Gens

Init ==
    /\ holder = None /\ generation = 0 /\ shutdown_tx = None /\ task = None /\ told = {}
    /\ key = [g \in Gens |-> None] /\ sup = [g \in Gens |-> Ended]
    /\ client = [g \in Gens |-> "off"] /\ events = [g \in Gens |-> <<>>]
    /\ status = Status("Disabled", None)
    /\ dropped = FALSE /\ asked = None /\ rejected = {}

supervised == <<key, sup, client, events, rejected>>
-----------------------------------------------------------------------------
\* The task of the state, as long as it can be told: a send to a task that ended
\* fails, and its channel keeps saying false.
Listening == {g \in Gens : g = shutdown_tx /\ sup[g].pc # "ended"}

\* apply or shutdown has the mutex (a call that waits for it, and may be dropped
\* then, has done nothing).  apply counts the generation, and both tell a task
\* that still runs to stop; then they await its JoinHandle, which stays in the state.
TakeState(want) ==
    /\ holder = None /\ ~dropped
    /\ holder' = want
    /\ \/ want = "shutdown" /\ UNCHANGED generation
       \/ want # "shutdown" /\ generation < MaxGeneration /\ generation' = generation + 1
    /\ told' = told \cup Listening
    /\ asked' = want
    /\ UNCHANGED <<shutdown_tx, task, status, dropped, supervised>>

\* The task ended: the state forgets it, and the call goes on to its end without
\* another await.
Replace ==
    /\ holder # None
    /\ task # None => sup[task].pc = "ended"
    /\ \/ /\ holder \in Keys
          /\ status' = Status("Starting", None)
          /\ task' = generation /\ shutdown_tx' = generation
          /\ key' = [key EXCEPT ![generation] = holder]
          /\ sup' = [sup EXCEPT ![generation] = [Ended EXCEPT !.pc = "loop"]]
       \/ /\ holder \in Calls
          /\ status' = CASE holder = "shutdown" -> Status("Stopped", None)
                         [] holder = "disabled" -> Status("Disabled", None)
                         [] holder = "invalid" -> Status("Failed", "InvalidSettings")
          /\ task' = None /\ shutdown_tx' = None
          /\ UNCHANGED <<key, sup>>
    /\ told' = told \ {shutdown_tx}
    /\ rejected' = rejected \ {task}
    /\ holder' = None
    /\ UNCHANGED <<generation, client, events, dropped, asked>>

\* Mutant: the call took the JoinHandle out of the state before it awaited it.
CancelWithHandle ==
    /\ holder # None
    /\ holder' = None /\ task' = None
    /\ UNCHANGED <<generation, shutdown_tx, told, status, dropped, asked, supervised>>

\* The future of a call is dropped while it awaits the task.
Cancel ==
    /\ holder # None
    /\ holder' = None
    /\ UNCHANGED <<generation, shutdown_tx, task, told, status, dropped, asked, supervised>>

\* The supervisor itself is dropped, when no call borrows it.
DropSupervisor ==
    /\ ~dropped /\ holder = None
    /\ dropped' = TRUE
    /\ told' = told \cup Listening
    /\ UNCHANGED <<holder, generation, shutdown_tx, task, status, asked, supervised>>

\* Mutant: only a call that is under way hides the URL.
SnapshotOfUnlocked == IF holder # None THEN [status EXCEPT !.url = None] ELSE status

\* What status_snapshot returns, and with_current_status once it has the mutex.
StatusSnapshot ==
    IF holder # None \/ shutdown_tx \in told THEN [status EXCEPT !.url = None] ELSE status
-----------------------------------------------------------------------------
call_side == <<holder, generation, shutdown_tx, task, told, dropped, asked>>

\* The task g ends; what its stack held is gone.
End(g) == /\ sup' = [sup EXCEPT ![g] = Ended]
          /\ key' = [key EXCEPT ![g] = None]
          /\ client' = [client EXCEPT ![g] = "off"]
          /\ events' = [events EXCEPT ![g] = <<>>]

\* publish_rathole_event: the status, and the locals of task g, after event e.
\* Nothing is published after a rejection.
Published(g, e) ==
    LET once == sup[g].connected_once IN
    CASE e = "connecting" ->
            [status |-> IF sup[g].suppress THEN status
                        ELSE Status(IF once THEN "Reconnecting" ELSE "Starting", None),
             once |-> once, suppress |-> sup[g].suppress]
      [] e = "connected" ->
            [status |-> [Status("Connected", None) EXCEPT !.url = key[g]],
             once |-> TRUE, suppress |-> FALSE]
      [] e = "reconnecting" ->
            [status |-> Status(IF once THEN "Reconnecting" ELSE "Failed",
                               "RelayConnectFailed"),
             once |-> once, suppress |-> sup[g].suppress \/ ~once]
      [] e = "stopped" ->
            [status |-> Status("Stopped", None), once |-> FALSE, suppress |-> FALSE]
      [] e = "rejected" ->
            [status |-> Status("Failed", "Rejected"), once |-> FALSE, suppress |-> TRUE]

\* The head of the event channel is published, and task g goes on at pc.
PublishHead(g, pc) ==
    LET after == Published(g, Head(events[g])) IN
    /\ status' = after.status
    /\ sup' = [sup EXCEPT ![g] = [pc |-> pc, restarts |-> @.restarts,
                                  connected_once |-> after.once,
                                  suppress |-> after.suppress]]
    /\ events' = [events EXCEPT ![g] = Tail(@)]
    /\ UNCHANGED key

\* What comes after a client that ended by itself, or never began.
ShouldRestart(g) == MaxRestarts = 0 \/ sup[g].restarts < MaxRestarts

RestartOrGiveUp(g) ==
    \/ /\ ShouldRestart(g)
       /\ status' = Status("Reconnecting", "ProcessExited")
       /\ sup' = [sup EXCEPT ![g] = [Ended EXCEPT !.pc = "sleeping",
                                                  !.restarts = sup[g].restarts + 1]]
       /\ client' = [client EXCEPT ![g] = "off"]
       /\ events' = [events EXCEPT ![g] = <<>>]
       /\ UNCHANGED key
    \/ /\ ~ShouldRestart(g)
       /\ status' = Status("Failed", "RestartLimitReached")
       /\ End(g)

\* The head of supervise_rathole's loop: run_rathole_once creates a client,
\* unless its configuration cannot be built.
RunOnce(g) ==
    /\ sup[g].pc = "loop"
    /\ \/ /\ status' = IF sup[g].restarts > 0 THEN Status("Reconnecting", None) ELSE status
          /\ client' = [client EXCEPT ![g] = "running"]
          /\ sup' = [sup EXCEPT ![g].pc = "shutdown"]
          /\ UNCHANGED <<key, events>>
       \/ RestartOrGiveUp(g)
    /\ UNCHANGED <<call_side, rejected>>

\* Mutant: the relay client is not told.
PollShutdownSilently(g) ==
    /\ sup[g].pc = "shutdown"
    /\ sup' = [sup EXCEPT ![g].pc = IF g \in told THEN "stopping" ELSE "event"]
    /\ UNCHANGED <<call_side, key, client, events, rejected, status>>

\* The three branches of the biased select are polled one after the other.
\* First the shutdown channel ...
PollShutdown(g) ==
    /\ sup[g].pc = "shutdown"
    /\ \/ /\ g \in told
          /\ client' = [client EXCEPT ![g] = IF @ = "running" THEN "told" ELSE @]
          /\ sup' = [sup EXCEPT ![g].pc = "stopping"]
       \/ /\ g \notin told
          /\ sup' = [sup EXCEPT ![g].pc = "event"]
          /\ UNCHANGED client
    /\ UNCHANGED <<call_side, key, events, rejected, status>>

\* ... then the event channel; a rejection stops the client ...
PollEvent(g) ==
    /\ sup[g].pc = "event"
    /\ \/ /\ events[g] = <<>>
          /\ sup' = [sup EXCEPT ![g].pc = "client"]
          /\ UNCHANGED <<key, client, events, status>>
       \/ /\ events[g] # <<>> /\ Head(events[g]) # "rejected"
          /\ PublishHead(g, "shutdown")
          /\ UNCHANGED client
       \/ /\ events[g] # <<>> /\ Head(events[g]) = "rejected"
          /\ PublishHead(g, "rejecting")
          /\ client' = [client EXCEPT ![g] = IF @ = "running" THEN "told" ELSE @]
    /\ UNCHANGED <<call_side, rejected>>

\* Mutant: what the client reported just before it ended is not looked at.
PollClientOnly(g) ==
    /\ sup[g].pc = "client"
    /\ \/ /\ client[g] # "ended"
          /\ sup' = [sup EXCEPT ![g].pc = "shutdown"]
          /\ UNCHANGED <<key, client, events, status>>
       \/ client[g] = "ended" /\ RestartOrGiveUp(g)
    /\ UNCHANGED <<call_side, rejected>>

\* ... then the client.
PollClient(g) ==
    /\ sup[g].pc = "client"
    /\ sup' = [sup EXCEPT ![g].pc = IF client[g] = "ended" THEN "draining" ELSE "shutdown"]
    /\ UNCHANGED <<call_side, key, client, events, status, rejected>>

\* The events that a client left when it ended are published one by one, for
\* every reader of the status to see, before its end is.
Drain(g) ==
    /\ sup[g].pc = "draining"
    /\ \/ events[g] = <<>> /\ RestartOrGiveUp(g)
       \/ /\ events[g] # <<>> /\ Head(events[g]) # "rejected"
          /\ PublishHead(g, "draining")
          /\ UNCHANGED client
       \/ /\ events[g] # <<>> /\ Head(events[g]) = "rejected"
          /\ status' = Published(g, "rejected").status
          /\ End(g)
    /\ UNCHANGED <<call_side, rejected>>

\* The client that was told to stop is joined; only a shutdown is published.
ClientJoined(g) ==
    /\ sup[g].pc \in {"stopping", "rejecting"} /\ client[g] = "ended"
    /\ status' = IF sup[g].pc = "stopping" THEN Status("Stopped", None) ELSE status
    /\ End(g)
    /\ UNCHANGED <<call_side, rejected>>

\* The delay passed, or the shutdown channel ended the sleep.
Wake(g) ==
    /\ sup[g].pc = "sleeping"
    /\ \/ /\ g \in told
          /\ status' = Status("Stopped", None)
          /\ End(g)
       \/ /\ g \notin told
          /\ sup' = [sup EXCEPT ![g].pc = "loop"]
          /\ UNCHANGED <<key, client, events, status>>
    /\ UNCHANGED <<call_side, rejected>>
-----------------------------------------------------------------------------
\* The relay client, outside this repository: until it ended it may report
\* anything, and it ends by itself or because it was told.
ClientReports(g, e) ==
    /\ client[g] \in {"running", "told"} /\ Len(events[g]) < MaxQueued
    /\ events' = [events EXCEPT ![g] = Append(@, e)]
    /\ rejected' = IF e = "rejected" THEN rejected \cup {g} ELSE rejected
    /\ UNCHANGED <<call_side, key, sup, client, status>>

ClientEnds(g) ==
    /\ client[g] \in {"running", "told"}
    /\ client' = [client EXCEPT ![g] = "ended"]
    /\ UNCHANGED <<call_side, key, sup, events, status, rejected>>

Next ==
    \/ \E want \in Wants : TakeState(want)
    \/ Replace \/ Cancel \/ DropSupervisor
    \/ \E g \in Gens : \/ RunOnce(g) \/ PollShutdown(g) \/ PollEvent(g) \/ PollClient(g)
                       \/ Drain(g) \/ ClientJoined(g) \/ Wake(g)
                       \/ \E e \in Events : ClientReports(g, e)
                       \/ ClientEnds(g)

Spec == Init /\ [][Next]_vars

\* The runtime polls the call and the task, a sleep ends, and the relay client
\* ends when it was told to.  It need not end or report anything otherwise.
FairSpec ==
    /\ Spec
    /\ WF_vars(Replace)
    /\ \A g \in Gens : /\ WF_vars(RunOnce(g)) /\ WF_vars(PollShutdown(g))
                       /\ WF_vars(PollEvent(g)) /\ WF_vars(PollClient(g))
                       /\ WF_vars(Drain(g)) /\ WF_vars(ClientJoined(g)) /\ WF_vars(Wake(g))
                       /\ WF_vars(client[g] = "told" /\ ClientEnds(g))
-----------------------------------------------------------------------------
\* "A cached Connected event must never expose an old key's public URL": a URL
\* that is shown is the one of the key that the last call to reach the mutex
\* asked for, also when that call or one before it was cancelled while it joined
\* the old client.
NoStaleUrl == StatusSnapshot.url \in {None, asked}

\* There is one relay client at a time, and it is the one the state can stop: a
\* cancelled apply leaves its client for the next one to join.
OneClient ==
    \A g \in Gens : client[g] # "off" => g = task /\ g = shutdown_tx

\* A rejection is final.  After it no client is started in its generation, and
\* unless the task was told to stop its status stays until the next call
\* replaces it: neither the cleanup nor the end of the client hides it.
RejectionIsFinal ==
    \A g \in rejected :
        /\ sup[g].pc \notin {"sleeping", "loop"}
        /\ (sup[g].pc = "ended" /\ g = task /\ g \notin told) =>
                status = Status("Failed", "Rejected")

\* A call that reached the mutex gives it back, and a task that
\* was told to stop ends, after a drop of the supervisor too.
StopCompletes ==
    /\ (holder # None) ~> (holder = None)
    /\ \A g \in Gens : (g \in told) ~> (sup[g].pc = "ended")
=============================================================================
