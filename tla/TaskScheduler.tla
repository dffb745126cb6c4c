---------------------------- MODULE TaskScheduler ----------------------------
(***************************************************************************)
(* The task scheduler of crates/tasks/src/scheduler.rs: the run loop that    *)
(* sleeps until something changed, the passes that refresh its cache of      *)
(* future deadlines, and the hints it is given (the dirty marks of           *)
(* track_task_mutation, the events of the bus, the rebuild flag, the Notify  *)
(* permit), composed with the work signal of the database.                   *)
(*                                                                           *)
(* A mutation changes the scheduling inputs of one task, named like the      *)
(* mutation.  The tracked ones run inside track_task_mutation and publish an  *)
(* event; the others commit through a store that does not.  due_queue is     *)
(* abstracted to the set of tasks whose inputs it has taken in.  What a pass  *)
(* does with the due triggers and runs it finds is abstracted to the marks    *)
(* and wake-ups it leaves.                                                    *)
(***************************************************************************)
EXTENDS WorkSignal, FiniteSets

CONSTANTS
    Tracked,        \* the mutations made through track_task_mutation
    EventCapacity,  \* capacity of the event bus subscription (1024)
    MaxFaults       \* bound: storage errors met by passes

ASSUME TrackedAssumption == Tracked \subseteq Mutations
ASSUME EventCapacityAssumption == EventCapacity \in Nat \ {0}

VARIABLES
    loop,          \* where the run loop stands
    begin,         \* its next iteration begins with begin_pass
    tracking,      \* progress of track_task_mutation around every mutation
    needsRebuild,  \* needs_rebuild
    permit,        \* the Notify holds a permit
    dirty,         \* dirty_tasks: revision of each marked task, 0 when unmarked
    events,        \* tasks with a wake-up in the event subscription
    lagged,        \* the subscription has lost some
    cache,         \* tasks whose committed inputs are in due_queue
    pass,          \* the pass that holds process_lock
    faults,        \* storage errors so far
    erased         \* history: a service pass has lowered the rebuild flag that
                   \* the loop raised for the pass it is about to make

schedVars == <<loop, begin, tracking, needsRebuild, permit, dirty,
               events, lagged, cache, pass, faults, erased>>
vars == <<signalVars, schedVars>>

Unmarked == [m \in Mutations |-> 0]
NoPass == [holder |-> "none", pc |-> "drain", round |-> 1, failed |-> FALSE,
           partial |-> FALSE, todo |-> Unmarked, task |-> Fence]

TypeOK ==
    /\ SignalTypeOK
    /\ loop \in {"top", "raised", "passing", "parked"}
    /\ begin \in BOOLEAN
    /\ tracking \in [Mutations -> {"out", "in", "returned", "published",
                               "failed", "done", "gone"}]
    /\ needsRebuild \in BOOLEAN
    /\ permit \in BOOLEAN
    /\ dirty \in [Mutations -> Nat]
    /\ events \subseteq Mutations /\ Cardinality(events) <= EventCapacity
    /\ lagged \in BOOLEAN
    /\ cache \subseteq Mutations
    /\ pass \in [holder : {"none", "run", "service"},
                 pc : {"drain", "rebuild", "clear", "collect", "reload", "ack",
                       "process", "check"},
                 round : 1 .. 2, failed : BOOLEAN, partial : BOOLEAN,
                 todo : [Mutations -> Nat], task : Mutations \cup {Fence}]
    /\ faults \in 0 .. MaxFaults
    /\ erased \in BOOLEAN

Init ==
    /\ SignalInit
    /\ loop = "top"
    /\ begin = TRUE
    /\ tracking = [m \in Mutations |-> "out"]
    /\ needsRebuild = TRUE
    /\ permit = FALSE
    /\ dirty = Unmarked
    /\ events = {}
    /\ lagged = FALSE
    /\ cache = {}
    /\ pass = NoPass
    /\ faults = 0
    /\ erased = FALSE

\* mark_task_dirty, for each task of S.
Marked(S) == [m \in Mutations |-> IF m \in S THEN dirty[m] + 1 ELSE dirty[m]]

\* TaskEventBus::publish, for each task of S: a full channel drops its oldest
\* wake-ups and reports the lag, and a permit survives until the loop waits.
Published(S) ==
    /\ LET all == events \cup S
       IN  IF Cardinality(all) <= EventCapacity
           THEN events' = all /\ UNCHANGED lagged
           ELSE /\ events' \in {kept \in SUBSET all :
                                  Cardinality(kept) = EventCapacity}
                /\ lagged' = TRUE
    /\ permit' = (permit \/ S # {})

Fault == faults < MaxFaults /\ faults' = faults + 1

-----------------------------------------------------------------------------
(* Mutations. *)

\* A tracked one marks its task before its operation is polled.
BeginMutation(m) ==
    /\ Changing(m)
    /\ IF m \in Tracked
       THEN /\ dirty' = Marked({m})
            /\ tracking' = [tracking EXCEPT ![m] = "in"]
       ELSE UNCHANGED <<dirty, tracking>>
    /\ UNCHANGED <<loop, begin, needsRebuild, permit, events, lagged,
                   cache, pass, faults, erased>>

\* The store's answer releases the guard; the operation of a tracked mutation
\* goes on to publish what it inserted.
EndWrite(m) ==
    /\ Completed(m) \/ Failed(m)
    /\ tracking' = IF m \in Tracked
                   THEN [tracking EXCEPT ![m] =
                           CASE mutation[m] = "changed" -> "returned"
                             [] mutation[m] = "same"    -> "published"
                             [] OTHER                   -> "failed"]
                   ELSE tracking
    /\ UNCHANGED <<loop, begin, needsRebuild, permit, dirty, events,
                   lagged, cache, pass, faults, erased>>

Publish(m) ==
    /\ tracking[m] = "returned"
    /\ tracking' = [tracking EXCEPT ![m] = "published"]
    /\ Published({m})
    /\ UNCHANGED <<signalVars, loop, begin, needsRebuild, dirty, cache, pass,
                   faults, erased>>

\* Mutant: the second mark is left out.
EndTrackingUnmarked(m) ==
    /\ tracking[m] \in {"published", "failed"}
    /\ tracking' = [tracking EXCEPT ![m] = "done"]
    /\ needsRebuild' = (needsRebuild \/ tracking[m] = "failed")
    /\ permit' = TRUE
    /\ UNCHANGED <<signalVars, loop, begin, dirty, events, lagged,
                   cache, pass, faults, erased>>

\* track_task_mutation marks the task again, asks for a rebuild after an
\* error, and wakes the loop.
EndTracking(m) ==
    /\ tracking[m] \in {"published", "failed"}
    /\ tracking' = [tracking EXCEPT ![m] = "done"]
    /\ dirty' = Marked({m})
    /\ needsRebuild' = (needsRebuild \/ tracking[m] = "failed")
    /\ permit' = TRUE
    /\ UNCHANGED <<signalVars, loop, begin, events, lagged, cache,
                   pass, faults, erased>>

\* The caller goes away: the guard of an unanswered write goes with it, and
\* the SchedulerPass of a tracked one asks for a rebuild and wakes nobody.
DropMutation(m) ==
    /\ \/ DropWrite(m)
       \/ /\ tracking[m] \in {"returned", "published", "failed"}
          /\ UNCHANGED signalVars
    /\ tracking' = [tracking EXCEPT ![m] = "gone"]
    /\ needsRebuild' = (needsRebuild \/ m \in Tracked)
    /\ UNCHANGED <<loop, begin, permit, dirty, events, lagged, cache,
                   pass, faults, erased>>

Dispatched ==
    /\ \/ \E m \in Mutations : DispatchWrite(m)
       \/ RunWrite
    /\ UNCHANGED schedVars

-----------------------------------------------------------------------------
(* The run loop. *)

\* The rebuild flag is raised ...
TopOfLoop ==
    /\ loop = "top"
    /\ begin /\ sub.pc = "begin"
    /\ needsRebuild' = TRUE
    /\ erased' = FALSE
    /\ loop' = "raised"
    /\ UNCHANGED <<signalVars, begin, tracking, permit, dirty, events,
                   lagged, cache, pass, faults>>

\* ... before begin_pass acknowledges the signal.
AcknowledgeSignal ==
    /\ loop = "raised"
    /\ BeginPass
    /\ loop' = "top"
    /\ UNCHANGED <<begin, tracking, needsRebuild, permit, dirty, events,
                   lagged, cache, pass, faults, erased>>

FenceWriter ==
    \/ DispatchFence /\ UNCHANGED schedVars
    \/ RunFence(TRUE) /\ UNCHANGED schedVars
    \/ /\ RunFence(FALSE)
       /\ Fault
       /\ UNCHANGED <<loop, begin, tracking, needsRebuild, permit, dirty,
                      events, lagged, cache, pass, erased>>

\* process_due_once takes process_lock.
RunPass ==
    /\ loop = "top"
    /\ sub.pc = "ready"
    /\ pass.holder = "none"
    /\ loop' = "passing"
    /\ begin' = FALSE
    /\ pass' = [NoPass EXCEPT !.holder = "run"]
    /\ UNCHANGED <<signalVars, tracking, needsRebuild, permit, dirty,
                   events, lagged, cache, faults, erased>>

\* The service runs a pass of its own after some of its mutations.
ServicePass ==
    /\ pass.holder = "none"
    /\ pass' = [NoPass EXCEPT !.holder = "service"]
    /\ UNCHANGED <<signalVars, loop, begin, tracking, needsRebuild,
                   permit, dirty, events, lagged, cache, faults, erased>>

\* The signal wakes the loop and asks for a rebuild.
WakeOnSignal ==
    /\ loop = "parked"
    /\ Changed
    /\ needsRebuild' = TRUE
    /\ loop' = "top"
    /\ begin' = TRUE
    /\ UNCHANGED <<tracking, permit, dirty, events, lagged, cache,
                   pass, faults, erased>>

WakeOnNotify ==
    /\ loop = "parked"
    /\ permit
    /\ LeaveWait
    /\ permit' = FALSE
    /\ loop' = "top"
    /\ begin' = TRUE
    /\ UNCHANGED <<tracking, needsRebuild, dirty, events, lagged,
                   cache, pass, faults, erased>>

\* A deadline has come, or an executor has capacity again.
WakeOnClock ==
    /\ loop = "parked"
    /\ LeaveWait
    /\ needsRebuild' = TRUE
    /\ loop' = "top"
    /\ begin' = TRUE
    /\ UNCHANGED <<tracking, permit, dirty, events, lagged, cache,
                   pass, faults, erased>>

-----------------------------------------------------------------------------
(* A pass: two refreshes of the cache around the processing of what is due. *)

At(pc) == pass.holder # "none" /\ pass.pc = pc
GotoPass(pc) == pass' = [pass EXCEPT !.pc = pc]

\* The pass gives up: its guard asks for a rebuild.
PassFails ==
    /\ pass' = NoPass
    /\ needsRebuild' = TRUE
    /\ loop' = IF pass.holder = "run" THEN "top" ELSE loop

\* Every wake-up of the bus becomes a mark, a lag becomes a rebuild.
DrainEvents ==
    /\ At("drain")
    /\ dirty' = Marked(events)
    /\ needsRebuild' = (needsRebuild \/ lagged)
    /\ events' = {}
    /\ lagged' = FALSE
    /\ GotoPass("rebuild")
    /\ UNCHANGED <<signalVars, loop, begin, tracking, permit, cache,
                   faults, erased>>

\* rebuild_due_queue reads every active trigger and queued run.  The tasks of
\* rows it cannot read are marked, and keep what the cache has of them.
Rebuild ==
    /\ At("rebuild")
    /\ \/ /\ ~needsRebuild
          /\ GotoPass("collect")
          /\ UNCHANGED <<cache, dirty, needsRebuild, loop, faults>>
       \/ /\ needsRebuild
          /\ cache' = committed
          /\ GotoPass("clear")
          /\ UNCHANGED <<dirty, needsRebuild, loop, faults>>
       \/ /\ needsRebuild
          /\ Fault
          /\ \E bad \in SUBSET committed :
                /\ cache' = (committed \ bad) \cup (cache \cap bad)
                /\ dirty' = Marked(bad)
          /\ pass' = [pass EXCEPT !.pc = "clear", !.partial = TRUE]
          /\ UNCHANGED <<needsRebuild, loop>>
       \/ /\ needsRebuild
          /\ Fault
          /\ PassFails
          /\ UNCHANGED <<cache, dirty>>
    /\ UNCHANGED <<signalVars, begin, tracking, permit, events, lagged, erased>>

\* The flag is lowered after the read, whoever raised it meanwhile.
ClearRebuild ==
    /\ At("clear")
    /\ needsRebuild' = FALSE
    /\ erased' = (erased \/ (begin /\ (loop = "raised" \/ sub.pc # "begin")))
    /\ GotoPass("collect")
    /\ UNCHANGED <<signalVars, loop, begin, tracking, permit, dirty,
                   events, lagged, cache, faults>>

\* Tasks of the cache whose time has come are marked, and the marks copied.
CollectDirty ==
    /\ At("collect")
    /\ \E expired \in SUBSET cache :
          /\ dirty' = Marked(expired)
          /\ pass' = [pass EXCEPT !.pc = "reload", !.todo = Marked(expired)]
    /\ UNCHANGED <<signalVars, loop, begin, tracking, needsRebuild,
                   permit, events, lagged, cache, faults, erased>>

\* One marked task is read again.  A task that cannot be read, or not all of
\* it, stays marked; the former also asks for a rebuild.
ReloadTask ==
    /\ At("reload")
    /\ \E m \in Mutations :
          /\ pass.todo[m] > 0
          /\ \/ /\ cache' = IF m \in committed THEN cache \cup {m} ELSE cache
                /\ pass' = [pass EXCEPT !.pc = "ack", !.task = m]
                /\ UNCHANGED <<needsRebuild, faults>>
             \/ /\ Fault
                /\ needsRebuild' \in {TRUE, needsRebuild}
                /\ pass' = [pass EXCEPT !.todo[m] = 0, !.partial = TRUE]
                /\ UNCHANGED cache
    /\ UNCHANGED <<signalVars, loop, begin, tracking, permit, dirty,
                   events, lagged, erased>>

\* Its mark is removed unless it moved since it was copied.
AckTask ==
    /\ At("ack")
    /\ LET m == pass.task
       IN  /\ dirty' = [dirty EXCEPT ![m] = IF @ = pass.todo[m] THEN 0 ELSE @]
           /\ pass' = [pass EXCEPT !.pc = "reload", !.todo[m] = 0, !.task = Fence]
    /\ UNCHANGED <<signalVars, loop, begin, tracking, needsRebuild,
                   permit, events, lagged, cache, faults, erased>>

EndRefresh ==
    /\ At("reload")
    /\ pass.todo = Unmarked
    /\ GotoPass(IF pass.round = 1 THEN "process" ELSE "check")
    /\ UNCHANGED <<signalVars, loop, begin, tracking, needsRebuild,
                   permit, dirty, events, lagged, cache, faults,
                   erased>>

\* Due tasks are marked before each is processed; what is appended for them is
\* published, and an error, or a row that cannot be read, is kept for the end
\* of the pass.
ProcessDue ==
    /\ At("process")
    /\ \E due \in SUBSET committed :
          /\ dirty' = Marked(due)
          /\ Published(due)
    /\ \/ /\ pass' = [pass EXCEPT !.pc = "drain", !.round = 2]
          /\ UNCHANGED faults
       \/ /\ Fault
          /\ \/ pass' = [pass EXCEPT !.pc = "drain", !.round = 2, !.failed = TRUE]
             \/ pass' = [pass EXCEPT !.pc = "drain", !.round = 2, !.partial = TRUE]
    /\ UNCHANGED <<signalVars, loop, begin, tracking, needsRebuild, cache,
                   erased>>

\* A complete pass lets the loop sleep, or go on with the next page without
\* acknowledging anything.  One that could not read some rows counts as complete,
\* but its error keeps the loop from sleeping on them.
EndPass ==
    /\ At("check")
    /\ IF pass.failed \/ needsRebuild
       THEN PassFails
       ELSE /\ pass' = NoPass
            /\ UNCHANGED needsRebuild
            /\ IF pass.holder = "run"
               THEN loop' \in IF pass.partial THEN {"top"} ELSE {"parked", "top"}
               ELSE UNCHANGED loop
    /\ UNCHANGED <<signalVars, begin, tracking, permit, dirty, events, lagged,
                   cache, faults, erased>>

-----------------------------------------------------------------------------
Mutate ==
    \/ \E m \in Mutations :
          \/ BeginMutation(m) \/ EndWrite(m) \/ Publish(m) \/ EndTracking(m)
          \/ DropMutation(m)
    \/ Dispatched

Refresh ==
    \/ DrainEvents \/ Rebuild \/ ClearRebuild \/ CollectDirty \/ ReloadTask
    \/ AckTask \/ EndRefresh \/ ProcessDue \/ EndPass

Loop ==
    \/ TopOfLoop \/ AcknowledgeSignal \/ FenceWriter \/ RunPass
    \/ WakeOnSignal \/ WakeOnNotify

Next == Mutate \/ Loop \/ Refresh \/ ServicePass \/ WakeOnClock

Spec == Init /\ [][Next]_vars

-----------------------------------------------------------------------------
(* Properties. *)

\* The loop sleeps and nothing that would wake it is on its way.
Asleep ==
    /\ loop = "parked"
    /\ version = sub.seen
    /\ ~permit
    /\ pass.holder = "none"

\* The loop never sleeps on work it has not seen: the deadlines of every
\* committed mutation are in its cache, unless the guard of the mutation is
\* still to be released.  This covers the write whose caller went away after
\* its command was dispatched, and that commits behind the loop's back.  The one
\* exception is ~erased: a service pass has lowered the very rebuild flag that the
\* loop raised for its next pass (scheduler.rs:570 after :187), and the loop may
\* then sleep on a direct commit.  DirectCommitRefreshes is about that case.
NoMissedWork ==
    Asleep /\ ~erased => \A m \in committed : m \in cache \/ GuardLive(m)

\* "a direct CRUD commit must refresh cached future deadlines before begin_pass
\* acknowledges its runtime signal" (scheduler.rs, run), without the exception
\* of NoMissedWork: the rebuild flag the loop raises is enough.
DirectCommitRefreshes ==
    Asleep => \A m \in committed \ Tracked : m \in cache \/ GuardLive(m)

\* What track_task_mutation promises by its second mark: once it has returned,
\* the task is marked until a pass has read what the mutation wrote, although
\* a refresh may have consumed the first mark while the write was under way.
AddressedHintSurvives ==
    \A m \in Tracked :
        tracking[m] = "done" /\ m \in committed \ cache => dirty[m] > 0
=============================================================================
