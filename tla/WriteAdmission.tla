--------------------------- MODULE WriteAdmission ---------------------------
(***************************************************************************)
(* Admission to the one SQLite writer connection, crates/sqlite/src/       *)
(* writer.rs: three FIFO classes, a grant decision made under one mutex,   *)
(* and a reservation that travels through a oneshot channel to the task    *)
(* that asked for it and is released when its last owner is dropped.       *)
(*                                                                         *)
(* A writer is a task with at most one request outstanding.  Its future    *)
(* can be dropped at every await, so a grant can meet a receiver that is   *)
(* gone.  bypassed and critical_run are history variables.                 *)
(***************************************************************************)
EXTENDS Naturals, Sequences, FiniteSets

CONSTANTS
    Writers,                 \* the tasks that write
    MaxCriticalBurst,        \* policy.max_critical_burst
    MaxNonMaintenanceBurst,  \* policy.max_non_maintenance_burst
    CounterMax,              \* usize::MAX, where saturating_add stops
    MaxOwners                \* bound of the model: nested owners of a permit

ASSUME PolicyAssumption ==
    /\ MaxCriticalBurst \in Nat
    /\ MaxNonMaintenanceBurst \in Nat
    /\ CounterMax \in Nat \ {0}
    /\ MaxCriticalBurst <= CounterMax
    /\ MaxNonMaintenanceBurst <= CounterMax
    /\ MaxOwners \in Nat

VARIABLES
    queue,      \* AdmissionState.critical, .interactive, .maintenance
    active,     \* AdmissionState.active
    consecutive_critical,
    consecutive_non_maintenance,
    pc,         \* where each writer's request is
    class,      \* the class of its request
    owners,     \* clones of its permit: transaction, savepoints, stream
    aged,       \* maintenance waiters older than max_maintenance_wait
    bypassed,   \* history: other grants while maintenance kept waiting
    critical_run \* history: critical grants while interactive kept waiting

counters == <<consecutive_critical, consecutive_non_maintenance>>
history  == <<bypassed, critical_run>>
vars == <<queue, active, counters, pc, class, owners, aged, history>>

Class == {"critical", "interactive", "maintenance"}

(***************************************************************************)
(* A request is                                                            *)
(*   queued     in its queue, its future alive                             *)
(*   dropped    in its queue, its receiver dropped, cancel() not yet run   *)
(*   selected   its reservation made, not yet sent                         *)
(*   orphaned   the same, its receiver dropped                             *)
(*   granted    its reservation in the oneshot channel                     *)
(*   holding    its reservation turned into a permit                       *)
(***************************************************************************)
Request == {"idle", "queued", "dropped", "selected", "orphaned", "granted", "holding"}

AtLeastOne(n) == IF n = 0 THEN 1 ELSE n
SaturatingInc(n) == IF n < CounterMax THEN n + 1 ELSE n

\* The classes that have a waiter in the queues q.
Waiting(q) == {c \in Class : q[c] # << >>}

\* Mutant: due one grant too late.
MaintenanceDueLate(q) ==
    /\ "maintenance" \in Waiting(q)
    /\ \/ Head(q["maintenance"]) \in aged
       \/ consecutive_non_maintenance > AtLeastOne(MaxNonMaintenanceBurst)

MaintenanceDue(q) ==
    /\ "maintenance" \in Waiting(q)
    /\ \/ Head(q["maintenance"]) \in aged
       \/ consecutive_non_maintenance >= AtLeastOne(MaxNonMaintenanceBurst)

\* Mutant: due one grant too late.
InteractiveDueLate(q) ==
    /\ {"interactive", "critical"} \subseteq Waiting(q)
    /\ consecutive_critical > AtLeastOne(MaxCriticalBurst)

InteractiveDue(q) ==
    /\ {"interactive", "critical"} \subseteq Waiting(q)
    /\ consecutive_critical >= AtLeastOne(MaxCriticalBurst)

Priority(q) ==
    IF "critical" \in Waiting(q) THEN "critical"
    ELSE IF "interactive" \in Waiting(q) THEN "interactive" ELSE "maintenance"

\* Fairness only matters when classes contend.
Contended(q, newly_uncontended) ==
    ~newly_uncontended /\ \E c, d \in Waiting(q) : c # d

Chosen(q, newly_uncontended) ==
    IF ~Contended(q, newly_uncontended) THEN Priority(q)
    ELSE IF MaintenanceDue(q) THEN "maintenance"
    ELSE IF InteractiveDue(q) THEN "interactive"
    ELSE Priority(q)

\* Mutant: an interactive grant pays the debt to maintenance too.
DebtForgiven(c, contended) ==
    /\ consecutive_critical' =
           IF contended /\ c = "critical" THEN SaturatingInc(consecutive_critical) ELSE 0
    /\ consecutive_non_maintenance' =
           IF contended /\ c = "critical"
           THEN SaturatingInc(consecutive_non_maintenance) ELSE 0

\* Mutant: a critical grant does not add to the debt to interactive work.
DebtNotCounted(c, contended) ==
    /\ consecutive_critical' = 0
    /\ consecutive_non_maintenance' =
           IF contended /\ c # "maintenance"
           THEN SaturatingInc(consecutive_non_maintenance) ELSE 0

\* The fairness debt after a grant to class c.
Debt(c, contended) ==
    /\ consecutive_critical' =
           IF contended /\ c = "critical" THEN SaturatingInc(consecutive_critical) ELSE 0
    /\ consecutive_non_maintenance' =
           IF contended /\ c # "maintenance"
           THEN SaturatingInc(consecutive_non_maintenance) ELSE 0

\* How often a waiting class was passed over, for a grant to c that leaves q;
\* the history stops counting one past what the policy allows.
PassedOver(n, burst) == IF n <= AtLeastOne(burst) THEN n + 1 ELSE n
Record(c, q) ==
    /\ bypassed' = IF c = "maintenance" \/ q["maintenance"] = << >> THEN 0
                   ELSE PassedOver(bypassed, MaxNonMaintenanceBurst)
    /\ critical_run' = IF c # "critical" \/ q["interactive"] = << >> THEN 0
                       ELSE PassedOver(critical_run, MaxCriticalBurst)

\* grant_next_locked on the queues q, with the requests as in r: pops the head
\* of the chosen class and makes its reservation.
GrantNext(q, r, newly_uncontended) ==
    IF Waiting(q) = {}
    THEN /\ queue' = q /\ active' = FALSE /\ pc' = r
         /\ UNCHANGED <<counters, history>>
    ELSE LET c == Chosen(q, newly_uncontended)
             w == Head(q[c])
         IN  /\ queue' = [q EXCEPT ![c] = Tail(@)]
             /\ active' = TRUE
             /\ pc' = [r EXCEPT ![w] = IF @ = "dropped" THEN "orphaned" ELSE "selected"]
             /\ Debt(c, Contended(q, newly_uncontended))
             /\ Record(c, [q EXCEPT ![c] = Tail(@)])

\* A waiter that left the maintenance queue has no age there.
AgedWaiters == aged' = {w \in aged : \E i \in DOMAIN queue'["maintenance"] :
                                         queue'["maintenance"][i] = w}

\* Mutant: the writer is freed and nobody is woken.
ReleaseOnly(w) ==
    /\ pc' = [pc EXCEPT ![w] = "idle"] /\ active' = FALSE
    /\ UNCHANGED <<queue, counters, history>>

\* release(): runs in the Drop of the reservation of w.
Release(w) == GrantNext(queue, [pc EXCEPT ![w] = "idle"], FALSE)
-----------------------------------------------------------------------------
Init ==
    /\ queue = [c \in Class |-> << >>]
    /\ active = FALSE
    /\ consecutive_critical = 0
    /\ consecutive_non_maintenance = 0
    /\ pc = [w \in Writers |-> "idle"]
    /\ class = [w \in Writers |-> "interactive"]
    /\ owners = [w \in Writers |-> 0]
    /\ aged = {}
    /\ bypassed = 0
    /\ critical_run = 0

\* acquire(): enqueue the request, and grant at once when nobody is active.
Enqueue(w, c) ==
    LET q == [queue EXCEPT ![c] = Append(@, w)]
        r == [pc EXCEPT ![w] = "queued"]
    IN  /\ pc[w] = "idle"
        /\ class' = [class EXCEPT ![w] = c]
        /\ IF active
           THEN /\ queue' = q /\ pc' = r
                /\ UNCHANGED <<active, counters, history>>
           ELSE GrantNext(q, r, TRUE)
        /\ AgedWaiters
        /\ UNCHANGED owners

\* Mutant: a reservation that cannot be sent is forgotten, not dropped.
DispatchForgets(w) ==
    /\ \/ /\ pc[w] = "selected"
          /\ pc' = [pc EXCEPT ![w] = "granted"]
       \/ /\ pc[w] = "orphaned"
          /\ pc' = [pc EXCEPT ![w] = "idle"]
    /\ UNCHANGED <<queue, active, counters, class, owners, aged, history>>

\* dispatch(): send the reservation; when the receiver is gone the send fails
\* and the reservation is dropped here.
Dispatch(w) ==
    /\ \/ /\ pc[w] = "selected"
          /\ pc' = [pc EXCEPT ![w] = "granted"]
          /\ UNCHANGED <<queue, active, counters, history>>
       \/ /\ pc[w] = "orphaned"
          /\ Release(w)
    /\ AgedWaiters
    /\ UNCHANGED <<class, owners>>

\* SqliteWritePermit::new in the future that receives the reservation.
StartPermit(w) ==
    /\ pc[w] = "granted"
    /\ pc' = [pc EXCEPT ![w] = "holding"]
    /\ owners' = [owners EXCEPT ![w] = 1]
    /\ UNCHANGED <<queue, active, counters, class, aged, history>>

\* begin() on a transaction clones the permit for the savepoint.
BeginNested(w) ==
    /\ pc[w] = "holding"
    /\ owners[w] < MaxOwners
    /\ owners' = [owners EXCEPT ![w] = @ + 1]
    /\ UNCHANGED <<queue, active, counters, pc, class, aged, history>>

\* A statement ends, or a transaction, savepoint or stream is committed,
\* rolled back or dropped; the last owner of the permit releases the writer.
DropOwner(w) ==
    /\ pc[w] = "holding"
    /\ owners' = [owners EXCEPT ![w] = @ - 1]
    /\ IF owners[w] = 1 THEN Release(w)
       ELSE UNCHANGED <<queue, active, counters, pc, history>>
    /\ AgedWaiters
    /\ UNCHANGED class

\* The future of acquire() is dropped: first its receiver, which drops a
\* reservation that was already sent ...  (Between another task's grant and its
\* dispatch(), too; a future inside its own enqueue() cannot be dropped, and
\* letting it be is no different from a drop just after.)
DropReceiver(w) ==
    /\ \/ /\ pc[w] = "queued"
          /\ pc' = [pc EXCEPT ![w] = "dropped"]
          /\ UNCHANGED <<queue, active, counters, history>>
       \/ /\ pc[w] = "selected"
          /\ pc' = [pc EXCEPT ![w] = "orphaned"]
          /\ UNCHANGED <<queue, active, counters, history>>
       \/ /\ pc[w] = "granted"
          /\ Release(w)
    /\ AgedWaiters
    /\ UNCHANGED <<class, owners>>

Without(s, i) == SubSeq(s, 1, i - 1) \o SubSeq(s, i + 1, Len(s))

\* ... then its WaitRegistration, whose cancel() takes a request that is still
\* queued out of its queue and grants the next one when nobody is active.
Cancel(w) ==
    \E i \in DOMAIN queue[class[w]] :
        LET q == [queue EXCEPT ![class[w]] = Without(@, i)]
            r == [pc EXCEPT ![w] = "idle"]
        IN  /\ pc[w] = "dropped"
            /\ queue[class[w]][i] = w
            /\ IF active
               THEN /\ queue' = q /\ pc' = r
                    /\ bypassed' = IF q["maintenance"] = << >> THEN 0 ELSE bypassed
                    /\ critical_run' = IF q["interactive"] = << >> THEN 0 ELSE critical_run
                    /\ UNCHANGED <<active, counters>>
               ELSE GrantNext(q, r, FALSE)
            /\ AgedWaiters
            /\ UNCHANGED <<class, owners>>

\* A maintenance waiter has waited for max_maintenance_wait.
Age(w) ==
    /\ \E i \in DOMAIN queue["maintenance"] : queue["maintenance"][i] = w
    /\ w \notin aged
    /\ aged' = aged \cup {w}
    /\ UNCHANGED <<queue, active, counters, pc, class, owners, history>>
-----------------------------------------------------------------------------
Next ==
    \E w \in Writers :
        \/ \E c \in Class : Enqueue(w, c)
        \/ Dispatch(w) \/ StartPermit(w) \/ BeginNested(w) \/ DropOwner(w)
        \/ DropReceiver(w) \/ Cancel(w) \/ Age(w)

Spec == Init /\ [][Next]_vars

\* Destructors run to their end, a task that received its reservation runs, and
\* the holder of a permit is done with it some day: it does not open savepoints
\* for ever.
FairSpec ==
    /\ Spec
    /\ \A w \in Writers : /\ WF_vars(Dispatch(w))
                          /\ WF_vars(StartPermit(w))
                          /\ WF_vars(Cancel(w))
                          /\ WF_vars(DropOwner(w))
                          /\ SF_vars(owners[w] = 1 /\ DropOwner(w))
-----------------------------------------------------------------------------
TypeOK ==
    /\ queue \in [Class -> Seq(Writers)]
    /\ active \in BOOLEAN
    /\ consecutive_critical \in 0..CounterMax
    /\ consecutive_non_maintenance \in 0..CounterMax
    /\ pc \in [Writers -> Request]
    /\ class \in [Writers -> Class]
    /\ owners \in [Writers -> Nat]
    /\ aged \subseteq Writers
    /\ bypassed \in Nat
    /\ critical_run \in Nat

\* The writers whose reservation exists, wherever it is: on its way, or in a
\* permit that a statement, transaction, savepoint or stream still owns.
Reserved == {w \in Writers : pc[w] \in {"selected", "orphaned", "granted"} \/ owners[w] > 0}

\* The physical writer has one owner at a time, and active says whether it has
\* one: no cancelled, orphaned or nested reservation is leaked or doubled, and a
\* savepoint that outlives its root transaction keeps the writer.
OneReservation ==
    /\ active <=> Reserved # {}
    /\ \A v, w \in Reserved : v = w

\* Nobody waits for an idle writer.  grant_next_locked relies on it: its
\* debug_assert_eq!(class_count, 1) is about a queue that was empty.
IdleWriterHasNoWaiters == ~active => \A c \in Class : queue[c] = << >>

\* While maintenance waits, at most max_non_maintenance_burst other writes are
\* granted in a row, whatever else arrives, is cancelled or contends.
MaintenanceBypassBounded == bypassed <= AtLeastOne(MaxNonMaintenanceBurst)

\* While interactive work waits, at most max_critical_burst critical writes are
\* granted in a row with no other grant between them.
CriticalRunBounded == critical_run <= AtLeastOne(MaxCriticalBurst)

\* A maintenance request that is not dropped is granted, under any load.
MaintenanceProgress ==
    \A w \in Writers :
        (pc[w] = "queued" /\ class[w] = "maintenance") ~> pc[w] # "queued"

\* An interactive request that is not dropped is granted under continuous
\* critical and maintenance load, as long as maintenance does not keep ageing:
\* an aged maintenance waiter goes first and clears the critical debt.
InteractiveProgress ==
    <>[](aged = {}) =>
        \A w \in Writers :
            (pc[w] = "queued" /\ class[w] = "interactive") ~> pc[w] # "queued"
=============================================================================
