---------------------------- MODULE TaskDelivery ----------------------------
(***************************************************************************)
(* The life of one task delivery: the durable row and its attempts          *)
(* (crates/crud/src/task_delivery_lifecycle.rs), the delivery pass that     *)
(* recovers, starts and executes it (crates/tasks/src/service.rs,           *)
(* crates/gateway/src/message/task_delivery.rs), the recovery bookkeeping   *)
(* (crates/crud/src/repositories/task_delivery_recovery.rs) and the         *)
(* cancellation of its task.                                                *)
(*                                                                          *)
(* Every actor reads the row, prepares its event outside the writer, and    *)
(* then commits it in one writer transaction that first decides, from the   *)
(* durable rows alone, whether the event still applies.  A transaction is   *)
(* one step: the writer runs one at a time (WriteAdmission).  The store     *)
(* does not rely on there being one delivery pass, so there is a set of     *)
(* workers here, and each may stop at any point (a crash, a dropped pass).  *)
(*                                                                          *)
(* Time enters only through comparisons: next_attempt_at <= now is dueNow,  *)
(* the same for the `now` a pass began with is membership in due, and       *)
(* updated_at <= now - 300 is stale.                                        *)
(***************************************************************************)
EXTENDS Naturals

CONSTANTS
    Workers,      \* delivery passes that may run at the same time
    MaxAttempts,  \* max_attempts of the delivery
    MaxFaults     \* bound: crashes, failed transactions and lost answers

ASSUME MaxAttemptsAssumption == MaxAttempts \in Nat \ {0}
ASSUME MaxFaultsAssumption == MaxFaults \in Nat

VARIABLES
    row,        \* the task_delivery row
    attempts,   \* status of the task_delivery_attempt rows, by number
    retry,      \* the task_delivery_recovery_retry row, if any
    worker,     \* what each delivery pass carries in memory
    canceller,  \* what the cancellation of the task carries in memory
    faults      \* faults so far

vars == <<row, attempts, retry, worker, canceller, faults>>

Numbers  == 1 .. MaxAttempts
Statuses == {"pending", "delivering", "delivered", "failed", "cancelled"}
Terminal == {"delivered", "failed", "cancelled"}

\* Where a pass stands: between passes, a recovery event prepared, its failure
\* to be recorded, the due list to be read, a due delivery picked, a start
\* prepared, the attempt running, its outcome to be committed by the spawned
\* execution, that commit answered, and the failure to be committed by the pass.
Phases == {"idle", "recovering", "deferring", "listing", "listed", "starting",
           "executing", "completing", "rejecting", "finished", "failing"}

NoRetry  == [attempts |-> 0, ready |-> FALSE]
Resting  == [pc |-> "idle", number |-> 0, seen |-> 0, cooling |-> FALSE]
NoCancel == [pc |-> "idle", count |-> 0, active |-> FALSE]

TypeOK ==
    /\ row \in [status : Statuses, count : 0 .. MaxAttempts,
                due : SUBSET Workers, dueNow : BOOLEAN, stale : BOOLEAN]
    /\ attempts \in [Numbers -> {"none", "started", "delivered", "failed"}]
    /\ retry \in [attempts : 0 .. MaxFaults, ready : BOOLEAN]
    /\ worker \in [Workers -> [pc : Phases, number : 0 .. MaxAttempts + 1,
                               seen : 0 .. MaxFaults, cooling : BOOLEAN]]
    /\ canceller \in [pc : {"idle", "prepared"}, count : 0 .. MaxAttempts,
                      active : BOOLEAN]
    /\ faults \in 0 .. MaxFaults

Init ==
    /\ row = [status |-> "pending", count |-> 0, due |-> {}, dueNow |-> TRUE,
              stale |-> FALSE]
    /\ attempts = [n \in Numbers |-> "none"]
    /\ retry = NoRetry
    /\ worker = [w \in Workers |-> Resting]
    /\ canceller = NoCancel
    /\ faults = 0

-----------------------------------------------------------------------------
(* The decisions of the writer.  "corrupt" stands for every bail! of the    *)
(* code: durable rows that no lifecycle step could have left behind.        *)

\* The status and the attempt budget of the row fit together.
ValidRow ==
    CASE row.status = "pending"   -> row.count < MaxAttempts
      [] row.status = "cancelled" -> TRUE
      [] OTHER                    -> row.count > 0

ExpectedAttempt(status) ==
    CASE status = "delivering" -> "started"
      [] status = "delivered"  -> "delivered"
      [] OTHER                 -> "failed"

\* The row and its exact current attempt agree.
CurrentAttemptAgrees ==
    row.count = 0 \/ attempts[row.count] = ExpectedAttempt(row.status)

\* Mutant: the start trusts the row it read before it waited for the writer.
StartUnchecked(w, n) ==
    IF n <= MaxAttempts THEN "applied" ELSE "superseded"

\* May w start attempt n, as of the time its pass began?
StartPreflight(w, n) ==
    LET wanted == /\ row.status = "pending"
                  /\ row.count + 1 = n
                  /\ w \in row.due
    IN  IF ~ValidRow \/ ~CurrentAttemptAgrees THEN "corrupt"
        ELSE IF ~wanted THEN "superseded"
        ELSE IF row.count < MaxAttempts /\ attempts[n] = "none" THEN "applied"
        ELSE "corrupt"

\* Mutant: the finish asks for a delivery under way, not for its own attempt.
FinishByRowOnly(n) ==
    IF row.status = "delivering" THEN "applied" ELSE "superseded"

\* Is attempt n still the one whose outcome the row waits for?
FinishPreflight(n) ==
    LET current == row.status = "delivering" /\ row.count = n
        overtaken == /\ row.count >= n
                     /\ row.count > n => attempts[n] = "failed"
                     /\ CurrentAttemptAgrees
    IN  IF ~ValidRow \/ attempts[n] = "none" THEN "corrupt"
        ELSE IF attempts[n] = "started"
             THEN IF current THEN "applied" ELSE "corrupt"
        ELSE IF overtaken THEN "superseded" ELSE "corrupt"

\* The rows are those of w's recovery snapshot.  The number of the attempt
\* stands for its id: a number is used for one attempt only.
SnapshotMatches(w) ==
    /\ row.status = "delivering"
    /\ row.count = worker[w].number
    /\ retry.attempts = worker[w].seen

RecoverPreflight(w) ==
    IF ~ValidRow THEN "corrupt"
    ELSE IF ~SnapshotMatches(w) THEN "superseded"
    ELSE FinishPreflight(worker[w].number)

\* Does the prepared cancellation describe the rows as they are?
CancelPreflight ==
    LET current == IF row.count = 0 THEN "failed" ELSE attempts[row.count]
    IN  IF ~ValidRow THEN "corrupt"
        ELSE IF row.status \in Terminal
             THEN IF CurrentAttemptAgrees THEN "omitted" ELSE "corrupt"
        ELSE IF row.count # canceller.count THEN "changed"
        ELSE IF row.status = "delivering"
             THEN IF current # "started" THEN "corrupt"
                  ELSE IF canceller.active THEN "applied" ELSE "changed"
        ELSE IF canceller.active THEN "changed"
        ELSE IF current = "failed" THEN "applied" ELSE "corrupt"

-----------------------------------------------------------------------------
(* What an applied event writes.  A changed row deletes its retry row (a    *)
(* trigger of the recovery migration).                                      *)

Begun(n) ==
    /\ row' = [status |-> "delivering", count |-> n, due |-> {},
               dueNow |-> FALSE, stale |-> FALSE]
    /\ attempts' = [attempts EXCEPT ![n] = "started"]
    /\ retry' = NoRetry

Ended(status, n, outcome, due, dueNow) ==
    /\ row' = [status |-> status, count |-> row.count, due |-> due,
               dueNow |-> dueNow, stale |-> FALSE]
    /\ attempts' = IF n = 0 THEN attempts
                            ELSE [attempts EXCEPT ![n] = outcome]
    /\ retry' = NoRetry

Delivered(n) == Ended("delivered", n, "delivered", {}, FALSE)

\* The next attempt is 60 seconds away, hence due for no pass under way.
FailedAttempt(n) ==
    IF n < MaxAttempts
    THEN Ended("pending", n, "failed", {}, FALSE)
    ELSE Ended("failed", n, "failed", {}, FALSE)

\* Recovery makes the next attempt due at the time its own pass began: also
\* due for the passes that began later, and not for the earlier ones.
Recovered(w, n) ==
    IF n < MaxAttempts
    THEN \E later \in SUBSET Workers :
            Ended("pending", n, "failed", later \cup {w}, TRUE)
    ELSE Ended("failed", n, "failed", {}, FALSE)

Unwritten == UNCHANGED <<row, attempts, retry>>

-----------------------------------------------------------------------------
(* Steps of a pass. *)

Goto(w, pc) == worker' = [worker EXCEPT ![w].pc = pc]

Rest(w, cooling) ==
    worker' = [worker EXCEPT ![w] = [Resting EXCEPT !.cooling = cooling]]

Fault == faults < MaxFaults /\ faults' = faults + 1

\* One writer transaction.  It commits and is answered, or it fails and leaves
\* no trace, or it commits and the answer is lost: the last two are the same
\* Err to the caller.
Transaction(decision, Write, OnOk, OnErr) ==
    \/ /\ decision # "corrupt"
       /\ IF decision = "applied" THEN Write ELSE Unwritten
       /\ OnOk
       /\ UNCHANGED faults
    \/ /\ decision = "corrupt"
       /\ Unwritten
       /\ OnErr
       /\ UNCHANGED faults
    \/ /\ Fault
       /\ \/ Unwritten
          \/ decision = "applied" /\ Write
       /\ OnErr

\* Mutant: a deferred recovery is never probed again.
EligibleOnce == row.status = "delivering" /\ row.stale /\ retry.attempts = 0

\* The row is stuck as far as recovery can tell.
Eligible ==
    /\ row.status = "delivering"
    /\ row.stale
    /\ retry.attempts = 0 \/ retry.ready

\* A pass begins: it reads the clock, and recovery prepares the failure of the
\* attempt that looks stuck, unless it is cooling down.
TakeSnapshot(w) ==
    /\ worker[w].pc = "idle"
    /\ ~worker[w].cooling
    /\ Eligible
    /\ worker' = [worker EXCEPT ![w] = [Resting EXCEPT
                     !.pc = "recovering", !.number = row.count,
                     !.seen = retry.attempts]]
    /\ UNCHANGED <<row, attempts, retry, canceller, faults>>

\* A pass without a recovery knows whether the row was due when it began.
NoteDue(w) == row' = [row EXCEPT !.due = IF row.dueNow THEN @ \cup {w} ELSE @ \ {w}]

SkipRecovery(w) ==
    /\ worker[w].pc = "idle"
    /\ worker[w].cooling \/ ~Eligible
    /\ Goto(w, "listing")
    /\ NoteDue(w)
    /\ UNCHANGED <<attempts, retry, canceller, faults>>

\* The candidates or the snapshot cannot be read: nothing may be repaired, the
\* next passes skip recovery for a while, and this one goes on.
RecoveryUnavailable(w) ==
    /\ worker[w].pc = "idle"
    /\ ~worker[w].cooling
    /\ Fault
    /\ worker' = [worker EXCEPT ![w].pc = "listing", ![w].cooling = TRUE]
    /\ NoteDue(w)
    /\ UNCHANGED <<attempts, retry, canceller>>

\* A row the snapshot no longer matches is left to whoever changed it.
RecoverStuck(w) ==
    /\ worker[w].pc = "recovering"
    /\ Transaction(RecoverPreflight(w), Recovered(w, worker[w].number),
                   Goto(w, "listing"), Goto(w, "deferring"))
    /\ UNCHANGED canceller

\* The failure is recorded with a backoff, if the snapshot still matches; when
\* that fails too, the next passes skip recovery for a while.
DeferRecovery(w) ==
    /\ worker[w].pc = "deferring"
    /\ \/ /\ retry' = IF SnapshotMatches(w)
                      THEN [attempts |-> worker[w].seen + 1, ready |-> FALSE]
                      ELSE retry
          /\ Goto(w, "listing")
          /\ UNCHANGED faults
       \/ /\ Fault
          /\ worker' = [worker EXCEPT ![w].pc = "listing", ![w].cooling = TRUE]
          /\ UNCHANGED retry
    /\ UNCHANGED <<row, attempts, canceller>>

ListDue(w) ==
    /\ worker[w].pc = "listing"
    /\ IF row.status = "pending" /\ w \in row.due
       THEN Goto(w, "listed")
       ELSE Rest(w, worker[w].cooling)
    /\ UNCHANGED <<row, attempts, retry, canceller, faults>>

\* start_delivery reads the row again and prepares the next attempt whatever
\* its status has become: only the writer may grant it.
PrepareStart(w) ==
    /\ worker[w].pc = "listed"
    /\ worker' = [worker EXCEPT ![w].pc = "starting",
                                ![w].number = row.count + 1]
    /\ UNCHANGED <<row, attempts, retry, canceller, faults>>

StartDelivery(w) ==
    /\ worker[w].pc = "starting"
    /\ LET n == worker[w].number
           decision == StartPreflight(w, n)
       IN  Transaction(decision, Begun(n),
                       IF decision = "applied" THEN Goto(w, "executing")
                       ELSE Rest(w, worker[w].cooling),
                       Rest(w, worker[w].cooling))
    /\ UNCHANGED canceller

\* The destination accepts the result, a webhook rejects it, or the execution
\* ends in an error or a panic.
ExecuteDelivery(w) ==
    /\ worker[w].pc = "executing"
    /\ \E outcome \in {"completing", "rejecting", "failing"} : Goto(w, outcome)
    /\ UNCHANGED <<row, attempts, retry, canceller, faults>>

\* The spawned execution commits its outcome itself.
FinishExecution(w) ==
    /\ worker[w].pc \in {"completing", "rejecting"}
    /\ LET n == worker[w].number
       IN  Transaction(FinishPreflight(n),
                       IF worker[w].pc = "completing" THEN Delivered(n)
                       ELSE FailedAttempt(n),
                       Goto(w, "finished"), Goto(w, "failing"))
    /\ UNCHANGED canceller

\* The 60 second limit of the pass ends the execution wherever it is, also
\* after a commit whose answer the pass has not seen.
TimeOut(w) ==
    /\ worker[w].pc \in {"executing", "completing", "rejecting", "finished"}
    /\ Goto(w, "failing")
    /\ UNCHANGED <<row, attempts, retry, canceller, faults>>

ReturnFromExecution(w) ==
    /\ worker[w].pc = "finished"
    /\ Rest(w, worker[w].cooling)
    /\ UNCHANGED <<row, attempts, retry, canceller, faults>>

\* The pass fails the attempt; an error here ends the pass.
FailDelivery(w) ==
    /\ worker[w].pc = "failing"
    /\ LET n == worker[w].number
       IN  Transaction(FinishPreflight(n), FailedAttempt(n),
                       Rest(w, worker[w].cooling), Rest(w, worker[w].cooling))
    /\ UNCHANGED canceller

\* The process stops, or the pass is dropped, and its memory is lost.
Crash(w) ==
    /\ worker[w].pc # "idle"
    /\ Fault
    /\ Rest(w, FALSE)
    /\ UNCHANGED <<row, attempts, retry, canceller>>

-----------------------------------------------------------------------------
(* Cancellation of the task. *)

\* The row is read, with its active attempt when it is being delivered.
PrepareCancel ==
    /\ canceller.pc = "idle"
    /\ row.status \notin Terminal
    /\ canceller' = [pc |-> "prepared", count |-> row.count,
                     active |-> row.status = "delivering"]
    /\ UNCHANGED <<row, attempts, retry, worker, faults>>

\* Mutant: the cancellation forgets the running attempt.
CancelKeepsAttempt ==
    /\ canceller.pc = "prepared"
    /\ Transaction(CancelPreflight, Ended("cancelled", 0, "failed", {}, FALSE),
                   canceller' = NoCancel, canceller' = NoCancel)
    /\ UNCHANGED worker

\* A snapshot that changed is read again by the next PrepareCancel.
CancelDelivery ==
    /\ canceller.pc = "prepared"
    /\ Transaction(CancelPreflight,
                   Ended("cancelled", IF canceller.active THEN row.count ELSE 0,
                         "failed", {}, FALSE),
                   canceller' = NoCancel, canceller' = NoCancel)
    /\ UNCHANGED worker

-----------------------------------------------------------------------------
(* The clock. *)

BecomeDue ==
    /\ row.status = "pending"
    /\ ~row.dueNow
    /\ row' = [row EXCEPT !.dueNow = TRUE]
    /\ UNCHANGED <<attempts, retry, worker, canceller, faults>>

BecomeStale ==
    /\ row.status = "delivering"
    /\ ~row.stale
    /\ row' = [row EXCEPT !.stale = TRUE]
    /\ UNCHANGED <<attempts, retry, worker, canceller, faults>>

BackoffEnds ==
    /\ retry.attempts > 0
    /\ ~retry.ready
    /\ retry' = [retry EXCEPT !.ready = TRUE]
    /\ UNCHANGED <<row, attempts, worker, canceller, faults>>

\* retry_at is an instant: it passes whatever the worker does.
CooldownEnds(w) ==
    /\ worker[w].cooling
    /\ worker' = [worker EXCEPT ![w].cooling = FALSE]
    /\ UNCHANGED <<row, attempts, retry, canceller, faults>>

Clock == BecomeDue \/ BecomeStale \/ BackoffEnds

\* What a running pass does of its own accord.
Pass(w) ==
    \/ TakeSnapshot(w) \/ SkipRecovery(w) \/ RecoveryUnavailable(w)
    \/ RecoverStuck(w) \/ DeferRecovery(w) \/ ListDue(w) \/ PrepareStart(w)
    \/ StartDelivery(w) \/ ExecuteDelivery(w) \/ FinishExecution(w) \/ TimeOut(w)
    \/ ReturnFromExecution(w) \/ FailDelivery(w)

Next ==
    \/ \E w \in Workers : Pass(w) \/ Crash(w) \/ CooldownEnds(w)
    \/ PrepareCancel
    \/ CancelDelivery
    \/ Clock

Spec == Init /\ [][Next]_vars

\* A gateway's task worker loops for ever, an execution is bounded by its
\* timeout, and time passes.
FairSpec ==
    /\ Spec
    /\ \A w \in Workers : WF_vars(Pass(w)) /\ WF_vars(CooldownEnds(w))
    /\ WF_vars(BecomeDue) /\ WF_vars(BecomeStale) /\ WF_vars(BackoffEnds)
-----------------------------------------------------------------------------
(* Properties. *)

\* Every row the lifecycle leaves behind is one its own checks accept: whatever
\* a pass, a recovery or a cancellation prepared before it waited for the
\* writer, its transaction finds its event current or superseded and never
\* takes one of the bail! branches of transition_task_delivery_once and
\* preflight_cancellation ("an open old attempt is corruption, not an expected
\* race").
NoCorruption ==
    /\ \A w \in Workers :
          /\ worker[w].pc = "recovering" => RecoverPreflight(w) # "corrupt"
          /\ worker[w].pc = "starting" =>
                StartPreflight(w, worker[w].number) # "corrupt"
          /\ worker[w].pc \in {"completing", "rejecting", "failing"} =>
                FinishPreflight(worker[w].number) # "corrupt"
    /\ canceller.pc = "prepared" => CancelPreflight # "corrupt"

\* Two passes never execute the same attempt: start_delivery grants a number
\* once, although both may have read the same due row, crashed and come back.
Executing(w) ==
    worker[w].pc \in {"executing", "completing", "rejecting", "finished",
                      "failing"}

SoleOwner ==
    \A v, w \in Workers :
        v # w /\ Executing(v) /\ Executing(w) =>
            worker[v].number # worker[w].number

\* A losing worker has no durable effect: a late completion, failure, recovery
\* or cancellation never rewrites a closed attempt, never reopens a terminal
\* delivery and never takes an attempt number back.
ClosedStaysClosed ==
    [][/\ row.status \in Terminal =>
            row'.status = row.status /\ row'.count = row.count
       /\ row'.count >= row.count
       /\ \A n \in Numbers :
            attempts[n] \in {"delivered", "failed"} =>
                attempts'[n] = attempts[n]]_vars

\* Whatever stops a pass between its steps, recovery and the retries bring the
\* delivery to an end: delivered, failed or cancelled.
DeliverySettles == <>[](row.status \in Terminal)
=============================================================================
