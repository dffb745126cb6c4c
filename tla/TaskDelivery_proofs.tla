------------------------ MODULE TaskDelivery_proofs ------------------------
(***************************************************************************)
(* Proofs about TaskDelivery, for any number of delivery passes, attempts   *)
(* and faults.                                                              *)
(*                                                                          *)
(* The argument has two halves.  What the transactions do to the durable    *)
(* rows is one of four steps (RowStep), whatever an actor prepared before   *)
(* it waited for the writer; a row step keeps the rows in the shape their   *)
(* own checks ask for (RowsSound) and closes attempts for good.  What a     *)
(* pass carries in memory is only ever behind the rows, never ahead of them *)
(* (Carried): that is why a prepared event is current or superseded, and    *)
(* never corrupt, and why an attempt number is granted once.                *)
(***************************************************************************)
EXTENDS TaskDelivery, TLAPS

-----------------------------------------------------------------------------
(* The inductive invariant. *)

\* The attempts before the current one failed, and there is none after it.
RowsSound ==
    /\ ValidRow
    /\ CurrentAttemptAgrees
    /\ \A n \in Numbers : n < row.count => attempts[n] = "failed"
    /\ \A n \in Numbers : row.count < n => attempts[n] = "none"

\* A pass carries the number of an attempt that was granted, or, while it
\* prepares a start, the number of a possible one.
Carried ==
    \A w \in Workers :
        /\ worker[w].pc = "recovering" \/ Executing(w) =>
               worker[w].number \in 1 .. row.count
        /\ worker[w].pc = "starting" => worker[w].number > 0

\* A recovery is deferred for a fault only: rows are never corrupt.
DeferralsCounted ==
    /\ retry.attempts <= faults
    /\ \A w \in Workers :
        /\ worker[w].seen <= faults
        /\ worker[w].pc = "deferring" => worker[w].seen < faults

IInv == TypeOK /\ RowsSound /\ Carried /\ DeferralsCounted /\ SoleOwner

-----------------------------------------------------------------------------
(* What a step does to the durable rows. *)

RowsKept ==
    /\ row'.status = row.status
    /\ row'.count = row.count
    /\ attempts' = attempts

AttemptGranted ==
    /\ row.status = "pending"
    /\ row.count < MaxAttempts
    /\ row'.status = "delivering"
    /\ row'.count = row.count + 1
    /\ attempts' = [attempts EXCEPT ![row.count + 1] = "started"]

AttemptClosed ==
    /\ row.status = "delivering"
    /\ row'.status \in Statuses \ {"delivering"}
    /\ row'.status = "pending" => row.count < MaxAttempts
    /\ row'.count = row.count
    /\ attempts' = [attempts EXCEPT ![row.count] = ExpectedAttempt(row'.status)]

PendingCancelled ==
    /\ row.status = "pending"
    /\ row'.status = "cancelled"
    /\ row'.count = row.count
    /\ attempts' = attempts

RowStep == RowsKept \/ AttemptGranted \/ AttemptClosed \/ PendingCancelled

\* What ClosedStaysClosed says of one step.
Closing ==
    /\ row.status \in Terminal =>
         row'.status = row.status /\ row'.count = row.count
    /\ row'.count >= row.count
    /\ \A n \in Numbers :
         attempts[n] \in {"delivered", "failed"} => attempts'[n] = attempts[n]

\* The fields of the row that the checks read have their types.
LEMMA RowTypes ==
    ASSUME TypeOK
    PROVE  /\ row.status \in Statuses
           /\ row.count \in 0 .. MaxAttempts
           /\ row.count \in Nat
           /\ MaxAttempts \in Nat
           /\ MaxAttempts > 0
           /\ \A n \in Numbers :
                attempts[n] \in {"none", "started", "delivered", "failed"}
  BY MaxAttemptsAssumption DEF TypeOK, Numbers

\* A row step leaves rows that the preflights accept.
LEMMA RowStepSound ==
    ASSUME TypeOK, TypeOK', RowsSound, RowStep
    PROVE  RowsSound'
  <1>1. /\ row.status \in Statuses /\ row.count \in 0 .. MaxAttempts
        /\ row'.status \in Statuses /\ row'.count \in 0 .. MaxAttempts
        /\ MaxAttempts \in Nat /\ MaxAttempts > 0
        /\ attempts \in [Numbers -> {"none", "started", "delivered", "failed"}]
    BY MaxAttemptsAssumption DEF TypeOK
  <1>2. CASE RowsKept
    BY <1>1, <1>2 DEF RowsKept, RowsSound, ValidRow, CurrentAttemptAgrees,
                      ExpectedAttempt
  <1>3. CASE AttemptGranted
    <2>1. row.count + 1 \in Numbers
      BY <1>1, <1>3 DEF AttemptGranted, Numbers
    <2>2. row.count = 0 \/ attempts[row.count] = "failed"
      BY <1>3 DEF AttemptGranted, RowsSound, CurrentAttemptAgrees,
                  ExpectedAttempt
    <2>3. ValidRow' /\ CurrentAttemptAgrees'
      BY <1>1, <1>3, <2>1 DEF AttemptGranted, ValidRow, CurrentAttemptAgrees,
                              ExpectedAttempt
    <2>4. ASSUME NEW n \in Numbers
          PROVE  /\ n < row'.count => attempts'[n] = "failed"
                 /\ row'.count < n => attempts'[n] = "none"
      BY <1>1, <1>3, <2>1, <2>2 DEF AttemptGranted, RowsSound, Numbers
    <2> QED  BY <2>3, <2>4 DEF RowsSound
  <1>4. CASE AttemptClosed
    <2>1. row.count > 0 /\ row.count \in Numbers
      BY <1>1, <1>4 DEF AttemptClosed, RowsSound, ValidRow, Numbers
    <2>2. ValidRow' /\ CurrentAttemptAgrees'
      BY <1>1, <1>4, <2>1 DEF AttemptClosed, ValidRow, CurrentAttemptAgrees,
                              ExpectedAttempt, Statuses
    <2>3. ASSUME NEW n \in Numbers
          PROVE  /\ n < row'.count => attempts'[n] = "failed"
                 /\ row'.count < n => attempts'[n] = "none"
      BY <1>1, <1>4, <2>1 DEF AttemptClosed, RowsSound, Numbers
    <2> QED  BY <2>2, <2>3 DEF RowsSound
  <1>5. CASE PendingCancelled
    BY <1>1, <1>5 DEF PendingCancelled, RowsSound, ValidRow,
                      CurrentAttemptAgrees, ExpectedAttempt
  <1> QED  BY <1>2, <1>3, <1>4, <1>5 DEF RowStep

\* A row step closes attempts and deliveries for good.
LEMMA RowStepCloses ==
    ASSUME TypeOK, RowsSound, RowStep
    PROVE  Closing
  <1>1. /\ row.status \in Statuses /\ row.count \in 0 .. MaxAttempts
        /\ MaxAttempts \in Nat
        /\ attempts \in [Numbers -> {"none", "started", "delivered", "failed"}]
    BY MaxAttemptsAssumption DEF TypeOK
  <1>2. CASE RowsKept
    BY <1>1, <1>2 DEF RowsKept, Closing
  <1>3. CASE AttemptGranted
    <2>1. row.count + 1 \in Numbers /\ attempts[row.count + 1] = "none"
      BY <1>1, <1>3 DEF AttemptGranted, RowsSound, Numbers
    <2> QED  BY <1>1, <1>3, <2>1 DEF AttemptGranted, Closing, Terminal
  <1>4. CASE AttemptClosed
    <2>1. row.count \in Numbers /\ attempts[row.count] = "started"
      BY <1>1, <1>4 DEF AttemptClosed, RowsSound, ValidRow, Numbers,
                        CurrentAttemptAgrees, ExpectedAttempt
    <2> QED  BY <1>1, <1>4, <2>1 DEF AttemptClosed, Closing, Terminal
  <1>5. CASE PendingCancelled
    BY <1>1, <1>5 DEF PendingCancelled, Closing, Terminal
  <1> QED  BY <1>2, <1>3, <1>4, <1>5 DEF RowStep

-----------------------------------------------------------------------------
(* The decisions of the writer over sound rows. *)

\* A prepared start is granted for the next number of a pending row only, and
\* is superseded otherwise.
LEMMA StartDecision ==
    ASSUME TypeOK, RowsSound, NEW w \in Workers, NEW n \in Nat \ {0}
    PROVE  /\ StartPreflight(w, n) \in {"applied", "superseded"}
           /\ StartPreflight(w, n) = "applied" =>
                /\ row.status = "pending"
                /\ row.count < MaxAttempts
                /\ n = row.count + 1
  <1>1. /\ row.count \in 0 .. MaxAttempts
        /\ MaxAttempts \in Nat
    BY MaxAttemptsAssumption DEF TypeOK
  <1>2. ValidRow /\ CurrentAttemptAgrees
    BY DEF RowsSound
  <1> DEFINE wanted == /\ row.status = "pending"
                       /\ row.count + 1 = n
                       /\ w \in row.due
  <1>3. CASE wanted
    <2>1. row.count < MaxAttempts
      BY <1>2, <1>3 DEF ValidRow
    <2>2. attempts[n] = "none"
      BY <1>1, <1>3, <2>1 DEF RowsSound, Numbers
    <2>3. StartPreflight(w, n) = "applied"
      BY <1>2, <1>3, <2>1, <2>2 DEF StartPreflight
    <2> QED  BY <1>1, <1>3, <2>1, <2>3
  <1>4. CASE ~wanted
    <2>1. StartPreflight(w, n) = "superseded"
      BY <1>2, <1>4 DEF StartPreflight
    <2> QED  BY <2>1
  <1> QED  BY <1>3, <1>4

\* The outcome of a granted attempt applies while the row waits for it, and is
\* superseded otherwise.
LEMMA FinishDecision ==
    ASSUME TypeOK, RowsSound, NEW n \in 1 .. row.count
    PROVE  /\ FinishPreflight(n) \in {"applied", "superseded"}
           /\ FinishPreflight(n) = "applied" =>
                row.status = "delivering" /\ row.count = n
  <1>1. /\ row.count \in 0 .. MaxAttempts
        /\ MaxAttempts \in Nat
        /\ n \in Numbers
        /\ row.count > 0
        /\ row.status \in Statuses
    BY MaxAttemptsAssumption DEF TypeOK, Numbers
  <1>2. ValidRow /\ CurrentAttemptAgrees
    BY DEF RowsSound
  <1>3. CASE n < row.count
    <2>1. attempts[n] = "failed"
      BY <1>1, <1>3 DEF RowsSound
    <2>2. FinishPreflight(n) = "superseded"
      BY <1>1, <1>2, <1>3, <2>1 DEF FinishPreflight
    <2> QED  BY <2>2
  <1>4. CASE n = row.count
    <2>1. attempts[n] = ExpectedAttempt(row.status)
      BY <1>1, <1>2, <1>4 DEF CurrentAttemptAgrees
    <2>2. CASE row.status = "delivering"
      <3>1. attempts[n] = "started"
        BY <2>1, <2>2 DEF ExpectedAttempt
      <3>2. FinishPreflight(n) = "applied"
        BY <1>2, <1>4, <2>2, <3>1 DEF FinishPreflight
      <3> QED  BY <1>4, <2>2, <3>2
    <2>3. CASE row.status # "delivering"
      <3>1. attempts[n] \in {"failed", "delivered"}
        BY <2>1, <2>3 DEF ExpectedAttempt
      <3>2. FinishPreflight(n) = "superseded"
        BY <1>1, <1>2, <1>4, <3>1 DEF FinishPreflight
      <3> QED  BY <3>2
    <2> QED  BY <2>2, <2>3
  <1> QED  BY <1>1, <1>3, <1>4

\* A recovery fails the attempt it looked at, if that is still the current one.
LEMMA RecoverDecision ==
    ASSUME TypeOK, RowsSound, NEW w \in Workers,
           worker[w].number \in 1 .. row.count
    PROVE  /\ RecoverPreflight(w) \in {"applied", "superseded"}
           /\ RecoverPreflight(w) = "applied" =>
                row.status = "delivering" /\ row.count = worker[w].number
  <1>1. ValidRow
    BY DEF RowsSound
  <1>2. /\ FinishPreflight(worker[w].number) \in {"applied", "superseded"}
        /\ FinishPreflight(worker[w].number) = "applied" =>
             row.status = "delivering" /\ row.count = worker[w].number
    BY FinishDecision
  <1> QED  BY <1>1, <1>2 DEF RecoverPreflight

\* A cancellation applies to rows that are open and as they were prepared for.
LEMMA CancelDecision ==
    ASSUME TypeOK, RowsSound
    PROVE  /\ CancelPreflight \in {"applied", "omitted", "changed"}
           /\ CancelPreflight = "applied" =>
                \/ row.status = "delivering" /\ canceller.active
                \/ row.status = "pending" /\ ~canceller.active
  <1>1. ValidRow /\ CurrentAttemptAgrees
    BY DEF RowsSound
  <1>2. row.status \in Statuses /\ row.count \in Nat
    BY RowTypes
  <1>3. CASE row.status \in Terminal
    <2>1. CancelPreflight = "omitted"
      BY <1>1, <1>3 DEF CancelPreflight
    <2> QED  BY <2>1
  <1>4. CASE row.status = "delivering"
    <2>1. row.count # 0 /\ attempts[row.count] = "started"
      BY <1>1, <1>2, <1>4 DEF ValidRow, CurrentAttemptAgrees, ExpectedAttempt
    <2> QED  BY <1>1, <1>4, <2>1 DEF CancelPreflight, Terminal
  <1>5. CASE row.status = "pending"
    <2>1. row.count = 0 \/ attempts[row.count] = "failed"
      BY <1>1, <1>5 DEF CurrentAttemptAgrees, ExpectedAttempt
    <2> QED  BY <1>1, <1>5, <2>1 DEF CancelPreflight, Terminal
  <1> QED  BY <1>2, <1>3, <1>4, <1>5 DEF Statuses, Terminal

\* Rows and memory that satisfy the invariant are never corrupt.
LEMMA NeverCorrupt ==
    ASSUME IInv
    PROVE  NoCorruption
  <1> USE DEF IInv
  <1>1. ASSUME NEW w \in Workers, worker[w].pc = "recovering"
        PROVE  RecoverPreflight(w) # "corrupt"
    BY <1>1, RecoverDecision DEF Carried
  <1>2. ASSUME NEW w \in Workers, worker[w].pc = "starting"
        PROVE  StartPreflight(w, worker[w].number) # "corrupt"
    <2>1. worker[w].number \in Nat \ {0}
      BY <1>2, MaxAttemptsAssumption DEF Carried, TypeOK
    <2> QED  BY <2>1, StartDecision
  <1>3. ASSUME NEW w \in Workers,
               worker[w].pc \in {"completing", "rejecting", "failing"}
        PROVE  FinishPreflight(worker[w].number) # "corrupt"
    BY <1>3, FinishDecision DEF Carried, Executing
  <1>4. CancelPreflight # "corrupt"
    BY CancelDecision
  <1> QED  BY <1>1, <1>2, <1>3, <1>4 DEF NoCorruption

-----------------------------------------------------------------------------
(* The durable half of a step. *)

RowType == [status : Statuses, count : 0 .. MaxAttempts,
            due : SUBSET Workers, dueNow : BOOLEAN, stale : BOOLEAN]

AttemptsType == [Numbers -> {"none", "started", "delivered", "failed"}]

RetryType == [attempts : 0 .. MaxFaults, ready : BOOLEAN]

MemoryType == [pc : Phases, number : 0 .. MaxAttempts + 1,
               seen : 0 .. MaxFaults, cooling : BOOLEAN]

CancellerType == [pc : {"idle", "prepared"}, count : 0 .. MaxAttempts,
                  active : BOOLEAN]

\* The rows take a row step and keep their types, and so does the count of
\* faults.
DurableStep ==
    /\ RowStep
    /\ row' \in RowType
    /\ attempts' \in AttemptsType
    /\ retry' \in RetryType
    /\ faults' \in 0 .. MaxFaults
    /\ faults <= faults'
    /\ retry'.attempts <= faults'

\* A transaction that writes nothing, and any step outside the writer.
LEMMA NothingWritten ==
    ASSUME TypeOK, DeferralsCounted, Unwritten, UNCHANGED faults \/ Fault
    PROVE  DurableStep
  <1>1. row' \in RowType /\ attempts' \in AttemptsType /\ retry' \in RetryType
    BY DEF TypeOK, Unwritten, RowType, AttemptsType, RetryType
  <1>2. faults \in 0 .. MaxFaults /\ MaxFaults \in Nat
        /\ retry.attempts \in 0 .. MaxFaults
    BY MaxFaultsAssumption DEF TypeOK
  <1>3. faults' \in 0 .. MaxFaults /\ faults <= faults'
    BY <1>2 DEF Fault
  <1>4. retry'.attempts <= faults'
    BY <1>2, <1>3 DEF DeferralsCounted, Unwritten
  <1>5. RowStep
    BY DEF RowStep, RowsKept, Unwritten
  <1> QED  BY <1>1, <1>3, <1>4, <1>5 DEF DurableStep

\* A row rewritten from scratch forgets its deferred recoveries.
LEMMA RowsWritten ==
    ASSUME TypeOK, RowStep, row' \in RowType, attempts' \in AttemptsType,
           retry' = NoRetry, UNCHANGED faults \/ Fault
    PROVE  DurableStep
  <1>1. faults \in 0 .. MaxFaults /\ MaxFaults \in Nat
    BY MaxFaultsAssumption DEF TypeOK
  <1>2. faults' \in 0 .. MaxFaults /\ faults <= faults'
    BY <1>1 DEF Fault
  <1>3. retry' \in RetryType /\ retry'.attempts <= faults'
    BY <1>1, <1>2 DEF NoRetry, RetryType
  <1> QED  BY <1>2, <1>3 DEF DurableStep

\* The granted start.
LEMMA BegunStep ==
    ASSUME TypeOK, row.status = "pending", row.count < MaxAttempts,
           Begun(row.count + 1), UNCHANGED faults \/ Fault
    PROVE  DurableStep /\ row'.count = row.count + 1
  <1>1. /\ row.count \in 0 .. MaxAttempts
        /\ MaxAttempts \in Nat
        /\ attempts \in AttemptsType
    BY MaxAttemptsAssumption DEF TypeOK, AttemptsType
  <1>2. row' \in RowType /\ row'.count = row.count + 1
    BY <1>1 DEF Begun, RowType, Statuses
  <1>3. attempts' \in AttemptsType
    BY <1>1 DEF Begun, AttemptsType
  <1>4. RowStep
    BY <1>1 DEF Begun, RowStep, AttemptGranted
  <1> QED  BY <1>2, <1>3, <1>4, RowsWritten DEF Begun

\* Every applied outcome of the current attempt.
LEMMA EndedStep ==
    ASSUME TypeOK, RowsSound, row.status = "delivering",
           NEW status \in Statuses \ {"delivering"},
           status = "pending" => row.count < MaxAttempts,
           NEW due \in SUBSET Workers, NEW dueNow \in BOOLEAN,
           Ended(status, row.count, ExpectedAttempt(status), due, dueNow),
           UNCHANGED faults \/ Fault
    PROVE  DurableStep /\ row'.count = row.count
  <1>1. /\ row.count \in 0 .. MaxAttempts
        /\ MaxAttempts \in Nat
        /\ attempts \in AttemptsType
    BY MaxAttemptsAssumption DEF TypeOK, AttemptsType
  <1>2. row.count # 0
    BY <1>1 DEF RowsSound, ValidRow
  <1>3. row' \in RowType /\ row'.count = row.count /\ row'.status = status
    BY <1>1 DEF Ended, RowType
  <1>4. attempts' = [attempts EXCEPT ![row.count] = ExpectedAttempt(status)]
    BY <1>2 DEF Ended
  <1>5. attempts' \in AttemptsType
    BY <1>1, <1>4 DEF AttemptsType, ExpectedAttempt
  <1>6. RowStep
    BY <1>3, <1>4 DEF RowStep, AttemptClosed
  <1> QED  BY <1>3, <1>5, <1>6, RowsWritten DEF Ended

\* The outcome of an execution, and a recovery, end the current attempt.
LEMMA OutcomeStep ==
    ASSUME TypeOK, RowsSound, row.status = "delivering",
           NEW n, n = row.count, NEW w \in Workers,
           Delivered(n) \/ FailedAttempt(n) \/ Recovered(w, n),
           UNCHANGED faults \/ Fault
    PROVE  DurableStep /\ row'.count = row.count
  <1>1. row.count \in 0 .. MaxAttempts /\ MaxAttempts \in Nat
    BY MaxAttemptsAssumption DEF TypeOK
  <1>2. CASE Delivered(n)
    <2>1. ExpectedAttempt("delivered") = "delivered"
      BY DEF ExpectedAttempt
    <2> QED  BY <1>2, <2>1, EndedStep DEF Delivered, Statuses
  <1>3. ExpectedAttempt("pending") = "failed" /\ ExpectedAttempt("failed") = "failed"
    BY DEF ExpectedAttempt
  <1>4. CASE FailedAttempt(n)
    BY <1>1, <1>3, <1>4, EndedStep DEF FailedAttempt, Statuses
  <1>5. CASE Recovered(w, n)
    <2>1. CASE n < MaxAttempts
      <3>1. PICK later \in SUBSET Workers :
              Ended("pending", n, "failed", later \cup {w}, TRUE)
        BY <1>5, <2>1 DEF Recovered
      <3>2. later \cup {w} \in SUBSET Workers
        OBVIOUS
      <3> QED  BY <1>3, <2>1, <3>1, <3>2, EndedStep DEF Statuses
    <2>2. CASE ~(n < MaxAttempts)
      BY <1>3, <1>5, <2>2, EndedStep DEF Recovered, Statuses
    <2> QED  BY <2>1, <2>2
  <1> QED  BY <1>2, <1>4, <1>5

\* An applied cancellation ends the running attempt, or a pending delivery.
LEMMA CancelledStep ==
    ASSUME TypeOK, RowsSound, CancelPreflight = "applied",
           Ended("cancelled", IF canceller.active THEN row.count ELSE 0,
                 "failed", {}, FALSE),
           UNCHANGED faults \/ Fault
    PROVE  DurableStep /\ row'.count = row.count
  <1>1. /\ row.count \in 0 .. MaxAttempts
        /\ attempts \in AttemptsType
    BY MaxAttemptsAssumption DEF TypeOK, AttemptsType
  <1>2. CASE row.status = "delivering" /\ canceller.active
    <2>1. ExpectedAttempt("cancelled") = "failed"
      BY DEF ExpectedAttempt
    <2>2. Ended("cancelled", row.count, "failed", {}, FALSE)
      BY <1>2 DEF Ended
    <2> QED  BY <1>2, <2>1, <2>2, EndedStep DEF Statuses
  <1>3. CASE row.status = "pending" /\ ~canceller.active
    <2>1. row' \in RowType /\ row'.count = row.count /\ attempts' = attempts
          /\ row'.status = "cancelled" /\ retry' = NoRetry
      BY <1>1, <1>3 DEF Ended, RowType, Statuses
    <2>2. RowStep
      BY <1>3, <2>1 DEF RowStep, PendingCancelled
    <2> QED  BY <1>1, <2>1, <2>2, RowsWritten
  <1> QED  BY <1>2, <1>3, CancelDecision

-----------------------------------------------------------------------------
(* The memory half of a step. *)

\* A row step never takes an attempt number back.
LEMMA CountGrows ==
    ASSUME TypeOK, DurableStep
    PROVE  /\ row.count \in Nat /\ row'.count \in Nat
           /\ row.count <= row'.count
  BY MaxAttemptsAssumption
     DEF TypeOK, DurableStep, RowType, RowStep, RowsKept, AttemptGranted,
         AttemptClosed, PendingCancelled

InExecution == {"executing", "completing", "rejecting", "finished", "failing"}

\* Memory m of a pass does not run ahead of a row with count attempts granted,
\* and its deferral is paid for by the faults so far.
Behind(m, count, spent) ==
    /\ m.pc \in InExecution \cup {"recovering"} => m.number \in 1 .. count
    /\ m.pc = "starting" => m.number > 0
    /\ m.seen <= spent
    /\ m.pc = "deferring" => m.seen < spent

\* The step of one pass keeps the invariant if the rows take a row step, the
\* pass stays behind them, and it owns the attempt it executes: it did so
\* before, or it has just been granted the next number.
LEMMA PassStep ==
    ASSUME IInv, DurableStep, UNCHANGED canceller,
           NEW w \in Workers, NEW m \in MemoryType,
           worker' = [worker EXCEPT ![w] = m],
           Behind(m, row'.count, faults'),
           m.pc \in InExecution =>
              \/ Executing(w) /\ m.number = worker[w].number
              \/ m.number = row.count + 1
    PROVE  IInv'
  <1> USE DEF IInv
  <1>1. /\ worker \in [Workers -> MemoryType]
        /\ worker' \in [Workers -> MemoryType]
        /\ worker'[w] = m
        /\ \A v \in Workers \ {w} : worker'[v] = worker[v]
    BY DEF TypeOK, MemoryType
  <1>2. TypeOK'
    BY <1>1 DEF TypeOK, DurableStep, RowType, AttemptsType, RetryType, MemoryType
  <1>3. RowsSound'
    BY <1>2, RowStepSound DEF DurableStep
  <1>4. row.count \in Nat /\ row'.count \in Nat /\ row.count <= row'.count
    BY CountGrows
  <1>5. faults \in Nat /\ faults' \in Nat /\ faults <= faults'
    BY MaxFaultsAssumption DEF TypeOK, DurableStep
  <1>6. Carried'
    <2>1. ASSUME NEW v \in Workers
          PROVE  /\ (worker[v].pc = "recovering" \/ Executing(v))' =>
                        worker'[v].number \in 1 .. row'.count
                 /\ worker'[v].pc = "starting" => worker'[v].number > 0
      <3>1. CASE v = w
        BY <1>1, <3>1 DEF Behind, Executing, InExecution
      <3>2. CASE v # w
        BY <1>1, <1>4, <3>2 DEF Carried, Executing, MemoryType
      <3> QED  BY <3>1, <3>2
    <2> QED  BY <2>1 DEF Carried
  <1>7. DeferralsCounted'
    <2>1. ASSUME NEW v \in Workers
          PROVE  /\ worker'[v].seen <= faults'
                 /\ worker'[v].pc = "deferring" => worker'[v].seen < faults'
      <3>1. CASE v = w
        BY <1>1, <3>1 DEF Behind
      <3>2. CASE v # w
        <4>1. worker[v].seen \in Nat
          BY <1>1, MaxFaultsAssumption DEF MemoryType
        <4> QED  BY <1>1, <1>5, <3>2, <4>1 DEF DeferralsCounted
      <3> QED  BY <3>1, <3>2
    <2> QED  BY <2>1 DEF DeferralsCounted, DurableStep
  <1>8. SoleOwner'
    <2>1. ASSUME NEW v \in Workers, v # w, Executing(v), m.pc \in InExecution
          PROVE  worker[v].number # m.number
      <3>1. worker[v].number \in 1 .. row.count
        BY <2>1 DEF Carried
      <3>2. CASE Executing(w) /\ m.number = worker[w].number
        BY <2>1, <3>2 DEF SoleOwner
      <3>3. CASE m.number = row.count + 1
        BY <1>4, <3>1, <3>3
      <3> QED  BY <2>1, <3>2, <3>3
    <2>2. ASSUME NEW u \in Workers, NEW v \in Workers, u # v,
                 Executing(u)', Executing(v)'
          PROVE  worker'[u].number # worker'[v].number
      <3>1. CASE u = w
        BY <1>1, <2>1, <2>2, <3>1 DEF Executing, InExecution
      <3>2. CASE v = w
        BY <1>1, <2>1, <2>2, <3>2 DEF Executing, InExecution
      <3>3. CASE u # w /\ v # w
        BY <1>1, <2>2, <3>3 DEF SoleOwner, Executing
      <3> QED  BY <3>1, <3>2, <3>3
    <2> QED  BY <2>2 DEF SoleOwner
  <1> QED  BY <1>2, <1>3, <1>6, <1>7, <1>8

\* A pass that goes on keeps what it carries.
LEMMA GotoStep ==
    ASSUME IInv, DurableStep, UNCHANGED canceller,
           NEW w \in Workers, NEW pc \in Phases, Goto(w, pc),
           Behind([worker[w] EXCEPT !.pc = pc], row'.count, faults'),
           pc \in InExecution =>
              Executing(w) \/ worker[w].number = row.count + 1
    PROVE  IInv'
  <1> DEFINE m == [worker[w] EXCEPT !.pc = pc]
  <1>1. worker \in [Workers -> MemoryType]
    BY DEF IInv, TypeOK, MemoryType
  <1>2. m \in MemoryType /\ m.pc = pc /\ m.number = worker[w].number
    BY <1>1 DEF MemoryType
  <1>3. worker' = [worker EXCEPT ![w] = m]
    BY <1>1 DEF Goto
  <1>4. Behind(m, row'.count, faults')
    OBVIOUS
  <1> HIDE DEF m
  <1> QED  BY <1>2, <1>3, <1>4, PassStep

\* A pass that ends carries nothing.
LEMMA RestStep ==
    ASSUME IInv, DurableStep, UNCHANGED canceller,
           NEW w \in Workers, NEW cooling \in BOOLEAN, Rest(w, cooling)
    PROVE  IInv'
  <1> DEFINE m == [Resting EXCEPT !.cooling = cooling]
  <1>1. /\ m = [pc |-> "idle", number |-> 0, seen |-> 0, cooling |-> cooling]
    BY DEF Resting
  <1>2. m \in MemoryType /\ m.pc \notin InExecution
    BY <1>1, MaxAttemptsAssumption, MaxFaultsAssumption
       DEF MemoryType, Phases, InExecution
  <1>3. faults' \in Nat
    BY MaxFaultsAssumption DEF DurableStep
  <1>4. Behind(m, row'.count, faults')
    BY <1>1, <1>3 DEF Behind, InExecution
  <1>5. worker' = [worker EXCEPT ![w] = m]
    BY DEF Rest
  <1> HIDE DEF m
  <1> QED  BY <1>2, <1>4, <1>5, PassStep

-----------------------------------------------------------------------------
(* One lemma per action: the rows take a row step and the invariant holds. *)

\* What a pass carries, typed, and what Goto leaves it with.
LEMMA CarriedTypes ==
    ASSUME IInv, NEW w \in Workers
    PROVE  /\ worker[w] \in MemoryType
           /\ worker[w].number \in Nat
           /\ worker[w].seen \in Nat
           /\ worker[w].cooling \in BOOLEAN
           /\ worker[w].seen <= faults
           /\ \A pc : /\ [worker[w] EXCEPT !.pc = pc].pc = pc
                      /\ [worker[w] EXCEPT !.pc = pc].number = worker[w].number
                      /\ [worker[w] EXCEPT !.pc = pc].seen = worker[w].seen
  <1>1. worker[w] \in MemoryType
    BY DEF IInv, TypeOK, MemoryType
  <1>2. /\ worker[w].number \in Nat
        /\ worker[w].seen \in Nat
        /\ worker[w].cooling \in BOOLEAN
    BY <1>1, MaxAttemptsAssumption, MaxFaultsAssumption DEF MemoryType
  <1>3. worker[w].seen <= faults
    BY DEF IInv, DeferralsCounted
  <1>4. \A pc : /\ [worker[w] EXCEPT !.pc = pc].pc = pc
                /\ [worker[w] EXCEPT !.pc = pc].number = worker[w].number
                /\ [worker[w] EXCEPT !.pc = pc].seen = worker[w].seen
    BY <1>1 DEF MemoryType
  <1> QED  BY <1>1, <1>2, <1>3, <1>4

\* Recovery reads the row of a delivery under way.
LEMMA TakeSnapshotKeeps ==
    ASSUME IInv, NEW w \in Workers, TakeSnapshot(w)
    PROVE  DurableStep /\ IInv'
  <1> USE DEF IInv
  <1>1. DurableStep
    BY NothingWritten DEF TakeSnapshot, Unwritten
  <1>2. /\ row.count \in 0 .. MaxAttempts /\ row.count > 0
        /\ MaxAttempts \in Nat
        /\ row' = row /\ faults' = faults
        /\ faults \in 0 .. MaxFaults
        /\ retry.attempts \in 0 .. MaxFaults
        /\ retry.attempts <= faults
    BY MaxAttemptsAssumption
       DEF TakeSnapshot, Eligible, TypeOK, RowsSound, ValidRow, DeferralsCounted
  <1> DEFINE m == [Resting EXCEPT !.pc = "recovering", !.number = row.count,
                                  !.seen = retry.attempts]
  <1>3. /\ m \in MemoryType
        /\ m.pc = "recovering" /\ m.number = row.count
        /\ m.seen = retry.attempts
    <2>1. Resting \in MemoryType
      BY MaxAttemptsAssumption, MaxFaultsAssumption DEF Resting, MemoryType, Phases
    <2>2. row.count \in 0 .. MaxAttempts + 1
      BY <1>2
    <2> QED  BY <1>2, <2>1, <2>2 DEF MemoryType, Phases
  <1>4. worker' = [worker EXCEPT ![w] = m]
    BY DEF TakeSnapshot
  <1> HIDE DEF m
  <1>5. Behind(m, row'.count, faults') /\ m.pc \notin InExecution
    BY <1>2, <1>3 DEF Behind, InExecution
  <1>6. UNCHANGED canceller
    BY DEF TakeSnapshot
  <1> QED  BY <1>1, <1>3, <1>4, <1>5, <1>6, PassStep

\* A pass without recovery only notes whether the row was due when it began.
LEMMA SkipRecoveryKeeps ==
    ASSUME IInv, NEW w \in Workers, SkipRecovery(w)
    PROVE  DurableStep /\ IInv'
  <1> USE DEF IInv
  <1>1. row \in RowType
    BY DEF TypeOK, RowType
  <1>2. row' \in RowType /\ row'.status = row.status /\ row'.count = row.count
    BY <1>1 DEF SkipRecovery, NoteDue, RowType
  <1>3. DurableStep
    BY <1>2, MaxFaultsAssumption
       DEF DurableStep, RowStep, RowsKept, SkipRecovery, TypeOK, AttemptsType,
           RetryType, DeferralsCounted
  <1>4. Behind([worker[w] EXCEPT !.pc = "listing"], row'.count, faults')
    BY CarriedTypes DEF Behind, InExecution, SkipRecovery
  <1> QED
    BY <1>3, <1>4, GotoStep DEF SkipRecovery, Phases, InExecution

\* Nor does one whose recovery could not read what it wanted to repair.
LEMMA RecoveryUnavailableKeeps ==
    ASSUME IInv, NEW w \in Workers, RecoveryUnavailable(w)
    PROVE  DurableStep /\ IInv'
  <1> USE DEF IInv
  <1>1. row \in RowType
    BY DEF TypeOK, RowType
  <1>2. row' \in RowType /\ row'.status = row.status /\ row'.count = row.count
    BY <1>1 DEF RecoveryUnavailable, NoteDue, RowType
  <1>3. /\ faults \in 0 .. MaxFaults /\ MaxFaults \in Nat /\ faults' = faults + 1
        /\ faults' \in 0 .. MaxFaults /\ UNCHANGED <<attempts, retry, canceller>>
    BY MaxFaultsAssumption DEF RecoveryUnavailable, Fault, TypeOK
  <1>4. DurableStep
    BY <1>2, <1>3
       DEF DurableStep, RowStep, RowsKept, TypeOK, AttemptsType, RetryType,
           DeferralsCounted
  <1> DEFINE m == [worker[w] EXCEPT !.pc = "listing", !.cooling = TRUE]
  <1>5. /\ m \in MemoryType /\ m.pc = "listing" /\ m.seen = worker[w].seen
        /\ worker[w].seen \in Nat /\ worker[w].seen <= faults
    BY CarriedTypes DEF MemoryType, Phases
  <1>6. worker' = [worker EXCEPT ![w] = m]
    BY DEF RecoveryUnavailable, TypeOK
  <1> HIDE DEF m
  <1>7. Behind(m, row'.count, faults') /\ m.pc \notin InExecution
    BY <1>3, <1>5 DEF Behind, InExecution
  <1> QED  BY <1>3, <1>4, <1>5, <1>6, <1>7, PassStep

\* The recovery transaction applies to its own attempt, or to none.
LEMMA RecoverStuckKeeps ==
    ASSUME IInv, NEW w \in Workers, RecoverStuck(w)
    PROVE  DurableStep /\ IInv'
  <1> USE DEF IInv
  <1>1. worker[w].number \in 1 .. row.count
    BY DEF RecoverStuck, Carried
  <1>2. /\ RecoverPreflight(w) # "corrupt"
        /\ RecoverPreflight(w) = "applied" =>
             row.status = "delivering" /\ row.count = worker[w].number
    BY <1>1, RecoverDecision
  <1>3. /\ \/ Unwritten
           \/ RecoverPreflight(w) = "applied" /\ Recovered(w, worker[w].number)
        /\ \/ UNCHANGED faults /\ Goto(w, "listing")
           \/ Fault /\ Goto(w, "deferring")
    BY <1>2 DEF RecoverStuck, Transaction
  <1>4. DurableStep
    <2>1. CASE Unwritten
      BY <1>3, <2>1, NothingWritten
    <2>2. CASE RecoverPreflight(w) = "applied" /\ Recovered(w, worker[w].number)
      BY <1>2, <1>3, <2>2, OutcomeStep
    <2> QED  BY <1>3, <2>1, <2>2
  <1>5. UNCHANGED canceller
    BY DEF RecoverStuck
  <1>6. faults \in Nat /\ faults <= faults' /\ faults' \in Nat
    BY <1>4, MaxFaultsAssumption DEF TypeOK, DurableStep
  <1>7. worker[w].seen \in Nat /\ worker[w].seen <= faults
    BY CarriedTypes
  <1>8. CASE UNCHANGED faults /\ Goto(w, "listing")
    <2>1. Behind([worker[w] EXCEPT !.pc = "listing"], row'.count, faults')
      BY <1>6, <1>7, CarriedTypes DEF Behind, InExecution
    <2> QED
      BY <1>4, <1>5, <1>8, <2>1, GotoStep DEF Phases, InExecution
  <1>9. CASE Fault /\ Goto(w, "deferring")
    <2>1. worker[w].seen < faults' /\ worker[w].seen <= faults'
      BY <1>6, <1>7, <1>9 DEF Fault
    <2>2. Behind([worker[w] EXCEPT !.pc = "deferring"], row'.count, faults')
      BY <2>1, CarriedTypes DEF Behind, InExecution
    <2> QED
      BY <1>4, <1>5, <1>9, <2>2, GotoStep DEF Phases, InExecution
  <1> QED  BY <1>3, <1>4, <1>8, <1>9

\* Each recorded deferral follows a fault.
LEMMA DeferRecoveryKeeps ==
    ASSUME IInv, NEW w \in Workers, DeferRecovery(w)
    PROVE  DurableStep /\ IInv'
  <1> USE DEF IInv
  <1>1. /\ row' = row /\ attempts' = attempts /\ canceller' = canceller
        /\ worker[w].pc = "deferring"
    BY DEF DeferRecovery
  <1>2. /\ faults \in 0 .. MaxFaults /\ MaxFaults \in Nat
        /\ worker[w].seen \in Nat /\ worker[w].seen < faults
        /\ worker[w] \in MemoryType
    BY <1>1, MaxFaultsAssumption, CarriedTypes DEF TypeOK, DeferralsCounted
  <1>3. RowStep /\ row' \in RowType /\ attempts' \in AttemptsType
    BY <1>1 DEF RowStep, RowsKept, TypeOK, RowType, AttemptsType
  <1>4. CASE /\ retry' = IF SnapshotMatches(w)
                         THEN [attempts |-> worker[w].seen + 1, ready |-> FALSE]
                         ELSE retry
             /\ Goto(w, "listing")
             /\ UNCHANGED faults
    <2>1. retry' \in RetryType /\ retry'.attempts <= faults'
      <3>1. CASE SnapshotMatches(w)
        BY <1>2, <1>4, <3>1 DEF RetryType
      <3>2. CASE ~SnapshotMatches(w)
        BY <1>4, <3>2 DEF RetryType, TypeOK, DeferralsCounted
      <3> QED  BY <3>1, <3>2
    <2>2. DurableStep
      BY <1>2, <1>3, <1>4, <2>1 DEF DurableStep
    <2>3. Behind([worker[w] EXCEPT !.pc = "listing"], row'.count, faults')
      BY <1>2, <1>4, CarriedTypes DEF Behind, InExecution
    <2> QED  BY <1>1, <1>4, <2>2, <2>3, GotoStep DEF Phases, InExecution
  <1>5. CASE /\ Fault
             /\ worker' = [worker EXCEPT ![w].pc = "listing", ![w].cooling = TRUE]
             /\ UNCHANGED retry
    <2>1. DurableStep
      BY <1>1, <1>5, NothingWritten DEF Unwritten
    <2> DEFINE m == [worker[w] EXCEPT !.pc = "listing", !.cooling = TRUE]
    <2>2. m \in MemoryType /\ m.pc = "listing" /\ m.seen = worker[w].seen
      BY <1>2 DEF MemoryType, Phases
    <2>3. worker' = [worker EXCEPT ![w] = m]
      BY <1>5 DEF TypeOK
    <2> HIDE DEF m
    <2>4. worker[w].seen <= faults'
      BY <1>2, <1>5 DEF Fault
    <2>5. Behind(m, row'.count, faults') /\ m.pc \notin InExecution
      BY <2>2, <2>4 DEF Behind, InExecution
    <2> QED  BY <1>1, <2>1, <2>2, <2>3, <2>5, PassStep
  <1> QED  BY <1>4, <1>5 DEF DeferRecovery

\* The due list, the read before a start, and the execution touch no row.
LEMMA ListDueKeeps ==
    ASSUME IInv, NEW w \in Workers, ListDue(w)
    PROVE  DurableStep /\ IInv'
  <1> USE DEF IInv
  <1>1. DurableStep /\ UNCHANGED canceller
    BY NothingWritten DEF ListDue, Unwritten
  <1>2. CASE Goto(w, "listed")
    <2>1. Behind([worker[w] EXCEPT !.pc = "listed"], row'.count, faults')
      BY CarriedTypes DEF Behind, InExecution, ListDue
    <2> QED  BY <1>1, <1>2, <2>1, GotoStep DEF Phases, InExecution
  <1>3. CASE Rest(w, worker[w].cooling)
    BY <1>1, <1>3, CarriedTypes, RestStep
  <1> QED  BY <1>1, <1>2, <1>3 DEF ListDue

\* The number a start asks for is the next one as of the row it read.
LEMMA PrepareStartKeeps ==
    ASSUME IInv, NEW w \in Workers, PrepareStart(w)
    PROVE  DurableStep /\ IInv'
  <1> USE DEF IInv
  <1>1. DurableStep /\ UNCHANGED canceller
    BY NothingWritten DEF PrepareStart, Unwritten
  <1>2. /\ row.count \in 0 .. MaxAttempts /\ MaxAttempts \in Nat
        /\ worker[w] \in MemoryType
        /\ worker \in [Workers -> MemoryType]
        /\ faults' = faults
        /\ worker[w].seen <= faults
    BY MaxAttemptsAssumption, CarriedTypes DEF TypeOK, MemoryType, PrepareStart
  <1> DEFINE m == [worker[w] EXCEPT !.pc = "starting", !.number = row.count + 1]
  <1>3. /\ m \in MemoryType
        /\ m.pc = "starting" /\ m.number = row.count + 1
        /\ m.seen = worker[w].seen
    <2>1. row.count + 1 \in 0 .. MaxAttempts + 1
      BY <1>2
    <2> QED  BY <1>2, <2>1 DEF MemoryType, Phases
  <1>4. worker' = [worker EXCEPT ![w] = m]
    BY <1>2 DEF PrepareStart
  <1> HIDE DEF m
  <1>5. m.number > 0
    BY <1>2, <1>3
  <1>6. Behind(m, row'.count, faults') /\ m.pc \notin InExecution
    BY <1>2, <1>3, <1>5 DEF Behind, InExecution
  <1> QED  BY <1>1, <1>3, <1>4, <1>6, PassStep

\* The writer grants the next number, and only then does the pass execute.
LEMMA StartDeliveryKeeps ==
    ASSUME IInv, NEW w \in Workers, StartDelivery(w)
    PROVE  DurableStep /\ IInv'
  <1> USE DEF IInv
  <1> DEFINE n == worker[w].number
             decision == StartPreflight(w, n)
  <1>1. n \in Nat \ {0}
    <2>1. n > 0
      BY DEF StartDelivery, Carried
    <2> QED  BY <2>1, CarriedTypes
  <1>2. /\ decision # "corrupt"
        /\ decision = "applied" =>
             /\ row.status = "pending"
             /\ row.count < MaxAttempts
             /\ n = row.count + 1
    BY <1>1, StartDecision
  <1>3. \/ Unwritten /\ (UNCHANGED faults \/ Fault) /\ Rest(w, worker[w].cooling)
        \/ /\ decision = "applied" /\ Begun(n) /\ (UNCHANGED faults \/ Fault)
           /\ Goto(w, "executing") \/ Rest(w, worker[w].cooling)
    BY <1>2 DEF StartDelivery, Transaction
  <1>4. UNCHANGED canceller
    BY DEF StartDelivery
  <1>5. CASE Unwritten /\ (UNCHANGED faults \/ Fault) /\ Rest(w, worker[w].cooling)
    BY <1>4, <1>5, NothingWritten, CarriedTypes, RestStep
  <1>6. CASE /\ decision = "applied" /\ Begun(n) /\ (UNCHANGED faults \/ Fault)
             /\ Goto(w, "executing") \/ Rest(w, worker[w].cooling)
    <2>1. DurableStep /\ row'.count = row.count + 1 /\ n = row.count + 1
      BY <1>2, <1>6, BegunStep
    <2>2. CASE Rest(w, worker[w].cooling)
      BY <1>4, <2>1, <2>2, CarriedTypes, RestStep
    <2>3. CASE Goto(w, "executing")
      <3>1. n \in 1 .. row'.count
        BY <1>1, <2>1
      <3>2. worker[w].seen <= faults'
        BY <2>1, CarriedTypes, MaxFaultsAssumption DEF DurableStep, TypeOK
      <3>3. Behind([worker[w] EXCEPT !.pc = "executing"], row'.count, faults')
        BY <3>1, <3>2, CarriedTypes DEF Behind, InExecution
      <3> QED  BY <1>4, <2>1, <2>3, <3>3, GotoStep DEF Phases
    <2> QED  BY <1>6, <2>1, <2>2, <2>3
  <1> QED  BY <1>3, <1>5, <1>6

\* A pass that executes an attempt stays behind the rows wherever it goes on to.
LEMMA StaysBehind ==
    ASSUME IInv, DurableStep, NEW w \in Workers, Executing(w),
           NEW pc \in InExecution
    PROVE  Behind([worker[w] EXCEPT !.pc = pc], row'.count, faults')
  <1> USE DEF IInv
  <1>1. worker[w].number \in 1 .. row.count
    BY DEF Carried
  <1>2. worker[w].number \in 1 .. row'.count
    BY <1>1, CountGrows
  <1>3. worker[w].seen <= faults'
    BY CarriedTypes, MaxFaultsAssumption DEF DurableStep, TypeOK
  <1> QED  BY <1>2, <1>3, CarriedTypes DEF Behind, InExecution

\* The execution ends, or is timed out, without touching a row.
LEMMA ExecuteDeliveryKeeps ==
    ASSUME IInv, NEW w \in Workers, ExecuteDelivery(w) \/ TimeOut(w)
    PROVE  DurableStep /\ IInv'
  <1> USE DEF IInv
  <1>1. DurableStep /\ UNCHANGED canceller /\ Executing(w)
    BY NothingWritten
       DEF ExecuteDelivery, TimeOut, Unwritten, Executing
  <1>2. PICK pc \in InExecution : Goto(w, pc)
    BY DEF ExecuteDelivery, TimeOut, InExecution
  <1>3. Behind([worker[w] EXCEPT !.pc = pc], row'.count, faults')
    BY <1>1, StaysBehind
  <1>4. pc \in Phases
    BY DEF InExecution, Phases
  <1> QED  BY <1>1, <1>2, <1>3, <1>4, GotoStep

\* The outcome of an execution applies to its own attempt, or to none.
LEMMA FinishExecutionKeeps ==
    ASSUME IInv, NEW w \in Workers, FinishExecution(w)
    PROVE  DurableStep /\ IInv'
  <1> USE DEF IInv
  <1> DEFINE n == worker[w].number
  <1>1. Executing(w) /\ UNCHANGED canceller
    BY DEF FinishExecution, Executing
  <1>2. n \in 1 .. row.count
    BY <1>1 DEF Carried
  <1>3. /\ FinishPreflight(n) # "corrupt"
        /\ FinishPreflight(n) = "applied" =>
             row.status = "delivering" /\ row.count = n
    BY <1>2, FinishDecision
  <1>4. /\ \/ Unwritten
           \/ FinishPreflight(n) = "applied" /\ (Delivered(n) \/ FailedAttempt(n))
        /\ UNCHANGED faults \/ Fault
        /\ Goto(w, "finished") \/ Goto(w, "failing")
    BY <1>3 DEF FinishExecution, Transaction
  <1>5. DurableStep
    <2>1. CASE Unwritten
      BY <1>4, <2>1, NothingWritten
    <2>2. CASE FinishPreflight(n) = "applied" /\ (Delivered(n) \/ FailedAttempt(n))
      BY <1>3, <1>4, <2>2, OutcomeStep
    <2> QED  BY <1>4, <2>1, <2>2
  <1>6. PICK pc \in {"finished", "failing"} : Goto(w, pc)
    BY <1>4
  <1>7. pc \in InExecution /\ pc \in Phases
    BY DEF InExecution, Phases
  <1>8. Behind([worker[w] EXCEPT !.pc = pc], row'.count, faults')
    BY <1>1, <1>5, <1>7, StaysBehind
  <1> QED  BY <1>1, <1>5, <1>6, <1>7, <1>8, GotoStep

\* So does the failure the pass commits itself.
LEMMA FailDeliveryKeeps ==
    ASSUME IInv, NEW w \in Workers, FailDelivery(w)
    PROVE  DurableStep /\ IInv'
  <1> USE DEF IInv
  <1> DEFINE n == worker[w].number
  <1>1. Executing(w) /\ UNCHANGED canceller
    BY DEF FailDelivery, Executing
  <1>2. n \in 1 .. row.count
    BY <1>1 DEF Carried
  <1>3. /\ FinishPreflight(n) # "corrupt"
        /\ FinishPreflight(n) = "applied" =>
             row.status = "delivering" /\ row.count = n
    BY <1>2, FinishDecision
  <1>4. /\ \/ Unwritten
           \/ FinishPreflight(n) = "applied" /\ FailedAttempt(n)
        /\ UNCHANGED faults \/ Fault
        /\ Rest(w, worker[w].cooling)
    BY <1>3 DEF FailDelivery, Transaction
  <1>5. DurableStep
    <2>1. CASE Unwritten
      BY <1>4, <2>1, NothingWritten
    <2>2. CASE FinishPreflight(n) = "applied" /\ FailedAttempt(n)
      BY <1>3, <1>4, <2>2, OutcomeStep
    <2> QED  BY <1>4, <2>1, <2>2
  <1> QED  BY <1>1, <1>4, <1>5, CarriedTypes, RestStep

\* A pass that ends, or is lost, leaves the rows alone.
LEMMA RestingKeeps ==
    ASSUME IInv, NEW w \in Workers,
           ReturnFromExecution(w) \/ Crash(w)
    PROVE  DurableStep /\ IInv'
  <1> USE DEF IInv
  <1>1. DurableStep /\ UNCHANGED canceller
    BY NothingWritten DEF ReturnFromExecution, Crash, Unwritten
  <1>2. PICK cooling \in BOOLEAN : Rest(w, cooling)
    BY CarriedTypes DEF ReturnFromExecution, Crash
  <1> QED  BY <1>1, <1>2, RestStep

\* The end of a cooldown changes nothing else.
LEMMA CooldownEndsKeeps ==
    ASSUME IInv, NEW w \in Workers, CooldownEnds(w)
    PROVE  DurableStep /\ IInv'
  <1> USE DEF IInv
  <1>1. DurableStep /\ UNCHANGED <<row, canceller, faults>>
    BY NothingWritten DEF CooldownEnds, Unwritten
  <1> DEFINE m == [worker[w] EXCEPT !.cooling = FALSE]
  <1>2. /\ m \in MemoryType /\ m.pc = worker[w].pc /\ m.seen = worker[w].seen
        /\ m.number = worker[w].number
    BY CarriedTypes DEF MemoryType
  <1>3. worker' = [worker EXCEPT ![w] = m]
    BY DEF CooldownEnds, TypeOK
  <1> HIDE DEF m
  <1>4. Behind(m, row'.count, faults')
    BY <1>1, <1>2, CarriedTypes DEF Behind, Carried, DeferralsCounted, Executing, InExecution
  <1>5. m.pc \in InExecution => Executing(w) /\ m.number = worker[w].number
    BY <1>2 DEF Executing, InExecution
  <1> QED  BY <1>1, <1>2, <1>3, <1>4, <1>5, PassStep

\* A step that leaves the passes alone keeps the invariant if the rows take a
\* row step.
LEMMA RowsOnly ==
    ASSUME IInv, DurableStep, UNCHANGED worker, canceller' \in CancellerType
    PROVE  IInv'
  <1> USE DEF IInv
  <1>1. TypeOK'
    BY DEF TypeOK, DurableStep, RowType, AttemptsType, RetryType, CancellerType
  <1>2. RowsSound'
    BY <1>1, RowStepSound DEF DurableStep
  <1>3. row.count \in Nat /\ row'.count \in Nat /\ row.count <= row'.count
    BY CountGrows
  <1>4. Carried'
    <2>1. ASSUME NEW w \in Workers,
                 worker[w].pc = "recovering" \/ Executing(w)
          PROVE  worker[w].number \in 1 .. row'.count
      BY <1>3, <2>1 DEF Carried
    <2> QED  BY <2>1 DEF Carried, Executing
  <1>5. faults \in Nat /\ faults' \in Nat /\ faults <= faults'
    BY MaxFaultsAssumption DEF TypeOK, DurableStep
  <1>6. DeferralsCounted'
    <2>1. ASSUME NEW w \in Workers
          PROVE  /\ worker[w].seen <= faults'
                 /\ worker[w].pc = "deferring" => worker[w].seen < faults'
      <3>1. worker[w].seen \in Nat
        BY CarriedTypes
      <3> QED  BY <1>5, <3>1 DEF DeferralsCounted
    <2> QED  BY <2>1 DEF DeferralsCounted, DurableStep
  <1>7. SoleOwner'
    BY DEF SoleOwner, Executing
  <1> QED  BY <1>1, <1>2, <1>4, <1>6, <1>7

\* The cancellation ends the current attempt, or leaves the rows alone.
LEMMA CancellerKeeps ==
    ASSUME IInv, PrepareCancel \/ CancelDelivery
    PROVE  DurableStep /\ IInv'
  <1> USE DEF IInv
  <1>1. CASE PrepareCancel
    <2>1. DurableStep
      BY <1>1, NothingWritten DEF PrepareCancel, Unwritten
    <2>2. canceller' \in CancellerType
      BY <1>1 DEF PrepareCancel, CancellerType, TypeOK
    <2> QED  BY <1>1, <2>1, <2>2, RowsOnly DEF PrepareCancel
  <1>2. CASE CancelDelivery
    <2>1. CancelPreflight # "corrupt"
      BY CancelDecision
    <2>2. /\ \/ Unwritten
             \/ /\ CancelPreflight = "applied"
                /\ Ended("cancelled", IF canceller.active THEN row.count ELSE 0,
                         "failed", {}, FALSE)
          /\ UNCHANGED faults \/ Fault
          /\ canceller' = NoCancel
      BY <1>2, <2>1 DEF CancelDelivery, Transaction
    <2>3. DurableStep
      <3>1. CASE Unwritten
        BY <2>2, <3>1, NothingWritten
      <3>2. CASE ~Unwritten
        BY <2>2, <3>2, CancelledStep
      <3> QED  BY <3>1, <3>2
    <2>4. canceller' \in CancellerType
      BY <2>2, MaxAttemptsAssumption DEF NoCancel, CancellerType
    <2> QED  BY <1>2, <2>3, <2>4, RowsOnly DEF CancelDelivery
  <1> QED  BY <1>1, <1>2

\* The clock changes what is due, stale or ready, and nothing the checks read.
LEMMA ClockKeeps ==
    ASSUME IInv, Clock
    PROVE  DurableStep /\ IInv'
  <1> USE DEF IInv
  <1>1. UNCHANGED <<attempts, worker, canceller, faults>>
    BY DEF Clock, BecomeDue, BecomeStale, BackoffEnds
  <1>2. row' \in RowType /\ row'.status = row.status /\ row'.count = row.count
    <2>1. row \in RowType
      BY DEF TypeOK, RowType
    <2> QED  BY <2>1 DEF Clock, BecomeDue, BecomeStale, BackoffEnds, RowType
  <1>3. retry' \in RetryType /\ retry'.attempts = retry.attempts
    <2>1. retry \in RetryType
      BY DEF TypeOK, RetryType
    <2> QED  BY <2>1 DEF Clock, BecomeDue, BecomeStale, BackoffEnds, RetryType
  <1>4. DurableStep
    BY <1>1, <1>2, <1>3, MaxFaultsAssumption
       DEF DurableStep, RowStep, RowsKept, TypeOK, AttemptsType, DeferralsCounted
  <1>5. canceller' \in CancellerType
    BY <1>1 DEF TypeOK, CancellerType
  <1> QED  BY <1>1, <1>4, <1>5, RowsOnly

-----------------------------------------------------------------------------
(* The theorems. *)

\* A new delivery, with no attempt and nobody at work, satisfies the invariant.
LEMMA InitInvariant == Init => IInv
  <1> SUFFICES ASSUME Init PROVE IInv
    OBVIOUS
  <1> USE MaxAttemptsAssumption, MaxFaultsAssumption
  <1>1. TypeOK
    BY DEF Init, TypeOK, Statuses, Phases, NoRetry, Resting, NoCancel, Numbers
  <1>2. RowsSound
    BY DEF Init, RowsSound, ValidRow, CurrentAttemptAgrees, Numbers
  <1>3. Carried /\ DeferralsCounted /\ SoleOwner
    BY DEF Init, Carried, DeferralsCounted, SoleOwner, Executing, Resting, NoRetry
  <1> QED  BY <1>1, <1>2, <1>3 DEF IInv

\* Every action takes a row step and keeps the invariant.
LEMMA NextInvariant ==
    ASSUME IInv, Next
    PROVE  DurableStep /\ IInv'
  <1>1. ASSUME NEW w \in Workers, Pass(w)
        PROVE  DurableStep /\ IInv'
    BY <1>1, TakeSnapshotKeeps, SkipRecoveryKeeps, RecoveryUnavailableKeeps, RecoverStuckKeeps,
       DeferRecoveryKeeps, ListDueKeeps, PrepareStartKeeps, StartDeliveryKeeps,
       ExecuteDeliveryKeeps, FinishExecutionKeeps, FailDeliveryKeeps,
       RestingKeeps DEF Pass
  <1>2. ASSUME NEW w \in Workers, Crash(w) \/ CooldownEnds(w)
        PROVE  DurableStep /\ IInv'
    BY <1>2, RestingKeeps, CooldownEndsKeeps
  <1> QED  BY <1>1, <1>2, CancellerKeeps, ClockKeeps DEF Next

\* The invariant also survives a stuttering step.
LEMMA StutterInvariant ==
    ASSUME IInv, UNCHANGED vars
    PROVE  DurableStep /\ IInv'
  <1>1. DurableStep
    BY NothingWritten DEF IInv, vars, Unwritten
  <1>2. canceller' \in CancellerType
    BY DEF IInv, TypeOK, CancellerType, vars
  <1> QED  BY <1>1, <1>2, RowsOnly DEF vars

\* The invariant is inductive, hence always true.
THEOREM Inductive == Spec => []IInv
  <1>1. IInv /\ [Next]_vars => IInv'
    BY NextInvariant, StutterInvariant
  <1> QED  BY <1>1, InitInvariant, PTL DEF Spec

\* Every variable keeps its type; in particular no retry row counts more
\* deferrals than there were faults, and no attempt number passes max_attempts.
THEOREM TypeCorrect == Spec => []TypeOK
  <1>1. IInv => TypeOK
    BY DEF IInv
  <1> QED  BY <1>1, Inductive, PTL

\* No transaction of a pass, a recovery or a cancellation ever takes a bail!
\* branch, however many passes race, crash and come back.
THEOREM RowsNeverCorrupt == Spec => []NoCorruption
  <1>1. IInv => NoCorruption
    BY NeverCorrupt
  <1> QED  BY <1>1, Inductive, PTL

\* start_delivery grants an attempt number to one pass only.
THEOREM AttemptHasOneOwner == Spec => []SoleOwner
  <1>1. IInv => SoleOwner
    BY DEF IInv
  <1> QED  BY <1>1, Inductive, PTL

\* No step rewrites a closed attempt, reopens a settled delivery or takes an
\* attempt number back: a worker that lost its race has no durable effect.
THEOREM LosersWriteNothing == Spec => ClosedStaysClosed
  <1>1. IInv /\ [Next]_vars => [Closing]_vars
    <2>1. ASSUME IInv, Next
          PROVE  Closing
      <3>1. RowStep
        BY <2>1, NextInvariant DEF DurableStep
      <3> QED  BY <2>1, <3>1, RowStepCloses DEF IInv
    <2> QED  BY <2>1
  <1> QED  BY <1>1, Inductive, PTL DEF Spec, ClosedStaysClosed, Closing
=============================================================================
