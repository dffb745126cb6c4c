----------------------- MODULE WriteAdmission_proofs -----------------------
(***************************************************************************)
(* Proofs about WriteAdmission, for any writers, burst limits and width of  *)
(* the burst counters.                                                      *)
(*                                                                          *)
(* Two arguments.  The reservation: a queue holds only requests that have   *)
(* none (Placed), each of them once (Once), so that a grant to the head of  *)
(* a queue makes the only reservation there is.  The bursts: the debt that  *)
(* grant_next_locked keeps is never less than what was really passed over   *)
(* (DebtCovers), and a class is passed over only while its debt is below    *)
(* the limit.                                                               *)
(***************************************************************************)
EXTENDS WriteAdmission, SequenceTheorems, TLAPS

-----------------------------------------------------------------------------
(* The inductive invariant. *)

\* The requests in the queues q wait there in their own class.
Placed(q, r, cl) ==
    \A c \in Class : \A i \in 1 .. Len(q[c]) :
        r[q[c][i]] \in {"queued", "dropped"} /\ cl[q[c][i]] = c

\* No request is in a queue twice.
Once(q) ==
    \A c \in Class : \A i, j \in 1 .. Len(q[c]) : q[c][i] = q[c][j] => i = j

\* A permit has owners exactly while it is held.
OwnersHold == \A w \in Writers : owners[w] > 0 <=> pc[w] = "holding"

\* The counters of the code count at least the grants that passed a class over.
DebtCovers ==
    /\ bypassed <= consecutive_non_maintenance
    /\ critical_run <= consecutive_critical

Queues == [Class -> Seq(Writers)]

\* Where the requests are, and what they own.
Settled ==
    /\ queue \in Queues /\ pc \in [Writers -> Request] /\ active \in BOOLEAN
    /\ Placed(queue, pc, class) /\ Once(queue) /\ OwnersHold
    /\ OneReservation /\ IdleWriterHasNoWaiters

\* The fairness debt and what it bounds.
DebtSound ==
    /\ consecutive_critical \in 0 .. CounterMax
    /\ consecutive_non_maintenance \in 0 .. CounterMax
    /\ bypassed \in Nat /\ critical_run \in Nat
    /\ DebtCovers /\ MaintenanceBypassBounded /\ CriticalRunBounded

IInv ==
    /\ Settled /\ DebtSound
    /\ class \in [Writers -> Class] /\ owners \in [Writers -> Nat]
    /\ aged \subseteq Writers

-----------------------------------------------------------------------------
(* The queues. *)

\* Requests r and permits o among which there is no reservation.
Unreserved(r, o) ==
    \A w \in Writers : r[w] \in {"idle", "queued", "dropped"} /\ o[w] = 0

\* Joining the end of a queue.
LEMMA AppendPlaces ==
    ASSUME NEW q \in Queues, NEW r \in [Writers -> Request],
           NEW cl \in [Writers -> Class], NEW c \in Class, NEW w \in Writers,
           Placed(q, r, cl), Once(q), r[w] = "idle"
    PROVE  /\ [q EXCEPT ![c] = Append(@, w)] \in Queues
           /\ Placed([q EXCEPT ![c] = Append(@, w)], [r EXCEPT ![w] = "queued"],
                     [cl EXCEPT ![w] = c])
           /\ Once([q EXCEPT ![c] = Append(@, w)])
  <1> DEFINE q1 == [q EXCEPT ![c] = Append(@, w)]
             r1 == [r EXCEPT ![w] = "queued"]
             cl1 == [cl EXCEPT ![w] = c]
  <1>1. q[c] \in Seq(Writers) /\ Len(q[c]) \in Nat
    BY LenProperties DEF Queues
  <1>2. /\ Append(q[c], w) \in Seq(Writers)
        /\ Len(Append(q[c], w)) = Len(q[c]) + 1
        /\ \A i \in 1 .. Len(q[c]) : Append(q[c], w)[i] = q[c][i]
        /\ Append(q[c], w)[Len(q[c]) + 1] = w
    BY <1>1, AppendProperties
  <1>3. /\ q1 \in Queues
        /\ q1[c] = Append(q[c], w)
        /\ \A d \in Class \ {c} : q1[d] = q[d]
    BY <1>2 DEF Queues
  <1>4. \A d \in Class : \A i \in 1 .. Len(q[d]) :
            q[d][i] \in Writers /\ q[d][i] # w
    <2>1. ASSUME NEW d \in Class, NEW i \in 1 .. Len(q[d])
          PROVE  q[d][i] \in Writers
      <3>1. q[d] \in Seq(Writers)
        BY DEF Queues
      <3> QED  BY <3>1, ElementOfSeq
    <2> QED  BY <2>1 DEF Placed
  <1>5. /\ r1[w] = "queued" /\ cl1[w] = c
        /\ \A v \in Writers \ {w} : r1[v] = r[v] /\ cl1[v] = cl[v]
    OBVIOUS
  <1> HIDE DEF q1, r1, cl1
  <1>6. ASSUME NEW d \in Class, NEW i \in 1 .. Len(q1[d])
        PROVE  r1[q1[d][i]] \in {"queued", "dropped"} /\ cl1[q1[d][i]] = d
    <2>1. CASE d = c /\ i = Len(q[c]) + 1
      BY <1>2, <1>3, <1>5, <2>1
    <2>2. CASE ~(d = c /\ i = Len(q[c]) + 1)
      <3>1. i \in 1 .. Len(q[d]) /\ q1[d][i] = q[d][i]
        BY <1>1, <1>2, <1>3, <1>6, <2>2
      <3> QED  BY <1>4, <1>5, <3>1 DEF Placed
    <2> QED  BY <2>1, <2>2
  <1>7. ASSUME NEW d \in Class, NEW i \in 1 .. Len(q1[d]),
               NEW j \in 1 .. Len(q1[d]), q1[d][i] = q1[d][j]
        PROVE  i = j
    <2>1. CASE d # c
      BY <1>3, <1>7, <2>1 DEF Once
    <2>2. CASE d = c
      <3>1. i \in 1 .. Len(q[c]) \/ i = Len(q[c]) + 1
        BY <1>1, <1>2, <1>3, <2>2
      <3>2. j \in 1 .. Len(q[c]) \/ j = Len(q[c]) + 1
        BY <1>1, <1>2, <1>3, <2>2
      <3>3. \A k \in 1 .. Len(q[c]) : q1[c][k] = q[c][k] /\ q[c][k] # w
        BY <1>2, <1>3, <1>4
      <3>4. q1[c][Len(q[c]) + 1] = w
        BY <1>2, <1>3
      <3>5. CASE i \in 1 .. Len(q[c]) /\ j \in 1 .. Len(q[c])
        BY <1>7, <2>2, <3>3, <3>5 DEF Once
      <3> QED  BY <1>7, <2>2, <3>1, <3>2, <3>3, <3>4, <3>5
    <2> QED  BY <2>1, <2>2
  <1> QED  BY <1>3, <1>6, <1>7 DEF Placed, Once, q1, r1, cl1

\* A sequence without its i-th element.
LEMMA WithoutProperties ==
    ASSUME NEW s \in Seq(Writers), NEW i \in 1 .. Len(s)
    PROVE  /\ Without(s, i) \in Seq(Writers)
           /\ Len(Without(s, i)) = Len(s) - 1
           /\ \A k \in 1 .. Len(s) - 1 :
                Without(s, i)[k] = IF k < i THEN s[k] ELSE s[k + 1]
  <1> DEFINE a == SubSeq(s, 1, i - 1)
             b == SubSeq(s, i + 1, Len(s))
  <1>1. Len(s) \in Nat /\ i \in Nat /\ \A k \in 1 .. Len(s) : s[k] \in Writers
    BY LenProperties, ElementOfSeq
  <1>2. /\ a \in Seq(Writers) /\ Len(a) = i - 1
        /\ \A k \in 1 .. i - 1 : a[k] = s[k]
    <2>1. \A k \in 1 .. i - 1 : s[k] \in Writers
      BY <1>1
    <2>2. /\ a \in Seq(Writers)
          /\ Len(a) = IF 1 <= i - 1 THEN (i - 1) - 1 + 1 ELSE 0
          /\ \A k \in 1 .. (i - 1) - 1 + 1 : a[k] = s[1 + k - 1]
      BY <1>1, <2>1, SubSeqProperties
    <2> QED  BY <1>1, <2>2
  <1>3. /\ b \in Seq(Writers) /\ Len(b) = Len(s) - i
        /\ \A k \in 1 .. Len(s) - i : b[k] = s[i + k]
    <2>1. \A k \in i + 1 .. Len(s) : s[k] \in Writers
      BY <1>1
    <2>2. /\ b \in Seq(Writers)
          /\ Len(b) = IF i + 1 <= Len(s) THEN Len(s) - (i + 1) + 1 ELSE 0
          /\ \A k \in 1 .. Len(s) - (i + 1) + 1 : b[k] = s[(i + 1) + k - 1]
      BY <1>1, <2>1, SubSeqProperties
    <2> QED  BY <1>1, <2>2
  <1>4. /\ a \o b \in Seq(Writers)
        /\ Len(a \o b) = Len(a) + Len(b)
        /\ \A k \in 1 .. Len(a) + Len(b) :
             (a \o b)[k] = IF k <= Len(a) THEN a[k] ELSE b[k - Len(a)]
    BY <1>2, <1>3, ConcatProperties
  <1>5. Without(s, i) = a \o b
    BY DEF Without
  <1> HIDE DEF a, b
  <1>6. ASSUME NEW k \in 1 .. Len(s) - 1
        PROVE  Without(s, i)[k] = IF k < i THEN s[k] ELSE s[k + 1]
    <2>1. CASE k < i
      <3>1. (a \o b)[k] = s[k]
        BY <1>1, <1>2, <1>3, <1>4, <2>1
      <3> QED  BY <1>5, <2>1, <3>1
    <2>2. CASE ~(k < i)
      <3>1. k - (i - 1) \in 1 .. Len(s) - i /\ i + (k - (i - 1)) = k + 1
        BY <1>1, <2>2
      <3>2. (a \o b)[k] = b[k - (i - 1)]
        BY <1>1, <1>2, <1>3, <1>4, <2>2
      <3> QED  BY <1>3, <1>5, <2>2, <3>1, <3>2
    <2> QED  BY <2>1, <2>2
  <1>7. Len(Without(s, i)) = Len(s) - 1
    <2>1. Len(a \o b) = Len(s) - 1
      BY <1>1, <1>2, <1>3, <1>4
    <2> QED  BY <1>5, <2>1
  <1>8. Without(s, i) \in Seq(Writers)
    <2>1. a \o b \in Seq(Writers)
      BY <1>4
    <2> QED  BY <1>5, <2>1
  <1> QED  BY <1>6, <1>7, <1>8, Zenon

\* Leaving a queue from the middle.
LEMMA WithoutPlaces ==
    ASSUME NEW q \in Queues, NEW r \in [Writers -> Request],
           NEW cl \in [Writers -> Class], NEW c \in Class,
           NEW n \in 1 .. Len(q[c]), NEW w, w = q[c][n], NEW st \in Request,
           Placed(q, r, cl), Once(q)
    PROVE  /\ [q EXCEPT ![c] = Without(@, n)] \in Queues
           /\ Placed([q EXCEPT ![c] = Without(@, n)], [r EXCEPT ![w] = st], cl)
           /\ Once([q EXCEPT ![c] = Without(@, n)])
  <1> DEFINE q1 == [q EXCEPT ![c] = Without(@, n)]
             r1 == [r EXCEPT ![w] = st]
  <1>1. q[c] \in Seq(Writers) /\ Len(q[c]) \in Nat /\ w \in Writers
    BY LenProperties, ElementOfSeq DEF Queues
  <1>2. /\ Without(q[c], n) \in Seq(Writers)
        /\ Len(Without(q[c], n)) = Len(q[c]) - 1
        /\ \A k \in 1 .. Len(q[c]) - 1 :
             Without(q[c], n)[k] = IF k < n THEN q[c][k] ELSE q[c][k + 1]
    BY <1>1, WithoutProperties
  <1>3. /\ q1 \in Queues
        /\ q1[c] = Without(q[c], n)
        /\ \A d \in Class \ {c} : q1[d] = q[d]
    BY <1>2 DEF Queues
  <1>4. /\ \A v \in Writers \ {w} : r1[v] = r[v]
    BY <1>1
  <1>5. \A d \in Class : \A i \in 1 .. Len(q[d]) : q[d][i] \in Writers
    BY ElementOfSeq DEF Queues
  <1> HIDE DEF q1, r1
  <1> DEFINE old(d, i) == IF d = c /\ i >= n THEN i + 1 ELSE i
  <1>6. ASSUME NEW d \in Class, NEW i \in 1 .. Len(q1[d])
        PROVE  /\ old(d, i) \in 1 .. Len(q[d])
               /\ q1[d][i] = q[d][old(d, i)]
               /\ d = c => old(d, i) # n
    <2>1. CASE d # c
      BY <1>3, <1>6, <2>1
    <2>2. CASE d = c
      <3>1. i \in 1 .. Len(q[c]) - 1
        BY <1>2, <1>3, <1>6, <2>2
      <3> QED  BY <1>1, <1>2, <1>3, <2>2, <3>1
    <2> QED  BY <2>1, <2>2
  <1>7. ASSUME NEW d \in Class, NEW i \in 1 .. Len(q1[d])
        PROVE  r1[q1[d][i]] \in {"queued", "dropped"} /\ cl[q1[d][i]] = d
    <2>1. q1[d][i] \in Writers /\ q1[d][i] # w
      <3>1. PICK j \in 1 .. Len(q[d]) : q1[d][i] = q[d][j] /\ (d = c => j # n)
        BY <1>6
      <3>2. CASE d = c
        BY <1>5, <3>1, <3>2 DEF Once
      <3>3. CASE d # c
        BY <1>5, <3>1, <3>3 DEF Placed
      <3> QED  BY <3>2, <3>3
    <2>2. PICK j \in 1 .. Len(q[d]) : q1[d][i] = q[d][j]
      BY <1>6
    <2> QED  BY <1>4, <2>1, <2>2 DEF Placed
  <1>8. ASSUME NEW d \in Class, NEW i \in 1 .. Len(q1[d]),
               NEW j \in 1 .. Len(q1[d]), q1[d][i] = q1[d][j]
        PROVE  i = j
    <2>1. old(d, i) = old(d, j)
      <3>1. /\ old(d, i) \in 1 .. Len(q[d]) /\ old(d, j) \in 1 .. Len(q[d])
            /\ q[d][old(d, i)] = q[d][old(d, j)]
        BY <1>6, <1>8
      <3> HIDE DEF old
      <3> QED  BY <3>1 DEF Once
    <2>2. i \in Int /\ j \in Int /\ n \in Int
      OBVIOUS
    <2> QED  BY <2>1, <2>2
  <1> QED  BY <1>3, <1>7, <1>8 DEF Placed, Once, q1, r1

\* Leaving a queue at its head.
LEMMA TailPlaces ==
    ASSUME NEW q \in Queues, NEW r \in [Writers -> Request],
           NEW cl \in [Writers -> Class], NEW c \in Class, q[c] # <<>>,
           NEW st \in Request, Placed(q, r, cl), Once(q)
    PROVE  /\ [q EXCEPT ![c] = Tail(@)] \in Queues
           /\ Placed([q EXCEPT ![c] = Tail(@)], [r EXCEPT ![Head(q[c])] = st], cl)
           /\ Once([q EXCEPT ![c] = Tail(@)])
           /\ Head(q[c]) \in Writers
           /\ r[Head(q[c])] \in {"queued", "dropped"}
  <1>1. q[c] \in Seq(Writers)
    BY DEF Queues
  <1>2. /\ Len(q[c]) \in Nat /\ Head(q[c]) = q[c][1] /\ Head(q[c]) \in Writers
        /\ Tail(q[c]) \in Seq(Writers) /\ Len(Tail(q[c])) = Len(q[c]) - 1
        /\ \A k \in 1 .. Len(Tail(q[c])) : Tail(q[c])[k] = q[c][k + 1]
    BY <1>1, LenProperties, HeadTailProperties
  <1>3. Len(q[c]) > 0
    BY <1>1, <1>2, EmptySeq
  <1>4. 1 \in 1 .. Len(q[c])
    BY <1>2, <1>3
  <1>5. Without(q[c], 1) = Tail(q[c])
    <2>1. /\ Without(q[c], 1) \in Seq(Writers)
          /\ Len(Without(q[c], 1)) = Len(q[c]) - 1
          /\ \A k \in 1 .. Len(q[c]) - 1 :
               Without(q[c], 1)[k] = IF k < 1 THEN q[c][k] ELSE q[c][k + 1]
      BY <1>1, <1>4, WithoutProperties
    <2>2. Len(Without(q[c], 1)) = Len(Tail(q[c]))
      BY <1>2, <2>1
    <2>3. ASSUME NEW k \in 1 .. Len(Tail(q[c]))
          PROVE  Without(q[c], 1)[k] = Tail(q[c])[k]
      <3>1. k \in 1 .. Len(q[c]) - 1 /\ ~(k < 1)
        BY <1>2, <2>3
      <3> QED  BY <1>2, <2>1, <2>3, <3>1
    <2> QED  BY <1>2, <2>1, <2>2, <2>3, SeqEqual
  <1>6. [q EXCEPT ![c] = Tail(@)] = [q EXCEPT ![c] = Without(@, 1)]
    BY <1>5
  <1>7. r[q[c][1]] \in {"queued", "dropped"}
    BY <1>4 DEF Placed
  <1>8. /\ [q EXCEPT ![c] = Without(@, 1)] \in Queues
        /\ Placed([q EXCEPT ![c] = Without(@, 1)], [r EXCEPT ![Head(q[c])] = st], cl)
        /\ Once([q EXCEPT ![c] = Without(@, 1)])
    <2>1. Head(q[c]) = q[c][1]
      BY <1>2
    <2> QED  BY <1>4, <2>1, WithoutPlaces
  <1>9. r[Head(q[c])] \in {"queued", "dropped"} /\ Head(q[c]) \in Writers
    BY <1>2, <1>7
  <1> QED  BY <1>6, <1>8, <1>9, Zenon

-----------------------------------------------------------------------------
(* grant_next_locked. *)

\* The chosen class has a waiter.
LEMMA ChosenWaits ==
    ASSUME NEW q \in Queues, NEW nu \in BOOLEAN, Waiting(q) # {}
    PROVE  /\ Chosen(q, nu) \in Waiting(q)
           /\ Chosen(q, nu) \in Class
           /\ q[Chosen(q, nu)] # <<>>
  <1>1. Priority(q) \in Waiting(q)
    BY DEF Priority, Waiting, Class
  <1>2. MaintenanceDue(q) => "maintenance" \in Waiting(q)
    BY DEF MaintenanceDue
  <1>3. InteractiveDue(q) => "interactive" \in Waiting(q)
    BY DEF InteractiveDue
  <1>4. Chosen(q, nu) \in Waiting(q)
    BY <1>1, <1>2, <1>3 DEF Chosen
  <1> QED  BY <1>4 DEF Waiting

\* With no reservation left, the next grant makes the only one.
LEMMA GrantReserves ==
    ASSUME NEW q \in Queues, NEW r \in [Writers -> Request], NEW nu \in BOOLEAN,
           Placed(q, r, class'), Once(q), class' \in [Writers -> Class],
           owners' \in [Writers -> Nat], Unreserved(r, owners'),
           GrantNext(q, r, nu)
    PROVE  Settled'
  <1>1. CASE Waiting(q) = {}
    <2>1. queue' = q /\ active' = FALSE /\ pc' = r
      BY <1>1 DEF GrantNext
    <2>2. OwnersHold'
      BY <2>1 DEF OwnersHold, Unreserved
    <2>3. Reserved' = {}
      BY <2>1 DEF Reserved, Unreserved
    <2>4. OneReservation'
      BY <2>1, <2>3 DEF OneReservation
    <2>5. IdleWriterHasNoWaiters'
      BY <1>1, <2>1 DEF IdleWriterHasNoWaiters, Waiting
    <2> QED  BY <2>1, <2>2, <2>4, <2>5 DEF Settled
  <1>2. CASE Waiting(q) # {}
    <2> DEFINE c == Chosen(q, nu)
               w == Head(q[c])
               st == IF r[w] = "dropped" THEN "orphaned" ELSE "selected"
    <2>1. c \in Class /\ q[c] # <<>>
      BY <1>2, ChosenWaits
    <2>2. /\ queue' = [q EXCEPT ![c] = Tail(@)] /\ active' = TRUE
          /\ pc' = [r EXCEPT ![w] = IF @ = "dropped" THEN "orphaned" ELSE "selected"]
      BY <1>2 DEF GrantNext
    <2> HIDE DEF c
    <2>3. st \in Request /\ st \in {"orphaned", "selected"}
      BY DEF Request
    <2>4. /\ [q EXCEPT ![c] = Tail(@)] \in Queues
          /\ Placed([q EXCEPT ![c] = Tail(@)], [r EXCEPT ![w] = st], class')
          /\ Once([q EXCEPT ![c] = Tail(@)])
          /\ w \in Writers
      <3> HIDE DEF st
      <3> QED  BY <2>1, <2>3, TailPlaces
    <2> HIDE DEF w
    <2>5. pc' = [r EXCEPT ![w] = st]
      BY <2>2, <2>4
    <2> HIDE DEF st
    <2>6. /\ pc' \in [Writers -> Request] /\ pc'[w] = st
          /\ \A v \in Writers \ {w} : pc'[v] = r[v]
      BY <2>3, <2>4, <2>5
    <2>7. OwnersHold'
      BY <2>3, <2>6 DEF OwnersHold, Unreserved
    <2>8. Reserved' = {w}
      BY <2>3, <2>4, <2>6 DEF Reserved, Unreserved
    <2>9. OneReservation'
      BY <2>2, <2>8 DEF OneReservation
    <2>10. IdleWriterHasNoWaiters'
      BY <2>2 DEF IdleWriterHasNoWaiters
    <2> QED  BY <2>2, <2>4, <2>5, <2>6, <2>7, <2>9, <2>10 DEF Settled
  <1> QED  BY <1>1, <1>2

\* A limit of the policy is at least one and fits the counter.
LEMMA Limits ==
    /\ CounterMax \in Nat /\ CounterMax >= 1
    /\ AtLeastOne(MaxNonMaintenanceBurst) \in 1 .. CounterMax
    /\ AtLeastOne(MaxCriticalBurst) \in 1 .. CounterMax
  BY PolicyAssumption DEF AtLeastOne

\* A grant passes over a waiting class only below the limit, and counts it.  A
\* grant that ignores the debt (newly uncontended) passes nobody over.
LEMMA GrantPays ==
    ASSUME NEW q \in Queues, NEW r, NEW nu \in BOOLEAN,
           nu => \A c, d \in Waiting(q) : c = d,
           DebtSound, GrantNext(q, r, nu)
    PROVE  DebtSound'
  <1>1. CASE Waiting(q) = {}
    <2>1. UNCHANGED <<consecutive_critical, consecutive_non_maintenance,
                      bypassed, critical_run>>
      BY <1>1 DEF GrantNext, counters, history
    <2> QED
      BY <2>1 DEF DebtSound, DebtCovers, MaintenanceBypassBounded,
                  CriticalRunBounded
  <1>2. CASE Waiting(q) # {}
    <2> DEFINE c == Chosen(q, nu)
               k == Contended(q, nu)
               q2 == [q EXCEPT ![c] = Tail(@)]
    <2>1. c \in Class /\ c \in Waiting(q)
      BY <1>2, ChosenWaits
    <2>2. Debt(c, k) /\ Record(c, q2)
      BY <1>2 DEF GrantNext
    <2>3. \A d \in Class \ {c} : q2[d] = q[d]
      BY DEF Queues
    <2>4. ASSUME c # "maintenance", q2["maintenance"] # <<>>
          PROVE  /\ k
                 /\ ~(consecutive_non_maintenance >=
                        AtLeastOne(MaxNonMaintenanceBurst))
      <3>1. "maintenance" \in Waiting(q)
        BY <2>3, <2>4 DEF Waiting, Class
      <3>2. k
        BY <2>1, <2>4, <3>1 DEF Contended
      <3>3. ~MaintenanceDue(q)
        BY <2>4, <3>2 DEF Chosen
      <3> QED  BY <3>1, <3>2, <3>3 DEF MaintenanceDue
    <2>5. ASSUME c = "critical", q2["interactive"] # <<>>
          PROVE  /\ k
                 /\ ~(consecutive_critical >= AtLeastOne(MaxCriticalBurst))
      <3>1. {"interactive", "critical"} \subseteq Waiting(q)
        BY <2>1, <2>3, <2>5 DEF Waiting, Class
      <3>2. k
        BY <2>1, <2>5, <3>1 DEF Contended
      <3>3. ~InteractiveDue(q)
        BY <2>5, <3>2 DEF Chosen
      <3> QED  BY <3>1, <3>2, <3>3 DEF InteractiveDue
    <2> HIDE DEF c, k, q2
    <2>6. /\ consecutive_non_maintenance' \in 0 .. CounterMax
          /\ consecutive_critical' \in 0 .. CounterMax
      BY <2>2, Limits DEF Debt, SaturatingInc, DebtSound
    <2>7. /\ bypassed' \in Nat
          /\ bypassed' <= consecutive_non_maintenance'
          /\ bypassed' <= AtLeastOne(MaxNonMaintenanceBurst)
      <3>1. CASE c = "maintenance" \/ q2["maintenance"] = <<>>
        <4>1. bypassed' = 0
          BY <2>2, <3>1 DEF Record
        <4> QED  BY <2>6, <4>1, Limits
      <3>2. CASE c # "maintenance" /\ q2["maintenance"] # <<>>
        <4> DEFINE limit == AtLeastOne(MaxNonMaintenanceBurst)
        <4>1. k /\ ~(consecutive_non_maintenance >= limit)
          BY <2>4, <3>2
        <4>2. /\ limit \in 1 .. CounterMax /\ CounterMax \in Nat
              /\ consecutive_non_maintenance \in 0 .. CounterMax
              /\ bypassed \in Nat
              /\ bypassed <= consecutive_non_maintenance
          BY Limits DEF DebtSound, DebtCovers
        <4>3. bypassed' = IF bypassed <= limit THEN bypassed + 1 ELSE bypassed
          BY <2>2, <3>2 DEF Record, PassedOver
        <4>4. consecutive_non_maintenance' =
                IF consecutive_non_maintenance < CounterMax
                THEN consecutive_non_maintenance + 1
                ELSE consecutive_non_maintenance
          BY <2>2, <3>2, <4>1 DEF Debt, SaturatingInc
        <4> HIDE DEF limit
        <4>5. /\ bypassed' \in Nat
              /\ bypassed' <= consecutive_non_maintenance'
              /\ bypassed' <= limit
          BY <4>1, <4>2, <4>3, <4>4
        <4> QED  BY <4>5 DEF limit
      <3> QED  BY <3>1, <3>2
    <2>8. /\ critical_run' \in Nat
          /\ critical_run' <= consecutive_critical'
          /\ critical_run' <= AtLeastOne(MaxCriticalBurst)
      <3>1. CASE c # "critical" \/ q2["interactive"] = <<>>
        <4>1. critical_run' = 0
          BY <2>2, <3>1 DEF Record
        <4> QED  BY <2>6, <4>1, Limits
      <3>2. CASE c = "critical" /\ q2["interactive"] # <<>>
        <4> DEFINE limit == AtLeastOne(MaxCriticalBurst)
        <4>1. k /\ ~(consecutive_critical >= limit)
          BY <2>5, <3>2
        <4>2. /\ limit \in 1 .. CounterMax /\ CounterMax \in Nat
              /\ consecutive_critical \in 0 .. CounterMax
              /\ critical_run \in Nat
              /\ critical_run <= consecutive_critical
          BY Limits DEF DebtSound, DebtCovers
        <4>3. critical_run' =
                IF critical_run <= limit THEN critical_run + 1 ELSE critical_run
          BY <2>2, <3>2 DEF Record, PassedOver
        <4>4. consecutive_critical' =
                IF consecutive_critical < CounterMax
                THEN consecutive_critical + 1 ELSE consecutive_critical
          BY <2>2, <3>2, <4>1 DEF Debt, SaturatingInc
        <4> HIDE DEF limit
        <4>5. /\ critical_run' \in Nat
              /\ critical_run' <= consecutive_critical'
              /\ critical_run' <= limit
          BY <4>1, <4>2, <4>3, <4>4
        <4> QED  BY <4>5 DEF limit
      <3> QED  BY <3>1, <3>2
    <2> QED
      BY <2>6, <2>7, <2>8
         DEF DebtSound, DebtCovers, MaintenanceBypassBounded, CriticalRunBounded
  <1> QED  BY <1>1, <1>2

-----------------------------------------------------------------------------
(* The actions. *)

\* A request that is not in a queue, or stays waiting there, disturbs none.
LEMMA PlacedElsewhere ==
    ASSUME Settled, NEW w \in Writers, NEW st \in Request,
           \/ pc[w] \notin {"queued", "dropped"}
           \/ st \in {"queued", "dropped"}
    PROVE  Placed(queue, [pc EXCEPT ![w] = st], class)
  <1> DEFINE r == [pc EXCEPT ![w] = st]
  <1>1. r[w] = st /\ \A v \in Writers \ {w} : r[v] = pc[v]
    BY DEF Settled
  <1>2. ASSUME NEW c \in Class, NEW i \in 1 .. Len(queue[c])
        PROVE  queue[c][i] \in Writers
    BY ElementOfSeq DEF Settled, Queues
  <1> HIDE DEF r
  <1>3. Placed(queue, r, class)
    BY <1>1, <1>2 DEF Settled, Placed
  <1> QED  BY <1>3 DEF r

\* What ages is a maintenance waiter.
LEMMA AgedTypes ==
    ASSUME aged \subseteq Writers, AgedWaiters
    PROVE  aged' \subseteq Writers
  BY DEF AgedWaiters

\* A request moves to the state st, and the same reservation, or none, exists.
MovesTo(w, st) ==
    /\ st \in Request
    /\ \/ pc[w] \notin {"queued", "dropped"}
       \/ st \in {"queued", "dropped"}
    /\ pc' = [pc EXCEPT ![w] = st]
    /\ UNCHANGED <<queue, active, counters, class, history>>
    /\ aged' \subseteq Writers
    /\ owners' \in [Writers -> Nat]
    /\ \A v \in Writers \ {w} : owners'[v] = owners[v]
    /\ owners'[w] > 0 <=> st = "holding"
    /\ (w \in Reserved) <=>
           st \in {"selected", "orphaned", "granted", "holding"}

\* Such a move keeps the invariant.
LEMMA MoveKeeps ==
    ASSUME IInv, NEW w \in Writers, NEW st, MovesTo(w, st)
    PROVE  IInv'
  <1>1. /\ pc' \in [Writers -> Request] /\ pc'[w] = st
        /\ \A v \in Writers \ {w} : pc'[v] = pc[v]
    BY DEF IInv, Settled, MovesTo
  <1>2. UNCHANGED <<queue, active, class, consecutive_critical,
                    consecutive_non_maintenance, bypassed, critical_run>>
    BY DEF counters, history, MovesTo
  <1>3. Placed(queue', pc', class') /\ Once(queue')
    <2>1. Placed(queue, [pc EXCEPT ![w] = st], class)
      BY PlacedElsewhere DEF IInv, MovesTo
    <2> QED  BY <1>2, <2>1 DEF IInv, Settled, MovesTo
  <1>4. OwnersHold'
    BY <1>1 DEF OwnersHold, IInv, Settled, MovesTo
  <1>5. Reserved' = Reserved
    <2>1. w \in Reserved' <=> w \in Reserved
      BY <1>1 DEF Reserved, MovesTo
    <2>2. ASSUME NEW v \in Writers, v # w
          PROVE  v \in Reserved' <=> v \in Reserved
      BY <1>1, <2>2 DEF Reserved, MovesTo
    <2> QED  BY <2>1, <2>2 DEF Reserved
  <1>6. OneReservation' /\ IdleWriterHasNoWaiters'
    BY <1>2, <1>5 DEF IInv, Settled, OneReservation, IdleWriterHasNoWaiters
  <1>7. Settled'
    BY <1>1, <1>2, <1>3, <1>4, <1>6 DEF IInv, Settled
  <1>8. DebtSound'
    BY <1>2 DEF IInv, DebtSound, DebtCovers, MaintenanceBypassBounded,
                CriticalRunBounded
  <1> QED  BY <1>2, <1>7, <1>8 DEF IInv, MovesTo

\* The owner of the reservation gives it up: nobody else has one, so the next
\* grant is the only one.
LEMMA ReleaseKeeps ==
    ASSUME IInv, NEW w \in Writers, w \in Reserved, Release(w),
           UNCHANGED class, aged' \subseteq Writers,
           owners' \in [Writers -> Nat], owners'[w] = 0,
           \A v \in Writers \ {w} : owners'[v] = owners[v]
    PROVE  IInv'
  <1> DEFINE r == [pc EXCEPT ![w] = "idle"]
  <1>1. /\ r \in [Writers -> Request] /\ r[w] = "idle"
        /\ \A v \in Writers \ {w} : r[v] = pc[v]
    BY DEF IInv, Settled, Request
  <1>2. pc[w] \notin {"queued", "dropped"}
    BY DEF IInv, Settled, OwnersHold, Reserved
  <1>3. Placed(queue, r, class')
    BY <1>2, PlacedElsewhere DEF IInv, Request
  <1>4. GrantNext(queue, r, FALSE)
    BY DEF Release
  <1> HIDE DEF r
  <1>5. Unreserved(r, owners')
    <2>1. ASSUME NEW v \in Writers, v # w
          PROVE  r[v] \in {"idle", "queued", "dropped"} /\ owners'[v] = 0
      <3>1. v \notin Reserved
        BY <2>1 DEF IInv, Settled, OneReservation
      <3>2. pc[v] \notin {"selected", "orphaned", "granted"} /\ owners[v] = 0
        BY <3>1 DEF Reserved, IInv
      <3>3. pc[v] # "holding" /\ pc[v] \in Request
        BY <3>2 DEF IInv, Settled, OwnersHold
      <3> QED  BY <1>1, <2>1, <3>2, <3>3 DEF Request
    <2> QED  BY <1>1, <2>1 DEF Unreserved
  <1>6. Settled'
    BY <1>1, <1>3, <1>4, <1>5, GrantReserves DEF IInv, Settled
  <1>7. DebtSound'
    BY <1>4, GrantPays DEF IInv, Settled
  <1> QED  BY <1>6, <1>7 DEF IInv

\* acquire(): a request that finds the writer idle finds every queue empty.
LEMMA EnqueueKeeps ==
    ASSUME IInv, NEW w \in Writers, NEW c \in Class, Enqueue(w, c)
    PROVE  IInv'
  <1> DEFINE q == [queue EXCEPT ![c] = Append(@, w)]
             r == [pc EXCEPT ![w] = "queued"]
  <1>1. /\ pc[w] = "idle" /\ UNCHANGED owners /\ AgedWaiters
        /\ class' = [class EXCEPT ![w] = c]
    BY DEF Enqueue
  <1>2. q \in Queues /\ Placed(q, r, class') /\ Once(q)
    BY <1>1, AppendPlaces DEF IInv, Settled
  <1>3. /\ r \in [Writers -> Request] /\ r[w] = "queued"
        /\ \A v \in Writers \ {w} : r[v] = pc[v]
    BY DEF IInv, Settled, Request
  <1>4. class' \in [Writers -> Class] /\ aged' \subseteq Writers
        /\ owners' \in [Writers -> Nat]
    BY <1>1, AgedTypes DEF IInv
  <1>5. \/ /\ active /\ queue' = q /\ pc' = r
           /\ UNCHANGED <<active, counters, history>>
        \/ ~active /\ GrantNext(q, r, TRUE)
    BY DEF Enqueue
  <1>6. \A d \in Class \ {c} : q[d] = queue[d]
    BY DEF IInv, Settled, Queues
  <1> HIDE DEF q, r
  <1>7. CASE /\ active /\ queue' = q /\ pc' = r
             /\ UNCHANGED <<active, counters, history>>
    <2>1. OwnersHold'
      BY <1>1, <1>3, <1>7 DEF OwnersHold, IInv, Settled
    <2>2. Reserved' = Reserved
      BY <1>1, <1>3, <1>7 DEF Reserved
    <2>3. OneReservation' /\ IdleWriterHasNoWaiters'
      BY <1>7, <2>2 DEF OneReservation, IdleWriterHasNoWaiters, IInv, Settled
    <2>4. Settled'
      BY <1>2, <1>3, <1>7, <2>1, <2>3 DEF Settled, IInv
    <2>5. DebtSound'
      BY <1>7 DEF IInv, DebtSound, DebtCovers, MaintenanceBypassBounded,
                  CriticalRunBounded, counters, history
    <2> QED  BY <1>4, <2>4, <2>5 DEF IInv
  <1>8. CASE ~active /\ GrantNext(q, r, TRUE)
    <2>1. Reserved = {} /\ \A d \in Class : queue[d] = <<>>
      BY <1>8 DEF IInv, Settled, OneReservation, IdleWriterHasNoWaiters
    <2>2. Unreserved(r, owners')
      <3>1. ASSUME NEW v \in Writers
            PROVE  /\ pc[v] \in {"idle", "queued", "dropped"}
                   /\ owners[v] = 0
        <4>1. pc[v] \notin {"selected", "orphaned", "granted"} /\ owners[v] = 0
          BY <2>1 DEF Reserved, IInv
        <4>2. pc[v] # "holding" /\ pc[v] \in Request
          BY <4>1 DEF IInv, Settled, OwnersHold
        <4> QED  BY <4>1, <4>2 DEF Request
      <3> QED  BY <1>1, <1>3, <3>1 DEF Unreserved
    <2>3. \A d, e \in Waiting(q) : d = e
      BY <1>6, <2>1 DEF Waiting
    <2>4. Settled'
      BY <1>2, <1>3, <1>4, <1>8, <2>2, GrantReserves
    <2>5. DebtSound'
      BY <1>2, <1>8, <2>3, GrantPays DEF IInv
    <2> QED  BY <1>4, <2>4, <2>5 DEF IInv
  <1> QED  BY <1>5, <1>7, <1>8

\* dispatch(): a reservation that cannot be sent is given up.
LEMMA DispatchKeeps ==
    ASSUME IInv, NEW w \in Writers, Dispatch(w)
    PROVE  IInv'
  <1>1. UNCHANGED <<class, owners>> /\ aged' \subseteq Writers
    BY AgedTypes DEF Dispatch, IInv
  <1>2. owners[w] = 0 /\ w \in Reserved
    BY DEF Dispatch, IInv, Settled, OwnersHold, Reserved
  <1>3. CASE /\ pc[w] = "selected" /\ pc' = [pc EXCEPT ![w] = "granted"]
             /\ UNCHANGED <<queue, active, counters, history>>
    <2>1. UNCHANGED <<queue, active, counters, class, history>>
          /\ owners' \in [Writers -> Nat] /\ owners' = owners
      BY <1>1, <1>3 DEF IInv
    <2>2. MovesTo(w, "granted")
      BY <1>1, <1>2, <1>3, <2>1 DEF MovesTo, Request, Reserved
    <2> QED  BY <2>2, MoveKeeps
  <1>4. CASE Release(w)
    BY <1>1, <1>2, <1>4, ReleaseKeeps DEF IInv
  <1> QED  BY <1>3, <1>4 DEF Dispatch

\* The reservation becomes a permit.
LEMMA StartPermitKeeps ==
    ASSUME IInv, NEW w \in Writers, StartPermit(w)
    PROVE  IInv'
  <1>1. /\ pc[w] = "granted" /\ pc' = [pc EXCEPT ![w] = "holding"]
        /\ UNCHANGED <<queue, active, counters, class, history>>
        /\ aged' \subseteq Writers
    BY DEF StartPermit, IInv
  <1>2. /\ owners' \in [Writers -> Nat] /\ owners'[w] = 1
        /\ \A v \in Writers \ {w} : owners'[v] = owners[v]
    BY DEF StartPermit, IInv
  <1>3. w \in Reserved
    BY <1>1 DEF Reserved
  <1>6. MovesTo(w, "holding")
    BY <1>1, <1>2, <1>3 DEF MovesTo, Request, Reserved
  <1> QED  BY <1>6, MoveKeeps

\* A savepoint, or an owner that is not the last, leaves the permit held.
LEMMA OwnersChange ==
    ASSUME IInv, NEW w \in Writers, NEW n \in Nat \ {0}, pc[w] = "holding",
           owners' = [owners EXCEPT ![w] = n],
           UNCHANGED <<queue, active, counters, pc, class, history>>,
           aged' \subseteq Writers
    PROVE  IInv'
  <1>1. pc' = [pc EXCEPT ![w] = "holding"]
    BY DEF IInv, Settled
  <1>2. /\ owners' \in [Writers -> Nat] /\ owners'[w] = n
        /\ \A v \in Writers \ {w} : owners'[v] = owners[v]
    BY DEF IInv
  <1>3. w \in Reserved
    BY DEF Reserved, IInv, Settled, OwnersHold
  <1>4. UNCHANGED <<queue, active, counters, class, history>>
    OBVIOUS
  <1>5. owners'[w] > 0
    BY <1>2
  <1>6. MovesTo(w, "holding")
    BY <1>1, <1>2, <1>3, <1>4, <1>5 DEF MovesTo, Request, Reserved
  <1> QED  BY <1>6, MoveKeeps

\* begin() on a transaction.
LEMMA BeginNestedKeeps ==
    ASSUME IInv, NEW w \in Writers, BeginNested(w)
    PROVE  IInv'
  <1>1. owners[w] + 1 \in Nat \ {0} /\ owners' = [owners EXCEPT ![w] = owners[w] + 1]
    BY DEF BeginNested, IInv
  <1>2. /\ pc[w] = "holding" /\ aged' \subseteq Writers
        /\ UNCHANGED <<queue, active, counters, pc, class, history>>
    BY DEF BeginNested, IInv
  <1> QED  BY <1>1, <1>2, OwnersChange

\* Only the last owner of the permit releases the writer.
LEMMA DropOwnerKeeps ==
    ASSUME IInv, NEW w \in Writers, DropOwner(w)
    PROVE  IInv'
  <1>1. /\ pc[w] = "holding" /\ owners' = [owners EXCEPT ![w] = owners[w] - 1]
        /\ UNCHANGED class /\ aged' \subseteq Writers
    BY AgedTypes DEF DropOwner, IInv
  <1>2. owners[w] > 0 /\ owners[w] \in Nat /\ w \in Reserved
    BY <1>1 DEF IInv, Settled, OwnersHold, Reserved
  <1>3. CASE owners[w] = 1
    <2>1. /\ owners' \in [Writers -> Nat] /\ owners'[w] = 0
          /\ \A v \in Writers \ {w} : owners'[v] = owners[v]
      BY <1>1, <1>3 DEF IInv
    <2>2. Release(w)
      BY <1>3 DEF DropOwner
    <2> QED  BY <1>1, <1>2, <2>1, <2>2, ReleaseKeeps
  <1>4. CASE owners[w] # 1
    <2>1. owners[w] - 1 \in Nat \ {0}
      BY <1>2, <1>4
    <2>2. UNCHANGED <<queue, active, counters, pc, class, history>>
      BY <1>1, <1>4 DEF DropOwner
    <2> QED  BY <1>1, <2>1, <2>2, OwnersChange
  <1> QED  BY <1>3, <1>4

\* A dropped future gives up the reservation that was sent to it.
LEMMA DropReceiverKeeps ==
    ASSUME IInv, NEW w \in Writers, DropReceiver(w)
    PROVE  IInv'
  <1>1. /\ UNCHANGED <<class, owners>> /\ aged' \subseteq Writers
        /\ pc[w] \in {"queued", "selected", "granted"}
    BY AgedTypes DEF DropReceiver, IInv
  <1>2. /\ owners[w] = 0
        /\ w \in Reserved <=> pc[w] \in {"selected", "granted"}
    BY <1>1 DEF IInv, Settled, OwnersHold, Reserved
  <1>3. CASE Release(w) /\ pc[w] = "granted"
    BY <1>1, <1>2, <1>3, ReleaseKeeps DEF IInv
  <1>4. CASE /\ pc[w] = "queued" /\ pc' = [pc EXCEPT ![w] = "dropped"]
             /\ UNCHANGED <<queue, active, counters, history>>
    <2>1. UNCHANGED <<queue, active, counters, class, history>>
          /\ owners' \in [Writers -> Nat] /\ owners' = owners
      BY <1>1, <1>4 DEF IInv
    <2>2. MovesTo(w, "dropped")
      BY <1>1, <1>2, <1>4, <2>1 DEF MovesTo, Request, Reserved
    <2> QED  BY <2>2, MoveKeeps
  <1>5. CASE /\ pc[w] = "selected" /\ pc' = [pc EXCEPT ![w] = "orphaned"]
             /\ UNCHANGED <<queue, active, counters, history>>
    <2>1. UNCHANGED <<queue, active, counters, class, history>>
          /\ owners' \in [Writers -> Nat] /\ owners' = owners
      BY <1>1, <1>5 DEF IInv
    <2>2. MovesTo(w, "orphaned")
      BY <1>1, <1>2, <1>5, <2>1 DEF MovesTo, Request, Reserved
    <2> QED  BY <2>2, MoveKeeps
  <1> QED  BY <1>3, <1>4, <1>5 DEF DropReceiver

\* cancel(): the writer is never idle while there is a request to cancel.
LEMMA CancelKeeps ==
    ASSUME IInv, NEW w \in Writers, Cancel(w)
    PROVE  IInv'
  <1> DEFINE c == class[w]
             r == [pc EXCEPT ![w] = "idle"]
             q(i) == [queue EXCEPT ![c] = Without(@, i)]
  <1>1. c \in Class /\ queue[c] \in Seq(Writers)
    BY DEF IInv, Settled, Queues
  <1>2. PICK i \in 1 .. Len(queue[c]) :
          /\ pc[w] = "dropped" /\ queue[c][i] = w
          /\ IF active
             THEN /\ queue' = q(i) /\ pc' = r
                  /\ bypassed' = IF q(i)["maintenance"] = <<>> THEN 0 ELSE bypassed
                  /\ critical_run' = IF q(i)["interactive"] = <<>> THEN 0
                                     ELSE critical_run
                  /\ UNCHANGED <<active, counters>>
             ELSE GrantNext(q(i), r, FALSE)
          /\ AgedWaiters
          /\ UNCHANGED <<class, owners>>
    <2>1. DOMAIN queue[c] = 1 .. Len(queue[c])
      BY <1>1, LenProperties
    <2> QED  BY <2>1 DEF Cancel
  <1>3. active
    <2>1. queue[c] # <<>>
      BY <1>2
    <2> QED  BY <1>1, <2>1 DEF IInv, Settled, IdleWriterHasNoWaiters
  <1>4. q(i) \in Queues /\ Placed(q(i), r, class) /\ Once(q(i))
    BY <1>1, <1>2, WithoutPlaces DEF IInv, Settled, Request
  <1>5. /\ r \in [Writers -> Request] /\ r[w] = "idle"
        /\ \A v \in Writers \ {w} : r[v] = pc[v]
    BY DEF IInv, Settled, Request
  <1>6. /\ queue' = q(i) /\ pc' = r
        /\ bypassed' \in {0, bypassed} /\ critical_run' \in {0, critical_run}
        /\ UNCHANGED <<active, counters, class, owners>>
        /\ aged' \subseteq Writers /\ pc[w] = "dropped"
    BY <1>2, <1>3, AgedTypes DEF IInv
  <1> HIDE DEF q, r
  <1>7. OwnersHold'
    BY <1>5, <1>6 DEF OwnersHold, IInv, Settled
  <1>8. Reserved' = Reserved
    BY <1>5, <1>6 DEF Reserved
  <1>9. OneReservation' /\ IdleWriterHasNoWaiters'
    BY <1>3, <1>6, <1>8 DEF OneReservation, IdleWriterHasNoWaiters, IInv, Settled
  <1>10. Settled'
    BY <1>4, <1>5, <1>6, <1>7, <1>9 DEF Settled, IInv
  <1>11. DebtSound'
    BY <1>6, Limits
       DEF IInv, DebtSound, DebtCovers, MaintenanceBypassBounded,
           CriticalRunBounded, counters
  <1> QED  BY <1>6, <1>10, <1>11 DEF IInv

\* Ageing changes no request.
LEMMA AgeKeeps ==
    ASSUME IInv, NEW w \in Writers, Age(w)
    PROVE  IInv'
  <1>1. /\ UNCHANGED <<queue, active, pc, class, owners, consecutive_critical,
                       consecutive_non_maintenance, bypassed, critical_run>>
        /\ aged' \subseteq Writers
    BY DEF Age, IInv, counters, history
  <1>2. Settled'
    BY <1>1 DEF IInv, Settled, OwnersHold, OneReservation, Reserved,
                IdleWriterHasNoWaiters
  <1>3. DebtSound'
    BY <1>1 DEF IInv, DebtSound, DebtCovers, MaintenanceBypassBounded,
                CriticalRunBounded
  <1> QED  BY <1>1, <1>2, <1>3 DEF IInv

-----------------------------------------------------------------------------
(* The theorems. *)

\* A new writer is idle, and nobody waits.
LEMMA InitInvariant == Init => IInv
  <1> SUFFICES ASSUME Init PROVE IInv
    OBVIOUS
  <1>1. queue \in Queues /\ \A c \in Class : queue[c] = <<>>
    BY DEF Init, Queues
  <1>2. \A c \in Class : Len(queue[c]) = 0
    BY <1>1
  <1>3. Placed(queue, pc, class) /\ Once(queue)
    BY <1>2 DEF Placed, Once
  <1>4. OwnersHold /\ Reserved = {}
    BY DEF Init, OwnersHold, Reserved
  <1>5. OneReservation /\ IdleWriterHasNoWaiters
    BY <1>1, <1>4 DEF Init, OneReservation, IdleWriterHasNoWaiters
  <1>6. Settled
    BY <1>1, <1>3, <1>4, <1>5 DEF Init, Settled, Request
  <1>7. DebtSound
    BY Limits DEF Init, DebtSound, DebtCovers, MaintenanceBypassBounded,
                  CriticalRunBounded
  <1> QED  BY <1>6, <1>7 DEF Init, IInv, Class

\* Every step keeps the invariant.
LEMMA NextInvariant ==
    ASSUME IInv, [Next]_vars
    PROVE  IInv'
  <1>1. CASE UNCHANGED vars
    <2>1. UNCHANGED <<queue, active, pc, class, owners, consecutive_critical,
                      consecutive_non_maintenance, aged, bypassed, critical_run>>
      BY <1>1 DEF vars, counters, history
    <2>2. Settled'
      BY <2>1 DEF IInv, Settled, OwnersHold, OneReservation, Reserved,
                  IdleWriterHasNoWaiters
    <2>3. DebtSound'
      BY <2>1 DEF IInv, DebtSound, DebtCovers, MaintenanceBypassBounded,
                  CriticalRunBounded
    <2> QED  BY <2>1, <2>2, <2>3 DEF IInv
  <1>2. CASE Next
    BY <1>2, EnqueueKeeps, DispatchKeeps, StartPermitKeeps, BeginNestedKeeps,
       DropOwnerKeeps, DropReceiverKeeps, CancelKeeps, AgeKeeps DEF Next
  <1> QED  BY <1>1, <1>2

\* The invariant is inductive, hence always true.
THEOREM Inductive == Spec => []IInv
  BY InitInvariant, NextInvariant, PTL DEF Spec

\* Every variable keeps its type; the burst counters never pass the width at
\* which saturating_add stops.
THEOREM TypeCorrect == Spec => []TypeOK
  <1>1. IInv => TypeOK
    BY DEF IInv, Settled, DebtSound, Queues, TypeOK
  <1> QED  BY <1>1, Inductive, PTL

\* One reservation exists at a time, and active says whether it does.
THEOREM WriterHasOneOwner == Spec => []OneReservation
  <1>1. IInv => OneReservation
    BY DEF IInv, Settled
  <1> QED  BY <1>1, Inductive, PTL

\* No request waits for a writer that nobody uses.
THEOREM NobodyWaitsForAnIdleWriter == Spec => []IdleWriterHasNoWaiters
  <1>1. IInv => IdleWriterHasNoWaiters
    BY DEF IInv, Settled
  <1> QED  BY <1>1, Inductive, PTL

\* Waiting maintenance is passed over at most max_non_maintenance_burst times.
THEOREM MaintenanceIsServed == Spec => []MaintenanceBypassBounded
  <1>1. IInv => MaintenanceBypassBounded
    BY DEF IInv, DebtSound
  <1> QED  BY <1>1, Inductive, PTL

\* Waiting interactive work sees at most max_critical_burst critical grants in a
\* row.
THEOREM CriticalRunsEnd == Spec => []CriticalRunBounded
  <1>1. IInv => CriticalRunBounded
    BY DEF IInv, DebtSound
  <1> QED  BY <1>1, Inductive, PTL
=============================================================================
