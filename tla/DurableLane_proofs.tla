------------------------- MODULE DurableLane_proofs -------------------------
(***************************************************************************)
(* Proofs about DurableLane: type correctness, the single consumer, the    *)
(* backlog that survives its listeners, the honesty of a positive commit   *)
(* acknowledgement and the turn transitions that envelopes keep locked,    *)
(* for every number of publishers, listeners and turns, every capacity and *)
(* every number of events.                                                 *)
(***************************************************************************)
EXTENDS DurableLane, SequenceTheorems, TLAPS

\* A listener has an unacknowledged event exactly while it handles one.
PendingWhileHandling ==
    \A l \in Listeners : pending[l] # NoEvent <=> lease[l] = "handling"

\* A publish call borrows the hub, which therefore outlives it.
CallsHoldHub ==
    ~hub => \A p \in Publishers : publisher[p] \notin {"reserving", "waiting"}

LocalInv == TypeOK /\ PendingWhileHandling /\ CallsHoldHub

\* Capacity is a positive number whatever durable_capacity says.
LEMMA CapacityPositive == Capacity \in Nat /\ Capacity >= 1
BY LaneAssumption DEF Capacity

\* NoEvent is not an envelope.
LEMMA NoEventIsNone == NoEvent \notin Envelope
BY LaneAssumption DEF Envelope

\* What Answer leaves behind, whichever listener it answers for.
LEMMA AnswerLocal ==
    ASSUME TypeOK, NEW l \in Listeners, NEW result \in {"ok", "rejected"},
           Answer(l, result)
    PROVE  /\ pending' \in [Listeners -> Envelope \cup {NoEvent}]
           /\ publisher' \in [Publishers -> {"idle", "reserving", "waiting", "ok", "rejected"}]
           /\ holders' \in [Turns -> SUBSET (Publishers \cup Envelope)]
           /\ \A k \in Listeners : pending'[k] = IF k = l THEN NoEvent ELSE pending[k]
           /\ \A p \in Publishers : publisher'[p] # publisher[p] =>
                  /\ publisher[p] = "waiting"
                  /\ pending[l] # NoEvent
                  /\ call[p] = pending[l]
                  /\ publisher'[p] = result
BY DEF TypeOK, Answer, WithoutClones

\* The lane starts with an open hub and nothing pending.
LEMMA InitLocal == Init => LocalInv
<1> SUFFICES ASSUME Init PROVE LocalInv
  OBVIOUS
<1>1. call \in [Publishers -> Envelope]
  BY LaneAssumption DEF Init, Envelope
<1>2. TypeOK
  <2>1. queue \in Seq(Envelope) /\ Len(queue) <= Capacity /\ received \in Seq(Nat)
    BY CapacityPositive DEF Init
  <2>2. pending \in [Listeners -> Envelope \cup {NoEvent}] /\ sent \in 0..MaxEvents
    BY LaneAssumption DEF Init
  <2>3. lease \in [Listeners -> {"none", "idle", "receiving", "handling", "ended"}]
        /\ publisher \in [Publishers -> {"idle", "reserving", "waiting", "ok", "rejected"}]
    BY DEF Init
  <2> QED
    BY <1>1, <2>1, <2>2, <2>3 DEF Init, TypeOK
<1>3. PendingWhileHandling /\ CallsHoldHub
  BY DEF Init, PendingWhileHandling, CallsHoldHub
<1> QED
  BY <1>2, <1>3 DEF LocalInv

\* Every step of the lane keeps types, the unacknowledged events and the hub
\* in place.
LEMMA StepLocal == LocalInv /\ [Next]_vars => LocalInv'
<1> SUFFICES ASSUME LocalInv, [Next]_vars PROVE LocalInv'
  OBVIOUS
<1> USE DEF LocalInv
<1>1. ASSUME NEW p \in Publishers, NEW waits \in BOOLEAN, NEW turn \in Turns \cup {NoTurn},
             Publish(p, waits, turn)
      PROVE  LocalInv'
  <2>1. [id |-> 0, by |-> p, waits |-> waits, turn |-> turn] \in Envelope
    BY DEF Envelope
  <2>2. TypeOK'
    BY <1>1, <2>1 DEF Publish, TypeOK, WithClone
  <2> QED
    BY <1>1, <2>2 DEF Publish, PendingWhileHandling, CallsHoldHub
<1>2. ASSUME NEW p \in Publishers, Send(p) PROVE LocalInv'
  <2> DEFINE e == [call[p] EXCEPT !.id = sent + 1]
  <2>1. e \in Envelope /\ sent + 1 \in 0..MaxEvents
    <3>1. sent \in Nat /\ sent + 1 \in 0..MaxEvents
      BY <1>2, LaneAssumption DEF Send, TypeOK
    <3>2. call[p] \in Envelope
      BY DEF TypeOK
    <3> QED
      BY <3>1, <3>2 DEF Envelope
  <2>2. Append(queue, e) \in Seq(Envelope) /\ Len(Append(queue, e)) <= Capacity
    BY <1>2, <2>1, CapacityPositive DEF Send, TypeOK
  <2>3. TypeOK'
    <3>1. holders' \in [Turns -> SUBSET (Publishers \cup Envelope)]
      BY <1>2, <2>1 DEF Send, TypeOK
    <3> QED
      BY <1>2, <2>1, <2>2, <3>1 DEF Send, TypeOK
  <2>4. PendingWhileHandling'
    BY <1>2 DEF Send, PendingWhileHandling
  <2>5. hub' = hub /\ hub
    BY <1>2 DEF Send, CallsHoldHub
  <2> QED
    BY <2>3, <2>4, <2>5 DEF CallsHoldHub
<1>3. ASSUME NEW p \in Publishers, CancelPublish(p) PROVE LocalInv'
  <2>1. holders' \in [Turns -> SUBSET (Publishers \cup Envelope)]
    BY <1>3 DEF CancelPublish, WithoutClones, TypeOK
  <2> QED
    BY <1>3, <2>1 DEF CancelPublish, TypeOK, PendingWhileHandling, CallsHoldHub
<1>4. ASSUME NEW l \in Listeners, TakeReceiver(l) PROVE LocalInv'
  BY <1>4 DEF TakeReceiver, TypeOK, PendingWhileHandling, CallsHoldHub
<1>5. ASSUME NEW l \in Listeners, Recv(l) PROVE LocalInv'
  <2>1. Answer(l, "rejected")
    BY <1>5 DEF Recv
  <2>2. TypeOK'
    BY <1>5, <2>1, AnswerLocal DEF Recv, TypeOK
  <2>3. PendingWhileHandling'
    BY <1>5, <2>1, AnswerLocal DEF Recv, TypeOK, PendingWhileHandling
  <2>4. CallsHoldHub'
    BY <1>5, <2>1, AnswerLocal DEF Recv, CallsHoldHub
  <2> QED
    BY <2>2, <2>3, <2>4
<1>6. ASSUME NEW l \in Listeners, RecvReady(l) PROVE LocalInv'
  <2>1. Head(queue) \in Envelope /\ Tail(queue) \in Seq(Envelope)
        /\ Len(Tail(queue)) <= Capacity
    BY <1>6, CapacityPositive DEF RecvReady, TypeOK
  <2>2. Append(received, Head(queue).id) \in Seq(Nat)
    BY <2>1 DEF TypeOK, Envelope
  <2>3. TypeOK'
    BY <1>6, <2>1, <2>2 DEF RecvReady, TypeOK
  <2>4. PendingWhileHandling'
    BY <1>6, <2>1, NoEventIsNone DEF RecvReady, TypeOK, PendingWhileHandling
  <2> QED
    BY <1>6, <2>3, <2>4 DEF RecvReady, CallsHoldHub
<1>7. ASSUME NEW l \in Listeners, RecvNone(l) PROVE LocalInv'
  BY <1>7 DEF RecvNone, TypeOK, PendingWhileHandling, CallsHoldHub
<1>8. ASSUME NEW l \in Listeners, CancelRecv(l) PROVE LocalInv'
  BY <1>8 DEF CancelRecv, TypeOK, PendingWhileHandling, CallsHoldHub
<1>9. ASSUME NEW l \in Listeners, NEW result \in {"ok", "rejected"}, AcknowledgeLast(l, result)
      PROVE  LocalInv'
  <2>1. Answer(l, result)
    BY <1>9 DEF AcknowledgeLast
  <2>2. pending[l] \in Envelope /\ pending[l].id \in Nat
    BY <1>9 DEF AcknowledgeLast, PendingWhileHandling, TypeOK, Envelope
  <2>3. TypeOK'
    BY <1>9, <2>1, <2>2, AnswerLocal DEF AcknowledgeLast, TypeOK
  <2>4. PendingWhileHandling'
    BY <1>9, <2>1, AnswerLocal DEF AcknowledgeLast, TypeOK, PendingWhileHandling
  <2>5. CallsHoldHub'
    BY <1>9, <2>1, AnswerLocal DEF AcknowledgeLast, CallsHoldHub
  <2> QED
    BY <2>3, <2>4, <2>5
<1>10. ASSUME NEW l \in Listeners, DropReceiver(l) PROVE LocalInv'
  <2>1. Answer(l, "rejected")
    BY <1>10 DEF DropReceiver
  <2>2. TypeOK'
    BY <1>10, <2>1, AnswerLocal DEF DropReceiver, TypeOK
  <2>3. PendingWhileHandling'
    BY <1>10, <2>1, AnswerLocal DEF DropReceiver, TypeOK, PendingWhileHandling
  <2>4. CallsHoldHub'
    BY <1>10, <2>1, AnswerLocal DEF DropReceiver, CallsHoldHub
  <2> QED
    BY <2>2, <2>3, <2>4
<1>11. CASE DropHub
  BY <1>11 DEF DropHub, TypeOK, PendingWhileHandling, CallsHoldHub
<1>12. CASE DropLane
  <2>1. queue' = << >> /\ queue' \in Seq(Envelope) /\ Len(queue') <= Capacity
    BY <1>12, CapacityPositive DEF DropLane
  <2>2. holders' \in [Turns -> SUBSET (Publishers \cup Envelope)]
    BY <1>12 DEF DropLane, WithoutClones, TypeOK
  <2> QED
    BY <1>12, <2>1, <2>2 DEF DropLane, TypeOK, PendingWhileHandling, CallsHoldHub
<1>13. ASSUME NEW p \in Publishers, NEW t \in Turns, LockTransition(p, t) \/ DropTransition(p, t)
       PROVE  LocalInv'
  <2>1. holders' \in [Turns -> SUBSET (Publishers \cup Envelope)]
    BY <1>13 DEF LockTransition, DropTransition, TypeOK
  <2>2. UNCHANGED <<queue, claimed, lease, pending, publisher, call, hub, sent, received, confirmed>>
    BY <1>13 DEF LockTransition, DropTransition
  <2> QED
    BY <2>1, <2>2 DEF TypeOK, PendingWhileHandling, CallsHoldHub
<1>14. CASE UNCHANGED vars
  BY <1>14 DEF vars, TypeOK, PendingWhileHandling, CallsHoldHub
<1> QED
  BY <1>1, <1>2, <1>3, <1>4, <1>5, <1>6, <1>7, <1>8, <1>9, <1>10, <1>11, <1>12, <1>13, <1>14
     DEF Next

\* Types, pending events and the life of the hub, in every reachable state.
THEOREM LocalInvariant == Spec => []LocalInv
BY InitLocal, StepLocal, PTL DEF Spec

\* The lane's state has its types in every reachable state; in particular the
\* channel never holds more than durable_capacity.max(1) envelopes.
THEOREM TypeCorrect == Spec => []TypeOK
<1>1. LocalInv => TypeOK
  BY DEF LocalInv
<1> QED
  BY <1>1, LocalInvariant, PTL

-----------------------------------------------------------------------------
\* The lease passes from one listener to none and from none to one.
LEMMA StepConsumer == LocalInv /\ SingleConsumer /\ [Next]_vars => SingleConsumer'
<1> SUFFICES ASSUME LocalInv, SingleConsumer, [Next]_vars PROVE SingleConsumer'
  OBVIOUS
<1> USE DEF SingleConsumer
<1>0. lease \in [Listeners -> {"none", "idle", "receiving", "handling", "ended"}]
  BY DEF LocalInv, TypeOK
<1>1. ASSUME NEW l \in Listeners, TakeReceiver(l) PROVE SingleConsumer'
  BY <1>0, <1>1 DEF TakeReceiver
<1>2. ASSUME NEW l \in Listeners, DropReceiver(l) PROVE SingleConsumer'
  BY <1>0, <1>2 DEF DropReceiver
<1>3. ASSUME NEW l \in Listeners, lease[l] # "none", UNCHANGED claimed,
             NEW s \in {"idle", "receiving", "handling", "ended"},
             lease' = [lease EXCEPT ![l] = s]
      PROVE  SingleConsumer'
  BY <1>0, <1>3
<1>4. ASSUME NEW l \in Listeners,
             \/ Recv(l) \/ RecvReady(l) \/ RecvNone(l) \/ CancelRecv(l)
             \/ \E result \in {"ok", "rejected"} : AcknowledgeLast(l, result)
      PROVE  SingleConsumer'
  <2>1. lease[l] # "none" /\ UNCHANGED claimed
    BY <1>4 DEF Recv, RecvReady, RecvNone, CancelRecv, AcknowledgeLast
  <2>2. \E s \in {"idle", "receiving", "handling", "ended"} : lease' = [lease EXCEPT ![l] = s]
    BY <1>4 DEF Recv, RecvReady, RecvNone, CancelRecv, AcknowledgeLast
  <2> QED
    BY <1>3, <2>1, <2>2
<1>5. ASSUME UNCHANGED <<claimed, lease>> PROVE SingleConsumer'
  BY <1>5
<1>6. ASSUME NEW p \in Publishers, NEW waits, NEW turn,
             \/ Publish(p, waits, turn) \/ Send(p) \/ CancelPublish(p)
             \/ LockTransition(p, turn) \/ DropTransition(p, turn)
      PROVE  UNCHANGED <<claimed, lease>>
  BY <1>6 DEF Publish, Send, CancelPublish, LockTransition, DropTransition
<1>7. DropHub \/ DropLane \/ UNCHANGED vars => UNCHANGED <<claimed, lease>>
  BY DEF DropHub, DropLane, vars
<1> QED
  BY <1>1, <1>2, <1>4, <1>5, <1>6, <1>7 DEF Next

\* receiver_claimed is exact and two listeners never hold the receiver at once,
\* whatever order leases, panics, aborts and replacements come in.
THEOREM OneConsumer == Spec => []SingleConsumer
<1>1. Init => SingleConsumer
  BY DEF Init, SingleConsumer
<1> QED
  BY <1>1, StepConsumer, LocalInvariant, PTL DEF Spec
-----------------------------------------------------------------------------
\* What reaches the listeners is what was sent.  When the lane closes it may
\* still hold events, so the count is kept only as long as it is open.
LEMMA StepBacklog == LocalInv /\ BacklogSurvives /\ [Next]_vars => BacklogSurvives'
<1> SUFFICES ASSUME LocalInv, BacklogSurvives, [Next]_vars PROVE BacklogSurvives'
  OBVIOUS
<1>0. /\ queue \in Seq(Envelope) /\ received \in Seq(Nat) /\ sent \in Nat
      /\ lease \in [Listeners -> {"none", "idle", "receiving", "handling", "ended"}]
      /\ Len(queue) \in Nat /\ Len(received) \in Nat
      /\ DOMAIN queue = 1..Len(queue) /\ DOMAIN received = 1..Len(received)
  BY LaneAssumption, LenProperties DEF LocalInv, TypeOK
<1>1. ASSUME NEW p \in Publishers, Send(p) PROVE BacklogSurvives'
  <2> DEFINE e == [call[p] EXCEPT !.id = sent + 1]
  <2>1. queue' = Append(queue, e) /\ sent' = sent + 1 /\ received' = received /\ hub
    BY <1>1 DEF Send, LocalInv, CallsHoldHub
  <2>2. e \in Envelope /\ e.id = sent + 1
    <3>1. call[p] \in Envelope /\ sent + 1 \in Nat
      BY <1>0 DEF LocalInv, TypeOK
    <3> QED
      BY <3>1 DEF Envelope
  <2>3. Len(received) + Len(queue) = sent
    BY <2>1 DEF BacklogSurvives, durable_lane_is_closed
  <2> HIDE DEF e
  <2>4. /\ Len(queue') = Len(queue) + 1 /\ Len(received') + Len(queue') = sent'
        /\ DOMAIN queue' = 1..(Len(queue) + 1)
        /\ queue'[Len(queue) + 1] = e
        /\ \A i \in 1..Len(queue) : queue'[i] = queue[i]
    <3>1. /\ Len(queue') = Len(queue) + 1
          /\ queue' \in Seq(Envelope)
          /\ queue'[Len(queue) + 1] = e
          /\ \A i \in 1..Len(queue) : queue'[i] = queue[i]
      BY <1>0, <2>1, <2>2, AppendProperties
    <3>2. Len(received') = Len(received) /\ DOMAIN queue' = 1..Len(queue')
      BY <2>1, <3>1, LenProperties
    <3>3. Len(queue) \in Nat /\ Len(received) \in Nat /\ sent' = sent + 1
      BY <1>0, <2>1
    <3>4. Len(received') + Len(queue') = sent'
      BY <2>3, <3>1, <3>2, <3>3
    <3> QED
      BY <3>1, <3>2, <3>4
  <2>5. ASSUME NEW i \in DOMAIN queue' PROVE queue'[i].id = Len(received') + i
    <3>1. CASE i = Len(queue) + 1
      BY <1>0, <2>1, <2>2, <2>3, <2>4, <3>1
    <3>2. CASE i \in 1..Len(queue)
      BY <1>0, <2>1, <2>4, <3>2 DEF BacklogSurvives
    <3> QED
      BY <1>0, <2>4, <3>1, <3>2
  <2> QED
    BY <2>1, <2>4, <2>5 DEF BacklogSurvives
<1>2. ASSUME NEW l \in Listeners, RecvReady(l) PROVE BacklogSurvives'
  <2>1. /\ queue # << >> /\ queue' = Tail(queue) /\ sent' = sent
        /\ received' = Append(received, Head(queue).id)
        /\ lease[l] # "none"
    BY <1>2 DEF RecvReady
  <2>2. Head(queue) = queue[1] /\ 1 \in DOMAIN queue /\ Head(queue).id \in Nat
    <3>1. Head(queue) = queue[1] /\ 1 \in DOMAIN queue /\ queue[1] \in Envelope
      BY <1>0, <2>1, EmptySeq
    <3> QED
      BY <3>1 DEF Envelope
  <2>3. Head(queue).id = Len(received) + 1
    BY <1>0, <2>2 DEF BacklogSurvives
  <2>4. Len(received) + Len(queue) = sent
    BY <2>1 DEF BacklogSurvives, durable_lane_is_closed
  <2>5. Len(received') = Len(received) + 1 /\ Len(queue') = Len(queue) - 1
    BY <1>0, <2>1, <2>2
  <2>6. ASSUME NEW i \in DOMAIN received' PROVE received'[i] = i
    BY <1>0, <2>1, <2>2, <2>3, <2>5 DEF BacklogSurvives
  <2>7. ASSUME NEW i \in DOMAIN queue' PROVE queue'[i].id = Len(received') + i
    <3>1. i \in 1..(Len(queue) - 1) /\ queue'[i] = queue[i + 1] /\ i + 1 \in DOMAIN queue
      BY <1>0, <2>1, <2>5
    <3>2. queue[i + 1].id = Len(received) + (i + 1)
      BY <3>1 DEF BacklogSurvives
    <3> QED
      BY <1>0, <2>5, <3>1, <3>2
  <2>8. Len(received') + Len(queue') = sent'
    <3>1. Len(queue) \in Nat /\ Len(received) \in Nat /\ sent' = sent
      BY <1>0, <2>1
    <3> QED
      BY <2>4, <2>5, <3>1
  <2> QED
    BY <2>6, <2>7, <2>8 DEF BacklogSurvives
<1>3. CASE DropLane
  <2>1. queue' = << >> /\ received' = received /\ durable_lane_is_closed'
    BY <1>3 DEF DropLane, durable_lane_is_closed
  <2> QED
    BY <2>1 DEF BacklogSurvives
<1>4. ASSUME UNCHANGED <<queue, received, sent>>, durable_lane_is_closed => durable_lane_is_closed'
      PROVE  BacklogSurvives'
  BY <1>4 DEF BacklogSurvives
<1>5. ASSUME NEW l \in Listeners,
             \/ Recv(l) \/ RecvNone(l) \/ CancelRecv(l) \/ TakeReceiver(l) \/ DropReceiver(l)
             \/ \E result \in {"ok", "rejected"} : AcknowledgeLast(l, result)
      PROVE  BacklogSurvives'
  <2>1. UNCHANGED <<queue, received, sent, hub>>
    BY <1>5 DEF Recv, RecvNone, CancelRecv, TakeReceiver, DropReceiver, AcknowledgeLast
  <2>2. ~durable_lane_is_closed
    BY <1>5 DEF Recv, RecvNone, CancelRecv, TakeReceiver, DropReceiver, AcknowledgeLast,
                durable_lane_is_closed
  <2> QED
    BY <1>4, <2>1, <2>2
<1>6. ASSUME NEW p \in Publishers, NEW waits, NEW turn,
             \/ Publish(p, waits, turn) \/ CancelPublish(p)
             \/ LockTransition(p, turn) \/ DropTransition(p, turn)
      PROVE  BacklogSurvives'
  BY <1>4, <1>6 DEF Publish, CancelPublish, LockTransition, DropTransition,
                    durable_lane_is_closed
<1>7. CASE DropHub
  BY <1>4, <1>7 DEF DropHub, durable_lane_is_closed
<1>8. CASE UNCHANGED vars
  BY <1>4, <1>8 DEF vars, durable_lane_is_closed
<1> QED
  BY <1>1, <1>2, <1>3, <1>5, <1>6, <1>7, <1>8 DEF Next

\* The events the listeners took, followed by the backlog, are the events that
\* were sent, in order, however many listeners ended in between.
THEOREM BacklogKept == Spec => []BacklogSurvives
<1>1. Init => BacklogSurvives
  BY DEF Init, BacklogSurvives
<1> QED
  BY <1>1, StepBacklog, LocalInvariant, PTL DEF Spec
-----------------------------------------------------------------------------
\* Only an acknowledgement with Ok answers Ok, and it confirms what it answers.
LEMMA StepConfirmed == LocalInv /\ OkIsConfirmed /\ [Next]_vars => OkIsConfirmed'
<1> SUFFICES ASSUME LocalInv, OkIsConfirmed, [Next]_vars PROVE OkIsConfirmed'
  OBVIOUS
<1> USE DEF OkIsConfirmed
<1>0. TypeOK
  BY DEF LocalInv
<1>1. ASSUME NEW p \in Publishers, NEW s \in {"reserving", "waiting", "idle"}, NEW c,
             publisher' = [publisher EXCEPT ![p] = s],
             call' = [call EXCEPT ![p] = c] \/ call' = call, confirmed' = confirmed
      PROVE  OkIsConfirmed'
  BY <1>0, <1>1 DEF TypeOK
<1>2. ASSUME NEW p \in Publishers, NEW waits \in BOOLEAN, NEW turn, Publish(p, waits, turn)
      PROVE  OkIsConfirmed'
  BY <1>1, <1>2 DEF Publish
<1>3. ASSUME NEW p \in Publishers, Send(p) PROVE OkIsConfirmed'
  BY <1>1, <1>3 DEF Send
<1>4. ASSUME NEW p \in Publishers, CancelPublish(p) PROVE OkIsConfirmed'
  BY <1>1, <1>4 DEF CancelPublish
<1>5. ASSUME NEW l \in Listeners, Recv(l) \/ DropReceiver(l) PROVE OkIsConfirmed'
  <2>1. Answer(l, "rejected") /\ UNCHANGED <<call, confirmed>>
    BY <1>5 DEF Recv, DropReceiver
  <2> QED
    BY <1>0, <2>1, AnswerLocal
<1>6. ASSUME NEW l \in Listeners, NEW result \in {"ok", "rejected"}, AcknowledgeLast(l, result)
      PROVE  OkIsConfirmed'
  <2>1. Answer(l, result) /\ call' = call
    BY <1>6 DEF AcknowledgeLast
  <2>2. confirmed \subseteq confirmed' /\ (result = "ok" => pending[l].id \in confirmed')
    BY <1>6 DEF AcknowledgeLast
  <2> QED
    BY <1>0, <2>1, <2>2, AnswerLocal
<1>7. ASSUME UNCHANGED <<publisher, call, confirmed>> PROVE OkIsConfirmed'
  BY <1>7
<1>8. ASSUME NEW l \in Listeners, TakeReceiver(l) \/ RecvReady(l) \/ RecvNone(l) \/ CancelRecv(l)
      PROVE  UNCHANGED <<publisher, call, confirmed>>
  BY <1>8 DEF TakeReceiver, RecvReady, RecvNone, CancelRecv
<1>9. DropHub \/ DropLane \/ UNCHANGED vars => UNCHANGED <<publisher, call, confirmed>>
  BY DEF DropHub, DropLane, vars
<1>10. ASSUME NEW p, NEW t, LockTransition(p, t) \/ DropTransition(p, t)
       PROVE  UNCHANGED <<publisher, call, confirmed>>
  BY <1>10 DEF LockTransition, DropTransition
<1> QED
  BY <1>2, <1>3, <1>4, <1>5, <1>6, <1>7, <1>8, <1>9, <1>10 DEF Next

\* A publisher that was told Ok had its own event acknowledged with Ok.
THEOREM OkIsHonest == Spec => []OkIsConfirmed
<1>1. Init => OkIsConfirmed
  BY DEF Init, OkIsConfirmed
<1> QED
  BY <1>1, StepConfirmed, LocalInvariant, PTL DEF Spec
-----------------------------------------------------------------------------
\* An envelope is told from every other that exists: it has no number before it
\* is sent, a number of the past once it was received, and one publisher.
Identified ==
    /\ \A p \in Publishers : call[p].by = p /\ (publisher[p] = "reserving" => call[p].id = 0)
    /\ \A l \in Listeners : pending[l] # NoEvent =>
           pending[l].id >= 1 /\ pending[l].id <= Len(received)

\* The envelopes that exist.
Live == Queued \cup Handled \cup Offered

\* Every envelope that exists has its own clone of the guard of its turn.
HasClone == \A e \in Live, t \in Turns : e.turn = t => e \in holders[t]

OwnersInv == LocalInv /\ SingleConsumer /\ BacklogSurvives /\ Identified /\ HasClone

\* No envelope is in two places.
LEMMA Places ==
    ASSUME LocalInv, SingleConsumer, BacklogSurvives, Identified
    PROVE  /\ \A e \in Queued : e \in Envelope /\ e.id > Len(received)
           /\ \A e \in Handled : e \in Envelope /\ e.id >= 1 /\ e.id <= Len(received)
           /\ \A e \in Offered : e \in Envelope /\ e.id = 0
           /\ \A k, l \in Listeners : pending[k] # NoEvent /\ pending[l] # NoEvent => k = l
           /\ Len(received) \in Nat
<1>1. queue \in Seq(Envelope) /\ Len(queue) \in Nat /\ Len(received) \in Nat
      /\ DOMAIN queue = 1..Len(queue)
  BY LenProperties DEF LocalInv, TypeOK
<1>2. ASSUME NEW i \in DOMAIN queue PROVE queue[i] \in Envelope /\ queue[i].id > Len(received)
  <2>1. queue[i] \in Envelope /\ queue[i].id = Len(received) + i /\ i \in Nat /\ i >= 1
    BY <1>1 DEF BacklogSurvives
  <2> QED
    BY <1>1, <2>1
<1>3. \A e \in Handled : e \in Envelope /\ e.id >= 1 /\ e.id <= Len(received)
  BY DEF Handled, Identified, LocalInv, TypeOK
<1>4. \A e \in Offered : e \in Envelope /\ e.id = 0
  BY DEF Offered, Identified, LocalInv, TypeOK
<1>5. \A k, l \in Listeners : pending[k] # NoEvent /\ pending[l] # NoEvent => k = l
  BY DEF LocalInv, PendingWhileHandling, SingleConsumer
<1> QED
  BY <1>1, <1>2, <1>3, <1>4, <1>5 DEF Queued

\* Answering for a listener removes its envelope from the ones that exist.
LEMMA AnswerReleases ==
    ASSUME OwnersInv, NEW l \in Listeners, NEW result \in {"ok", "rejected"},
           Answer(l, result), UNCHANGED <<queue, call, received>>
    PROVE  Identified' /\ HasClone'
<1>1. TypeOK /\ Identified /\ HasClone
  BY DEF OwnersInv, LocalInv
<1>2. /\ \A k \in Listeners : pending'[k] = IF k = l THEN NoEvent ELSE pending[k]
      /\ \A p \in Publishers : publisher'[p] # publisher[p] =>
             publisher[p] = "waiting" /\ publisher'[p] = result
  BY <1>1, AnswerLocal
<1>3. Identified'
  BY <1>1, <1>2 DEF Identified
<1>4. Queued' = Queued /\ Offered' = Offered
  BY <1>2 DEF Queued, Offered
<1>5. Handled' = Handled \ {pending[l]}
  <2>1. \A k, m \in Listeners : pending[k] # NoEvent /\ pending[m] # NoEvent => k = m
    BY Places DEF OwnersInv
  <2> QED
    BY <1>2, <2>1 DEF Handled
<1>6. Live' = Live \ {pending[l]}
  <2>1. CASE pending[l] = NoEvent
    BY <1>4, <1>5, <2>1, Places, NoEventIsNone DEF Live, OwnersInv
  <2>2. CASE pending[l] # NoEvent
    <3>1. pending[l] \in Handled
      BY <2>2 DEF Handled
    <3>2. /\ pending[l].id >= 1 /\ pending[l].id <= Len(received) /\ Len(received) \in Nat
          /\ pending[l].id \in Nat
      BY <3>1, Places DEF OwnersInv, Envelope
    <3>3. pending[l] \notin Queued
      BY <3>2, Places DEF OwnersInv
    <3>4. pending[l] \notin Offered
      BY <3>2, Places DEF OwnersInv
    <3> QED
      BY <1>4, <1>5, <3>3, <3>4 DEF Live
  <2> QED
    BY <2>1, <2>2
<1>7. \A t \in Turns : holders'[t] = holders[t] \ {pending[l]}
  BY DEF Answer, WithoutClones
<1>8. HasClone'
  BY <1>1, <1>6, <1>7 DEF HasClone
<1> QED
  BY <1>3, <1>8

\* Every step moves the clone of a guard with its envelope, or drops it with it.
LEMMA StepOwners == OwnersInv /\ [Next]_vars => Identified' /\ HasClone'
<1> SUFFICES ASSUME OwnersInv, [Next]_vars PROVE Identified' /\ HasClone'
  OBVIOUS
<1>0. /\ TypeOK /\ PendingWhileHandling /\ CallsHoldHub /\ Identified
      /\ HasClone
  BY DEF OwnersInv, LocalInv
<1>1. ASSUME NEW p \in Publishers, NEW waits \in BOOLEAN, NEW turn \in Turns \cup {NoTurn},
             Publish(p, waits, turn)
      PROVE  Identified' /\ HasClone'
  <2> DEFINE c == [id |-> 0, by |-> p, waits |-> waits, turn |-> turn]
  <2>2. /\ publisher[p] # "reserving" /\ call' = [call EXCEPT ![p] = c]
        /\ publisher' = [publisher EXCEPT ![p] = "reserving"]
        /\ UNCHANGED <<queue, pending, received>>
    BY <1>1 DEF Publish
  <2>3. \A t \in Turns : /\ holders[t] \subseteq holders'[t]
                         /\ c.turn = t => c \in holders'[t]
    BY <1>1 DEF Publish, WithClone
  <2>4. c.by = p /\ c.id = 0
    OBVIOUS
  <2> HIDE DEF c
  <2>5. Identified'
    BY <1>0, <2>2, <2>4 DEF Identified, TypeOK
  <2>6. Offered' = Offered \cup {c}
    BY <1>0, <2>2 DEF Offered, TypeOK
  <2>7. Live' = Live \cup {c}
    BY <2>2, <2>6 DEF Live, Queued, Handled
  <2> QED
    BY <1>0, <2>3, <2>5, <2>7 DEF HasClone
<1>2. ASSUME NEW p \in Publishers, Send(p) PROVE Identified' /\ HasClone'
  <2> DEFINE e == [call[p] EXCEPT !.id = sent + 1]
  <2>1. call[p] \in Envelope /\ sent + 1 \in Nat
    BY <1>0, LaneAssumption DEF TypeOK
  <2>2. e \in Envelope /\ e.by = call[p].by /\ e.turn = call[p].turn
    BY <2>1 DEF Envelope
  <2>3. \A t \in Turns : /\ holders[t] \ {call[p]} \subseteq holders'[t]
                         /\ call[p] \in holders[t] => e \in holders'[t]
    BY <1>2 DEF Send
  <2>4. \E s \in {"waiting", "idle"} : publisher' = [publisher EXCEPT ![p] = s]
    BY <1>2 DEF Send
  <2>5. /\ publisher[p] = "reserving" /\ call' = [call EXCEPT ![p] = e]
        /\ queue' = Append(queue, e)
        /\ UNCHANGED <<pending, received>>
    BY <1>2 DEF Send
  <2> HIDE DEF e
  <2>6. Identified'
    BY <1>0, <2>2, <2>4, <2>5 DEF Identified, TypeOK
  <2>7. Queued' = Queued \cup {e}
    <3>1. /\ queue' \in Seq(Envelope) /\ Len(queue') = Len(queue) + 1
          /\ queue'[Len(queue) + 1] = e
          /\ \A i \in 1..Len(queue) : queue'[i] = queue[i]
      BY <1>0, <2>2, <2>5, AppendProperties DEF TypeOK
    <3>2. /\ Len(queue) \in Nat /\ DOMAIN queue = 1..Len(queue)
          /\ DOMAIN queue' = 1..(Len(queue) + 1)
      BY <1>0, <3>1, LenProperties DEF TypeOK
    <3>3. DOMAIN queue' = DOMAIN queue \cup {Len(queue) + 1}
      BY <3>2
    <3> QED
      BY <3>1, <3>2, <3>3 DEF Queued
  <2>8. Offered' = Offered \ {call[p]}
    <3>1. \A q \in Publishers : publisher'[q] = "reserving" <=> q # p /\ publisher[q] = "reserving"
      BY <1>0, <2>4, <2>5 DEF TypeOK
    <3>2. \A q \in Publishers : q # p => call'[q] = call[q] /\ call[q] # call[p]
      BY <1>0, <2>5 DEF TypeOK, Identified
    <3> QED
      BY <3>1, <3>2 DEF Offered
  <2>9. call[p] \in Offered
    BY <2>5 DEF Offered
  <2>10. call[p] \notin Queued /\ call[p] \notin Handled
    <3>1. call[p].id = 0
      BY <2>9, Places DEF OwnersInv
    <3> QED
      BY <3>1, Places DEF OwnersInv
  <2>11. Live' = (Live \ {call[p]}) \cup {e}
    <3>1. Handled' = Handled
      BY <2>5 DEF Handled
    <3> QED
      BY <2>7, <2>8, <2>10, <3>1 DEF Live
  <2>12. call[p] \in Live
    BY <2>9 DEF Live
  <2>13. HasClone'
    BY <1>0, <2>2, <2>3, <2>11, <2>12 DEF HasClone
  <2> QED
    BY <2>6, <2>13
<1>3. ASSUME NEW p \in Publishers, CancelPublish(p) PROVE Identified' /\ HasClone'
  <2>1. publisher' = [publisher EXCEPT ![p] = "idle"] /\ UNCHANGED <<queue, pending, call, received>>
    BY <1>3 DEF CancelPublish
  <2>2. Identified'
    BY <1>0, <2>1 DEF Identified, TypeOK
  <2>3. CASE publisher[p] = "reserving"
    <3>1. call[p] \in Offered /\ Offered' = Offered \ {call[p]}
      BY <1>0, <2>1, <2>3 DEF Offered, TypeOK, Identified
    <3>2. call[p] \notin Queued /\ call[p] \notin Handled
      <4>1. call[p].id = 0
        BY <3>1, Places DEF OwnersInv
      <4> QED
        BY <4>1, Places DEF OwnersInv
    <3>3. Live' = Live \ {call[p]} /\ call[p] \in Live
      <4>1. Handled' = Handled /\ Queued' = Queued
        BY <2>1 DEF Handled, Queued
      <4> QED
        BY <3>1, <3>2, <4>1 DEF Live
    <3>4. \A t \in Turns : holders'[t] = holders[t] \ {call[p]}
      BY <1>3, <2>3 DEF CancelPublish, WithoutClones
    <3> QED
      BY <1>0, <2>2, <3>3, <3>4 DEF HasClone
  <2>4. CASE publisher[p] # "reserving"
    <3>1. Live' = Live
      BY <1>0, <2>1, <2>4 DEF Live, Queued, Handled, Offered, TypeOK
    <3>2. holders' = holders
      BY <1>3, <2>4 DEF CancelPublish
    <3> QED
      BY <1>0, <2>2, <3>1, <3>2 DEF HasClone
  <2> QED
    BY <2>3, <2>4
<1>4. ASSUME NEW l \in Listeners, Recv(l) \/ DropReceiver(l)
      PROVE  Identified' /\ HasClone'
  <2>1. Answer(l, "rejected") /\ UNCHANGED <<queue, call, received>>
    BY <1>4 DEF Recv, DropReceiver
  <2> QED
    BY <2>1, AnswerReleases
<1>5. ASSUME NEW l \in Listeners, NEW result \in {"ok", "rejected"}, AcknowledgeLast(l, result)
      PROVE  Identified' /\ HasClone'
  <2>1. Answer(l, result) /\ UNCHANGED <<queue, call, received>>
    BY <1>5 DEF AcknowledgeLast
  <2> QED
    BY <2>1, AnswerReleases
<1>6. ASSUME NEW l \in Listeners, RecvReady(l) PROVE Identified' /\ HasClone'
  <2>1. /\ queue # << >> /\ queue' = Tail(queue) /\ pending' = [pending EXCEPT ![l] = Head(queue)]
        /\ received' = Append(received, Head(queue).id)
        /\ UNCHANGED <<publisher, call, holders>>
        /\ pending[l] = NoEvent
    BY <1>0, <1>6 DEF RecvReady, PendingWhileHandling
  <2>2. /\ Len(queue) \in Nat /\ Len(queue) >= 1 /\ DOMAIN queue = 1..Len(queue)
        /\ Head(queue) = queue[1] /\ Len(received) \in Nat
        /\ Tail(queue) \in Seq(Envelope) /\ Len(Tail(queue)) = Len(queue) - 1
        /\ \A i \in 1..Len(Tail(queue)) : Tail(queue)[i] = queue[i + 1]
    BY <1>0, <2>1, LenProperties, EmptySeq, HeadTailProperties DEF TypeOK
  <2>3. Head(queue) \in Queued
    BY <2>2 DEF Queued
  <2>4. Head(queue) \in Envelope /\ Head(queue).id \in Nat
        /\ Head(queue).id = Len(received) + 1
    <3>1. Head(queue).id = Len(received) + 1
      BY <2>2 DEF OwnersInv, BacklogSurvives
    <3> QED
      BY <2>3, <3>1, Places DEF OwnersInv, Envelope
  <2>5. Len(received') = Len(received) + 1
    BY <1>0, <2>1, <2>4, AppendProperties DEF TypeOK
  <2>6. Identified'
    <3>1. ASSUME NEW k \in Listeners, pending'[k] # NoEvent
          PROVE  pending'[k].id >= 1 /\ pending'[k].id <= Len(received')
      <4>1. CASE k = l
        <5>1. pending'[k] = Head(queue)
          BY <1>0, <2>1, <4>1 DEF TypeOK
        <5> QED
          BY <2>2, <2>4, <2>5, <5>1
      <4>2. CASE k # l
        <5>1. pending'[k] = pending[k]
          BY <1>0, <2>1, <4>2 DEF TypeOK
        <5>2. pending[k].id >= 1 /\ pending[k].id <= Len(received) /\ pending[k].id \in Nat
          BY <1>0, <3>1, <5>1 DEF Identified, TypeOK, Envelope
        <5> QED
          BY <2>2, <2>5, <5>1, <5>2
      <4> QED
        BY <4>1, <4>2
    <3> QED
      BY <1>0, <2>1, <3>1 DEF Identified
  <2>7. Queued = Queued' \cup {Head(queue)}
    <3>1. DOMAIN queue' = 1..(Len(queue) - 1)
      BY <2>1, <2>2, LenProperties
    <3>2. \A i \in DOMAIN queue' : i + 1 \in DOMAIN queue /\ queue'[i] = queue[i + 1]
      BY <2>1, <2>2, <3>1
    <3>3. \A i \in DOMAIN queue : i # 1 => i - 1 \in DOMAIN queue' /\ queue'[i - 1] = queue[i]
      BY <2>1, <2>2, <3>1
    <3>4. Queued' \cup {Head(queue)} \subseteq Queued
      BY <2>3, <3>2 DEF Queued
    <3>5. Queued \subseteq Queued' \cup {Head(queue)}
      BY <2>2, <3>3 DEF Queued
    <3> QED
      BY <3>4, <3>5
  <2>8. Handled' = Handled \cup {Head(queue)}
    BY <1>0, <2>1, <2>4, NoEventIsNone DEF Handled, TypeOK
  <2>9. Live' = Live
    <3>1. Offered' = Offered
      BY <2>1 DEF Offered
    <3> QED
      BY <2>7, <2>8, <3>1 DEF Live
  <2> QED
    BY <1>0, <2>1, <2>6, <2>9 DEF HasClone
<1>7. CASE DropLane
  <2>1. Handled' = {} /\ Offered' = {} /\ Queued' = {}
    BY <1>0, <1>7 DEF DropLane, durable_lane_is_closed, Handled, Offered, Queued,
                       PendingWhileHandling, CallsHoldHub
  <2>2. Identified'
    BY <1>0, <1>7 DEF DropLane, Identified
  <2> QED
    BY <2>1, <2>2 DEF HasClone, Live
<1>8. ASSUME UNCHANGED <<queue, pending, publisher, call, received>>,
             \A e \in Envelope, t \in Turns : e \in holders[t] => e \in holders'[t]
      PROVE  Identified' /\ HasClone'
  <2>1. Live' = Live /\ \A e \in Live : e \in Envelope
    BY <1>8, Places DEF Live, Queued, Handled, Offered, OwnersInv
  <2>2. Identified'
    BY <1>0, <1>8 DEF Identified
  <2> QED
    BY <1>0, <1>8, <2>1, <2>2 DEF HasClone
<1>9. ASSUME NEW l \in Listeners, TakeReceiver(l) \/ RecvNone(l) \/ CancelRecv(l)
      PROVE  UNCHANGED <<queue, pending, publisher, call, received, holders>>
  BY <1>9 DEF TakeReceiver, RecvNone, CancelRecv
<1>10. DropHub \/ UNCHANGED vars =>
           UNCHANGED <<queue, pending, publisher, call, received, holders>>
  BY DEF DropHub, vars
<1>11. ASSUME NEW p \in Publishers, NEW t \in Turns, LockTransition(p, t) \/ DropTransition(p, t)
       PROVE  Identified' /\ HasClone'
  <2>1. UNCHANGED <<queue, pending, publisher, call, received>>
    BY <1>11 DEF LockTransition, DropTransition
  <2>2. p \notin Envelope
    BY LaneAssumption DEF Envelope
  <2>3. \A e \in Envelope, u \in Turns : e \in holders[u] => e \in holders'[u]
    BY <1>0, <1>11, <2>2 DEF LockTransition, DropTransition, TypeOK
  <2> QED
    BY <1>8, <2>1, <2>3
<1> QED
  BY <1>1, <1>2, <1>3, <1>4, <1>5, <1>6, <1>7, <1>8, <1>9, <1>10, <1>11 DEF Next

\* A turn's transition mutex is locked as long as an envelope that carries a
\* clone of its guard exists, offered, queued or handled: neither the caller that
\* drops its own clone, nor a cancelled publisher, nor a dead listener, nor the
\* acknowledgement of another envelope of the turn unlocks it.
THEOREM TransitionsOwned == Spec => []TransitionOwned
<1>1. Init => Identified /\ HasClone
  <2> SUFFICES ASSUME Init PROVE Identified /\ HasClone
    OBVIOUS
  <2>1. Identified
    BY DEF Init, Identified
  <2>2. Queued = {} /\ Handled = {} /\ Offered = {}
    BY DEF Init, Queued, Handled, Offered
  <2> QED
    BY <2>1, <2>2 DEF HasClone, Live
<1>2. LocalInv /\ SingleConsumer /\ BacklogSurvives /\ Identified /\ HasClone /\ [Next]_vars
        => Identified' /\ HasClone'
  BY StepOwners DEF OwnersInv
<1>3. Spec => [](Identified /\ HasClone)
  BY <1>1, <1>2, LocalInvariant, OneConsumer, BacklogKept, PTL DEF Spec
<1>4. HasClone => TransitionOwned
  BY DEF HasClone, TransitionOwned, Live
<1> QED
  BY <1>3, <1>4, PTL
=============================================================================
