---------------------------- MODULE DurableLane ----------------------------
(***************************************************************************)
(* The durable lane of ExecutionEventHub, crates/runtime-events/src/hub.rs:*)
(* publishers put envelopes into one bounded channel and may wait for a    *)
(* commit acknowledgement; the raw receiver belongs to the hub, and        *)
(* listeners only lease it, one at a time, so that a listener that panics  *)
(* or is aborted is replaced without losing the backlog.                   *)
(*                                                                         *)
(* An envelope carries its waiter's oneshot sender and, for CLI turns, a   *)
(* clone of the Arc around the guard of the turn's transition mutex.  The  *)
(* caller that locked the mutex keeps its own clone as long as it likes,   *)
(* and the mutex is locked as long as any clone is left.                   *)
(***************************************************************************)
EXTENDS Naturals, Sequences

CONSTANTS
    Publishers,
    Listeners,
    Turns,            \* the turns whose transition mutex is used
    NoTurn,           \* an event published without a transition guard
    NoEvent,          \* a listener with no unacknowledged event
    DurableCapacity,  \* durable_capacity of with_capacity
    MaxEvents         \* bound of the model: events published

ASSUME LaneAssumption ==
    /\ DurableCapacity \in Nat
    /\ MaxEvents \in Nat
    /\ NoTurn \notin Turns
    /\ \A x \in Publishers \cup {NoEvent} :
           x \notin [id : Nat, by : Publishers, waits : BOOLEAN, turn : Turns \cup {NoTurn}]

VARIABLES
    queue,     \* the mpsc channel
    claimed,   \* DurableLane.receiver_claimed
    lease,     \* what each listener is doing
    pending,   \* pending_commit, pending_turn_transition of its receiver
    publisher, \* where each publish call is
    call,      \* its envelope
    holders,   \* who has a clone of the guard of each turn's transition mutex:
               \* callers and envelopes; nobody when the mutex is unlocked
    hub,       \* the hub, and with it durable_tx, exists
    sent,      \* history: how many envelopes were sent
    received,  \* history: the ids of the envelopes taken from the channel
    confirmed  \* history: the ids some listener acknowledged with Ok

vars == <<queue, claimed, lease, pending, publisher, call, holders, hub,
          sent, received, confirmed>>

Envelope == [id : Nat, by : Publishers, waits : BOOLEAN, turn : Turns \cup {NoTurn}]

Capacity == IF DurableCapacity = 0 THEN 1 ELSE DurableCapacity

\* What becomes of the holders when an envelope comes with a clone of the
\* guard of its turn, and when the members of a set drop theirs.
WithClone(e) == [t \in Turns |-> IF e.turn = t THEN holders[t] \cup {e} ELSE holders[t]]
WithoutClones(S) == [t \in Turns |-> holders[t] \ S]
-----------------------------------------------------------------------------
Init ==
    /\ queue = << >>
    /\ claimed = FALSE
    /\ lease = [l \in Listeners |-> "none"]
    /\ pending = [l \in Listeners |-> NoEvent]
    /\ publisher = [p \in Publishers |-> "idle"]
    /\ call = [p \in Publishers |-> [id |-> 0, by |-> p, waits |-> FALSE, turn |-> NoTurn]]
    /\ holders = [t \in Turns |-> {}]
    /\ hub = TRUE
    /\ sent = 0
    /\ received = << >>
    /\ confirmed = {}

\* A caller locks a turn's transition mutex: Arc::new(mutex.lock_owned().await).
LockTransition(p, t) ==
    /\ publisher[p] \in {"idle", "ok", "rejected"}
    /\ holders[t] = {}
    /\ holders' = [holders EXCEPT ![t] = {p}]
    /\ UNCHANGED <<queue, claimed, lease, pending, publisher, call, hub, sent, received, confirmed>>

\* It drops its own clone: after its publishes, between them, or before one of
\* them returns when it gave the clone away with the call.
DropTransition(p, t) ==
    /\ p \in holders[t]
    /\ holders' = [holders EXCEPT ![t] = @ \ {p}]
    /\ UNCHANGED <<queue, claimed, lease, pending, publisher, call, hub, sent, received, confirmed>>

\* publish_durable, or one of the publish_..._and_wait calls; the caller of
\* the latter may hand over a clone of a guard it has, as often as it likes.
Publish(p, waits, turn) ==
    LET e == [id |-> 0, by |-> p, waits |-> waits, turn |-> turn]
    IN  /\ hub
        /\ publisher[p] \in {"idle", "ok", "rejected"}
        /\ turn \in Turns => waits /\ p \in holders[turn]
        /\ publisher' = [publisher EXCEPT ![p] = "reserving"]
        /\ call' = [call EXCEPT ![p] = e]
        /\ holders' = WithClone(e)
        /\ UNCHANGED <<queue, claimed, lease, pending, hub, sent, received, confirmed>>

\* The end of publish_durable_envelope: a slot of the channel is reserved and
\* the envelope sent into it, with the clone of the guard.
Send(p) ==
    LET e == [call[p] EXCEPT !.id = sent + 1]
    IN  /\ publisher[p] = "reserving"
        /\ Len(queue) < Capacity
        /\ sent < MaxEvents
        /\ queue' = Append(queue, e)
        /\ call' = [call EXCEPT ![p] = e]
        /\ publisher' = [publisher EXCEPT ![p] = IF e.waits THEN "waiting" ELSE "idle"]
        /\ sent' = sent + 1
        /\ holders' = [t \in Turns |-> IF call[p] \in holders[t]
                                      THEN (holders[t] \ {call[p]}) \cup {e}
                                      ELSE holders[t]]
        /\ UNCHANGED <<claimed, lease, pending, hub, received, confirmed>>

\* Mutant: the publish future, not the envelope, has the clone: a publisher that
\* gives up takes it along although its envelope is sent.
CancelFreesGuard(p) ==
    /\ publisher[p] \in {"reserving", "waiting"}
    /\ publisher' = [publisher EXCEPT ![p] = "idle"]
    /\ holders' = WithoutClones({call[p]})
    /\ UNCHANGED <<queue, claimed, lease, pending, call, hub, sent, received, confirmed>>

\* The publish future is dropped: what it has not sent goes with it, what it
\* has sent stays in the lane and keeps its clone of the guard.
CancelPublish(p) ==
    /\ publisher[p] \in {"reserving", "waiting"}
    /\ publisher' = [publisher EXCEPT ![p] = "idle"]
    /\ holders' = IF publisher[p] = "reserving" THEN WithoutClones({call[p]}) ELSE holders
    /\ UNCHANGED <<queue, claimed, lease, pending, call, hub, sent, received, confirmed>>
-----------------------------------------------------------------------------
\* Mutant: the lease is not checked.
TakeAnyReceiver(l) ==
    /\ hub /\ lease[l] = "none"
    /\ claimed' = TRUE
    /\ lease' = [lease EXCEPT ![l] = "idle"]
    /\ UNCHANGED <<queue, pending, publisher, call, holders, hub, sent, received, confirmed>>

\* take_durable_receiver: one compare_exchange decides who gets the lease.
TakeReceiver(l) ==
    /\ hub /\ lease[l] = "none"
    /\ ~claimed
    /\ claimed' = TRUE
    /\ lease' = [lease EXCEPT ![l] = "idle"]
    /\ UNCHANGED <<queue, pending, publisher, call, holders, hub, sent, received, confirmed>>

\* Mutant: the clone of the acknowledged event is kept.
AnswerKeepsGuard(l, result) ==
    LET e == pending[l]
    IN  /\ pending' = [pending EXCEPT ![l] = NoEvent]
        /\ publisher' = [p \in Publishers |->
               IF e # NoEvent /\ publisher[p] = "waiting" /\ call[p] = e
               THEN result ELSE publisher[p]]
        /\ UNCHANGED holders

\* acknowledge_last(result): answers the waiter of the event last received,
\* if it still waits, and drops the event's clone of its guard.
Answer(l, result) ==
    LET e == pending[l]
    IN  /\ pending' = [pending EXCEPT ![l] = NoEvent]
        /\ publisher' = [p \in Publishers |->
               IF e # NoEvent /\ publisher[p] = "waiting" /\ call[p] = e
               THEN result ELSE publisher[p]]
        /\ holders' = WithoutClones({e})

\* Mutant: asking for the next event confirms the one before.
RecvConfirms(l) ==
    /\ lease[l] \in {"idle", "handling"}
    /\ Answer(l, "ok")
    /\ lease' = [lease EXCEPT ![l] = "receiving"]
    /\ UNCHANGED <<queue, claimed, call, hub, sent, received, confirmed>>

\* recv: an event that was not acknowledged is rejected first.
Recv(l) ==
    /\ lease[l] \in {"idle", "handling"}
    /\ Answer(l, "rejected")
    /\ lease' = [lease EXCEPT ![l] = "receiving"]
    /\ UNCHANGED <<queue, claimed, call, hub, sent, received, confirmed>>

\* recv goes on: takes the next envelope, which is now pending.
RecvReady(l) ==
    /\ lease[l] = "receiving"
    /\ queue # << >>
    /\ queue' = Tail(queue)
    /\ pending' = [pending EXCEPT ![l] = Head(queue)]
    /\ received' = Append(received, Head(queue).id)
    /\ lease' = [lease EXCEPT ![l] = "handling"]
    /\ UNCHANGED <<claimed, publisher, call, holders, hub, sent, confirmed>>

\* recv returns None: the hub is gone and the channel drained.
RecvNone(l) ==
    /\ lease[l] = "receiving"
    /\ queue = << >> /\ ~hub
    /\ lease' = [lease EXCEPT ![l] = "ended"]
    /\ UNCHANGED <<queue, claimed, pending, publisher, call, holders, hub, sent, received, confirmed>>

\* select! in the listener takes another branch and drops the recv future.
CancelRecv(l) ==
    /\ lease[l] = "receiving"
    /\ lease' = [lease EXCEPT ![l] = "idle"]
    /\ UNCHANGED <<queue, claimed, pending, publisher, call, holders, hub, sent, received, confirmed>>

\* acknowledge_last called by the listener.
AcknowledgeLast(l, result) ==
    /\ lease[l] = "handling"
    /\ Answer(l, result)
    /\ confirmed' = IF result = "ok" THEN confirmed \cup {pending[l].id} ELSE confirmed
    /\ lease' = [lease EXCEPT ![l] = "idle"]
    /\ UNCHANGED <<queue, claimed, call, hub, sent, received>>

\* Mutant: the lease is never given back.
DropKeepsLease(l) ==
    /\ lease[l] # "none"
    /\ Answer(l, "rejected")
    /\ lease' = [lease EXCEPT ![l] = "none"]
    /\ UNCHANGED <<queue, claimed, call, hub, sent, received, confirmed>>

\* Mutant: the channel closes with its listener and the backlog is discarded.
DropDiscardsBacklog(l) ==
    /\ lease[l] # "none"
    /\ Answer(l, "rejected")
    /\ lease' = [lease EXCEPT ![l] = "none"]
    /\ claimed' = FALSE
    /\ queue' = << >>
    /\ UNCHANGED <<call, hub, sent, received, confirmed>>

\* The listener ends, panics or is aborted, and its receiver is dropped: the
\* event it was handling is rejected and the lease given back.
DropReceiver(l) ==
    /\ lease[l] # "none"
    /\ Answer(l, "rejected")
    /\ lease' = [lease EXCEPT ![l] = "none"]
    /\ claimed' = FALSE
    /\ UNCHANGED <<queue, call, hub, sent, received, confirmed>>

\* The last Arc of the hub is dropped; a publish call borrows it.
DropHub ==
    /\ hub
    /\ \A p \in Publishers : publisher[p] \notin {"reserving", "waiting"}
    /\ hub' = FALSE
    /\ UNCHANGED <<queue, claimed, lease, pending, publisher, call, holders, sent, received, confirmed>>

\* durable_tx.is_closed(): the raw receiver lives in the lane, which the hub
\* and every leased receiver keep alive.
durable_lane_is_closed == ~hub /\ \A l \in Listeners : lease[l] = "none"

\* The last Arc of the lane is gone: the channel is dropped with its envelopes.
DropLane ==
    /\ durable_lane_is_closed
    /\ queue # << >>
    /\ queue' = << >>
    /\ holders' = WithoutClones({queue[i] : i \in DOMAIN queue})
    /\ UNCHANGED <<claimed, lease, pending, publisher, call, hub, sent, received, confirmed>>
-----------------------------------------------------------------------------
Next ==
    \/ \E p \in Publishers :
           \/ \E waits \in BOOLEAN, turn \in Turns \cup {NoTurn} : Publish(p, waits, turn)
           \/ Send(p) \/ CancelPublish(p)
           \/ \E t \in Turns : LockTransition(p, t) \/ DropTransition(p, t)
    \/ \E l \in Listeners :
           \/ TakeReceiver(l) \/ Recv(l) \/ RecvReady(l) \/ RecvNone(l) \/ CancelRecv(l)
           \/ \E result \in {"ok", "rejected"} : AcknowledgeLast(l, result)
           \/ DropReceiver(l)
    \/ DropHub \/ DropLane

Spec == Init /\ [][Next]_vars

\* Not every listener ends before it asked for an event, or before it took one
\* that is there; a handler ends with an acknowledgement or with its listener.
\* Nothing makes a publisher, a caller or the hub go on, and nothing makes
\* anybody lease a lane that lost its listener.
FairSpec ==
    /\ Spec
    /\ SF_vars(\E l \in Listeners : lease[l] = "idle" /\ Recv(l))
    /\ SF_vars(\E l \in Listeners : RecvReady(l))
    /\ WF_vars(\E l \in Listeners, result \in {"ok", "rejected"} : AcknowledgeLast(l, result))
    /\ WF_vars(DropLane)
-----------------------------------------------------------------------------
TypeOK ==
    /\ queue \in Seq(Envelope) /\ Len(queue) <= Capacity
    /\ claimed \in BOOLEAN
    /\ lease \in [Listeners -> {"none", "idle", "receiving", "handling", "ended"}]
    /\ pending \in [Listeners -> Envelope \cup {NoEvent}]
    /\ publisher \in [Publishers -> {"idle", "reserving", "waiting", "ok", "rejected"}]
    /\ call \in [Publishers -> Envelope]
    /\ holders \in [Turns -> SUBSET (Publishers \cup Envelope)]
    /\ hub \in BOOLEAN
    /\ sent \in 0..MaxEvents
    /\ received \in Seq(Nat)
    /\ confirmed \subseteq Nat

\* At most one listener owns the receiver, and receiver_claimed tells whether
\* one does, across every drop and replacement.
SingleConsumer ==
    /\ claimed <=> \E l \in Listeners : lease[l] # "none"
    /\ \A k, l \in Listeners : lease[k] # "none" /\ lease[l] # "none" => k = l

\* The events taken so far and the backlog are what was sent, in order: no
\* listener's end loses, repeats or reorders one.
BacklogSurvives ==
    /\ ~durable_lane_is_closed => Len(received) + Len(queue) = sent
    /\ \A i \in DOMAIN received : received[i] = i
    /\ \A i \in DOMAIN queue : queue[i].id = Len(received) + i

\* A publisher is told Ok only when a listener acknowledged its own event with
\* Ok: no missing acknowledgement, drop or stale waiter confirms a commit.
OkIsConfirmed ==
    \A p \in Publishers : publisher[p] = "ok" => call[p].id \in confirmed

\* The envelopes that exist: being published, in the lane, being handled.
Queued == {queue[i] : i \in DOMAIN queue}
Handled == {pending[l] : l \in Listeners} \ {NoEvent}
Offered == {call[p] : p \in {q \in Publishers : publisher[q] = "reserving"}}

\* "Keep a CLI session transition owned until the queued lifecycle handler has
\* finished, even if its publisher is cancelled while waiting for ACK": while an
\* envelope with a turn is offered, queued or handled, the turn's transition
\* mutex is locked, whatever its caller, its publisher and the listeners do.
TransitionOwned ==
    \A e \in Queued \cup Handled \cup Offered : e.turn \in Turns => holders[e.turn] # {}

\* The premise of the two progress properties: again and again somebody leases
\* the lane, or it is closed.  The code gives it to a hub that is kept, not to
\* one that is replaced after its listener was lost.
Resumed == []<>(claimed \/ durable_lane_is_closed)

\* In a lane that finds a listener again and again, a publisher whose event was
\* sent does not wait for ever: every listener's end leads to a rejection or to
\* a replacement that goes on with the same queue.
WaiterIsAnswered ==
    Resumed => \A p \in Publishers : []<>(publisher[p] # "waiting")

\* No caller has a clone of the turn's guard, nor has a call that was not sent.
CallersLetGo(t) ==
    holders[t] \cap (Publishers \cup Offered) = {}

\* In such a lane, the transition of a turn whose callers let go of it is
\* unlocked: no envelope, cancelled, rejected or dropped, keeps its clone.
TransitionIsReleased ==
    \A t \in Turns : Resumed /\ <>[]CallersLetGo(t) => <>[](holders[t] = {})
=============================================================================
