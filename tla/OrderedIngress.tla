--------------------------- MODULE OrderedIngress ---------------------------
(***************************************************************************)
(* OrderedEventIngress of crates/runtime-events/src/ordered_ingress.rs:    *)
(* producers offer durable events and coalescable updates, one worker      *)
(* drains them, in order, into a bounded output channel.  A segment queue  *)
(* keeps the order: a run of updates is one segment in which updates of    *)
(* the same key merge, and every durable event is a segment of its own.    *)
(*                                                                         *)
(* An accepted offer is named by its position in acceptance order, and a   *)
(* merged update is the set of the offers merged into it.  log and emitted *)
(* are history variables.  An offer refused with Closed or with            *)
(* CoalescedKeyLimit leaves the ingress as it was, so a coalesced refusal  *)
(* is no step here.                                                        *)
(***************************************************************************)
EXTENDS Naturals, Sequences, FiniteSets

CONSTANTS
    Producers,      \* the tasks that call offer
    Keys,           \* the coalescing keys
    Durable,        \* the class of the events that are never merged
    KeyLimit,       \* config.max_pending_coalesced_keys
    DurableLimit,   \* config.max_pending_durable_events
    OutCapacity,    \* the capacity of the output mpsc channel
    MaxOffers       \* bound of the model: offers accepted in a behaviour

ASSUME ConstantsAssumption ==
    /\ Durable \notin Keys
    /\ KeyLimit \in Nat
    /\ DurableLimit \in Nat
    /\ OutCapacity \in Nat \ {0}
    /\ MaxOffers \in Nat

VARIABLES
    pending,        \* OrderedIngressState.pending
    pending_coalesced_keys,
    closed,
    capacity,       \* free permits of durable_capacity
    sem_closed,     \* durable_capacity is closed
    waiters,        \* the producers queued on durable_capacity
    offer,          \* where each producer is in its call of offer
    closer,         \* where the call of close is
    worker,         \* where run_ordered_ingress is
    permit,         \* the permit notify_one leaves in the Notify
    woken,          \* notify_waiters reached the worker's current Notified
    out,            \* events in the output channel
    out_open,       \* the output receiver is alive
    log, emitted    \* history: classes of accepted offers; what was sent

stateVars == <<pending, pending_coalesced_keys, closed>>
semVars   == <<capacity, sem_closed, waiters>>
outVars   == <<out, out_open>>
history   == <<log, emitted>>
vars == <<stateVars, semVars, offer, closer, worker, permit, woken, outVars,
          history>>

AtLeastOne(n) == IF n = 0 THEN 1 ELSE n

SaturatingSub(m, n) == IF m < n THEN 0 ELSE m - n

Class == Keys \cup {Durable}

\* by_key maps a key that is not in the HashMap to the empty set.
Segment ==
    [kind : {"coalesced"}, order : Seq(Keys), by_key : [Keys -> SUBSET Nat],
     elapsed : BOOLEAN, force_ready : BOOLEAN]
    \cup [kind : {"durable"}, event : Nat]

\* The accepted offers a segment holds.
Held(seg) ==
    IF seg.kind = "durable" THEN {seg.event}
                            ELSE UNION {seg.by_key[k] : k \in Keys}

DurableSegment(s) == [kind |-> "durable", event |-> s]

NewSegment(k, s) ==
    [kind |-> "coalesced", order |-> <<k>>,
     by_key |-> [x \in Keys |-> IF x = k THEN {s} ELSE {}],
     elapsed |-> FALSE, force_ready |-> FALSE]

\* coalesce() of an update with the one queued under its key.
Merged(seg, k, s) == [seg EXCEPT !.by_key[k] = @ \cup {s}]

\* An update under a key the segment does not hold yet.
WithKey(seg, k, s) == [seg EXCEPT !.order = Append(@, k), !.by_key[k] = {s}]

\* The oldest key of a segment, and the segment after pop_front took it.
FirstKey(seg) == Head(seg.order)
Popped(seg) == [seg EXCEPT !.order = Tail(@), !.by_key[FirstKey(seg)] = {}]

\* Mutant: a segment goes with the first key popped from it.
ExhaustedAtOnce(seg) == seg = seg

Exhausted(seg) == Held(seg) = {}

\* The queue once its front segment became rest.
DropFront(q, rest) == IF Exhausted(rest) THEN Tail(q) ELSE [q EXCEPT ![1] = rest]

Last == pending[Len(pending)]
BackIsCoalesced == pending # << >> /\ Last.kind = "coalesced"
BackHas(k) == BackIsCoalesced /\ Last.by_key[k] # {}

ReplaceBack(seg) == [pending EXCEPT ![Len(pending)] = seg]

Stamp == Len(log) + 1

\* The bound of the model leaves room for every durable offer under way.
Room == Len(log) + Cardinality({p \in Producers : offer[p] \in {"waiting", "permit"}})
            < MaxOffers
-----------------------------------------------------------------------------
Init ==
    /\ pending = << >>
    /\ pending_coalesced_keys = 0
    /\ closed = FALSE
    /\ capacity = AtLeastOne(DurableLimit)
    /\ sem_closed = FALSE
    /\ waiters = << >>
    /\ offer = [p \in Producers |-> "idle"]
    /\ closer = "idle"
    /\ worker = "loop"
    /\ permit = FALSE
    /\ woken = FALSE
    /\ out = 0
    /\ out_open = TRUE
    /\ log = << >>
    /\ emitted = << >>
-----------------------------------------------------------------------------
\* offer(durable): the call awaits a permit of durable_capacity.
AwaitPermit(p) ==
    /\ offer[p] = "idle"
    /\ Room
    /\ offer' = [offer EXCEPT ![p] = "waiting"]
    /\ waiters' = Append(waiters, p)
    /\ UNCHANGED <<stateVars, capacity, sem_closed, closer, worker, permit,
                   woken, outVars, history>>

\* The semaphore hands a permit to the first waiter.
GrantPermit ==
    /\ waiters # << >> /\ capacity > 0 /\ ~sem_closed
    /\ capacity' = capacity - 1
    /\ waiters' = Tail(waiters)
    /\ offer' = [offer EXCEPT ![Head(waiters)] = "permit"]
    /\ UNCHANGED <<stateVars, sem_closed, closer, worker, permit, woken,
                   outVars, history>>

\* Mutant: a permit is forgotten.
PermitLeaked == UNCHANGED capacity

\* Dropping an OwnedSemaphorePermit.
ReturnPermit == capacity' = capacity + 1

\* acquire_owned fails on a closed semaphore, or the caller drops the future
\* while it waits or before it is polled with its permit.
AbandonWait(p) ==
    /\ \/ /\ offer[p] = "waiting"
          /\ \E i \in 1..Len(waiters) :
                /\ waiters[i] = p
                /\ waiters' = SubSeq(waiters, 1, i - 1) \o SubSeq(waiters, i + 1, Len(waiters))
          /\ UNCHANGED capacity
       \/ /\ offer[p] = "permit"
          /\ ReturnPermit
          /\ UNCHANGED waiters
    /\ offer' = [offer EXCEPT ![p] = "idle"]
    /\ UNCHANGED <<stateVars, sem_closed, closer, worker, permit, woken,
                   outVars, history>>

\* Mutant: the event is pushed at the wrong end.
PushDurableFirst(s) == <<DurableSegment(s)>> \o pending

\* The queue once a durable event is pushed: the updates before it may no
\* longer wait for their flush interval.
PushDurable(s) ==
    Append(IF BackIsCoalesced
           THEN ReplaceBack([Last EXCEPT !.force_ready = TRUE])
           ELSE pending,
           DurableSegment(s))

\* The lock section of a durable offer that owns a permit.
AcceptDurable(p) ==
    /\ offer[p] = "permit"
    /\ ~closed
    /\ pending' = PushDurable(Stamp)
    /\ log' = Append(log, Durable)
    /\ offer' = [offer EXCEPT ![p] = "notify"]
    /\ UNCHANGED <<pending_coalesced_keys, closed, semVars, closer, worker,
                   permit, woken, outVars, emitted>>

\* The lock section of a coalesced offer: merge into the back segment, or take
\* a new key of it while the limit allows, opening a segment when needed.
AcceptCoalesced(p, k) ==
    /\ offer[p] = "idle"
    /\ ~closed
    /\ Room
    /\ IF BackHas(k)
       THEN /\ pending' = ReplaceBack(Merged(Last, k, Stamp))
            /\ UNCHANGED pending_coalesced_keys
       ELSE /\ pending_coalesced_keys < AtLeastOne(KeyLimit)
            /\ pending' = IF BackIsCoalesced
                          THEN ReplaceBack(WithKey(Last, k, Stamp))
                          ELSE Append(pending, NewSegment(k, Stamp))
            /\ pending_coalesced_keys' = pending_coalesced_keys + 1
    /\ log' = Append(log, k)
    /\ offer' = [offer EXCEPT ![p] = "notify"]
    /\ UNCHANGED <<closed, semVars, closer, worker, permit, woken, outVars,
                   emitted>>

\* Mutant: only a worker that already waits is notified.
NotifyParkedWorker(p) ==
    /\ offer[p] = "notify"
    /\ permit' = (worker \in {"park", "sleep"})
    /\ offer' = [offer EXCEPT ![p] = "idle"]
    /\ UNCHANGED <<stateVars, semVars, closer, worker, woken, outVars, history>>

\* notify_one, after the lock was released.
NotifyWorker(p) ==
    /\ offer[p] = "notify"
    /\ permit' = TRUE
    /\ offer' = [offer EXCEPT ![p] = "idle"]
    /\ UNCHANGED <<stateVars, semVars, closer, worker, woken, outVars, history>>
-----------------------------------------------------------------------------
\* close(): the flag, then the semaphore, then notify_waiters.
CloseState ==
    /\ closer = "idle"
    /\ closed' = TRUE
    /\ closer' = "semaphore"
    /\ UNCHANGED <<pending, pending_coalesced_keys, semVars, offer, worker,
                   permit, woken, outVars, history>>

CloseSemaphore ==
    /\ closer = "semaphore"
    /\ sem_closed' = TRUE
    /\ closer' = "notify"
    /\ UNCHANGED <<stateVars, capacity, waiters, offer, worker, permit, woken,
                   outVars, history>>

CloseNotify ==
    /\ closer = "notify"
    /\ woken' = TRUE
    /\ closer' = "done"
    /\ UNCHANGED <<stateVars, semVars, offer, worker, permit, outVars, history>>
-----------------------------------------------------------------------------
\* The top of the worker's loop: a new Notified future.
WorkerLoop ==
    /\ worker = "loop"
    /\ woken' = FALSE
    /\ worker' = "scan"
    /\ UNCHANGED <<stateVars, semVars, offer, closer, permit, outVars, history>>

FrontElapsed == Head(pending).kind = "coalesced" /\ Head(pending).elapsed

\* Mutant: force_ready is not looked at.
FrontReadyByTimer == Head(pending).kind = "durable" \/ FrontElapsed

FrontReady ==
    \/ Head(pending).kind = "durable"
    \/ Head(pending).force_ready
    \/ FrontElapsed

\* The first lock section of the worker: what the front segment asks for.
WorkerScan ==
    /\ worker = "scan"
    /\ worker' = IF pending = << >> THEN IF closed THEN "done" ELSE "empty"
                 ELSE IF FrontReady THEN "reserve" ELSE "unready"
    /\ UNCHANGED <<stateVars, semVars, offer, closer, permit, woken, outVars,
                   history>>

\* Mutant: the Notified future is made only after the state was read.
WorkerPollNew ==
    /\ \/ worker = "empty" /\ worker' = "park"
       \/ worker = "unready" /\ worker' = "sleep"
    /\ woken' = FALSE
    /\ UNCHANGED <<stateVars, semVars, offer, closer, permit, outVars, history>>

\* With the lock released, the worker polls the future it made before the scan.
WorkerPoll ==
    /\ \/ worker = "empty" /\ worker' = "park"
       \/ worker = "unready" /\ worker' = "sleep"
    /\ UNCHANGED <<stateVars, semVars, offer, closer, permit, woken, outVars,
                   history>>

\* The Notified future completes, by notify_waiters or by the stored permit.
WorkerNotified ==
    /\ worker \in {"park", "sleep"}
    /\ woken \/ permit
    /\ permit' = (permit /\ woken)
    /\ worker' = "loop"
    /\ UNCHANGED <<stateVars, semVars, offer, closer, woken, outVars, history>>

\* The other branch of the select: sleep_until(ready_at).
WorkerSlept ==
    /\ worker = "sleep"
    /\ FrontElapsed
    /\ worker' = "loop"
    /\ UNCHANGED <<stateVars, semVars, offer, closer, permit, woken, outVars,
                   history>>

\* output_tx.reserve() yields a slot.
WorkerReserve ==
    /\ worker = "reserve"
    /\ out_open /\ out < OutCapacity
    /\ worker' = "pop"
    /\ UNCHANGED <<stateVars, semVars, offer, closer, permit, woken, outVars,
                   history>>

\* output_tx.reserve() fails: the worker closes the ingress and returns.
WorkerAborts ==
    /\ \/ /\ worker = "reserve" /\ ~out_open
          /\ closed' = TRUE
          /\ worker' = "abort"
          /\ UNCHANGED sem_closed
       \/ /\ worker = "abort"
          /\ sem_closed' = TRUE
          /\ worker' = "done"
          /\ UNCHANGED closed
    /\ UNCHANGED <<pending, pending_coalesced_keys, capacity, waiters, offer,
                   closer, permit, woken, outVars, history>>

\* The second lock section and the send: a durable front returns its permit, a
\* coalesced front gives its oldest key and goes once it holds none.
PopDurable ==
    /\ worker = "pop"
    /\ Head(pending).kind = "durable"
    /\ emitted' = Append(emitted, {Head(pending).event})
    /\ pending' = Tail(pending)
    /\ ReturnPermit
    /\ out' = out + 1
    /\ worker' = "loop"
    /\ UNCHANGED <<pending_coalesced_keys, closed, sem_closed, waiters, offer,
                   closer, permit, woken, out_open, log>>

\* Mutant: the popped key stays counted.
CountKept == UNCHANGED pending_coalesced_keys

CountPopped == pending_coalesced_keys' = SaturatingSub(pending_coalesced_keys, 1)

PopCoalesced ==
    /\ worker = "pop"
    /\ Head(pending).kind = "coalesced"
    /\ emitted' = Append(emitted, Head(pending).by_key[FirstKey(Head(pending))])
    /\ pending' = DropFront(pending, Popped(Head(pending)))
    /\ CountPopped
    /\ out' = out + 1
    /\ worker' = "loop"
    /\ UNCHANGED <<closed, semVars, offer, closer, permit, woken, out_open, log>>
-----------------------------------------------------------------------------
\* flush_interval of the front segment runs out.
ElapseFront ==
    /\ pending # << >>
    /\ Head(pending).kind = "coalesced" /\ ~Head(pending).elapsed
    /\ pending' = [pending EXCEPT ![1] = [@ EXCEPT !.elapsed = TRUE]]
    /\ UNCHANGED <<pending_coalesced_keys, closed, semVars, offer, closer,
                   worker, permit, woken, outVars, history>>

\* The owner of the output receives an event, or drops the receiver.
Receive ==
    /\ out_open /\ out > 0
    /\ out' = out - 1
    /\ UNCHANGED <<stateVars, semVars, offer, closer, worker, permit, woken,
                   out_open, history>>

DropOutput ==
    /\ out_open
    /\ out_open' = FALSE
    /\ UNCHANGED <<stateVars, semVars, offer, closer, worker, permit, woken,
                   out, history>>
-----------------------------------------------------------------------------
Worker ==
    \/ WorkerLoop \/ WorkerScan \/ WorkerPoll \/ WorkerNotified \/ WorkerSlept
    \/ WorkerReserve \/ WorkerAborts \/ PopDurable \/ PopCoalesced

Producer(p) ==
    \/ AwaitPermit(p) \/ AbandonWait(p) \/ AcceptDurable(p) \/ NotifyWorker(p)
    \/ \E k \in Keys : AcceptCoalesced(p, k)

Next ==
    \/ \E p \in Producers : Producer(p)
    \/ GrantPermit
    \/ CloseState \/ CloseSemaphore \/ CloseNotify
    \/ Worker
    \/ ElapseFront \/ Receive \/ DropOutput

Spec == Init /\ [][Next]_vars

\* tokio runs every ready task, and nobody drops the future of close or of a
\* notify_one that is due.  The consumer keeps receiving until it is dropped.
FairSpec ==
    /\ Spec
    /\ WF_vars(Worker)
    /\ WF_vars(Receive)
    /\ WF_vars(GrantPermit)
    /\ WF_vars(CloseSemaphore \/ CloseNotify)
    /\ \A p \in Producers : /\ WF_vars(NotifyWorker(p))
                            /\ WF_vars(offer[p] = "permit" /\ AcceptDurable(p))
                            /\ WF_vars(sem_closed /\ AbandonWait(p))

\* The clock runs: the flush interval of a front segment ends.
ClockRuns == WF_vars(ElapseFront)
-----------------------------------------------------------------------------
TypeOK ==
    /\ pending \in Seq(Segment)
    /\ pending_coalesced_keys \in Nat
    /\ closed \in BOOLEAN /\ sem_closed \in BOOLEAN
    /\ capacity \in Nat
    /\ waiters \in Seq(Producers)
    /\ offer \in [Producers -> {"idle", "waiting", "permit", "notify"}]
    /\ closer \in {"idle", "semaphore", "notify", "done"}
    /\ worker \in {"loop", "scan", "empty", "unready", "park", "sleep",
                  "reserve", "pop", "abort", "done"}
    /\ permit \in BOOLEAN /\ woken \in BOOLEAN
    /\ out \in Nat /\ out_open \in BOOLEAN
    /\ log \in Seq(Class)
    /\ emitted \in Seq(SUBSET Nat)

\* Two offers whose order a consumer can tell: one of them is durable, or they
\* are updates of one key.
Related(a, b) == log[a] = Durable \/ log[b] = Durable \/ log[a] = log[b]

\* No emission overtakes an earlier durable event, or an earlier update of the
\* same key, and a durable event overtakes nothing: whatever the producers, the
\* flush timer and the worker's two lock sections do (offer and
\* run_ordered_ingress).
NoCrossing ==
    \A i, j \in DOMAIN emitted :
        i < j => \A a \in emitted[i], b \in emitted[j] : Related(a, b) => a < b

\* Every offer answered with Accepted is in the queue or was sent, also after
\* close and while the worker has popped part of a segment.
Lossless ==
    \A s \in DOMAIN log :
        \/ \E e \in DOMAIN emitted : s \in emitted[e]
        \/ \E i \in DOMAIN pending : s \in Held(pending[i])

DurableSegments == {i \in DOMAIN pending : pending[i].kind = "durable"}

\* No permit of durable_capacity leaks or is counted twice, whichever offers
\* are cancelled, refused by close, queued or popped.
PermitsConserved ==
    capacity + Cardinality(DurableSegments)
             + Cardinality({p \in Producers : offer[p] = "permit"})
        = AtLeastOne(DurableLimit)

\* Each queued update is counted once: pending_coalesced_keys, which only the
\* two ends of the queue touch, is the number of keys of all segments, and the
\* configured limit bounds it.
KeysCounted ==
    /\ pending_coalesced_keys =
           Cardinality({ik \in (DOMAIN pending) \X Keys :
                            /\ pending[ik[1]].kind = "coalesced"
                            /\ pending[ik[1]].by_key[ik[2]] # {}})
    /\ pending_coalesced_keys <= AtLeastOne(KeyLimit)

\* The abstract stream this ingress implements.
Stream == INSTANCE EventStream WITH
    Keys <- Keys, Durable <- Durable, log <- log, emitted <- emitted
StreamSpec == Stream!Spec

Sent(s) == \E e \in DOMAIN emitted : s \in emitted[e]

\* A durable event that was accepted is sent although no timer ever fires, as
\* long as the output lives: no notification is lost between the worker's scan
\* and its wait.
DurableIsSent ==
    \A s \in 1..MaxOffers :
        (s \in DOMAIN log /\ log[s] = Durable) ~> (Sent(s) \/ ~out_open)

\* Once the clock runs every accepted offer is sent as long as the output lives.
AcceptedIsSent ==
    ClockRuns => \A s \in 1..MaxOffers : s \in DOMAIN log ~> (Sent(s) \/ ~out_open)

\* Once the clock runs, close() makes the worker drain the queue and return; so
\* does a dropped output once there is something to send.
CloseStopsTheWorker == ClockRuns => (closed ~> worker = "done")
=============================================================================
