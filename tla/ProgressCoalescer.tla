------------------------- MODULE ProgressCoalescer -------------------------
(***************************************************************************)
(* The progress lane, crates/runtime-events/src/progress.rs, and the part  *)
(* of hub.rs that flushes it before a durable event is published: a map of *)
(* coalesced deltas and one of heartbeats under a mutex, timer tasks that  *)
(* drain them in batches, and publishers that drain what belongs to their  *)
(* event.  Whoever drains sends its batch to the broadcast channel after   *)
(* the mutex is released.                                                  *)
(*                                                                         *)
(* Deltas are numbered in the order in which they are accepted, one unit   *)
(* of text each.                                                           *)
(***************************************************************************)
EXTENDS Naturals, Sequences, FiniteSets

CONSTANTS
    Keys,           \* ProgressCoalescingKey: one stream of one item
    Snapshots,      \* the keys whose stream is ToolProgress
    ItemOf, TurnOf, \* the item of each key, the turn of each item
    Leased,         \* the items whose owner sends heartbeats
    Timers,         \* timer tasks; their number bounds the model
    Publishers,     \* tasks that flush: publishers and shutdown
    MaxPendingKeys, MaxAppend, MaxSnapshot, MaxFlushBatch,  \* the configuration
    OutsideRuntime, \* offers may come from outside a tokio runtime
    MaxOffers,      \* bound of the model: deltas accepted
    MaxScheduling   \* bound of the model: offers about to schedule a flush

Items == {ItemOf[k] : k \in Keys}
Truncated == 0  \* the suffix "[progress truncated]"

ASSUME ProgressAssumption ==
    /\ {MaxPendingKeys, MaxAppend, MaxSnapshot, MaxFlushBatch, MaxOffers,
        MaxScheduling} \subseteq Nat
    /\ Snapshots \subseteq Keys /\ Leased \subseteq Items
    /\ OutsideRuntime \in BOOLEAN
    /\ Timers \cap Publishers = {}

VARIABLES
    pending,         \* state.pending, a function on the keys in the map
    heartbeats,      \* the items in state.heartbeats; their source is left out
    flush_scheduled,
    spawning,        \* offers about to call schedule_flush in a runtime ...
    failing,         \* ... and outside one
    task,            \* what each timer and publisher is doing
    batch,           \* the drained events it has yet to send
    more,            \* has_more of its last drain
    scope,           \* the items a publisher flushes
    live,            \* history: the deltas sent to the broadcast channel
    accepted,        \* history: deltas accepted
    merged_away,     \* history: deltas replaced or cut off in the map
    since,           \* history: accepted when a publisher began
    failed           \* history: the last flush could not be scheduled

maps == <<pending, heartbeats, flush_scheduled>>
vars == <<maps, spawning, failing, task, batch, more, scope, live, accepted,
          merged_away, since, failed>>

Tasks == Timers \cup Publishers
Deltas(s) == {s[i] : i \in DOMAIN s} \ {Truncated}
Empty == [k \in {} |-> << >>]
Without(f, S) == [k \in DOMAIN f \ S |-> f[k]]
With(f, k, v) == [j \in DOMAIN f \cup {k} |-> IF j = k THEN v ELSE f[j]]

TotalPendingKeys == Cardinality(DOMAIN pending) + Cardinality(heartbeats)

\* bound_delta: what does not fit is cut off, and the suffix says so when it
\* leaves room for anything else.
BoundDelta(s, max) ==
    IF Len(s) <= max THEN s
    ELSE IF max <= 1 THEN SubSeq(s, 1, max)
    ELSE Append(SubSeq(s, 1, max - 1), Truncated)

\* The entry of key k after delta n: PendingProgress::new or ::merge.
Merge(k, n) ==
    IF k \in Snapshots THEN BoundDelta(<<n>>, MaxSnapshot)
    ELSE BoundDelta(Append(IF k \in DOMAIN pending THEN pending[k] ELSE << >>, n), MaxAppend)

DeltaEvent(k) == [key |-> k, deltas |-> pending[k]]
HeartbeatEvent(i) == [item |-> i]
-----------------------------------------------------------------------------
Init ==
    /\ pending = Empty /\ heartbeats = {} /\ flush_scheduled = FALSE
    /\ spawning = 0 /\ failing = 0
    /\ task = [t \in Tasks |-> "idle"]
    /\ batch = [t \in Tasks |-> {}]
    /\ more = [t \in Tasks |-> FALSE]
    /\ scope = [t \in Publishers |-> {}]
    /\ live = {} /\ accepted = 0 /\ merged_away = {}
    /\ since = [t \in Publishers |-> 0]
    /\ failed = FALSE

\* The end of an offer: the first since the last drain schedules a flush, after
\* it released the lock.
ScheduleIfNeeded(runtime) ==
    /\ flush_scheduled \/ spawning + failing < MaxScheduling
    /\ flush_scheduled' = TRUE
    /\ spawning' = IF ~flush_scheduled /\ runtime THEN spawning + 1 ELSE spawning
    /\ failing' = IF ~flush_scheduled /\ ~runtime THEN failing + 1 ELSE failing
    /\ failed' = (failed /\ flush_scheduled)

\* A key that is not in the map yet needs room in it.
HasRoom(known) == known \/ TotalPendingKeys < MaxPendingKeys

\* offer_notification; at the key limit the delta is dropped.
Offer(k, runtime) ==
    /\ accepted < MaxOffers
    /\ HasRoom(k \in DOMAIN pending)
    /\ LET n == accepted + 1
           old == IF k \in DOMAIN pending THEN Deltas(pending[k]) ELSE {}
       IN  /\ pending' = With(pending, k, Merge(k, n))
           /\ accepted' = n
           /\ merged_away' = merged_away \cup ((old \cup {n}) \ Deltas(Merge(k, n)))
    /\ ScheduleIfNeeded(runtime)
    /\ UNCHANGED <<heartbeats, task, batch, more, scope, live, since>>

\* offer_heartbeat and offer_confirmed_activity.
OfferHeartbeat(i, runtime) ==
    /\ HasRoom(i \in heartbeats)
    /\ heartbeats' = heartbeats \cup {i}
    /\ ScheduleIfNeeded(runtime)
    /\ UNCHANGED <<pending, task, batch, more, scope, live, accepted, merged_away, since>>

\* schedule_flush in a runtime spawns a timer task ...
ScheduleFlush(t) ==
    /\ spawning > 0 /\ task[t] = "idle"
    /\ spawning' = spawning - 1
    /\ task' = [task EXCEPT ![t] = "sleeping"]
    /\ UNCHANGED <<maps, failing, batch, more, scope, live, accepted, merged_away,
                   since, failed>>

\* ... and outside one leaves the flush to the next offer.
ScheduleFails ==
    /\ failing > 0
    /\ failing' = failing - 1
    /\ flush_scheduled' = FALSE
    /\ failed' = TRUE
    /\ UNCHANGED <<pending, heartbeats, spawning, task, batch, more, scope, live,
                   accepted, merged_away, since>>
-----------------------------------------------------------------------------
\* Task t takes the entries of the keys P and the heartbeats of the items H.
Take(t, P, H) ==
    /\ batch' = [batch EXCEPT ![t] = {DeltaEvent(k) : k \in P} \cup {HeartbeatEvent(i) : i \in H}]
    /\ pending' = Without(pending, P)
    /\ heartbeats' = heartbeats \ H
    /\ task' = [task EXCEPT ![t] = "sending"]

\* n members of S, or all of S.
Some(S, n) == {T \in SUBSET S : Cardinality(T) = IF Cardinality(S) < n THEN Cardinality(S) ELSE n}

BatchSize == IF MaxFlushBatch = 0 THEN 1 ELSE MaxFlushBatch

\* Mutant: pending.drain().take(max), which drops what does not fit the batch.
DrainDrops(t) ==
    \E P \in Some(DOMAIN pending, BatchSize) :
        /\ batch' = [batch EXCEPT ![t] = {DeltaEvent(k) : k \in P}]
        /\ pending' = Empty
        /\ task' = [task EXCEPT ![t] = "sending"]
        /\ more' = [more EXCEPT ![t] = heartbeats # {}]
        /\ flush_scheduled' = (heartbeats # {})
        /\ UNCHANGED heartbeats

\* drain_batch: deltas first, in the order of the hash map.
DrainBatch(t) ==
    \E P \in Some(DOMAIN pending, BatchSize) :
    \E H \in Some(heartbeats, BatchSize - Cardinality(P)) :
        LET has_more == P # DOMAIN pending \/ H # heartbeats
        IN  /\ Take(t, P, H)
            /\ more' = [more EXCEPT ![t] = has_more]
            /\ flush_scheduled' = has_more

\* A timer task wakes up.
TimerFires(t) ==
    /\ task[t] = "sleeping"
    /\ DrainBatch(t)
    /\ UNCHANGED <<spawning, failing, scope, live, accepted, merged_away, since, failed>>

\* Mutant: the timer does not go on.
TimerEndsAtOnce(t) ==
    /\ task[t] = "sending" /\ batch[t] = {}
    /\ task' = [task EXCEPT ![t] = "idle"]
    /\ UNCHANGED <<maps, spawning, failing, batch, more, scope, live, accepted,
                   merged_away, since, failed>>

\* Its batch sent, it schedules the next flush if something is left.
TimerEnds(t) ==
    /\ task[t] = "sending" /\ batch[t] = {}
    /\ task' = [task EXCEPT ![t] = IF more[t] THEN "sleeping" ELSE "idle"]
    /\ UNCHANGED <<maps, spawning, failing, batch, more, scope, live, accepted,
                   merged_away, since, failed>>

\* Mutant: a batch ends with its first event.
SendFirst(t) ==
    /\ task[t] = "sending"
    /\ \E e \in batch[t] :
           /\ batch' = [batch EXCEPT ![t] = {}]
           /\ live' = IF "key" \in DOMAIN e THEN live \cup Deltas(e.deltas) ELSE live
    /\ UNCHANGED <<maps, spawning, failing, task, more, scope, accepted, merged_away,
                   since, failed>>

\* send_live_events, one event after the other, without the lock.
SendLive(t) ==
    /\ task[t] = "sending"
    /\ \E e \in batch[t] :
           /\ batch' = [batch EXCEPT ![t] = @ \ {e}]
           /\ live' = IF "key" \in DOMAIN e THEN live \cup Deltas(e.deltas) ELSE live
    /\ UNCHANGED <<maps, spawning, failing, task, more, scope, accepted, merged_away,
                   since, failed>>
-----------------------------------------------------------------------------
\* Mutant: flush_item and flush_turn forget the deltas.
FlushHeartbeats(p, items) == Take(p, {}, items \cap heartbeats)

\* flush_item and flush_turn on the items of their scope.
FlushItems(p, items) ==
    Take(p, {k \in DOMAIN pending : ItemOf[k] \in items}, items \cap heartbeats)

\* flush_for_durable, or flush_progress_for_item: an event of one item, or a
\* terminal event of a turn, flushes what belongs to it.
FlushScope(p, items) ==
    /\ task[p] = "idle"
    /\ scope' = [scope EXCEPT ![p] = items]
    /\ since' = [since EXCEPT ![p] = accepted]
    /\ FlushItems(p, items)
    /\ flush_scheduled' = (flush_scheduled /\ (DOMAIN pending' # {} \/ heartbeats' # {}))
    /\ more' = [more EXCEPT ![p] = FALSE]
    /\ UNCHANGED <<spawning, failing, live, accepted, merged_away, failed>>

\* flush_key on one stream; it leaves flush_scheduled to the timer.
FlushKey(p, k) ==
    /\ task[p] = "idle" /\ k \in DOMAIN pending
    /\ Take(p, {k}, {})
    /\ more' = [more EXCEPT ![p] = FALSE]
    /\ UNCHANGED <<flush_scheduled, spawning, failing, scope, live, accepted, merged_away,
                   since, failed>>

\* flush_all, for shutdown or a terminal task event without a turn: batch after
\* batch until nothing is left.
FlushAll(p) ==
    /\ \/ /\ task[p] = "idle"
          /\ scope' = [scope EXCEPT ![p] = Items]
          /\ since' = [since EXCEPT ![p] = accepted]
       \/ /\ task[p] = "sending" /\ batch[p] = {} /\ more[p]
          /\ UNCHANGED <<scope, since>>
    /\ DrainBatch(p)
    /\ UNCHANGED <<spawning, failing, live, accepted, merged_away, failed>>

\* The flush returned: the durable event can be put into its lane ...
Flushed(p) ==
    /\ task[p] = "sending" /\ batch[p] = {} /\ ~more[p]
    /\ task' = [task EXCEPT ![p] = "flushed"]
    /\ UNCHANGED <<maps, spawning, failing, batch, more, scope, live, accepted,
                   merged_away, since, failed>>

\* ... and is.
Enqueued(p) ==
    /\ task[p] = "flushed"
    /\ task' = [task EXCEPT ![p] = "idle"]
    /\ scope' = [scope EXCEPT ![p] = {}]
    /\ since' = [since EXCEPT ![p] = 0]
    /\ UNCHANGED <<maps, spawning, failing, batch, more, live, accepted, merged_away, failed>>
-----------------------------------------------------------------------------
Turn(t) == {i \in Items : TurnOf[i] = t}
Scopes == {{i} : i \in Items} \cup {Turn(TurnOf[i]) : i \in Items}

Next ==
    \/ \E runtime \in {TRUE, ~OutsideRuntime} :
           \/ \E k \in Keys : Offer(k, runtime)
           \/ \E i \in Leased : OfferHeartbeat(i, runtime)
    \/ ScheduleFails
    \/ \E t \in Timers : ScheduleFlush(t) \/ TimerFires(t) \/ TimerEnds(t)
    \/ \E t \in Tasks : SendLive(t)
    \/ \E p \in Publishers : \/ \E items \in Scopes : FlushScope(p, items)
                             \/ \E k \in Keys : FlushKey(p, k)
                             \/ FlushAll(p) \/ Flushed(p) \/ Enqueued(p)

Spec == Init /\ [][Next]_vars

\* Spawned timer tasks sleep for flush_interval and run to their end.  So does
\* code without an await: an offer that schedules a flush, and a flush from its
\* first drain to its last send.  Nothing makes anyone offer or publish.
FairSpec ==
    /\ Spec
    /\ WF_vars(\E t \in Timers : ScheduleFlush(t)) /\ WF_vars(ScheduleFails)
    /\ \A t \in Timers : WF_vars(TimerFires(t) \/ SendLive(t) \/ TimerEnds(t))
    /\ \A p \in Publishers : WF_vars(SendLive(p) \/ (task[p] = "sending" /\ FlushAll(p)))
-----------------------------------------------------------------------------
InBatch(t) == UNION {Deltas(e.deltas) : e \in {f \in batch[t] : "key" \in DOMAIN f}}
InMap == UNION {Deltas(pending[k]) : k \in DOMAIN pending}

\* A delta that was accepted is in exactly one place until it was sent, and
\* is sent once: the map, the batch of one task, the channel; or a newer value
\* replaced it, or it was cut off.
Conserved ==
    /\ 1..accepted = InMap \cup (UNION {InBatch(t) : t \in Tasks}) \cup live \cup merged_away
    /\ InMap \cap (live \cup merged_away) = {}
    /\ live \cap merged_away = {}
    /\ \A t \in Tasks : InBatch(t) \cap (InMap \cup live \cup merged_away) = {}
    /\ \A t, u \in Tasks : t # u => InBatch(t) \cap InBatch(u) = {}

\* Somebody is going to drain the maps.
FlushOutstanding ==
    \/ spawning > 0
    \/ \E t \in Tasks : task[t] = "sleeping" \/ (task[t] = "sending" /\ more[t])

\* Progress never waits for a flush that is not coming: when nobody is going to
\* drain the maps, the next offer schedules a flush, and only an offer outside
\* a runtime can have caused it.
NothingStranded ==
    (DOMAIN pending # {} \/ heartbeats # {}) =>
        FlushOutstanding \/ failing > 0 \/ (failed /\ ~flush_scheduled)

\* When a durable event goes into its lane, the map holds no progress of its
\* item or turn that was accepted before its publisher began.
MapFlushedFirst ==
    \A p \in Publishers : task[p] = "flushed" =>
        \A k \in DOMAIN pending : ItemOf[k] \in scope[p] =>
            \A n \in Deltas(pending[k]) : n > since[p]

\* "A durable publish flushes causally related progress first": when a durable
\* event goes into its lane, no progress of its item or turn that was accepted
\* before its publisher began has still to be sent.
CausalProgressFirst ==
    \A p \in Publishers : task[p] = "flushed" =>
        \A t \in Tasks : \A e \in batch[t] :
            ("key" \in DOMAIN e /\ ItemOf[e.key] \in scope[p]) =>
                \A n \in Deltas(e.deltas) : n > since[p]

\* The premise of the progress property: again and again the last flush that
\* was asked for was asked for in a runtime.
FlushesScheduled == []<>(~failed /\ failing = 0)

\* Every delta that is accepted is some day, and then for good, among those that
\* were sent to the broadcast channel, replaced by a newer value or cut off,
\* whoever drained it and without help from a publisher: no drain leaves it
\* behind and no taker keeps it.
ProgressIsSent ==
    FlushesScheduled =>
        \A n \in 1..MaxOffers : <>[](accepted >= n => n \in live \cup merged_away)
=============================================================================
