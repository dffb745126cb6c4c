------------------------- MODULE SnapshotCoalescer -------------------------
(***************************************************************************)
(* The snapshot lane, crates/runtime-events/src/snapshot.rs: a map that    *)
(* keeps the latest value of each item for one receiver, a Notify that     *)
(* wakes it, and a closed flag that offers and the receiver read outside   *)
(* the map's mutex.                                                        *)
(*                                                                         *)
(* Values are numbered in the order in which they enter the map.  The name *)
(* of the lane is part of the names that the progress lane has too, so     *)
(* that one module can extend both.                                        *)
(***************************************************************************)
EXTENDS Naturals

CONSTANTS
    SnapshotKeys,      \* the items: SnapshotCoalescingKey
    Producers,         \* the tasks that offer snapshots
    SnapshotTurn,      \* the turn of each item
    MaxSnapshotOffers  \* bound of the model: values that enter the map

ASSUME SnapshotAssumption == MaxSnapshotOffers \in Nat /\ SnapshotKeys # {}

VARIABLES
    snapshots, \* state.pending: the value waiting for each key, 0 if none
    closed,
    permit,    \* tokio Notify: a notify_one nobody has consumed
    woken,     \* the receiver's Notified was created before a notify_waiters
    producer,  \* where each offer is
    offered,   \* the key it offers
    receiver,  \* where recv is
    closing,   \* close() stored closed and has not notified yet
    version,   \* history: values that entered the map
    latest,    \* history: the last value that entered it, per key
    delivered  \* history: the last value the receiver got, per key

snapshot_vars == <<snapshots, closed, permit, woken, producer, offered, receiver,
                   closing, version, latest, delivered>>
history == <<version, latest, delivered>>

SnapshotInit ==
    /\ snapshots = [k \in SnapshotKeys |-> 0]
    /\ closed = FALSE /\ permit = FALSE /\ woken = FALSE /\ closing = FALSE
    /\ producer = [o \in Producers |-> "idle"]
    /\ offered = [o \in Producers |-> CHOOSE k \in SnapshotKeys : TRUE]
    /\ receiver = "idle"
    /\ version = 0
    /\ latest = [k \in SnapshotKeys |-> 0]
    /\ delivered = [k \in SnapshotKeys |-> 0]
-----------------------------------------------------------------------------
\* offer: a closed lane refuses it; the flag is read before the lock.
OfferCheck(o, k) ==
    /\ producer[o] = "idle"
    /\ ~closed
    /\ producer' = [producer EXCEPT ![o] = "checked"]
    /\ offered' = [offered EXCEPT ![o] = k]
    /\ UNCHANGED <<snapshots, closed, permit, woken, receiver, closing, history>>

\* Mutant: the value that waits already is kept.
KeepOldest(k, v) == IF snapshots[k] # 0 THEN snapshots ELSE [snapshots EXCEPT ![k] = v]

\* The map with the value v for k, in place of an older one.
Replaced(k, v) == [snapshots EXCEPT ![k] = v]

OfferInsert(o) ==
    LET k == offered[o]
    IN  /\ producer[o] = "checked"
        /\ version < MaxSnapshotOffers
        /\ snapshots' = Replaced(k, version + 1)
        /\ version' = version + 1
        /\ latest' = [latest EXCEPT ![k] = version + 1]
        /\ producer' = [producer EXCEPT ![o] = "inserted"]
        /\ UNCHANGED <<closed, permit, woken, offered, receiver, closing, delivered>>

\* Mutant: only a receiver that waits now is woken.
WakeWaiting == permit' = (permit \/ receiver = "awaiting")
\* Notify::notify_one: the permit is kept until a Notified consumes it.
NotifyOne == permit' = TRUE

\* offer notifies after it released the lock, and returns true.
OfferNotify(o) ==
    /\ producer[o] = "inserted"
    /\ NotifyOne
    /\ producer' = [producer EXCEPT ![o] = "idle"]
    /\ UNCHANGED <<snapshots, closed, woken, offered, receiver, closing, history>>

\* notify_turn, when a terminal event of turn t is published.
NotifyTurn(t) ==
    /\ \E k \in SnapshotKeys : SnapshotTurn[k] = t /\ snapshots[k] # 0
    /\ NotifyOne
    /\ UNCHANGED <<snapshots, closed, woken, producer, offered, receiver, closing, history>>

\* close: store the flag ...
Close ==
    /\ ~closed
    /\ closed' = TRUE /\ closing' = TRUE
    /\ UNCHANGED <<snapshots, permit, woken, producer, offered, receiver, history>>

\* ... then Notify::notify_waiters, which reaches every Notified there is.
NotifyWaiters ==
    /\ closing
    /\ closing' = FALSE
    /\ woken' = (receiver \in {"created", "empty", "open", "awaiting"})
    /\ UNCHANGED <<snapshots, closed, permit, producer, offered, receiver, history>>
-----------------------------------------------------------------------------
\* recv, and each turn of its loop, creates a Notified before it looks.
RecvCreate ==
    /\ receiver = "idle"
    /\ receiver' = "created"
    /\ woken' = FALSE
    /\ UNCHANGED <<snapshots, closed, permit, producer, offered, closing, history>>

\* recv takes some key of the map and returns its value ...
RecvTake(k) ==
    /\ receiver = "created"
    /\ snapshots[k] # 0
    /\ snapshots' = [snapshots EXCEPT ![k] = 0]
    /\ delivered' = [delivered EXCEPT ![k] = snapshots[k]]
    /\ receiver' = "idle"
    /\ UNCHANGED <<closed, permit, woken, producer, offered, closing, version, latest>>

\* ... or finds the map empty ...
RecvEmpty ==
    /\ receiver = "created"
    /\ \A k \in SnapshotKeys : snapshots[k] = 0
    /\ receiver' = "empty"
    /\ UNCHANGED <<snapshots, closed, permit, woken, producer, offered, closing, history>>

\* ... and, without the lock, ends when the lane is closed ...
RecvClosed ==
    /\ receiver = "empty"
    /\ receiver' = IF closed THEN "ended" ELSE "open"
    /\ UNCHANGED <<snapshots, closed, permit, woken, producer, offered, closing, history>>

\* Mutant: the Notified is created only here.
RecvAwaitNew ==
    /\ receiver = "open"
    /\ receiver' = "awaiting"
    /\ woken' = FALSE
    /\ UNCHANGED <<snapshots, closed, permit, producer, offered, closing, history>>

\* ... or awaits the Notified.
RecvAwait ==
    /\ receiver = "open"
    /\ receiver' = "awaiting"
    /\ UNCHANGED <<snapshots, closed, permit, woken, producer, offered, closing, history>>

\* The Notified completes, and the loop creates the next one.
RecvWoken ==
    /\ receiver = "awaiting"
    /\ woken \/ permit
    /\ permit' = (permit /\ woken)
    /\ woken' = FALSE
    /\ receiver' = "created"
    /\ UNCHANGED <<snapshots, closed, producer, offered, closing, history>>

\* The listener's select! takes another branch and drops the recv future.
RecvCancel ==
    /\ receiver = "awaiting"
    /\ receiver' = "idle"
    /\ woken' = FALSE
    /\ UNCHANGED <<snapshots, closed, permit, producer, offered, closing, history>>
-----------------------------------------------------------------------------
SnapshotNext ==
    \/ \E o \in Producers : \/ \E k \in SnapshotKeys : OfferCheck(o, k)
                            \/ OfferInsert(o) \/ OfferNotify(o)
    \/ \E k \in SnapshotKeys : NotifyTurn(SnapshotTurn[k])
    \/ Close \/ NotifyWaiters
    \/ RecvCreate \/ (\E k \in SnapshotKeys : RecvTake(k)) \/ RecvEmpty
    \/ RecvClosed \/ RecvAwait \/ RecvWoken \/ RecvCancel

SnapshotSpec == SnapshotInit /\ [][SnapshotNext]_snapshot_vars

\* The listener polls recv for as long as it lives, and an offer or a close
\* that began runs to its end; nothing makes a producer offer or the hub close.
\* RecvCancel leaves the receiver at the start of recv, so it is not avoided.
SnapshotFairSpec ==
    /\ SnapshotSpec
    /\ WF_snapshot_vars(RecvCreate) /\ WF_snapshot_vars(RecvWoken)
    /\ WF_snapshot_vars(RecvEmpty \/ RecvClosed \/ RecvAwait)
    /\ WF_snapshot_vars(\E k \in SnapshotKeys : RecvTake(k))
    /\ \A o \in Producers : WF_snapshot_vars(OfferInsert(o)) /\ WF_snapshot_vars(OfferNotify(o))
    /\ WF_snapshot_vars(NotifyWaiters)
-----------------------------------------------------------------------------
SnapshotTypeOK ==
    /\ snapshots \in [SnapshotKeys -> 0..version]
    /\ {closed, permit, woken, closing} \subseteq BOOLEAN
    /\ producer \in [Producers -> {"idle", "checked", "inserted"}]
    /\ offered \in [Producers -> SnapshotKeys]
    /\ receiver \in {"idle", "created", "empty", "open", "awaiting", "ended"}
    /\ version \in 0..MaxSnapshotOffers
    /\ latest \in [SnapshotKeys -> 0..version]
    /\ delivered \in [SnapshotKeys -> 0..version]

\* "replacing an older value for the same item is lossless": the newest value
\* of an item waits in the map or is what the receiver got last.
LatestKept ==
    \A k \in SnapshotKeys : latest[k] = IF snapshots[k] # 0 THEN snapshots[k] ELSE delivered[k]

\* A receiver that waits with a value in the map has a wake-up on its way: its
\* permit, or the producer that has yet to notify.
WakeUpOnItsWay ==
    (receiver = "awaiting" /\ ~woken /\ \E k \in SnapshotKeys : snapshots[k] # 0)
        => permit \/ \E o \in Producers : producer[o] = "inserted"

\* close() ends a receiver that is waiting, or about to wait, for a value.
CloseEndsReceiver == closed ~> (receiver = "ended")
=============================================================================
