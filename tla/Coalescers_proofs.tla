-------------------------- MODULE Coalescers_proofs --------------------------
(***************************************************************************)
(* Proofs about the two coalescing lanes of the hub, for every set of      *)
(* keys, items, tasks and producers and every configuration.               *)
(*                                                                         *)
(* ProgressCoalescer: no accepted delta is lost, duplicated or held twice; *)
(* progress never waits for a flush that is not coming; and a durable      *)
(* event finds no older progress of its scope in the map.                  *)
(*                                                                         *)
(* SnapshotCoalescer, at the end: the newest value of an item is never     *)
(* lost, and no wake-up is.                                                *)
(***************************************************************************)
EXTENDS ProgressCoalescer, SnapshotCoalescer, TLAPS

-----------------------------------------------------------------------------
(* The inductive invariant. *)

DeltaEvents == [key : Keys, deltas : Seq(Nat)]
HeartbeatEvents == [item : Items]
Events == DeltaEvents \cup HeartbeatEvents

\* The deltas an event carries.
Text(e) == IF "key" \in DOMAIN e THEN Deltas(e.deltas) ELSE {}

\* What is in the map is keyed, and a batch is a set of events.
MapOK == DOMAIN pending \subseteq Keys /\ \A k \in DOMAIN pending : pending[k] \in Seq(Nat)
BatchOK == batch \in [Tasks -> SUBSET Events]

TypeOK ==
    /\ MapOK /\ BatchOK
    /\ heartbeats \subseteq Items
    /\ flush_scheduled \in BOOLEAN /\ failed \in BOOLEAN
    /\ spawning \in Nat /\ failing \in Nat /\ accepted \in Nat
    /\ task \in [Tasks -> {"idle", "sleeping", "sending", "flushed"}]
    /\ more \in [Tasks -> BOOLEAN]
    /\ scope \in [Publishers -> SUBSET Items]
    /\ since \in [Publishers -> Nat]

\* Only deltas that were accepted are anywhere ...
OnlyAccepted ==
    /\ \A k \in DOMAIN pending : Deltas(pending[k]) \subseteq 1..accepted
    /\ \A t \in Tasks : \A e \in batch[t] : Text(e) \subseteq 1..accepted
    /\ live \cup merged_away \subseteq 1..accepted

\* ... each of them is somewhere ...
AllKept ==
    \A n \in 1..accepted :
        \/ n \in live \cup merged_away
        \/ \E k \in DOMAIN pending : n \in Deltas(pending[k])
        \/ \E t \in Tasks : \E e \in batch[t] : n \in Text(e)

\* ... and in one place only: one entry of the map, one event of one batch, or
\* done with.
MapApart ==
    \A j, k \in DOMAIN pending :
        j # k => Deltas(pending[j]) \cap Deltas(pending[k]) = {}
MapNotDone ==
    \A k \in DOMAIN pending : Deltas(pending[k]) \cap (live \cup merged_away) = {}
BatchesNotInMap ==
    \A t \in Tasks : \A e \in batch[t] : \A k \in DOMAIN pending :
        Text(e) \cap Deltas(pending[k]) = {}
BatchesNotDone ==
    \A t \in Tasks : \A e \in batch[t] : Text(e) \cap (live \cup merged_away) = {}
BatchesApart ==
    \A t, u \in Tasks : \A e \in batch[t], f \in batch[u] :
        t # u \/ e # f => Text(e) \cap Text(f) = {}

OnePlace ==
    /\ MapApart /\ MapNotDone /\ BatchesNotInMap /\ BatchesNotDone /\ BatchesApart
    /\ live \cap merged_away = {}

\* A task that is not sending has nothing left to send: no drain overwrites a
\* batch.
BatchSent == \A t \in Tasks : task[t] # "sending" => batch[t] = {}

\* The flag promises a flush, and entries without the flag are left by an offer
\* whose flush could not be scheduled, or wait for a flush all the same.
Promised ==
    /\ flush_scheduled => FlushOutstanding \/ failing > 0
    /\ DOMAIN pending # {} \/ heartbeats # {} =>
           flush_scheduled \/ FlushOutstanding \/ failing > 0 \/ failed

\* From its last drain on, a publisher finds only newer progress of its scope.
NewerOnly(p) ==
    \A k \in DOMAIN pending : ItemOf[k] \in scope[p] =>
        \A n \in Deltas(pending[k]) : n > since[p]

ScopeFlushed ==
    \A p \in Publishers :
        /\ since[p] <= accepted
        /\ task[p] \in {"idle", "sleeping"} => scope[p] = {}
        /\ (task[p] = "sending" /\ ~more[p]) \/ task[p] = "flushed" => NewerOnly(p)

Places == OnlyAccepted /\ AllKept /\ OnePlace

IInv == TypeOK /\ Places /\ BatchSent /\ Promised /\ ScopeFlushed

-----------------------------------------------------------------------------
(* What the operators of the map and of the batches do. *)

\* bound_delta cuts off and adds no delta: its suffix is not one.
LEMMA BoundDeltaCuts ==
    ASSUME NEW s \in Seq(Nat), NEW max \in Nat
    PROVE  /\ BoundDelta(s, max) \in Seq(Nat)
           /\ Deltas(BoundDelta(s, max)) \subseteq Deltas(s)
  <1>1. CASE Len(s) <= max
    BY <1>1 DEF BoundDelta
  <1>2. CASE Len(s) > max
    <2>1. ASSUME NEW n \in Nat, n <= max
          PROVE  /\ SubSeq(s, 1, n) \in Seq(Nat) /\ Len(SubSeq(s, 1, n)) = n
                 /\ \A i \in 1..n : SubSeq(s, 1, n)[i] = s[i]
      BY <1>2, <2>1
    <2>2. ASSUME NEW n \in Nat, n <= max
          PROVE  Deltas(SubSeq(s, 1, n)) \subseteq Deltas(s)
      <3> DEFINE c == SubSeq(s, 1, n)
      <3>1. c \in Seq(Nat) /\ Len(c) = n /\ \A i \in 1..n : c[i] = s[i]
        BY <2>1, <2>2
      <3> HIDE DEF c
      <3>2. DOMAIN c = 1..n /\ DOMAIN c \subseteq DOMAIN s
        BY <1>2, <2>2, <3>1
      <3>3. Deltas(c) \subseteq Deltas(s)
        BY <3>1, <3>2 DEF Deltas
      <3> QED  BY <3>3 DEF c
    <2>3. CASE max <= 1
      BY <1>2, <2>1, <2>2, <2>3 DEF BoundDelta
    <2>4. CASE max > 1
      <3> DEFINE c == SubSeq(s, 1, max - 1)
      <3>1. max - 1 \in Nat /\ max - 1 <= max
        BY <2>4
      <3>2. c \in Seq(Nat) /\ Deltas(c) \subseteq Deltas(s)
        BY <2>1, <2>2, <3>1
      <3>3. BoundDelta(s, max) = Append(c, Truncated)
        BY <1>2, <2>4 DEF BoundDelta
      <3> HIDE DEF c
      <3>4. Append(c, Truncated) \in Seq(Nat)
        BY <3>2 DEF Truncated
      <3>5. Deltas(Append(c, Truncated)) \subseteq Deltas(c)
        BY <3>2 DEF Deltas, Truncated
      <3> QED  BY <3>2, <3>3, <3>4, <3>5
    <2> QED  BY <2>3, <2>4
  <1> QED  BY <1>1, <1>2

\* The deltas of key k that are in the map.
Entry(k) == IF k \in DOMAIN pending THEN Deltas(pending[k]) ELSE {}

\* PendingProgress::merge keeps some of the old deltas and the new one.
LEMMA MergeKeepsSome ==
    ASSUME MapOK, NEW k \in Keys, NEW n \in Nat
    PROVE  /\ Merge(k, n) \in Seq(Nat)
           /\ Deltas(Merge(k, n)) \subseteq Entry(k) \cup {n}
  <1>1. MaxSnapshot \in Nat /\ MaxAppend \in Nat
    BY ProgressAssumption
  <1>2. CASE k \in Snapshots
    <2>1. <<n>> \in Seq(Nat) /\ Deltas(<<n>>) \subseteq {n}
      BY DEF Deltas
    <2> QED  BY <1>1, <1>2, <2>1, BoundDeltaCuts DEF Merge
  <1>3. CASE k \notin Snapshots
    <2> DEFINE s == IF k \in DOMAIN pending THEN pending[k] ELSE << >>
    <2>1. s \in Seq(Nat) /\ Deltas(s) = Entry(k)
      BY DEF MapOK, Entry, Deltas
    <2>2. Merge(k, n) = BoundDelta(Append(s, n), MaxAppend)
      BY <1>3 DEF Merge
    <2> HIDE DEF s
    <2>3. Append(s, n) \in Seq(Nat) /\ Deltas(Append(s, n)) \subseteq Deltas(s) \cup {n}
      BY <2>1 DEF Deltas
    <2> QED  BY <1>1, <2>1, <2>2, <2>3, BoundDeltaCuts
  <1> QED  BY <1>2, <1>3

\* The events a drain makes, and what they carry.
LEMMA DrainedEvents ==
    ASSUME MapOK, NEW P, P \subseteq DOMAIN pending, NEW H, H \subseteq Items
    PROVE  /\ \A k \in P : DeltaEvent(k) \in Events /\ Text(DeltaEvent(k)) = Deltas(pending[k])
           /\ \A i \in H : HeartbeatEvent(i) \in Events /\ Text(HeartbeatEvent(i)) = {}
           /\ \A j, k \in P : DeltaEvent(j) = DeltaEvent(k) => j = k
  <1>1. ASSUME NEW k \in P
        PROVE  DeltaEvent(k) \in Events /\ Text(DeltaEvent(k)) = Deltas(pending[k])
    BY DEF DeltaEvent, Events, DeltaEvents, Text, MapOK
  <1>2. ASSUME NEW i \in H
        PROVE  HeartbeatEvent(i) \in Events /\ Text(HeartbeatEvent(i)) = {}
    BY DEF HeartbeatEvent, Events, HeartbeatEvents, Text
  <1>3. \A j, k \in P : DeltaEvent(j) = DeltaEvent(k) => j = k
    BY DEF DeltaEvent
  <1> QED  BY <1>1, <1>2, <1>3
-----------------------------------------------------------------------------
(* Where the deltas are. *)

places == <<pending, batch, live, accepted, merged_away>>

\* A step that touches none of the places.
LEMMA NothingMoves == ASSUME Places, UNCHANGED places PROVE Places'
  <1>1. /\ pending' = pending /\ batch' = batch /\ live' = live
        /\ accepted' = accepted /\ merged_away' = merged_away
    BY DEF places
  <1>2. OnlyAccepted' /\ AllKept'
    BY <1>1 DEF Places, OnlyAccepted, AllKept
  <1>3. OnePlace'
    BY <1>1 DEF Places, OnePlace, MapApart, MapNotDone, BatchesNotInMap,
                BatchesNotDone, BatchesApart
  <1> QED  BY <1>2, <1>3 DEF Places

\* offer_notification: the new delta goes to its entry, and what the entry no
\* longer holds is merged away.
LEMMA OfferPlaces ==
    ASSUME TypeOK, Places, NEW k \in Keys, NEW runtime, Offer(k, runtime)
    PROVE  /\ Places' /\ MapOK'
           /\ \A j \in DOMAIN pending' :
                 /\ j # k => j \in DOMAIN pending /\ pending'[j] = pending[j]
                 /\ j = k => Deltas(pending'[j]) \subseteq Entry(k) \cup {accepted + 1}
  <1> DEFINE n == accepted + 1
             new == Merge(k, n)
  <1>1. /\ accepted \in Nat /\ n \in Nat /\ accepted' = n
        /\ n \notin 1..accepted /\ 1..n = (1..accepted) \cup {n}
    BY DEF Offer, TypeOK
  <1>2. new \in Seq(Nat) /\ Deltas(new) \subseteq Entry(k) \cup {n}
    BY <1>1, MergeKeepsSome DEF TypeOK
  <1>3. /\ pending' = With(pending, k, new)
        /\ merged_away' = merged_away \cup ((Entry(k) \cup {n}) \ Deltas(new))
        /\ batch' = batch /\ live' = live
    BY DEF Offer, Entry
  <1> HIDE DEF n, new
  <1>4. /\ DOMAIN pending' = DOMAIN pending \cup {k} /\ pending'[k] = new
        /\ \A j \in DOMAIN pending \ {k} : pending'[j] = pending[j]
    BY <1>3 DEF With
  <1>5. MapOK'
    BY <1>2, <1>4 DEF MapOK, TypeOK
  <1>6. /\ Entry(k) \subseteq 1..accepted
        /\ Entry(k) \cap (live \cup merged_away) = {}
        /\ \A j \in DOMAIN pending \ {k} : Entry(k) \cap Deltas(pending[j]) = {}
        /\ \A t \in Tasks : \A e \in batch[t] : Text(e) \cap Entry(k) = {}
    BY DEF Entry, Places, OnlyAccepted, OnePlace, MapApart, MapNotDone, BatchesNotInMap
  <1>7. OnlyAccepted'
    BY <1>1, <1>2, <1>3, <1>4, <1>6 DEF Places, OnlyAccepted
  <1>8. AllKept'
    <2> SUFFICES ASSUME NEW i \in 1..n
                 PROVE  \/ i \in live' \cup merged_away'
                        \/ \E j \in DOMAIN pending' : i \in Deltas(pending'[j])
                        \/ \E t \in Tasks : \E e \in batch'[t] : i \in Text(e)
      BY <1>1 DEF AllKept
    <2>1. CASE i \in Entry(k) \cup {n}
      BY <1>3, <1>4, <2>1
    <2>2. CASE i \notin Entry(k) \cup {n}
      <3>1. \/ i \in live \cup merged_away
            \/ \E j \in DOMAIN pending : i \in Deltas(pending[j])
            \/ \E t \in Tasks : \E e \in batch[t] : i \in Text(e)
        BY <1>1, <2>2 DEF Places, AllKept
      <3>2. ASSUME NEW j \in DOMAIN pending, i \in Deltas(pending[j])
            PROVE  j \in DOMAIN pending' /\ pending'[j] = pending[j]
        BY <1>4, <2>2, <3>2 DEF Entry
      <3> QED  BY <1>3, <3>1, <3>2
    <2> QED  BY <2>1, <2>2
  <1>9. OnePlace'
    <2>1. MapApart'
      BY <1>1, <1>2, <1>4, <1>6 DEF MapApart, Places, OnePlace, OnlyAccepted
    <2>2. MapNotDone'
      BY <1>1, <1>2, <1>3, <1>4, <1>6 DEF MapNotDone, Places, OnePlace, OnlyAccepted
    <2>3. BatchesNotInMap'
      BY <1>1, <1>2, <1>3, <1>4, <1>6 DEF BatchesNotInMap, Places, OnePlace, OnlyAccepted
    <2>4. BatchesNotDone'
      BY <1>1, <1>3, <1>6 DEF BatchesNotDone, Places, OnePlace, OnlyAccepted
    <2>5. BatchesApart' /\ live' \cap merged_away' = {}
      BY <1>1, <1>3, <1>6 DEF BatchesApart, Places, OnePlace, OnlyAccepted
    <2> QED  BY <2>1, <2>2, <2>3, <2>4, <2>5 DEF OnePlace
  <1>10. ASSUME NEW j \in DOMAIN pending'
         PROVE  /\ j # k => j \in DOMAIN pending /\ pending'[j] = pending[j]
                /\ j = k => Deltas(pending'[j]) \subseteq Entry(k) \cup {n}
    BY <1>2, <1>4
  <1> QED  BY <1>5, <1>7, <1>8, <1>9, <1>10 DEF Places, n

\* A drain by a task that has sent its last batch: entries leave the map for
\* the batch, each for an event of its own.
LEMMA TakePlaces ==
    ASSUME TypeOK, Places, NEW t \in Tasks, batch[t] = {},
           NEW P, P \subseteq DOMAIN pending, NEW H, H \subseteq heartbeats,
           Take(t, P, H), UNCHANGED <<live, accepted, merged_away>>
    PROVE  /\ Places' /\ MapOK' /\ BatchOK'
           /\ DOMAIN pending' = DOMAIN pending \ P
           /\ \A k \in DOMAIN pending' : pending'[k] = pending[k]
  <1> DEFINE new == {DeltaEvent(k) : k \in P} \cup {HeartbeatEvent(i) : i \in H}
  <1>1. live' = live /\ accepted' = accepted /\ merged_away' = merged_away
    OBVIOUS
  <1>2. /\ DOMAIN pending' = DOMAIN pending \ P
        /\ \A k \in DOMAIN pending' : pending'[k] = pending[k]
    BY DEF Take, Without
  <1>3. /\ \A k \in P : DeltaEvent(k) \in Events /\ Text(DeltaEvent(k)) = Deltas(pending[k])
        /\ \A i \in H : HeartbeatEvent(i) \in Events /\ Text(HeartbeatEvent(i)) = {}
        /\ \A j, k \in P : DeltaEvent(j) = DeltaEvent(k) => j = k
    BY DrainedEvents DEF TypeOK
  <1>4. /\ new \subseteq Events
        /\ \A k \in P : DeltaEvent(k) \in new
        /\ \A e \in new : Text(e) = {} \/ \E k \in P : e = DeltaEvent(k)
    BY <1>3
  <1>5. batch' = [batch EXCEPT ![t] = new]
    BY DEF Take
  <1> HIDE DEF new
  <1>6. batch'[t] = new /\ \A u \in Tasks \ {t} : batch'[u] = batch[u]
    BY <1>5 DEF TypeOK, BatchOK
  <1>7. BatchOK'
    BY <1>4, <1>5 DEF TypeOK, BatchOK
  <1>8. MapOK'
    BY <1>2 DEF TypeOK, MapOK
  <1>9. \A e \in new : Text(e) = {} \/ \E k \in P : e = DeltaEvent(k) /\ Text(e) = Deltas(pending[k])
    BY <1>3, <1>4
  <1>10. OnlyAccepted'
    <2>1. \A k \in DOMAIN pending : Deltas(pending[k]) \subseteq 1..accepted
      BY DEF Places, OnlyAccepted
    <2>2. \A e \in new : Text(e) \subseteq 1..accepted
      BY <1>9, <2>1
    <2>3. \A u \in Tasks : \A e \in batch'[u] : Text(e) \subseteq 1..accepted
      BY <1>6, <2>2 DEF Places, OnlyAccepted
    <2> QED  BY <1>1, <1>2, <2>1, <2>3 DEF Places, OnlyAccepted
  <1>11. AllKept'
    <2> SUFFICES ASSUME NEW i \in 1..accepted
                 PROVE  \/ i \in live \cup merged_away
                        \/ \E j \in DOMAIN pending' : i \in Deltas(pending'[j])
                        \/ \E u \in Tasks : \E e \in batch'[u] : i \in Text(e)
      BY <1>1 DEF AllKept
    <2>1. ASSUME NEW k \in DOMAIN pending, i \in Deltas(pending[k])
          PROVE  \/ \E j \in DOMAIN pending' : i \in Deltas(pending'[j])
                 \/ \E u \in Tasks : \E e \in batch'[u] : i \in Text(e)
      <3>1. CASE k \in P
        <4>1. DeltaEvent(k) \in batch'[t] /\ i \in Text(DeltaEvent(k))
          BY <1>3, <1>4, <1>6, <2>1, <3>1
        <4> QED  BY <4>1
      <3>2. CASE k \notin P
        BY <1>2, <2>1, <3>2
      <3> QED  BY <3>1, <3>2
    <2>2. ASSUME NEW u \in Tasks, NEW e \in batch[u], i \in Text(e)
          PROVE  \E v \in Tasks : \E f \in batch'[v] : i \in Text(f)
      BY <1>6, <2>2
    <2>3. \/ i \in live \cup merged_away
          \/ \E k \in DOMAIN pending : i \in Deltas(pending[k])
          \/ \E u \in Tasks : \E e \in batch[u] : i \in Text(e)
      BY DEF Places, AllKept
    <2> QED  BY <2>1, <2>2, <2>3
  <1>12. OnePlace'
    <2>1. MapApart' /\ MapNotDone' /\ live' \cap merged_away' = {}
      BY <1>1, <1>2 DEF Places, OnePlace, MapApart, MapNotDone
    <2>2. ASSUME NEW e \in new
          PROVE  /\ \A k \in DOMAIN pending' : Text(e) \cap Deltas(pending'[k]) = {}
                 /\ Text(e) \cap (live \cup merged_away) = {}
                 /\ \A f \in new : e # f => Text(e) \cap Text(f) = {}
                 /\ \A u \in Tasks : \A f \in batch[u] : Text(e) \cap Text(f) = {}
      <3>1. CASE Text(e) = {}
        BY <3>1
      <3>2. ASSUME NEW k \in P, e = DeltaEvent(k), Text(e) = Deltas(pending[k])
            PROVE  <2>2!2
        <4>1. \A j \in DOMAIN pending' : Text(e) \cap Deltas(pending'[j]) = {}
          BY <1>2, <3>2 DEF Places, OnePlace, MapApart
        <4>2. Text(e) \cap (live \cup merged_away) = {}
          BY <3>2 DEF Places, OnePlace, MapNotDone
        <4>3. \A f \in new : e # f => Text(e) \cap Text(f) = {}
          BY <1>9, <3>2 DEF Places, OnePlace, MapApart
        <4>4. \A u \in Tasks : \A f \in batch[u] : Text(e) \cap Text(f) = {}
          BY <3>2 DEF Places, OnePlace, BatchesNotInMap
        <4> QED  BY <4>1, <4>2, <4>3, <4>4
      <3> QED  BY <1>9, <3>1, <3>2
    <2>3. BatchesNotInMap'
      BY <1>2, <1>6, <2>2 DEF Places, OnePlace, BatchesNotInMap
    <2>4. BatchesNotDone'
      BY <1>1, <1>6, <2>2 DEF Places, OnePlace, BatchesNotDone
    <2>5. BatchesApart'
      BY <1>6, <2>2 DEF Places, OnePlace, BatchesApart
    <2> QED  BY <2>1, <2>3, <2>4, <2>5 DEF OnePlace
  <1> QED  BY <1>2, <1>7, <1>8, <1>10, <1>11, <1>12 DEF Places

\* send_live_events: one event leaves its batch for the channel.
LEMMA SendPlaces ==
    ASSUME TypeOK, Places, NEW t \in Tasks, SendLive(t)
    PROVE  Places' /\ BatchOK' /\ \A u \in Tasks : batch'[u] \subseteq batch[u]
  <1>1. PICK e \in batch[t] :
            /\ batch' = [batch EXCEPT ![t] = @ \ {e}]
            /\ live' = IF "key" \in DOMAIN e THEN live \cup Deltas(e.deltas) ELSE live
    BY DEF SendLive
  <1>2. /\ pending' = pending /\ accepted' = accepted /\ merged_away' = merged_away
        /\ live' = live \cup Text(e)
    BY <1>1 DEF SendLive, maps, Text
  <1>3. /\ batch'[t] = batch[t] \ {e} /\ \A u \in Tasks \ {t} : batch'[u] = batch[u]
        /\ \A u \in Tasks : batch'[u] \subseteq batch[u]
    BY <1>1 DEF TypeOK, BatchOK
  <1>4. BatchOK'
    BY <1>1 DEF TypeOK, BatchOK
  <1>5. OnlyAccepted'
    BY <1>2, <1>3 DEF Places, OnlyAccepted
  <1>6. AllKept'
    BY <1>2, <1>3 DEF Places, AllKept
  <1>7. \A u \in Tasks : \A f \in batch'[u] : Text(f) \cap Text(e) = {}
    BY <1>3 DEF Places, OnePlace, BatchesApart
  <1>8. OnePlace'
    <2>1. MapApart' /\ MapNotDone' /\ live' \cap merged_away' = {}
      BY <1>2 DEF Places, OnePlace, MapApart, MapNotDone, BatchesNotInMap, BatchesNotDone
    <2>2. BatchesNotInMap' /\ BatchesNotDone'
      BY <1>2, <1>3, <1>7 DEF Places, OnePlace, BatchesNotInMap, BatchesNotDone
    <2>3. BatchesApart'
      BY <1>3 DEF Places, OnePlace, BatchesApart
    <2> QED  BY <2>1, <2>2, <2>3 DEF OnePlace
  <1> QED  BY <1>3, <1>4, <1>5, <1>6, <1>8 DEF Places
-----------------------------------------------------------------------------
(* The actions. *)

\* The end of an offer: with the flag up a flush is coming already.
LEMMA OfferPromises ==
    ASSUME TypeOK, Promised, NEW runtime \in BOOLEAN, ScheduleIfNeeded(runtime),
           UNCHANGED <<task, more>>
    PROVE  /\ Promised'
           /\ flush_scheduled' \in BOOLEAN /\ failed' \in BOOLEAN
           /\ spawning' \in Nat /\ failing' \in Nat
  <1>1. /\ flush_scheduled' = TRUE /\ failed' \in BOOLEAN
        /\ spawning' \in Nat /\ failing' \in Nat
    BY DEF ScheduleIfNeeded, TypeOK
  <1>2. FlushOutstanding' \/ failing' > 0
    BY DEF ScheduleIfNeeded, TypeOK, Promised, FlushOutstanding
  <1> QED  BY <1>1, <1>2 DEF Promised

\* offer_notification
LEMMA OfferKeeps ==
    ASSUME IInv, NEW k \in Keys, NEW runtime \in BOOLEAN, Offer(k, runtime)
    PROVE  IInv'
  <1>1. /\ accepted \in Nat /\ accepted' = accepted + 1
        /\ UNCHANGED <<heartbeats, task, batch, more, scope, since>>
    BY DEF Offer, IInv, TypeOK
  <1>2. /\ Promised'
        /\ flush_scheduled' \in BOOLEAN /\ failed' \in BOOLEAN
        /\ spawning' \in Nat /\ failing' \in Nat
    <2>1. ScheduleIfNeeded(runtime) /\ UNCHANGED <<task, more>>
      BY DEF Offer
    <2> QED  BY <2>1, OfferPromises DEF IInv
  <1>3. /\ Places' /\ MapOK'
        /\ \A j \in DOMAIN pending' :
              /\ j # k => j \in DOMAIN pending /\ pending'[j] = pending[j]
              /\ j = k => Deltas(pending'[j]) \subseteq Entry(k) \cup {accepted + 1}
    BY OfferPlaces DEF IInv
  <1>4. TypeOK'
    BY <1>1, <1>2, <1>3 DEF IInv, TypeOK, BatchOK
  <1>5. BatchSent'
    BY <1>1 DEF IInv, BatchSent
  <1>6. ScopeFlushed'
    <2> SUFFICES ASSUME NEW p \in Publishers
                 PROVE  /\ since[p] <= accepted'
                        /\ task[p] \in {"idle", "sleeping"} => scope[p] = {}
                        /\ (task[p] = "sending" /\ ~more[p]) \/ task[p] = "flushed"
                             => NewerOnly(p)'
      BY <1>1 DEF ScopeFlushed
    <2>1. since[p] \in Nat /\ since[p] <= accepted /\ since[p] < accepted + 1
      BY <1>1 DEF IInv, TypeOK, ScopeFlushed
    <2>2. ASSUME NewerOnly(p) PROVE NewerOnly(p)'
      <3> SUFFICES ASSUME NEW j \in DOMAIN pending', ItemOf[j] \in scope[p],
                          NEW i \in Deltas(pending'[j])
                   PROVE  i > since[p]
        BY <1>1 DEF NewerOnly
      <3>1. CASE j # k
        BY <1>3, <2>2, <3>1 DEF NewerOnly
      <3>2. CASE j = k
        <4>1. i \in Entry(k) \/ i = accepted + 1
          BY <1>3, <3>2
        <4>2. i \in Entry(k) => i > since[p]
          BY <2>2, <3>2 DEF NewerOnly, Entry
        <4> QED  BY <1>1, <2>1, <4>1, <4>2
      <3> QED  BY <3>1, <3>2
    <2> QED  BY <1>1, <2>1, <2>2 DEF IInv, ScopeFlushed
  <1> QED  BY <1>2, <1>3, <1>4, <1>5, <1>6 DEF IInv

\* A step that neither touches the places nor what publishers know.
LEMMA StillFlushed ==
    ASSUME ScopeFlushed, UNCHANGED <<pending, scope, since, accepted>>,
           \A p \in Publishers : task'[p] = task[p] /\ more'[p] = more[p]
    PROVE  ScopeFlushed'
  BY DEF ScopeFlushed, NewerOnly

\* offer_heartbeat and offer_confirmed_activity
LEMMA OfferHeartbeatKeeps ==
    ASSUME IInv, NEW i \in Leased, NEW runtime \in BOOLEAN, OfferHeartbeat(i, runtime)
    PROVE  IInv'
  <1>1. /\ heartbeats' = heartbeats \cup {i}
        /\ UNCHANGED <<task, batch, more, scope, since, pending>> /\ UNCHANGED places
    BY DEF OfferHeartbeat, places
  <1>2. /\ Promised'
        /\ flush_scheduled' \in BOOLEAN /\ failed' \in BOOLEAN
        /\ spawning' \in Nat /\ failing' \in Nat
    <2>1. ScheduleIfNeeded(runtime) /\ UNCHANGED <<task, more>>
      BY DEF OfferHeartbeat
    <2> QED  BY <2>1, OfferPromises DEF IInv
  <1>3. Places'
    BY <1>1, NothingMoves DEF IInv
  <1>4. TypeOK'
    BY <1>1, <1>2, ProgressAssumption DEF IInv, TypeOK, MapOK, BatchOK, places
  <1>5. BatchSent' /\ ScopeFlushed'
    BY <1>1, StillFlushed DEF IInv, BatchSent, places
  <1> QED  BY <1>2, <1>3, <1>4, <1>5 DEF IInv

\* schedule_flush in a runtime: the promise passes to the timer.
LEMMA ScheduleFlushKeeps ==
    ASSUME IInv, NEW t \in Timers, ScheduleFlush(t)
    PROVE  IInv'
  <1>1. /\ spawning > 0 /\ spawning' = spawning - 1 /\ task[t] = "idle"
        /\ task' = [task EXCEPT ![t] = "sleeping"]
        /\ UNCHANGED <<pending, heartbeats, flush_scheduled, failing, batch, more,
                       scope, live, accepted, merged_away, since, failed>>
    BY DEF ScheduleFlush, maps
  <1>2. t \in Tasks /\ task \in [Tasks -> {"idle", "sleeping", "sending", "flushed"}]
    BY DEF IInv, TypeOK, Tasks
  <1>3. task'[t] = "sleeping" /\ \A u \in Tasks \ {t} : task'[u] = task[u]
    BY <1>1, <1>2
  <1>4. TypeOK'
    BY <1>1, <1>2 DEF IInv, TypeOK, MapOK, BatchOK
  <1>5. Places'
    BY <1>1, NothingMoves DEF IInv, places
  <1>6. BatchSent'
    BY <1>1, <1>2, <1>3 DEF IInv, BatchSent
  <1>7. FlushOutstanding'
    BY <1>2, <1>3 DEF FlushOutstanding
  <1>8. ScopeFlushed'
    BY <1>1, <1>3, StillFlushed, ProgressAssumption DEF IInv, Tasks
  <1> QED  BY <1>4, <1>5, <1>6, <1>7, <1>8 DEF IInv, Promised

\* schedule_flush outside a runtime: the flag comes down.
LEMMA ScheduleFailsKeeps ==
    ASSUME IInv, ScheduleFails
    PROVE  IInv'
  <1>1. /\ failing > 0 /\ failing' = failing - 1
        /\ flush_scheduled' = FALSE /\ failed' = TRUE
        /\ UNCHANGED <<pending, heartbeats, spawning, task, batch, more, scope,
                       live, accepted, merged_away, since>>
    BY DEF ScheduleFails
  <1>2. TypeOK'
    <2>1. failing' \in Nat
      BY <1>1 DEF IInv, TypeOK
    <2> QED  BY <1>1, <2>1 DEF IInv, TypeOK, MapOK, BatchOK
  <1>3. Places'
    BY <1>1, NothingMoves DEF IInv, places
  <1>4. BatchSent' /\ Promised'
    BY <1>1 DEF IInv, BatchSent, Promised
  <1>5. ScopeFlushed'
    BY <1>1, StillFlushed DEF IInv
  <1> QED  BY <1>2, <1>3, <1>4, <1>5 DEF IInv
\* drain_batch: what it leaves behind it has promised to drain.
LEMMA DrainBatchKeeps ==
    ASSUME IInv, NEW t \in Tasks, batch[t] = {}, DrainBatch(t),
           UNCHANGED <<spawning, failing, live, accepted, merged_away, failed>>
    PROVE  /\ Places' /\ BatchSent' /\ Promised'
           /\ MapOK' /\ BatchOK' /\ heartbeats' \subseteq Items
           /\ flush_scheduled' \in BOOLEAN
           /\ task' = [task EXCEPT ![t] = "sending"]
           /\ more' \in [Tasks -> BOOLEAN]
           /\ \A u \in Tasks \ {t} : more'[u] = more[u]
           /\ \A k \in DOMAIN pending' : k \in DOMAIN pending /\ pending'[k] = pending[k]
           /\ ~more'[t] => DOMAIN pending' = {}
  <1>1. PICK P \in Some(DOMAIN pending, BatchSize) :
          \E H \in Some(heartbeats, BatchSize - Cardinality(P)) :
            /\ Take(t, P, H)
            /\ more' = [more EXCEPT ![t] = P # DOMAIN pending \/ H # heartbeats]
            /\ flush_scheduled' = (P # DOMAIN pending \/ H # heartbeats)
    BY DEF DrainBatch
  <1>2. PICK H \in Some(heartbeats, BatchSize - Cardinality(P)) :
            /\ Take(t, P, H)
            /\ more' = [more EXCEPT ![t] = P # DOMAIN pending \/ H # heartbeats]
            /\ flush_scheduled' = (P # DOMAIN pending \/ H # heartbeats)
    BY <1>1
  <1> DEFINE has_more == P # DOMAIN pending \/ H # heartbeats
  <1>3. P \subseteq DOMAIN pending /\ H \subseteq heartbeats
    BY DEF Some
  <1>4. /\ Places' /\ MapOK' /\ BatchOK'
        /\ DOMAIN pending' = DOMAIN pending \ P
        /\ \A k \in DOMAIN pending' : pending'[k] = pending[k]
    <2>1. Take(t, P, H) /\ UNCHANGED <<live, accepted, merged_away>>
      BY <1>2
    <2> QED  BY <1>3, <2>1, TakePlaces DEF IInv
  <1>5. /\ heartbeats' = heartbeats \ H
        /\ task' = [task EXCEPT ![t] = "sending"]
        /\ \A u \in Tasks \ {t} : batch'[u] = batch[u]
    BY <1>2 DEF Take, IInv, TypeOK, BatchOK
  <1>6. task'[t] = "sending" /\ \A u \in Tasks \ {t} : task'[u] = task[u]
    BY <1>5 DEF IInv, TypeOK
  <1>7. /\ more' \in [Tasks -> BOOLEAN] /\ more'[t] = has_more
        /\ flush_scheduled' = has_more
        /\ \A u \in Tasks \ {t} : more'[u] = more[u]
    BY <1>2 DEF IInv, TypeOK
  <1>8. BatchSent'
    BY <1>5, <1>6 DEF IInv, BatchSent
  <1>9. ~has_more => DOMAIN pending' = {} /\ heartbeats' = {}
    BY <1>4, <1>5
  <1>10. has_more => FlushOutstanding'
    BY <1>6, <1>7 DEF FlushOutstanding
  <1>11. flush_scheduled' \in BOOLEAN
    BY <1>7
  <1>12. heartbeats' \subseteq Items
    BY <1>5 DEF IInv, TypeOK
  <1> HIDE DEF has_more
  <1>13. Promised'
    BY <1>7, <1>9, <1>10 DEF Promised
  <1>14. ~more'[t] => DOMAIN pending' = {}
    BY <1>7, <1>9
  <1>15. \A k \in DOMAIN pending' : k \in DOMAIN pending /\ pending'[k] = pending[k]
    BY <1>4
  <1> QED
    BY <1>4, <1>5, <1>7, <1>8, <1>11, <1>12, <1>13, <1>14, <1>15

\* A drain by t leaves what the other publishers know as it was.
LEMMA OthersStillFlushed ==
    ASSUME ScopeFlushed, NEW t, NEW p \in Publishers \ {t},
           accepted' = accepted, scope'[p] = scope[p], since'[p] = since[p],
           task'[p] = task[p], more'[p] = more[p],
           \A k \in DOMAIN pending' : k \in DOMAIN pending /\ pending'[k] = pending[k]
    PROVE  /\ since'[p] <= accepted'
           /\ task'[p] \in {"idle", "sleeping"} => scope'[p] = {}
           /\ (task'[p] = "sending" /\ ~more'[p]) \/ task'[p] = "flushed" => NewerOnly(p)'
  <1>1. NewerOnly(p) => NewerOnly(p)'
    BY DEF NewerOnly
  <1> QED  BY <1>1 DEF ScopeFlushed

\* A timer task wakes up.
LEMMA TimerFiresKeeps ==
    ASSUME IInv, NEW t \in Timers, TimerFires(t)
    PROVE  IInv'
  <1>1. /\ t \in Tasks /\ t \notin Publishers /\ batch[t] = {}
        /\ DrainBatch(t) /\ UNCHANGED <<spawning, failing, live, accepted, merged_away, failed>>
        /\ accepted' = accepted /\ scope' = scope /\ since' = since
    BY ProgressAssumption DEF TimerFires, Tasks, IInv, BatchSent
  <1>2. /\ Places' /\ BatchSent' /\ Promised'
        /\ MapOK' /\ BatchOK' /\ heartbeats' \subseteq Items
        /\ flush_scheduled' \in BOOLEAN
        /\ task' = [task EXCEPT ![t] = "sending"]
        /\ more' \in [Tasks -> BOOLEAN]
        /\ \A u \in Tasks \ {t} : more'[u] = more[u]
        /\ \A k \in DOMAIN pending' : k \in DOMAIN pending /\ pending'[k] = pending[k]
    BY <1>1, DrainBatchKeeps
  <1>3. /\ task' \in [Tasks -> {"idle", "sleeping", "sending", "flushed"}]
        /\ \A u \in Tasks \ {t} : task'[u] = task[u]
    BY <1>2 DEF IInv, TypeOK
  <1>4. TypeOK'
    BY <1>1, <1>2, <1>3 DEF IInv, TypeOK
  <1>5. ScopeFlushed'
    <2>1. ASSUME NEW p \in Publishers
          PROVE  /\ since'[p] <= accepted'
                 /\ task'[p] \in {"idle", "sleeping"} => scope'[p] = {}
                 /\ (task'[p] = "sending" /\ ~more'[p]) \/ task'[p] = "flushed"
                      => NewerOnly(p)'
      <3>1. /\ p \in Publishers \ {t} /\ accepted' = accepted
            /\ scope'[p] = scope[p] /\ since'[p] = since[p]
            /\ task'[p] = task[p] /\ more'[p] = more[p]
        BY <1>1, <1>2, <1>3 DEF Tasks
      <3> QED  BY <1>2, <3>1, OthersStillFlushed DEF IInv
    <2> QED  BY <2>1 DEF ScopeFlushed
  <1> QED  BY <1>2, <1>4, <1>5 DEF IInv

\* The timer sleeps again as long as something is left.
LEMMA TimerEndsKeeps ==
    ASSUME IInv, NEW t \in Timers, TimerEnds(t)
    PROVE  IInv'
  <1> DEFINE to == IF more[t] THEN "sleeping" ELSE "idle"
  <1>1. /\ task[t] = "sending" /\ batch[t] = {}
        /\ task' = [task EXCEPT ![t] = to]
        /\ UNCHANGED <<pending, heartbeats, flush_scheduled, spawning, failing, batch,
                       more, scope, live, accepted, merged_away, since, failed>>
    BY DEF TimerEnds, maps
  <1>2. /\ t \in Tasks /\ to \in {"idle", "sleeping"}
        /\ task \in [Tasks -> {"idle", "sleeping", "sending", "flushed"}]
    BY DEF IInv, TypeOK, Tasks
  <1>3. more[t] => to = "sleeping"
    OBVIOUS
  <1> HIDE DEF to
  <1>4. task'[t] = to /\ \A u \in Tasks \ {t} : task'[u] = task[u]
    BY <1>1, <1>2
  <1>5. TypeOK'
    BY <1>1, <1>2 DEF IInv, TypeOK, MapOK, BatchOK
  <1>6. Places'
    BY <1>1, NothingMoves DEF IInv, places
  <1>7. BatchSent'
    BY <1>1, <1>2, <1>4 DEF IInv, BatchSent
  <1>8. FlushOutstanding => FlushOutstanding'
    BY <1>1, <1>2, <1>3, <1>4 DEF FlushOutstanding
  <1>9. Promised'
    BY <1>1, <1>8 DEF IInv, Promised
  <1>10. ScopeFlushed'
    BY <1>1, <1>4, StillFlushed, ProgressAssumption DEF IInv, Tasks
  <1> QED  BY <1>5, <1>6, <1>7, <1>9, <1>10 DEF IInv

\* send_live_events
LEMMA SendLiveKeeps ==
    ASSUME IInv, NEW t \in Tasks, SendLive(t)
    PROVE  IInv'
  <1>1. UNCHANGED <<pending, heartbeats, flush_scheduled, spawning, failing, task,
                    more, scope, accepted, merged_away, since, failed>>
    BY DEF SendLive, maps
  <1>2. Places' /\ BatchOK' /\ \A u \in Tasks : batch'[u] \subseteq batch[u]
    BY SendPlaces DEF IInv
  <1>3. TypeOK'
    BY <1>1, <1>2 DEF IInv, TypeOK, MapOK
  <1>4. BatchSent'
    BY <1>1, <1>2 DEF IInv, BatchSent
  <1>5. Promised'
    BY <1>1 DEF IInv, Promised, FlushOutstanding
  <1>6. ScopeFlushed'
    BY <1>1, StillFlushed DEF IInv
  <1> QED  BY <1>2, <1>3, <1>4, <1>5, <1>6 DEF IInv
\* A publisher that was idle takes entries P and heartbeats H in one drain: no
\* promise of a flush is broken.
LEMMA TakeKeeps ==
    ASSUME IInv, NEW p \in Publishers, task[p] = "idle",
           NEW P, P \subseteq DOMAIN pending, NEW H, H \subseteq heartbeats, Take(p, P, H),
           more' = [more EXCEPT ![p] = FALSE],
           UNCHANGED <<spawning, failing, live, accepted, merged_away, failed>>,
           \/ flush_scheduled' = flush_scheduled
           \/ flush_scheduled' = (flush_scheduled /\ (DOMAIN pending' # {} \/ heartbeats' # {})),
           scope' \in [Publishers -> SUBSET Items], since' \in [Publishers -> Nat]
    PROVE  /\ TypeOK' /\ Places' /\ BatchSent' /\ Promised'
           /\ DOMAIN pending' = DOMAIN pending \ P
           /\ \A k \in DOMAIN pending' : k \in DOMAIN pending /\ pending'[k] = pending[k]
           /\ task'[p] = "sending"
           /\ \A u \in Tasks \ {p} : task'[u] = task[u] /\ more'[u] = more[u]
  <1>1. p \in Tasks /\ batch[p] = {} /\ UNCHANGED <<live, accepted, merged_away>>
    BY DEF IInv, BatchSent, Tasks
  <1>2. /\ Places' /\ MapOK' /\ BatchOK'
        /\ DOMAIN pending' = DOMAIN pending \ P
        /\ \A k \in DOMAIN pending' : pending'[k] = pending[k]
    BY <1>1, TakePlaces DEF IInv
  <1>3. /\ heartbeats' = heartbeats \ H
        /\ task' = [task EXCEPT ![p] = "sending"]
        /\ \A u \in Tasks \ {p} : batch'[u] = batch[u]
    BY DEF Take, IInv, TypeOK, BatchOK
  <1>4. /\ task' \in [Tasks -> {"idle", "sleeping", "sending", "flushed"}]
        /\ task'[p] = "sending" /\ \A u \in Tasks \ {p} : task'[u] = task[u]
    BY <1>1, <1>3 DEF IInv, TypeOK
  <1>5. /\ more' \in [Tasks -> BOOLEAN] /\ \A u \in Tasks \ {p} : more'[u] = more[u]
    BY <1>1 DEF IInv, TypeOK
  <1>6. flush_scheduled' \in BOOLEAN
    BY DEF IInv, TypeOK
  <1>7. TypeOK'
    BY <1>2, <1>3, <1>4, <1>5, <1>6 DEF IInv, TypeOK
  <1>8. BatchSent'
    BY <1>3, <1>4 DEF IInv, BatchSent
  <1>9. FlushOutstanding => FlushOutstanding'
    BY <1>4, <1>5 DEF FlushOutstanding
  <1>10. Promised'
    <2>1. /\ flush_scheduled' => flush_scheduled
          /\ DOMAIN pending' # {} \/ heartbeats' # {} =>
                 /\ DOMAIN pending # {} \/ heartbeats # {}
                 /\ flush_scheduled => flush_scheduled'
      BY <1>2, <1>3 DEF IInv, TypeOK
    <2>2. failing' = failing /\ failed' = failed
      OBVIOUS
    <2> QED  BY <1>9, <2>1, <2>2 DEF IInv, Promised
  <1> QED  BY <1>2, <1>4, <1>5, <1>7, <1>8, <1>10

\* flush_item and flush_turn
LEMMA FlushScopeKeeps ==
    ASSUME IInv, NEW p \in Publishers, NEW items \in Scopes, FlushScope(p, items)
    PROVE  IInv'
  <1> DEFINE P == {k \in DOMAIN pending : ItemOf[k] \in items}
             H == items \cap heartbeats
  <1>1. /\ scope' = [scope EXCEPT ![p] = items] /\ since' = [since EXCEPT ![p] = accepted]
        /\ accepted' = accepted
    BY DEF FlushScope
  <1>2. items \subseteq Items
    BY DEF Scopes, Turn
  <1>3. /\ scope' \in [Publishers -> SUBSET Items] /\ since' \in [Publishers -> Nat]
        /\ scope'[p] = items /\ since'[p] = accepted /\ accepted \in Nat
        /\ \A u \in Publishers \ {p} : scope'[u] = scope[u] /\ since'[u] = since[u]
    BY <1>1, <1>2 DEF IInv, TypeOK
  <1>4. /\ task[p] = "idle" /\ Take(p, P, H)
        /\ P \subseteq DOMAIN pending /\ H \subseteq heartbeats
        /\ more' = [more EXCEPT ![p] = FALSE]
        /\ UNCHANGED <<spawning, failing, live, accepted, merged_away, failed>>
        /\ flush_scheduled' = (flush_scheduled /\ (DOMAIN pending' # {} \/ heartbeats' # {}))
    BY DEF FlushScope, FlushItems
  <1>5. \A k \in DOMAIN pending \ P : ItemOf[k] \notin items
    OBVIOUS
  <1> HIDE DEF P, H
  <1>6. /\ TypeOK' /\ Places' /\ BatchSent' /\ Promised'
        /\ DOMAIN pending' = DOMAIN pending \ P
        /\ \A k \in DOMAIN pending' : k \in DOMAIN pending /\ pending'[k] = pending[k]
        /\ task'[p] = "sending"
        /\ \A u \in Tasks \ {p} : task'[u] = task[u] /\ more'[u] = more[u]
    BY <1>3, <1>4, TakeKeeps
  <1>7. ScopeFlushed'
    <2>1. NewerOnly(p)' /\ since'[p] <= accepted'
      BY <1>1, <1>3, <1>5, <1>6 DEF NewerOnly
    <2>2. ASSUME NEW u \in Publishers \ {p}
          PROVE  /\ since'[u] <= accepted'
                 /\ task'[u] \in {"idle", "sleeping"} => scope'[u] = {}
                 /\ (task'[u] = "sending" /\ ~more'[u]) \/ task'[u] = "flushed"
                      => NewerOnly(u)'
      <3>1. /\ accepted' = accepted
            /\ scope'[u] = scope[u] /\ since'[u] = since[u]
            /\ task'[u] = task[u] /\ more'[u] = more[u]
        BY <1>1, <1>3, <1>6 DEF Tasks
      <3> QED  BY <1>6, <3>1, OthersStillFlushed DEF IInv
    <2> QED  BY <1>6, <2>1, <2>2 DEF ScopeFlushed
  <1> QED  BY <1>6, <1>7 DEF IInv

\* flush_key, by a publisher that has no scope.
LEMMA FlushKeyKeeps ==
    ASSUME IInv, NEW p \in Publishers, NEW k \in Keys, FlushKey(p, k)
    PROVE  IInv'
  <1> DEFINE P == {k}
             H == {}
  <1>1. /\ task[p] = "idle" /\ Take(p, P, H)
        /\ P \subseteq DOMAIN pending /\ H \subseteq heartbeats
        /\ more' = [more EXCEPT ![p] = FALSE]
        /\ UNCHANGED <<spawning, failing, live, accepted, merged_away, failed>>
        /\ flush_scheduled' = flush_scheduled
    BY DEF FlushKey
  <1> HIDE DEF P, H
  <1>2. scope' = scope /\ since' = since /\ accepted' = accepted
    BY DEF FlushKey
  <1>3. scope' \in [Publishers -> SUBSET Items] /\ since' \in [Publishers -> Nat]
    BY <1>2 DEF IInv, TypeOK
  <1>4. /\ TypeOK' /\ Places' /\ BatchSent' /\ Promised'
        /\ \A j \in DOMAIN pending' : j \in DOMAIN pending /\ pending'[j] = pending[j]
        /\ task'[p] = "sending"
        /\ \A u \in Tasks \ {p} : task'[u] = task[u] /\ more'[u] = more[u]
    BY <1>1, <1>3, TakeKeeps
  <1>5. ScopeFlushed'
    <2>1. NewerOnly(p)' /\ since'[p] <= accepted'
      BY <1>1, <1>2 DEF IInv, ScopeFlushed, NewerOnly
    <2>2. ASSUME NEW u \in Publishers \ {p}
          PROVE  /\ since'[u] <= accepted'
                 /\ task'[u] \in {"idle", "sleeping"} => scope'[u] = {}
                 /\ (task'[u] = "sending" /\ ~more'[u]) \/ task'[u] = "flushed"
                      => NewerOnly(u)'
      <3>1. /\ accepted' = accepted
            /\ scope'[u] = scope[u] /\ since'[u] = since[u]
            /\ task'[u] = task[u] /\ more'[u] = more[u]
        BY <1>2, <1>4 DEF Tasks
      <3> QED  BY <1>4, <3>1, OthersStillFlushed DEF IInv
    <2> QED  BY <1>4, <2>1, <2>2 DEF ScopeFlushed
  <1> QED  BY <1>4, <1>5 DEF IInv

\* flush_all: the drain that leaves nothing is the last.
LEMMA FlushAllKeeps ==
    ASSUME IInv, NEW p \in Publishers, FlushAll(p)
    PROVE  IInv'
  <1>1. /\ p \in Tasks /\ DrainBatch(p)
        /\ UNCHANGED <<spawning, failing, live, accepted, merged_away, failed>>
    BY DEF FlushAll, Tasks
  <1>2. batch[p] = {}
    BY <1>1 DEF FlushAll, IInv, BatchSent
  <1>3. /\ Places' /\ BatchSent' /\ Promised'
        /\ MapOK' /\ BatchOK' /\ heartbeats' \subseteq Items
        /\ flush_scheduled' \in BOOLEAN
        /\ task' = [task EXCEPT ![p] = "sending"]
        /\ more' \in [Tasks -> BOOLEAN]
        /\ \A u \in Tasks \ {p} : more'[u] = more[u]
        /\ \A k \in DOMAIN pending' : k \in DOMAIN pending /\ pending'[k] = pending[k]
        /\ ~more'[p] => DOMAIN pending' = {}
    BY <1>1, <1>2, DrainBatchKeeps
  <1>4. /\ task' \in [Tasks -> {"idle", "sleeping", "sending", "flushed"}]
        /\ task'[p] = "sending" /\ \A u \in Tasks \ {p} : task'[u] = task[u]
    BY <1>1, <1>3 DEF IInv, TypeOK
  <1>5. accepted' = accepted /\ accepted \in Nat
    BY DEF FlushAll, IInv, TypeOK
  <1>6. \/ scope' = [scope EXCEPT ![p] = Items] /\ since' = [since EXCEPT ![p] = accepted]
        \/ scope' = scope /\ since' = since
    BY DEF FlushAll
  <1>7. /\ scope' \in [Publishers -> SUBSET Items] /\ since' \in [Publishers -> Nat]
        /\ since'[p] <= accepted
        /\ \A u \in Publishers \ {p} : scope'[u] = scope[u] /\ since'[u] = since[u]
    <2>1. /\ scope \in [Publishers -> SUBSET Items] /\ since \in [Publishers -> Nat]
          /\ since[p] <= accepted
      BY DEF IInv, TypeOK, ScopeFlushed
    <2> QED  BY <1>5, <1>6, <2>1
  <1>8. TypeOK'
    BY <1>1, <1>3, <1>4, <1>5, <1>7 DEF IInv, TypeOK
  <1>9. ScopeFlushed'
    <2>1. ~more'[p] => NewerOnly(p)'
      BY <1>3 DEF NewerOnly
    <2>2. ASSUME NEW u \in Publishers \ {p}
          PROVE  /\ since'[u] <= accepted'
                 /\ task'[u] \in {"idle", "sleeping"} => scope'[u] = {}
                 /\ (task'[u] = "sending" /\ ~more'[u]) \/ task'[u] = "flushed"
                      => NewerOnly(u)'
      <3>1. /\ accepted' = accepted
            /\ scope'[u] = scope[u] /\ since'[u] = since[u]
            /\ task'[u] = task[u] /\ more'[u] = more[u]
        BY <1>3, <1>4, <1>5, <1>7 DEF Tasks
      <3> QED  BY <1>3, <3>1, OthersStillFlushed DEF IInv
    <2> QED  BY <1>4, <1>5, <1>7, <2>1, <2>2 DEF ScopeFlushed
  <1> QED  BY <1>3, <1>8, <1>9 DEF IInv

\* A publisher goes on after its flush, or after its durable event.
LEMMA PublisherMoves ==
    ASSUME IInv, NEW p \in Publishers, Flushed(p) \/ Enqueued(p)
    PROVE  IInv'
  <1> DEFINE to == IF task[p] = "sending" THEN "flushed" ELSE "idle"
  <1>1. /\ task' = [task EXCEPT ![p] = to]
        /\ UNCHANGED <<pending, heartbeats, flush_scheduled, spawning, failing, batch,
                       more, live, accepted, merged_away, failed>>
        /\ batch[p] = {} /\ task[p] # "sleeping" /\ ~(task[p] = "sending" /\ more[p])
    BY DEF Flushed, Enqueued, maps, IInv, BatchSent, Tasks
  <1>2. /\ p \in Tasks /\ to \in {"flushed", "idle"}
        /\ task \in [Tasks -> {"idle", "sleeping", "sending", "flushed"}]
    BY DEF IInv, TypeOK, Tasks
  <1>3. /\ \/ scope' = scope /\ since' = since /\ to = "flushed"
              /\ task[p] = "sending" /\ ~more[p]
           \/ /\ scope' = [scope EXCEPT ![p] = {}] /\ since' = [since EXCEPT ![p] = 0]
              /\ to = "idle"
    BY DEF Flushed, Enqueued
  <1> HIDE DEF to
  <1>4. /\ task'[p] = to /\ \A u \in Tasks \ {p} : task'[u] = task[u]
        /\ task' \in [Tasks -> {"idle", "sleeping", "sending", "flushed"}]
    BY <1>1, <1>2
  <1>5. /\ scope' \in [Publishers -> SUBSET Items] /\ since' \in [Publishers -> Nat]
        /\ \A u \in Publishers \ {p} : scope'[u] = scope[u] /\ since'[u] = since[u]
        /\ to = "idle" => scope'[p] = {} /\ since'[p] = 0
    BY <1>3 DEF IInv, TypeOK
  <1>6. TypeOK'
    BY <1>1, <1>4, <1>5 DEF IInv, TypeOK, MapOK, BatchOK
  <1>7. Places'
    BY <1>1, NothingMoves DEF IInv, places
  <1>8. BatchSent'
    BY <1>1, <1>4 DEF IInv, BatchSent
  <1>9. FlushOutstanding => FlushOutstanding'
    BY <1>1, <1>4 DEF FlushOutstanding
  <1>10. Promised'
    BY <1>1, <1>9 DEF IInv, Promised
  <1>11. ScopeFlushed'
    <2>1. accepted' = accepted /\ accepted \in Nat /\ pending' = pending /\ more' = more
      BY <1>1 DEF IInv, TypeOK
    <2>2. CASE to = "idle"
      <3>1. /\ since'[p] <= accepted' /\ scope'[p] = {} /\ task'[p] = "idle"
        BY <1>4, <1>5, <2>1, <2>2
      <3>2. ASSUME NEW u \in Publishers \ {p}
            PROVE  /\ since'[u] <= accepted'
                   /\ task'[u] \in {"idle", "sleeping"} => scope'[u] = {}
                   /\ (task'[u] = "sending" /\ ~more'[u]) \/ task'[u] = "flushed"
                        => NewerOnly(u)'
        <4>1. /\ scope'[u] = scope[u] /\ since'[u] = since[u]
              /\ task'[u] = task[u] /\ more'[u] = more[u]
              /\ \A k \in DOMAIN pending' : k \in DOMAIN pending /\ pending'[k] = pending[k]
          BY <1>4, <1>5, <2>1 DEF Tasks
        <4> QED  BY <2>1, <4>1, OthersStillFlushed DEF IInv
      <3> QED  BY <3>1, <3>2 DEF ScopeFlushed
    <2>3. CASE to = "flushed"
      <3>1. scope' = scope /\ since' = since /\ task[p] = "sending" /\ ~more[p]
        BY <1>3, <2>3
      <3>2. \A u \in Publishers \ {p} : task'[u] = task[u]
        BY <1>4 DEF Tasks
      <3> QED  BY <1>4, <2>1, <2>3, <3>1, <3>2 DEF IInv, ScopeFlushed, NewerOnly
    <2> QED  BY <1>2, <2>2, <2>3
  <1> QED  BY <1>6, <1>7, <1>8, <1>10, <1>11 DEF IInv

-----------------------------------------------------------------------------
(* The theorems. *)

\* Nothing is accepted, pending or scheduled at the start.
LEMMA InitIInv == Init => IInv
  <1> SUFFICES ASSUME Init PROVE IInv
    OBVIOUS
  <1>1. DOMAIN pending = {}
    BY DEF Init, Empty
  <1>2. TypeOK
    BY <1>1 DEF Init, TypeOK, MapOK, BatchOK
  <1>3. Places
    BY <1>1 DEF Init, Places, OnlyAccepted, AllKept, OnePlace, MapApart, MapNotDone,
                BatchesNotInMap, BatchesNotDone, BatchesApart
  <1>4. BatchSent /\ Promised /\ ScopeFlushed
    BY <1>1 DEF Init, BatchSent, Promised, ScopeFlushed, Tasks
  <1> QED  BY <1>2, <1>3, <1>4 DEF IInv

\* Every action keeps the invariant.
LEMMA NextIInv == IInv /\ [Next]_vars => IInv'
  <1> SUFFICES ASSUME IInv, [Next]_vars PROVE IInv'
    OBVIOUS
  <1>1. \A runtime \in {TRUE, ~OutsideRuntime} : runtime \in BOOLEAN
    BY ProgressAssumption
  <1>2. ASSUME NEW runtime \in {TRUE, ~OutsideRuntime}, NEW k \in Keys, Offer(k, runtime)
        PROVE  IInv'
    BY <1>1, <1>2, OfferKeeps
  <1>3. ASSUME NEW runtime \in {TRUE, ~OutsideRuntime}, NEW i \in Leased,
               OfferHeartbeat(i, runtime)
        PROVE  IInv'
    BY <1>1, <1>3, OfferHeartbeatKeeps
  <1>4. ASSUME NEW t \in Timers, ScheduleFlush(t) \/ TimerFires(t) \/ TimerEnds(t)
        PROVE  IInv'
    BY <1>4, ScheduleFlushKeeps, TimerFiresKeeps, TimerEndsKeeps
  <1>5. ASSUME NEW p \in Publishers,
               \/ \E items \in Scopes : FlushScope(p, items)
               \/ \E k \in Keys : FlushKey(p, k)
               \/ FlushAll(p) \/ Flushed(p) \/ Enqueued(p)
        PROVE  IInv'
    BY <1>5, FlushScopeKeeps, FlushKeyKeeps, FlushAllKeeps, PublisherMoves
  <1>6. CASE UNCHANGED vars
    <2>1. UNCHANGED <<pending, heartbeats, flush_scheduled, spawning, failing, task, batch,
                      more, scope, live, accepted, merged_away, since, failed>>
      BY <1>6 DEF vars, maps
    <2>2. Places'
      BY <2>1, NothingMoves DEF IInv, places
    <2>3. TypeOK' /\ BatchSent'
      BY <2>1 DEF IInv, TypeOK, MapOK, BatchOK, BatchSent
    <2>4. Promised'
      BY <2>1 DEF IInv, Promised, FlushOutstanding
    <2>5. ScopeFlushed'
      BY <2>1, StillFlushed DEF IInv
    <2> QED  BY <2>2, <2>3, <2>4, <2>5 DEF IInv
  <1> QED
    BY <1>2, <1>3, <1>4, <1>5, <1>6, ScheduleFailsKeeps, SendLiveKeeps DEF Next

\* IInv is an invariant of the progress lane.
THEOREM Inductive == Spec => []IInv
  BY InitIInv, NextIInv, PTL DEF Spec

\* Whatever merges, batches, timers and publishers interleave, each accepted
\* delta is in one place until it was sent, and is sent once, unless a newer
\* value replaced it or it was cut off (offer_notification, drain_batch,
\* flush_item, flush_turn, flush_key, flush_all, send_live_events).
THEOREM DeltasAreConserved == Spec => []Conserved
  <1>1. ASSUME NEW t PROVE InBatch(t) = UNION {Text(e) : e \in batch[t]}
    BY DEF InBatch, Text
  <1>2. IInv => Conserved
    <2> SUFFICES ASSUME IInv PROVE Conserved
      OBVIOUS
    <2>1. \A n : n \in InMap <=> \E k \in DOMAIN pending : n \in Deltas(pending[k])
      BY DEF InMap
    <2>2. \A n : \A t \in Tasks : n \in InBatch(t) <=> \E e \in batch[t] : n \in Text(e)
      BY <1>1
    <2>3. \A n : n \in UNION {InBatch(t) : t \in Tasks} <=> \E t \in Tasks : n \in InBatch(t)
      OBVIOUS
    <2>4. 1..accepted = InMap \cup (UNION {InBatch(t) : t \in Tasks}) \cup live \cup merged_away
      BY <2>1, <2>2, <2>3 DEF IInv, Places, OnlyAccepted, AllKept
    <2>5. InMap \cap (live \cup merged_away) = {} /\ live \cap merged_away = {}
      BY <2>1 DEF IInv, Places, OnePlace, MapNotDone
    <2>6. \A t \in Tasks : InBatch(t) \cap (InMap \cup live \cup merged_away) = {}
      BY <2>1, <2>2 DEF IInv, Places, OnePlace, BatchesNotInMap, BatchesNotDone
    <2>7. \A t, u \in Tasks : t # u => InBatch(t) \cap InBatch(u) = {}
      BY <2>2 DEF IInv, Places, OnePlace, BatchesApart
    <2> QED  BY <2>4, <2>5, <2>6, <2>7 DEF Conserved
  <1> QED  BY <1>2, Inductive, PTL

\* Progress in the maps never waits for a flush that is not coming, whatever
\* drains overlap: the flag is down, for the next offer to see, unless somebody
\* is going to drain (schedule_flush_if_needed, drain_batch, schedule_flush).
THEOREM NothingIsStranded == Spec => []NothingStranded
  <1>1. IInv => NothingStranded
    BY DEF IInv, TypeOK, Promised, NothingStranded
  <1> QED  BY <1>1, Inductive, PTL

\* When a durable event goes into its lane, the map holds no progress of its
\* item or turn that is older than its publisher's flush (flush_for_durable).
THEOREM ScopeLeavesTheMapFirst == Spec => []MapFlushedFirst
  <1>1. IInv => MapFlushedFirst
    BY DEF IInv, ScopeFlushed, NewerOnly, MapFlushedFirst
  <1> QED  BY <1>1, Inductive, PTL
-----------------------------------------------------------------------------
(* The snapshot lane. *)

\* From the moment it found the map empty, a receiver that has something to
\* take has a wake-up on its way, even before it awaits.
WakeUpKept ==
    (receiver \in {"empty", "open", "awaiting"} /\ \E k \in SnapshotKeys : snapshots[k] # 0)
        => permit \/ \E o \in Producers : producer[o] = "inserted"

LaneInv == SnapshotTypeOK /\ LatestKept /\ WakeUpKept

\* The lane starts open and empty.
LEMMA InitLane == ASSUME SnapshotInit PROVE LaneInv
<1>1. SnapshotTypeOK
  <2>1. (CHOOSE k \in SnapshotKeys : TRUE) \in SnapshotKeys
    BY SnapshotAssumption
  <2>2. {closed, permit, woken, closing} \subseteq BOOLEAN
    BY DEF SnapshotInit
  <2>3. version \in 0..MaxSnapshotOffers /\ snapshots \in [SnapshotKeys -> 0..version]
        /\ latest \in [SnapshotKeys -> 0..version] /\ delivered \in [SnapshotKeys -> 0..version]
    BY SnapshotAssumption DEF SnapshotInit
  <2>4. offered \in [Producers -> SnapshotKeys] /\ producer \in [Producers -> {"idle", "checked", "inserted"}]
    BY <2>1 DEF SnapshotInit
  <2> QED
    BY <2>2, <2>3, <2>4 DEF SnapshotInit, SnapshotTypeOK
<1> QED
  BY <1>1 DEF SnapshotInit, LaneInv, LatestKept, WakeUpKept

\* Every step of an offer, of the receiver, of notify_turn and of close.
LEMMA StepLane == ASSUME LaneInv, [SnapshotNext]_snapshot_vars PROVE LaneInv'
<1> USE DEF LaneInv
<1>1. ASSUME NEW o \in Producers, NEW k \in SnapshotKeys, OfferCheck(o, k) PROVE LaneInv'
  BY <1>1 DEF OfferCheck, history, SnapshotTypeOK, LatestKept, WakeUpKept
<1>2. ASSUME NEW o \in Producers, OfferInsert(o) PROVE LaneInv'
  <2> DEFINE k == offered[o]
  <2>1. /\ k \in SnapshotKeys /\ version \in Nat /\ version + 1 \in 1..MaxSnapshotOffers
        /\ version' = version + 1
        /\ snapshots' = [snapshots EXCEPT ![k] = version + 1]
        /\ latest' = [latest EXCEPT ![k] = version + 1]
        /\ delivered' = delivered
        /\ producer' = [producer EXCEPT ![o] = "inserted"]
        /\ UNCHANGED <<closed, permit, woken, offered, receiver, closing>>
    BY <1>2, SnapshotAssumption DEF OfferInsert, Replaced, SnapshotTypeOK
  <2> HIDE DEF k
  <2>2. /\ snapshots' \in [SnapshotKeys -> 0..version'] /\ latest' \in [SnapshotKeys -> 0..version']
        /\ delivered' \in [SnapshotKeys -> 0..version'] /\ version' \in 0..MaxSnapshotOffers
    BY <2>1 DEF SnapshotTypeOK
  <2>3. SnapshotTypeOK'
    BY <2>1, <2>2 DEF SnapshotTypeOK
  <2>4. LatestKept'
    BY <2>1 DEF SnapshotTypeOK, LatestKept
  <2>5. producer'[o] = "inserted"
    BY <2>1 DEF SnapshotTypeOK
  <2> QED
    BY <2>3, <2>4, <2>5 DEF WakeUpKept
<1>3. ASSUME NEW o \in Producers, OfferNotify(o) PROVE LaneInv'
  BY <1>3 DEF OfferNotify, NotifyOne, history, SnapshotTypeOK, LatestKept, WakeUpKept
<1>4. ASSUME NEW t, NotifyTurn(t) PROVE LaneInv'
  BY <1>4 DEF NotifyTurn, NotifyOne, history, SnapshotTypeOK, LatestKept, WakeUpKept
<1>5. CASE Close
  BY <1>5 DEF Close, history, SnapshotTypeOK, LatestKept, WakeUpKept
<1>6. CASE NotifyWaiters
  <2>1. {closed', permit', woken', closing'} \subseteq BOOLEAN
    <3>1. closed' \in BOOLEAN /\ permit' \in BOOLEAN /\ closing' \in BOOLEAN
      BY <1>6 DEF NotifyWaiters, SnapshotTypeOK
    <3>2. woken' = (receiver \in {"created", "empty", "open", "awaiting"})
      BY <1>6 DEF NotifyWaiters
    <3>3. woken' \in BOOLEAN
      <4>1. CASE receiver \in {"created", "empty", "open", "awaiting"}
        BY <3>2, <4>1
      <4>2. CASE receiver \notin {"created", "empty", "open", "awaiting"}
        BY <3>2, <4>2
      <4> QED
        BY <4>1, <4>2
    <3> QED
      BY <3>1, <3>3
  <2>2. UNCHANGED <<snapshots, permit, producer, offered, receiver, version, latest, delivered>>
    BY <1>6 DEF NotifyWaiters, history
  <2> QED
    BY <2>1, <2>2 DEF SnapshotTypeOK, LatestKept, WakeUpKept
<1>7. CASE RecvCreate
  BY <1>7 DEF RecvCreate, history, SnapshotTypeOK, LatestKept, WakeUpKept
<1>8. ASSUME NEW k \in SnapshotKeys, RecvTake(k) PROVE LaneInv'
  BY <1>8 DEF RecvTake, history, SnapshotTypeOK, LatestKept, WakeUpKept
<1>9. CASE RecvEmpty
  BY <1>9 DEF RecvEmpty, history, SnapshotTypeOK, LatestKept, WakeUpKept
<1>10. CASE RecvClosed
  BY <1>10 DEF RecvClosed, history, SnapshotTypeOK, LatestKept, WakeUpKept
<1>11. CASE RecvAwait
  BY <1>11 DEF RecvAwait, history, SnapshotTypeOK, LatestKept, WakeUpKept
<1>12. CASE RecvWoken
  BY <1>12 DEF RecvWoken, history, SnapshotTypeOK, LatestKept, WakeUpKept
<1>13. CASE RecvCancel
  BY <1>13 DEF RecvCancel, history, SnapshotTypeOK, LatestKept, WakeUpKept
<1>14. CASE UNCHANGED snapshot_vars
  BY <1>14 DEF snapshot_vars, SnapshotTypeOK, LatestKept, WakeUpKept
<1> QED
  BY <1>1, <1>2, <1>3, <1>4, <1>5, <1>6, <1>7, <1>8, <1>9, <1>10, <1>11, <1>12, <1>13, <1>14
  DEF SnapshotNext

\* The inductive invariant of the snapshot lane holds in every reachable state.
THEOREM LaneInvariant == SnapshotSpec => []LaneInv
<1>1. SnapshotInit => LaneInv
  BY InitLane
<1>2. LaneInv /\ [SnapshotNext]_snapshot_vars => LaneInv'
  BY StepLane
<1> QED
  BY <1>1, <1>2, PTL DEF SnapshotSpec

\* "Replacing an older value for the same item is lossless": the newest value of
\* an item waits in the map or is what the receiver got last, for every number
\* of items and of producers that race each other, the receiver and close.
THEOREM NewestKept == SnapshotSpec => []LatestKept
<1>1. LaneInv => LatestKept
  BY DEF LaneInv
<1>2. SnapshotSpec => []LaneInv
  BY LaneInvariant
<1> QED
  BY <1>1, <1>2, PTL

\* offer notifies after it unlocked and recv looks before it awaits, yet a
\* receiver never waits on a value that nobody will wake it for.
THEOREM NoLostWakeUp == SnapshotSpec => []WakeUpOnItsWay
<1>1. LaneInv => WakeUpOnItsWay
  BY DEF LaneInv, WakeUpKept, WakeUpOnItsWay
<1>2. SnapshotSpec => []LaneInv
  BY LaneInvariant
<1> QED
  BY <1>1, <1>2, PTL
=============================================================================
