------------------------ MODULE OrderedIngress_proofs ------------------------
(***************************************************************************)
(* The ordering guarantees of OrderedIngress for any producers, keys,      *)
(* limits and number of offers, and the proof that it implements           *)
(* EventStream.                                                            *)
(***************************************************************************)
EXTENDS OrderedIngress, SequenceTheorems, FiniteSetTheorems, TLAPS

\* Segment seg holds offer s under class c.
Has(seg, c, s) ==
    \/ seg.kind = "durable" /\ c = Durable /\ s = seg.event
    \/ seg.kind = "coalesced" /\ c \in Keys /\ s \in seg.by_key[c]

Positions == 1..Len(pending)

\* What a step does to the queue: an offer of class c joins its last segment ...
Accepts(c) ==
    /\ Len(pending') >= Len(pending) /\ Len(pending') > 0
    /\ \A i \in 1..Len(pending'), d \in Class, s \in Nat :
           Has(pending'[i], d, s) <=>
               \/ i <= Len(pending) /\ Has(pending[i], d, s)
               \/ i = Len(pending') /\ d = c /\ s = Stamp

\* ... what the first segment holds under class c leaves, and the segment with
\* it (shift = 1) if it holds nothing else.
Emits(c, shift) ==
    /\ \E s \in Nat : Has(pending[1], c, s)
    /\ Len(pending') = Len(pending) - shift
    /\ \A i \in 1..Len(pending'), d \in Class, s \in Nat :
           Has(pending'[i], d, s) <=>
               Has(pending[i + shift], d, s) /\ (i + shift = 1 => d # c)
    /\ shift = 1 => \A d \in Class, s \in Nat : Has(pending[1], d, s) => d = c

\* Every queued offer is an accepted one, queued under its own class.
HeldIsLogged ==
    \A i \in Positions, c \in Class, s \in Nat :
        Has(pending[i], c, s) => s \in 1..Len(log) /\ log[s] = c

\* Offers of an earlier segment are older than those of a later one.
SegmentsOrdered ==
    \A i, j \in Positions, c, d \in Class, a, b \in Nat :
        i < j /\ Has(pending[i], c, a) /\ Has(pending[j], d, b) => a < b

\* Every accepted offer was emitted or is queued.
AllAccounted ==
    \A s \in 1..Len(log) :
        \/ \E e \in 1..Len(emitted) : s \in emitted[e]
        \/ \E i \in Positions, c \in Class : Has(pending[i], c, s)

\* What was emitted is older than what is queued, where the order matters.
EmittedFirst ==
    \A e \in 1..Len(emitted), i \in Positions, c \in Class, a, b \in Nat :
        a \in emitted[e] /\ Has(pending[i], c, b)
            /\ (log[a] = Durable \/ c = Durable \/ log[a] = c)
          => a < b

EmittedIsLogged == \A e \in 1..Len(emitted) : emitted[e] \subseteq 1..Len(log)

\* A coalesced segment's order lists the keys of its map, once each.
SegmentWF(seg) ==
    seg.kind = "coalesced" =>
        /\ \A k \in Keys : seg.by_key[k] # {} <=> \E n \in 1..Len(seg.order) : seg.order[n] = k
        /\ \A m, n \in 1..Len(seg.order) : seg.order[m] = seg.order[n] => m = n
        /\ Len(seg.order) > 0

SegmentsWF == \A i \in Positions : SegmentWF(pending[i])

WorkerHasFront == worker \in {"reserve", "pop", "unready", "sleep"} => pending # << >>

OrderInv ==
    /\ HeldIsLogged
    /\ SegmentsOrdered
    /\ AllAccounted
    /\ EmittedFirst
    /\ EmittedIsLogged
    /\ NoCrossing

\* The inductive invariant.
IndInv == TypeOK /\ OrderInv /\ SegmentsWF /\ WorkerHasFront
-----------------------------------------------------------------------------
(***************************************************************************)
(* Facts about single segments.                                            *)
(***************************************************************************)
\* What a segment holds is what it has under some class.
LEMMA HeldHas ==
    ASSUME NEW seg \in Segment, NEW s \in Nat
    PROVE  s \in Held(seg) <=> \E c \in Class : Has(seg, c, s)
BY ConstantsAssumption DEF Held, Has, Class, Segment

\* A fresh durable segment holds just its event.
LEMMA DurableSegmentHas ==
    ASSUME NEW n \in Nat
    PROVE  /\ DurableSegment(n) \in Segment
           /\ SegmentWF(DurableSegment(n))
           /\ \A c \in Class, s \in Nat :
                  Has(DurableSegment(n), c, s) <=> c = Durable /\ s = n
BY DEF DurableSegment, Segment, SegmentWF, Has

\* A fresh coalesced segment holds just the update it was made for.
LEMMA NewSegmentHas ==
    ASSUME NEW n \in Nat, NEW k \in Keys
    PROVE  /\ NewSegment(k, n) \in Segment
           /\ SegmentWF(NewSegment(k, n))
           /\ \A c \in Class, s \in Nat :
                  Has(NewSegment(k, n), c, s) <=> c = k /\ s = n
<1> DEFINE seg == NewSegment(k, n)
<1>1. /\ seg.kind = "coalesced" /\ seg.order = <<k>>
      /\ seg.by_key = [x \in Keys |-> IF x = k THEN {n} ELSE {}]
  BY DEF NewSegment
<1>2. seg \in Segment
  BY DEF NewSegment, Segment
<1>3. SegmentWF(seg)
  BY <1>1 DEF SegmentWF
<1>4. \A c \in Class, s \in Nat : Has(seg, c, s) <=> c = k /\ s = n
  BY <1>1, ConstantsAssumption DEF Has, Class
<1> QED
  BY <1>2, <1>3, <1>4

\* Replacing the last segment of the queue.
LEMMA ReplaceBackSeq ==
    ASSUME pending \in Seq(Segment), pending # << >>, NEW seg \in Segment
    PROVE  /\ ReplaceBack(seg) \in Seq(Segment)
           /\ Len(ReplaceBack(seg)) = Len(pending)
           /\ ReplaceBack(seg)[Len(pending)] = seg
           /\ \A i \in 1..Len(pending) : i # Len(pending) => ReplaceBack(seg)[i] = pending[i]
<1>1. Len(pending) \in 1..Len(pending)
  BY EmptySeq
<1> QED
  BY <1>1, ExceptSeq DEF ReplaceBack

\* Pushing a segment at the back of a queue.
LEMMA PushSeq ==
    ASSUME NEW q \in Seq(Segment), NEW seg \in Segment
    PROVE  /\ Append(q, seg) \in Seq(Segment)
           /\ Len(Append(q, seg)) = Len(q) + 1
           /\ Append(q, seg)[Len(q) + 1] = seg
           /\ \A i \in 1..Len(q) : Append(q, seg)[i] = q[i]
BY AppendProperties

-----------------------------------------------------------------------------
(***************************************************************************)
(* Accepting an offer: the queue as before, with the new offer in its last *)
(* segment.                                                                *)
(***************************************************************************)
\* An accepted offer that joins the last segment leaves the order intact.
LEMMA AcceptKeepsOrder ==
    ASSUME TypeOK, OrderInv, NEW c \in Class,
           log' = Append(log, c), emitted' = emitted,
           pending' \in Seq(Segment),
           Len(pending') >= Len(pending), Len(pending') > 0,
           \A i \in 1..Len(pending'), d \in Class, s \in Nat :
               Has(pending'[i], d, s) <=>
                   \/ i <= Len(pending) /\ Has(pending[i], d, s)
                   \/ i = Len(pending') /\ d = c /\ s = Stamp
    PROVE  OrderInv'
<1> DEFINE n == Len(log)
<1>1. /\ n \in Nat /\ Len(log') = n + 1 /\ log'[n + 1] = c
      /\ \A s \in 1..n : log'[s] = log[s]
      /\ Len(pending) \in Nat /\ Len(pending') \in Nat /\ Stamp = n + 1
      /\ Len(emitted) \in Nat
      /\ \A e \in 1..Len(emitted) : emitted[e] \subseteq 1..n
  BY DEF TypeOK, OrderInv, EmittedIsLogged, Stamp
<1>2. HeldIsLogged'
  <2> SUFFICES ASSUME NEW i \in 1..Len(pending'), NEW d \in Class, NEW s \in Nat,
                      Has(pending'[i], d, s)
               PROVE  s \in 1..Len(log') /\ log'[s] = d
    BY DEF HeldIsLogged, Positions
  <2>1. CASE i <= Len(pending) /\ Has(pending[i], d, s)
    <3>1. i \in Positions
      BY <2>1, <1>1 DEF Positions
    <3>2. s \in 1..n /\ log[s] = d
      BY <2>1, <3>1 DEF OrderInv, HeldIsLogged
    <3> QED
      BY <3>2, <1>1
  <2>2. CASE i = Len(pending') /\ d = c /\ s = Stamp
    BY <2>2, <1>1
  <2> QED
    BY <2>1, <2>2
<1>3. SegmentsOrdered'
  <2> SUFFICES ASSUME NEW i \in 1..Len(pending'), NEW j \in 1..Len(pending'),
                      NEW d1 \in Class, NEW d2 \in Class, NEW a \in Nat, NEW b \in Nat,
                      i < j, Has(pending'[i], d1, a), Has(pending'[j], d2, b)
               PROVE  a < b
    BY DEF SegmentsOrdered, Positions
  <2>1. i \in Positions /\ Has(pending[i], d1, a) /\ a \in 1..n
    BY <1>1 DEF Positions, OrderInv, HeldIsLogged
  <2>2. CASE j <= Len(pending) /\ Has(pending[j], d2, b)
    <3>1. j \in Positions
      BY <2>2, <1>1 DEF Positions
    <3> QED
      BY <2>1, <2>2, <3>1 DEF OrderInv, SegmentsOrdered
  <2>3. CASE b = Stamp
    BY <2>1, <2>3, <1>1
  <2> QED
    BY <2>2, <2>3
<1>4. AllAccounted'
  <2> SUFFICES ASSUME NEW s \in 1..(n + 1)
               PROVE  \/ \E e \in 1..Len(emitted) : s \in emitted[e]
                      \/ \E i \in 1..Len(pending'), d \in Class : Has(pending'[i], d, s)
    BY <1>1 DEF AllAccounted, Positions
  <2>1. CASE s = n + 1
    BY <2>1, <1>1
  <2>2. CASE s \in 1..n
    <3>1. \/ \E e \in 1..Len(emitted) : s \in emitted[e]
          \/ \E i \in Positions, d \in Class : Has(pending[i], d, s)
      BY <2>2 DEF OrderInv, AllAccounted
    <3> QED
      BY <3>1, <1>1 DEF Positions
  <2> QED
    BY <2>1, <2>2, <1>1
<1>5. EmittedFirst'
  <2> SUFFICES ASSUME NEW e \in 1..Len(emitted), NEW i \in 1..Len(pending'),
                      NEW d \in Class, NEW a \in Nat, NEW b \in Nat,
                      a \in emitted[e], Has(pending'[i], d, b),
                      log'[a] = Durable \/ d = Durable \/ log'[a] = d
               PROVE  a < b
    BY DEF EmittedFirst, Positions
  <2>1. a \in 1..n /\ log'[a] = log[a]
    BY <1>1
  <2>2. CASE i <= Len(pending) /\ Has(pending[i], d, b)
    <3>1. i \in Positions
      BY <2>2, <1>1 DEF Positions
    <3> QED
      BY <2>1, <2>2, <3>1 DEF OrderInv, EmittedFirst
  <2>3. CASE b = Stamp
    BY <2>1, <2>3, <1>1
  <2> QED
    BY <2>2, <2>3
<1>6. EmittedIsLogged'
  BY <1>1 DEF EmittedIsLogged
<1>7. NoCrossing'
  <2> SUFFICES ASSUME NEW i \in DOMAIN emitted', NEW j \in DOMAIN emitted', i < j,
                      NEW a \in emitted'[i], NEW b \in emitted'[j],
                      log'[a] = Durable \/ log'[b] = Durable \/ log'[a] = log'[b]
               PROVE  a < b
    BY Zenon DEF NoCrossing, Related
  <2>1. DOMAIN emitted = 1..Len(emitted)
    BY DEF TypeOK
  <2>2. log'[a] = log[a] /\ log'[b] = log[b]
    BY <1>1, <2>1
  <2> QED
    BY <2>2 DEF OrderInv, NoCrossing, Related
<1> QED
  BY <1>2, <1>3, <1>4, <1>5, <1>6, <1>7 DEF OrderInv

(***************************************************************************)
(* Sending an event: what the first segment held under class c leaves the  *)
(* queue.                                                                  *)
(***************************************************************************)
\* EmittedFirst, for one emission and one queued offer.
LEMMA EmittedFirstInstance ==
    ASSUME EmittedFirst, NEW e \in 1..Len(emitted), NEW i \in Positions,
           NEW c \in Class, NEW a \in Nat, NEW b \in Nat,
           a \in emitted[e], Has(pending[i], c, b),
           log[a] = Durable \/ c = Durable \/ log[a] = c
    PROVE  a < b
BY Zenon DEF EmittedFirst

\* SegmentsOrdered, for two queued offers.
LEMMA SegmentsOrderedInstance ==
    ASSUME SegmentsOrdered, NEW i \in Positions, NEW j \in Positions,
           NEW c \in Class, NEW d \in Class, NEW a \in Nat, NEW b \in Nat,
           i < j, Has(pending[i], c, a), Has(pending[j], d, b)
    PROVE  a < b
BY Zenon DEF SegmentsOrdered

\* Emitting what the first segment holds under one class leaves the order
\* intact, whether the segment stays or goes.
LEMMA EmitKeepsOrder ==
    ASSUME TypeOK, OrderInv, pending # << >>, NEW c \in Class, NEW S,
           log' = log, emitted' = Append(emitted, S),
           pending' \in Seq(Segment),
           \A s \in Nat : Has(pending[1], c, s) <=> s \in S,
           S \subseteq Nat,
           NEW shift \in {0, 1}, Len(pending') = Len(pending) - shift,
           \A i \in 1..Len(pending'), d \in Class, s \in Nat :
               Has(pending'[i], d, s) <=>
                   Has(pending[i + shift], d, s) /\ (i + shift = 1 => d # c),
           c = Durable \/ shift = 1 => \A d \in Class, s \in Nat :
               Has(pending[1], d, s) => d = c
    PROVE  OrderInv'
<1> DEFINE m == Len(emitted)
<1>1. /\ m \in Nat /\ Len(emitted') = m + 1 /\ emitted'[m + 1] = S
      /\ \A e \in 1..m : emitted'[e] = emitted[e]
      /\ Len(pending) \in Nat /\ Len(pending') \in Nat /\ 1 \in Positions
      /\ Len(log) \in Nat
  BY DEF TypeOK, Positions
<1>2. \A i \in 1..Len(pending') : i + shift \in Positions
  BY <1>1 DEF Positions
<1>3. S \subseteq 1..Len(log) /\ \A s \in S : log[s] = c
  BY <1>1 DEF OrderInv, HeldIsLogged
\* What is emitted is older than what stays, where the order matters.
<1>4. ASSUME NEW a \in S, NEW i \in 1..Len(pending'), NEW d \in Class, NEW b \in Nat,
             Has(pending'[i], d, b), c = Durable \/ d = Durable \/ c = d
      PROVE  a < b
  <2>1. a \in Nat /\ Has(pending[1], c, a) /\ Has(pending[i + shift], d, b)
    BY <1>4
  <2>2. CASE i + shift = 1
    <3>1. d # c /\ Has(pending[1], d, b)
      BY <1>4, <2>2
    <3>2. c # Durable
      BY <3>1
    <3>3. d = Durable
      BY <1>4, <3>1, <3>2
    <3>4. pending[1].kind = "durable" /\ pending[1].kind = "coalesced"
      BY <2>1, <3>1, <3>2, <3>3, ConstantsAssumption DEF Has
    <3> QED
      BY <3>4
  <2>3. CASE i + shift > 1
    BY <1>1, <1>2, <2>1, <2>3 DEF OrderInv, SegmentsOrdered
  <2> QED
    BY <1>2, <2>2, <2>3 DEF Positions
<1>5. HeldIsLogged'
  <2> SUFFICES ASSUME NEW i \in 1..Len(pending'), NEW d \in Class, NEW s \in Nat,
                      Has(pending'[i], d, s)
               PROVE  s \in 1..Len(log) /\ log[s] = d
    BY DEF HeldIsLogged, Positions
  <2>1. i + shift \in Positions /\ Has(pending[i + shift], d, s)
    BY <1>2
  <2>2. HeldIsLogged
    BY DEF OrderInv
  <2> QED
    BY <2>1, <2>2, Zenon DEF HeldIsLogged
<1>6. SegmentsOrdered'
  <2> SUFFICES ASSUME NEW i \in 1..Len(pending'), NEW j \in 1..Len(pending'),
                      NEW d1 \in Class, NEW d2 \in Class, NEW a \in Nat, NEW b \in Nat,
                      i < j, Has(pending'[i], d1, a), Has(pending'[j], d2, b)
               PROVE  a < b
    BY DEF SegmentsOrdered, Positions
  <2>1. i + shift \in Positions /\ j + shift \in Positions
    BY <1>2
  <2>2. i + shift < j + shift
    BY <1>1
  <2> QED
    BY <2>1, <2>2 DEF OrderInv, SegmentsOrdered
<1>7. AllAccounted'
  <2> SUFFICES ASSUME NEW s \in 1..Len(log)
               PROVE  \/ \E e \in 1..(m + 1) : s \in emitted'[e]
                      \/ \E i \in 1..Len(pending'), d \in Class : Has(pending'[i], d, s)
    BY <1>1 DEF AllAccounted, Positions
  <2>1. CASE \E e \in 1..m : s \in emitted[e]
    BY <2>1, <1>1
  <2>2. CASE \E i \in Positions, d \in Class : Has(pending[i], d, s)
    <3> PICK i \in Positions, d \in Class : Has(pending[i], d, s)
      BY <2>2
    <3>1. CASE i = 1 /\ d = c
      BY <3>1, <1>1
    <3>2. CASE i = 1 /\ d # c
      <4>1. shift = 0 /\ 1 \in 1..Len(pending')
        BY <3>2, <1>1 DEF Positions
      <4> QED
        BY <3>2, <4>1
    <3>3. CASE i > 1
      <4>1. i - shift \in 1..Len(pending') /\ (i - shift) + shift = i
        BY <3>3, <1>1 DEF Positions
      <4> QED
        BY <3>3, <4>1
    <3> QED
      BY <3>1, <3>2, <3>3 DEF Positions
  <2> QED
    BY <2>1, <2>2 DEF OrderInv, AllAccounted
<1>8. EmittedFirst'
  <2> SUFFICES ASSUME NEW e \in 1..(m + 1), NEW i \in 1..Len(pending'),
                      NEW d \in Class, NEW a \in Nat, NEW b \in Nat,
                      a \in emitted'[e], Has(pending'[i], d, b),
                      log[a] = Durable \/ d = Durable \/ log[a] = d
               PROVE  a < b
    BY <1>1 DEF EmittedFirst, Positions
  <2>1. CASE e \in 1..m
    BY <2>1, <1>1, <1>2 DEF OrderInv, EmittedFirst
  <2>2. CASE e = m + 1
    BY <2>2, <1>1, <1>3, <1>4
  <2> QED
    BY <2>1, <2>2, <1>1
<1>9. EmittedIsLogged'
  <2> SUFFICES ASSUME NEW e \in 1..(m + 1)
               PROVE  emitted'[e] \subseteq 1..Len(log)
    BY <1>1 DEF EmittedIsLogged
  <2>1. CASE e \in 1..m
    BY <2>1, <1>1 DEF OrderInv, EmittedIsLogged
  <2>2. CASE e = m + 1
    BY <2>2, <1>1, <1>3
  <2> QED
    BY <2>1, <2>2, <1>1
<1>10. NoCrossing'
  <2> SUFFICES ASSUME NEW i \in 1..(m + 1), NEW j \in 1..(m + 1), i < j,
                      NEW a \in emitted'[i], NEW b \in emitted'[j],
                      log[a] = Durable \/ log[b] = Durable \/ log[a] = log[b]
               PROVE  a < b
    BY <1>1 DEF TypeOK, NoCrossing, Related
  <2>1. i \in 1..m
    BY <1>1
  <2>2. CASE j \in 1..m
    <3>1. /\ i \in DOMAIN emitted /\ j \in DOMAIN emitted
          /\ a \in emitted[i] /\ b \in emitted[j]
      BY <2>1, <2>2, <1>1 DEF TypeOK
    <3> QED
      BY <3>1 DEF OrderInv, NoCrossing, Related
  <2>3. CASE j = m + 1
    <3>1. b \in Nat /\ b \in S /\ Has(pending[1], c, b) /\ log[b] = c
      BY <2>3, <1>1, <1>3
    <3>2. a \in emitted[i] /\ a \in Nat
      BY <2>1, <1>1 DEF TypeOK
    <3>3. 1 \in Positions /\ (log[a] = Durable \/ c = Durable \/ log[a] = c)
      BY <1>1, <3>1
    <3>4. i \in 1..Len(emitted) /\ EmittedFirst
      BY <2>1 DEF OrderInv
    <3> QED
      BY <3>1, <3>2, <3>3, <3>4, EmittedFirstInstance
  <2>4. j \in 1..m \/ j = m + 1
    <3>1. m \in Nat
      BY <1>1
    <3> HIDE DEF m
    <3> QED
      BY <3>1
  <2> QED
    BY <2>2, <2>3, <2>4, Zenon
<1> QED
  BY <1>5, <1>6, <1>7, <1>8, <1>9, <1>10 DEF OrderInv
-----------------------------------------------------------------------------
(***************************************************************************)
(* The initial state and the actions.                                      *)
(***************************************************************************)
LEMMA InitIndInv == Init => IndInv
<1> SUFFICES ASSUME Init PROVE IndInv
  OBVIOUS
<1>1. TypeOK
  <2>1. << >> \in Seq(Segment) /\ << >> \in Seq(Producers) /\ << >> \in Seq(Class)
        /\ << >> \in Seq(SUBSET Nat)
    BY EmptySeq
  <2>2. AtLeastOne(DurableLimit) \in Nat
    BY ConstantsAssumption DEF AtLeastOne
  <2> QED
    BY <2>1, <2>2 DEF Init, TypeOK
<1>2. OrderInv
  BY DEF Init, OrderInv, HeldIsLogged, SegmentsOrdered, AllAccounted, EmittedFirst,
         EmittedIsLogged, NoCrossing, Positions
<1>3. SegmentsWF /\ WorkerHasFront
  BY DEF Init, SegmentsWF, WorkerHasFront, Positions
<1> QED
  BY <1>1, <1>2, <1>3 DEF IndInv

\* A step that leaves the queue and the history alone.
LEMMA QuietStep ==
    ASSUME IndInv, UNCHANGED <<pending, log, emitted>>
    PROVE  OrderInv' /\ SegmentsWF'
<1>1. OrderInv /\ SegmentsWF
  BY DEF IndInv
<1> QED
  BY <1>1 DEF OrderInv, HeldIsLogged, SegmentsOrdered, AllAccounted, EmittedFirst,
              EmittedIsLogged, NoCrossing, Related, Positions, SegmentsWF

\* A durable offer gets a segment at the back and makes the one before it ready.
LEMMA AcceptDurableInv ==
    ASSUME IndInv, NEW p \in Producers, AcceptDurable(p)
    PROVE  IndInv' /\ Accepts(Durable) /\ Len(pending') = Len(pending) + 1
<1> USE ConstantsAssumption
<1> DEFINE n == Len(pending)
<1>1. TypeOK /\ OrderInv /\ SegmentsWF /\ n \in Nat /\ Stamp \in Nat
  BY DEF IndInv, TypeOK, Stamp
<1>2. /\ pending' \in Seq(Segment) /\ Len(pending') = n + 1
      /\ pending'[n + 1] = DurableSegment(Stamp)
      /\ \A i \in 1..n : \/ pending'[i] = pending[i]
                         \/ pending[i].kind = "coalesced"
                            /\ pending'[i] = [pending[i] EXCEPT !.force_ready = TRUE]
  <2>1. DurableSegment(Stamp) \in Segment
    BY <1>1, DurableSegmentHas
  <2>2. CASE BackIsCoalesced
    <3> DEFINE q == ReplaceBack([Last EXCEPT !.force_ready = TRUE])
    <3>1. n \in 1..n /\ pending[n] \in Segment /\ pending[n].kind = "coalesced"
      BY <2>2, <1>1 DEF TypeOK, BackIsCoalesced, Last
    <3>2. [pending[n] EXCEPT !.force_ready = TRUE] \in Segment
      BY <3>1 DEF Segment
    <3>3. /\ q \in Seq(Segment) /\ Len(q) = n
          /\ q[n] = [pending[n] EXCEPT !.force_ready = TRUE]
          /\ \A i \in 1..n : i # n => q[i] = pending[i]
      <4>1. pending \in Seq(Segment) /\ pending # << >>
        BY <2>2 DEF IndInv, TypeOK, BackIsCoalesced
      <4> QED
        BY <4>1, <3>2, ReplaceBackSeq DEF Last
    <3>4. pending' = Append(q, DurableSegment(Stamp))
      BY <2>2 DEF AcceptDurable, PushDurable
    <3> HIDE DEF q
    <3>5. /\ pending' \in Seq(Segment) /\ Len(pending') = n + 1
          /\ pending'[n + 1] = DurableSegment(Stamp)
          /\ \A i \in 1..n : pending'[i] = q[i]
      BY <3>3, <3>4, <2>1, PushSeq
    <3> QED
      BY <3>1, <3>3, <3>5
  <2>3. CASE ~BackIsCoalesced
    <3>1. pending' = Append(pending, DurableSegment(Stamp))
      BY <2>3 DEF AcceptDurable, PushDurable
    <3> QED
      BY <3>1, <2>1, <1>1 DEF TypeOK
  <2> QED
    BY <2>2, <2>3
<1>3. \A i \in 1..n : /\ SegmentWF(pending'[i])
                      /\ \A c, s : Has(pending'[i], c, s) <=> Has(pending[i], c, s)
  <2> SUFFICES ASSUME NEW i \in 1..n
               PROVE  /\ SegmentWF(pending'[i])
                      /\ \A c, s : Has(pending'[i], c, s) <=> Has(pending[i], c, s)
    OBVIOUS
  <2>1. SegmentWF(pending[i]) /\ pending[i] \in Segment
    BY <1>1 DEF SegmentsWF, Positions, TypeOK
  <2>2. CASE pending'[i] = pending[i]
    BY <2>1, <2>2
  <2>3. CASE pending[i].kind = "coalesced"
             /\ pending'[i] = [pending[i] EXCEPT !.force_ready = TRUE]
    <3>1. /\ pending'[i].kind = pending[i].kind /\ pending'[i].order = pending[i].order
          /\ pending'[i].by_key = pending[i].by_key
      BY <2>1, <2>3 DEF Segment
    <3> QED
      BY <2>1, <2>3, <3>1 DEF SegmentWF, Has
  <2> QED
    BY <2>2, <2>3, <1>2
<1>4. TypeOK'
  BY <1>1, <1>2 DEF TypeOK, AcceptDurable, Class, semVars, outVars
<1>5. OrderInv' /\ Accepts(Durable)
  <2>1. \A i \in 1..Len(pending'), d \in Class, s \in Nat :
            Has(pending'[i], d, s) <=>
                \/ i <= Len(pending) /\ Has(pending[i], d, s)
                \/ i = Len(pending') /\ d = Durable /\ s = Stamp
    <3> SUFFICES ASSUME NEW i \in 1..Len(pending'), NEW d \in Class, NEW s \in Nat
                 PROVE  Has(pending'[i], d, s) <=>
                            \/ i <= Len(pending) /\ Has(pending[i], d, s)
                            \/ i = Len(pending') /\ d = Durable /\ s = Stamp
      OBVIOUS
    <3>1. CASE i \in 1..n
      BY <3>1, <1>1, <1>2, <1>3
    <3>2. CASE i = n + 1
      BY <3>2, <1>1, <1>2, DurableSegmentHas
    <3> QED
      BY <3>1, <3>2, <1>1, <1>2
  <2>2. log' = Append(log, Durable) /\ emitted' = emitted /\ Durable \in Class
    BY DEF AcceptDurable, Class
  <2>3. OrderInv'
    BY <2>1, <2>2, <1>1, <1>2, AcceptKeepsOrder
  <2>4. Accepts(Durable)
    BY <2>1, <1>1, <1>2 DEF Accepts
  <2> QED
    BY <2>3, <2>4
<1>6. SegmentsWF'
  <2> SUFFICES ASSUME NEW i \in 1..(n + 1) PROVE SegmentWF(pending'[i])
    BY <1>2 DEF SegmentsWF, Positions
  <2>1. CASE i \in 1..n
    BY <2>1, <1>3
  <2>2. CASE i = n + 1
    BY <2>2, <1>1, <1>2, DurableSegmentHas
  <2> QED
    BY <2>1, <2>2, <1>1
<1>7. WorkerHasFront'
  BY <1>1, <1>2 DEF WorkerHasFront
<1> QED
  BY <1>2, <1>4, <1>5, <1>6, <1>7 DEF IndInv

\* Adding an update to a coalesced segment, merged or under a new key.
LEMMA AddUpdate ==
    ASSUME NEW seg \in Segment, seg.kind = "coalesced", SegmentWF(seg),
           NEW k \in Keys, NEW n \in Nat, NEW new \in Segment,
           \/ seg.by_key[k] # {} /\ new = Merged(seg, k, n)
           \/ seg.by_key[k] = {} /\ new = WithKey(seg, k, n)
    PROVE  /\ SegmentWF(new)
           /\ \A c \in Class, s \in Nat :
                  Has(new, c, s) <=> Has(seg, c, s) \/ (c = k /\ s = n)
<1>1. /\ seg.order \in Seq(Keys) /\ seg.by_key \in [Keys -> SUBSET Nat]
      /\ Len(seg.order) \in Nat
  BY ConstantsAssumption DEF Segment
<1>2. /\ new.kind = "coalesced"
      /\ new.by_key \in [Keys -> SUBSET Nat]
      /\ new.by_key[k] = seg.by_key[k] \cup {n}
      /\ \A x \in Keys : x # k => new.by_key[x] = seg.by_key[x]
  <2>1. CASE seg.by_key[k] # {} /\ new = Merged(seg, k, n)
    <3>1. new.kind = seg.kind /\ new.by_key = [seg.by_key EXCEPT ![k] = @ \cup {n}]
      BY <2>1 DEF Merged, Segment
    <3> QED
      BY <3>1, <1>1
  <2>2. CASE seg.by_key[k] = {} /\ new = WithKey(seg, k, n)
    <3>1. new.kind = seg.kind /\ new.by_key = [seg.by_key EXCEPT ![k] = {n}]
      BY <2>2 DEF WithKey, Segment
    <3> QED
      BY <2>2, <3>1, <1>1
  <2> QED
    BY <2>1, <2>2
<1>3. \A c \in Class, s \in Nat : Has(new, c, s) <=> Has(seg, c, s) \/ (c = k /\ s = n)
  BY <1>1, <1>2, ConstantsAssumption DEF Has, Class
<1>4. SegmentWF(new)
  <2>1. CASE seg.by_key[k] # {} /\ new = Merged(seg, k, n)
    <3>1. new.order = seg.order
      BY <2>1 DEF Segment, Merged
    <3> QED
      BY <2>1, <3>1, <1>1, <1>2 DEF SegmentWF
  <2>2. CASE seg.by_key[k] = {} /\ new = WithKey(seg, k, n)
    <3> DEFINE l == Len(seg.order)
    <3>1. new.order = Append(seg.order, k)
      BY <2>2 DEF Segment, WithKey
    <3>2. /\ Len(new.order) = l + 1 /\ new.order[l + 1] = k
          /\ \A i \in 1..l : new.order[i] = seg.order[i]
      BY <3>1, <1>1, AppendProperties
    <3>3. \A i \in 1..l : seg.order[i] # k
      BY <2>2 DEF SegmentWF
    <3>4. \A x \in Keys : seg.by_key[x] # {} <=> \E i \in 1..l : seg.order[i] = x
      BY DEF SegmentWF
    <3>5. \A i, j \in 1..l : seg.order[i] = seg.order[j] => i = j
      BY DEF SegmentWF
    <3> HIDE DEF l
    <3>6. l \in Nat
      BY <1>1 DEF l
    <3>7. ASSUME NEW i \in 1..(l + 1), NEW j \in 1..(l + 1), new.order[i] = new.order[j]
          PROVE  i = j
      <4>1. (i \in 1..l \/ i = l + 1) /\ (j \in 1..l \/ j = l + 1)
        BY <3>6
      <4>2. CASE i \in 1..l /\ j \in 1..l
        BY <3>7, <4>2, <3>2, <3>5
      <4>3. CASE i = l + 1 \/ j = l + 1
        BY <3>7, <4>1, <4>3, <3>2, <3>3
      <4> QED
        BY <4>1, <4>2, <4>3
    <3>8. ASSUME NEW x \in Keys
          PROVE  new.by_key[x] # {} <=> \E i \in 1..(l + 1) : new.order[i] = x
      <4>1. CASE x = k
        <5>1. new.by_key[x] # {}
          BY <4>1, <1>2
        <5>2. l + 1 \in 1..(l + 1) /\ new.order[l + 1] = x
          BY <4>1, <3>2, <3>6
        <5> QED
          BY <5>1, <5>2
      <4>2. CASE x # k
        <5>1. new.by_key[x] = seg.by_key[x]
          BY <4>2, <1>1, <1>2
        <5>2. (\E i \in 1..(l + 1) : new.order[i] = x) <=> \E i \in 1..l : seg.order[i] = x
          BY <4>2, <3>2, <3>6
        <5> QED
          BY <5>1, <5>2, <3>4
      <4> QED
        BY <4>1, <4>2
    <3> QED
      <4>1. Len(new.order) = l + 1 /\ l + 1 > 0
        BY <3>2, <3>6
      <4> QED
        BY <4>1, <3>7, <3>8, Zenon DEF SegmentWF
  <2> QED
    BY <2>1, <2>2
<1> QED
  BY <1>3, <1>4

\* An update merges into the back segment, joins it, or starts one.
LEMMA AcceptCoalescedInv ==
    ASSUME IndInv, NEW p \in Producers, NEW k \in Keys, AcceptCoalesced(p, k)
    PROVE  /\ IndInv' /\ Accepts(k)
           /\ Len(pending') = IF BackIsCoalesced THEN Len(pending) ELSE Len(pending) + 1
<1> DEFINE n == Len(pending)
<1>1. TypeOK /\ OrderInv /\ SegmentsWF /\ n \in Nat /\ Stamp \in Nat /\ pending \in Seq(Segment)
  BY DEF IndInv, TypeOK, Stamp
<1>2. /\ pending' \in Seq(Segment) /\ Len(pending') >= n /\ Len(pending') > 0
      /\ SegmentsWF' /\ Len(pending') = IF BackIsCoalesced THEN n ELSE n + 1
      /\ \A i \in 1..Len(pending'), d \in Class, s \in Nat :
             Has(pending'[i], d, s) <=>
                 \/ i <= Len(pending) /\ Has(pending[i], d, s)
                 \/ i = Len(pending') /\ d = k /\ s = Stamp
  <2>1. CASE BackIsCoalesced
    <3>1. /\ n \in 1..n /\ Last = pending[n] /\ Last \in Segment
          /\ Last.kind = "coalesced" /\ SegmentWF(Last) /\ pending # << >>
      BY <2>1, <1>1 DEF BackIsCoalesced, Last, SegmentsWF, Positions
    <3>2. Last.order \in Seq(Keys) /\ Last.by_key \in [Keys -> SUBSET Nat]
      BY <3>1 DEF Segment
    <3> DEFINE merged == Merged(Last, k, Stamp)
               added  == WithKey(Last, k, Stamp)
    <3>3. PICK new \in Segment :
              /\ pending' = ReplaceBack(new)
              /\ \/ Last.by_key[k] # {} /\ new = merged
                 \/ Last.by_key[k] = {} /\ new = added
      <4>1. merged \in Segment
        BY <3>1, <3>2, <1>1 DEF Segment, Merged
      <4>2. Append(Last.order, k) \in Seq(Keys)
        BY <3>2, AppendProperties
      <4>3. added \in Segment
        BY <3>1, <3>2, <4>2, <1>1 DEF Segment, WithKey
      <4>4. \/ Last.by_key[k] # {} /\ pending' = ReplaceBack(merged)
            \/ Last.by_key[k] = {} /\ pending' = ReplaceBack(added)
        BY <2>1 DEF AcceptCoalesced, BackHas
      <4> HIDE DEF merged, added
      <4> QED
        BY <4>1, <4>3, <4>4
    <3>4. /\ SegmentWF(new)
          /\ \A c \in Class, s \in Nat :
                 Has(new, c, s) <=> Has(Last, c, s) \/ (c = k /\ s = Stamp)
      BY <3>1, <3>3, <1>1, AddUpdate
    <3>5. /\ pending' \in Seq(Segment) /\ Len(pending') = n /\ pending'[n] = new
          /\ \A i \in 1..n : i # n => pending'[i] = pending[i]
      BY <3>1, <3>3, <1>1, ReplaceBackSeq
    <3>6. SegmentsWF'
      BY <3>4, <3>5, <1>1 DEF SegmentsWF, Positions
    <3>7. ASSUME NEW i \in 1..n, NEW d \in Class, NEW s \in Nat
          PROVE  Has(pending'[i], d, s) <=>
                     \/ i <= n /\ Has(pending[i], d, s)
                     \/ i = n /\ d = k /\ s = Stamp
      <4>1. CASE i = n
        BY <4>1, <3>1, <3>4, <3>5
      <4>2. CASE i # n
        BY <4>2, <3>5, <1>1
      <4> QED
        BY <4>1, <4>2
    <3> QED
      BY <2>1, <3>1, <3>5, <3>6, <3>7, <1>1
  <2>2. CASE ~BackIsCoalesced
    <3> DEFINE seg == NewSegment(k, Stamp)
    <3>1. pending' = Append(pending, seg)
      BY <2>2 DEF AcceptCoalesced, BackHas
    <3>2. seg \in Segment /\ SegmentWF(seg)
          /\ \A c \in Class, s \in Nat : Has(seg, c, s) <=> c = k /\ s = Stamp
      BY <1>1, NewSegmentHas
    <3> HIDE DEF seg
    <3>3. /\ pending' \in Seq(Segment) /\ Len(pending') = n + 1 /\ pending'[n + 1] = seg
          /\ \A i \in 1..n : pending'[i] = pending[i]
      BY <3>1, <3>2, <1>1, PushSeq
    <3>4. SegmentsWF'
      BY <3>2, <3>3, <1>1 DEF SegmentsWF, Positions
    <3>5. ASSUME NEW i \in 1..(n + 1), NEW d \in Class, NEW s \in Nat
          PROVE  Has(pending'[i], d, s) <=>
                     \/ i <= n /\ Has(pending[i], d, s)
                     \/ i = n + 1 /\ d = k /\ s = Stamp
      <4>1. CASE i = n + 1
        BY <4>1, <3>2, <3>3, <1>1
      <4>2. CASE i \in 1..n
        BY <4>2, <3>3, <1>1
      <4> QED
        BY <4>1, <4>2, <1>1
    <3> QED
      BY <2>2, <3>3, <3>4, <3>5, <1>1
  <2> QED
    BY <2>1, <2>2
<1>3. k \in Class /\ log' = Append(log, k) /\ emitted' = emitted
  BY DEF AcceptCoalesced, Class
<1>4. OrderInv'
  BY <1>1, <1>2, <1>3, AcceptKeepsOrder
<1>5. TypeOK'
  <2>1. log' \in Seq(Class)
    BY <1>1, <1>3, AppendProperties DEF TypeOK
  <2>2. pending_coalesced_keys' \in Nat
    BY <1>1 DEF TypeOK, AcceptCoalesced
  <2>3. offer' \in [Producers -> {"idle", "waiting", "permit", "notify"}]
    BY <1>1 DEF TypeOK, AcceptCoalesced
  <2> QED
    BY <2>1, <2>2, <2>3, <1>1, <1>2 DEF TypeOK, AcceptCoalesced, semVars, outVars
<1>6. WorkerHasFront'
  BY <1>1, <1>2, EmptySeq DEF WorkerHasFront
<1>7. Accepts(k)
  BY <1>2 DEF Accepts
<1> QED
  BY <1>2, <1>4, <1>5, <1>6, <1>7 DEF IndInv

\* The front of the queue and the queue without it.
LEMMA FrontAndRest ==
    ASSUME pending \in Seq(Segment), pending # << >>
    PROVE  /\ Len(pending) \in Nat /\ Len(pending) > 0
           /\ Head(pending) = pending[1] /\ pending[1] \in Segment
           /\ Tail(pending) \in Seq(Segment) /\ Len(Tail(pending)) = Len(pending) - 1
           /\ \A i \in 1..(Len(pending) - 1) : Tail(pending)[i] = pending[i + 1]
<1>1. Len(pending) \in Nat /\ Len(pending) > 0
  BY EmptySeq
<1>2. Head(pending) = pending[1] /\ pending[1] \in Segment
  BY <1>1
<1> QED
  BY <1>1, <1>2, HeadTailProperties

\* The worker sends the durable event at the front.
LEMMA PopDurableInv ==
    ASSUME IndInv, PopDurable
    PROVE  IndInv' /\ Emits(Durable, 1)
<1>1. /\ TypeOK /\ OrderInv /\ SegmentsWF /\ pending \in Seq(Segment) /\ pending # << >>
      /\ Len(pending) \in Nat
  BY DEF IndInv, TypeOK, WorkerHasFront, PopDurable
<1>2. /\ pending[1] \in Segment /\ pending[1].kind = "durable"
      /\ emitted' = Append(emitted, {pending[1].event}) /\ pending[1].event \in Nat
      /\ pending' \in Seq(Segment) /\ Len(pending') = Len(pending) - 1
      /\ \A i \in 1..Len(pending') : pending'[i] = pending[i + 1]
  <2>1. pending[1].kind = "durable" /\ pending' = Tail(pending)
        /\ emitted' = Append(emitted, {pending[1].event})
    BY <1>1, FrontAndRest DEF PopDurable
  <2>2. pending[1].event \in Nat
    BY <2>1, <1>1, FrontAndRest DEF Segment
  <2> QED
    BY <2>1, <2>2, <1>1, FrontAndRest
<1>3. OrderInv' /\ Emits(Durable, 1)
  <2> DEFINE S == {pending[1].event}
  <2>1. \A d \in Class, s \in Nat : Has(pending[1], d, s) <=> d = Durable /\ s \in S
    BY <1>2 DEF Has
  <2>2. \A i \in 1..Len(pending'), d \in Class, s \in Nat :
            Has(pending'[i], d, s) <=> Has(pending[i + 1], d, s) /\ (i + 1 = 1 => d # Durable)
    BY <1>1, <1>2
  <2>3. Durable \in Class /\ log' = log /\ S \subseteq Nat
    BY <1>2 DEF Class, PopDurable
  <2>4. emitted' = Append(emitted, S)
    BY <1>2
  <2>5. /\ \A s \in Nat : Has(pending[1], Durable, s) <=> s \in S
        /\ \A d \in Class, s \in Nat : Has(pending[1], d, s) => d = Durable
    BY <2>1, <2>3
  <2>6. 1 \in {0, 1}
    OBVIOUS
  <2> HIDE DEF S
  <2>7. OrderInv'
    BY <2>2, <2>3, <2>4, <2>5, <2>6, <1>1, <1>2, EmitKeepsOrder
  <2>8. Emits(Durable, 1)
    <3>1. pending[1].event \in Nat /\ Has(pending[1], Durable, pending[1].event)
      BY <1>2, <2>5 DEF S
    <3> QED
      BY <1>2, <2>2, <2>5, <3>1 DEF Emits
  <2> QED
    BY <2>7, <2>8
<1>4. SegmentsWF'
  <2> SUFFICES ASSUME NEW i \in 1..Len(pending') PROVE SegmentWF(pending'[i])
    BY DEF SegmentsWF, Positions
  <2>1. i + 1 \in Positions /\ pending'[i] = pending[i + 1]
    BY <1>1, <1>2 DEF Positions
  <2> QED
    BY <2>1, <1>1 DEF SegmentsWF
<1>5. TypeOK'
  <2>1. emitted' \in Seq(SUBSET Nat)
    BY <1>1, <1>2, AppendProperties DEF TypeOK
  <2> QED
    BY <2>1, <1>1, <1>2 DEF TypeOK, PopDurable, ReturnPermit
<1>6. WorkerHasFront'
  BY DEF WorkerHasFront, PopDurable
<1> QED
  BY <1>3, <1>4, <1>5, <1>6 DEF IndInv

\* What pop_front takes from a coalesced segment and what it leaves.
LEMMA PoppedSegment ==
    ASSUME NEW seg \in Segment, seg.kind = "coalesced", SegmentWF(seg)
    PROVE  /\ FirstKey(seg) \in Keys
           /\ seg.by_key[FirstKey(seg)] # {} /\ seg.by_key[FirstKey(seg)] \subseteq Nat
           /\ Popped(seg) \in Segment /\ Popped(seg).kind = "coalesced"
           /\ \A c \in Class, s \in Nat :
                  Has(Popped(seg), c, s) <=> Has(seg, c, s) /\ c # FirstKey(seg)
           /\ ~Exhausted(Popped(seg)) => SegmentWF(Popped(seg))
<1> DEFINE k == FirstKey(seg)
           new == Popped(seg)
           l == Len(seg.order)
<1>1. /\ seg.order \in Seq(Keys) /\ seg.by_key \in [Keys -> SUBSET Nat]
      /\ l \in Nat /\ l > 0 /\ seg.order # << >>
  BY ConstantsAssumption, EmptySeq DEF Segment, SegmentWF
<1>2. k = seg.order[1] /\ k \in Keys
  BY <1>1 DEF FirstKey
<1>3. seg.by_key[k] # {} /\ seg.by_key[k] \subseteq Nat
  BY <1>1, <1>2 DEF SegmentWF
<1>4. /\ Tail(seg.order) \in Seq(Keys) /\ Len(Tail(seg.order)) = l - 1
      /\ \A i \in 1..(l - 1) : Tail(seg.order)[i] = seg.order[i + 1]
  BY <1>1, HeadTailProperties
<1>5. /\ new \in Segment /\ new.kind = "coalesced" /\ new.order = Tail(seg.order)
      /\ new.by_key = [seg.by_key EXCEPT ![k] = {}]
  BY <1>1, <1>4 DEF Segment, Popped
<1>6. new.by_key[k] = {} /\ \A x \in Keys : x # k => new.by_key[x] = seg.by_key[x]
  BY <1>1, <1>2, <1>5
<1> HIDE DEF k, new, l
<1>7. \A c \in Class, s \in Nat : Has(new, c, s) <=> Has(seg, c, s) /\ c # k
  BY <1>1, <1>2, <1>5, <1>6, ConstantsAssumption DEF Has, Class
<1>8. ASSUME ~Exhausted(new) PROVE SegmentWF(new)
  <2>1. /\ \A x \in Keys : seg.by_key[x] # {} <=> \E i \in 1..l : seg.order[i] = x
        /\ \A i, j \in 1..l : seg.order[i] = seg.order[j] => i = j
    BY DEF SegmentWF, l
  <2>2. /\ Len(new.order) = l - 1 /\ l - 1 \in Nat
        /\ \A i \in 1..(l - 1) : new.order[i] = seg.order[i + 1]
    BY <1>1, <1>4, <1>5
  <2>3. ASSUME NEW i \in 1..(l - 1), NEW j \in 1..(l - 1), new.order[i] = new.order[j]
        PROVE  i = j
    <3>1. i + 1 \in 1..l /\ j + 1 \in 1..l /\ seg.order[i + 1] = seg.order[j + 1]
      BY <2>2, <2>3, <1>1
    <3> QED
      BY <3>1, <2>1
  <2>4. ASSUME NEW x \in Keys
        PROVE  new.by_key[x] # {} <=> \E i \in 1..(l - 1) : new.order[i] = x
    <3>1. CASE x = k
      <4>1. ASSUME NEW i \in 1..(l - 1), new.order[i] = k PROVE FALSE
        <5>1. i + 1 \in 1..l /\ 1 \in 1..l /\ seg.order[i + 1] = seg.order[1]
          BY <4>1, <1>1, <1>2, <2>2
        <5>2. i + 1 = 1
          BY <5>1, <2>1
        <5> QED
          BY <5>2
      <4> QED
        BY <4>1, <3>1, <1>6
    <3>2. CASE x # k
      <4>1. ASSUME NEW i \in 1..l, seg.order[i] = x
            PROVE  \E j \in 1..(l - 1) : new.order[j] = x
        <5>1. i # 1
          BY <4>1, <3>2, <1>2
        <5>2. i - 1 \in 1..(l - 1) /\ (i - 1) + 1 = i
          BY <5>1, <1>1
        <5>3. new.order[i - 1] = x
          BY <5>2, <4>1, <2>2
        <5> QED
          BY <5>2, <5>3
      <4>2. ASSUME NEW j \in 1..(l - 1), new.order[j] = x
            PROVE  \E i \in 1..l : seg.order[i] = x
        <5>1. j + 1 \in 1..l /\ seg.order[j + 1] = x
          BY <4>2, <2>2, <1>1
        <5> QED
          BY <5>1
      <4> QED
        BY <4>1, <4>2, <3>2, <1>6, <2>1
    <3> QED
      BY <3>1, <3>2
  <2>5. l - 1 > 0
    <3>1. PICK x \in Keys : new.by_key[x] # {}
      BY <1>8, <1>5 DEF Exhausted, Held
    <3>2. PICK i \in 1..(l - 1) : new.order[i] = x
      BY <3>1, <2>4
    <3> QED
      BY <3>2, <1>1
  <2> QED
    BY <2>2, <2>3, <2>4, <2>5, Zenon DEF SegmentWF
<1> QED
  BY <1>2, <1>3, <1>5, <1>7, <1>8 DEF k, new

\* The worker sends the first key of the front segment.
LEMMA PopCoalescedInv ==
    ASSUME IndInv, PopCoalesced
    PROVE  IndInv' /\ \E key \in Keys, shift \in {0, 1} : Emits(key, shift)
<1> DEFINE front == pending[1]
           k == FirstKey(front)
           S == front.by_key[k]
           rest == Popped(front)
<1>1. /\ TypeOK /\ OrderInv /\ SegmentsWF /\ pending \in Seq(Segment) /\ pending # << >>
      /\ Len(pending) \in Nat
  BY DEF IndInv, TypeOK, WorkerHasFront, PopCoalesced
<1>2. /\ front \in Segment /\ front.kind = "coalesced" /\ SegmentWF(front)
      /\ emitted' = Append(emitted, S) /\ log' = log
      /\ pending' = IF Exhausted(rest) THEN Tail(pending) ELSE [pending EXCEPT ![1] = rest]
  BY <1>1, FrontAndRest DEF PopCoalesced, DropFront, SegmentsWF, Positions
<1>3. /\ k \in Keys /\ k \in Class /\ S \subseteq Nat /\ S # {}
      /\ rest \in Segment /\ rest.kind = "coalesced"
      /\ \A c \in Class, s \in Nat : Has(rest, c, s) <=> Has(front, c, s) /\ c # k
      /\ ~Exhausted(rest) => SegmentWF(rest)
  BY <1>2, PoppedSegment DEF Class
<1>4. /\ \A s \in Nat : Has(front, k, s) <=> s \in S
      /\ k # Durable
  BY <1>2, <1>3, ConstantsAssumption DEF Has
<1>5. Exhausted(rest) => \A d \in Class, s \in Nat : Has(front, d, s) => d = k
  <2> SUFFICES ASSUME Exhausted(rest), NEW d \in Class, NEW s \in Nat, Has(front, d, s), d # k
               PROVE  FALSE
    OBVIOUS
  <2>1. Has(rest, d, s)
    BY <1>3
  <2>2. s \in Held(rest)
    BY <2>1, <1>3, HeldHas
  <2> QED
    BY <2>2 DEF Exhausted
<1> HIDE DEF k, S, rest
<1>6. \E s \in Nat : Has(front, k, s)
  BY <1>3, <1>4
<1>7. /\ OrderInv' /\ SegmentsWF' /\ pending' \in Seq(Segment)
      /\ \E shift \in {0, 1} : Emits(k, shift)
  <2>1. CASE Exhausted(rest)
    <3>1. /\ pending' \in Seq(Segment) /\ Len(pending') = Len(pending) - 1
          /\ \A i \in 1..Len(pending') : pending'[i] = pending[i + 1]
      BY <2>1, <1>1, <1>2, FrontAndRest
    <3>2. \A i \in 1..Len(pending'), d \in Class, s \in Nat :
              Has(pending'[i], d, s) <=> Has(pending[i + 1], d, s) /\ (i + 1 = 1 => d # k)
      BY <1>1, <3>1
    <3>3. 1 \in {0, 1}
      OBVIOUS
    <3>4. OrderInv'
      BY <2>1, <3>1, <3>2, <3>3, <1>1, <1>2, <1>3, <1>4, <1>5, EmitKeepsOrder
    <3>5. SegmentsWF'
      <4> SUFFICES ASSUME NEW i \in 1..Len(pending') PROVE SegmentWF(pending'[i])
        BY DEF SegmentsWF, Positions
      <4>1. i + 1 \in Positions /\ pending'[i] = pending[i + 1]
        BY <1>1, <3>1 DEF Positions
      <4> QED
        BY <4>1, <1>1 DEF SegmentsWF
    <3>6. Emits(k, 1)
      BY <2>1, <3>1, <3>2, <1>5, <1>6 DEF Emits
    <3> QED
      BY <3>1, <3>3, <3>4, <3>5, <3>6
  <2>2. CASE ~Exhausted(rest)
    <3>1. 1 \in 1..Len(pending)
      BY <1>1, FrontAndRest
    <3>2. /\ pending' \in Seq(Segment) /\ Len(pending') = Len(pending)
          /\ \A i \in 1..Len(pending') : pending'[i] = IF i = 1 THEN rest ELSE pending[i]
      BY <2>2, <3>1, <1>1, <1>2, <1>3, ExceptSeq
    <3>3. ASSUME NEW i \in 1..Len(pending'), NEW d \in Class, NEW s \in Nat
          PROVE  Has(pending'[i], d, s) <=> Has(pending[i + 0], d, s) /\ (i + 0 = 1 => d # k)
      <4>1. i + 0 = i
        OBVIOUS
      <4>2. CASE i = 1
        BY <4>1, <4>2, <3>2, <1>3
      <4>3. CASE i # 1
        BY <4>1, <4>3, <3>2
      <4> QED
        BY <4>2, <4>3
    <3>4. 0 \in {0, 1} /\ Len(pending') = Len(pending) - 0 /\ 0 # 1
      BY <3>2, <1>1
    <3>5. OrderInv'
      BY <3>2, <3>3, <3>4, <1>1, <1>2, <1>3, <1>4, EmitKeepsOrder
    <3>6. SegmentsWF'
      BY <2>2, <3>2, <1>1, <1>3 DEF SegmentsWF, Positions
    <3>7. Emits(k, 0)
      BY <3>3, <3>4, <1>6 DEF Emits
    <3> QED
      BY <3>2, <3>4, <3>5, <3>6, <3>7
  <2> QED
    BY <2>1, <2>2
<1>8. TypeOK'
  <2>1. emitted' \in Seq(SUBSET Nat)
    BY <1>1, <1>2, <1>3, AppendProperties DEF TypeOK
  <2>2. pending_coalesced_keys' \in Nat
    BY <1>1 DEF TypeOK, PopCoalesced, CountPopped, SaturatingSub
  <2> QED
    BY <2>1, <2>2, <1>1, <1>7 DEF TypeOK, PopCoalesced, semVars
<1>9. WorkerHasFront'
  BY DEF WorkerHasFront, PopCoalesced
<1> QED
  BY <1>3, <1>7, <1>8, <1>9 DEF IndInv

\* The flush interval of the front segment elapses.
LEMMA ElapseFrontInv ==
    ASSUME IndInv, ElapseFront
    PROVE  /\ IndInv' /\ Positions' = Positions
           /\ \A i \in Positions : \A c, s : Has(pending'[i], c, s) <=> Has(pending[i], c, s)
<1>1. /\ TypeOK /\ OrderInv /\ SegmentsWF /\ pending \in Seq(Segment) /\ pending # << >>
      /\ Len(pending) \in Nat
  BY DEF IndInv, TypeOK, ElapseFront
<1> DEFINE front == pending[1]
           new == [front EXCEPT !.elapsed = TRUE]
<1>2. /\ front \in Segment /\ front.kind = "coalesced" /\ 1 \in 1..Len(pending)
      /\ SegmentWF(front) /\ pending' = [pending EXCEPT ![1] = new]
  BY <1>1, FrontAndRest DEF ElapseFront, SegmentsWF, Positions
<1>3. /\ new \in Segment /\ new.kind = front.kind /\ new.order = front.order
      /\ new.by_key = front.by_key
  BY <1>2 DEF Segment
<1>4. SegmentWF(new) /\ \A c, s : Has(new, c, s) <=> Has(front, c, s)
  BY <1>2, <1>3 DEF SegmentWF, Has
<1> HIDE DEF new
<1>5. /\ pending' \in Seq(Segment) /\ Len(pending') = Len(pending)
      /\ \A i \in 1..Len(pending) : pending'[i] = IF i = 1 THEN new ELSE pending[i]
  BY <1>1, <1>2, <1>3, ExceptSeq
<1>6. \A i \in Positions : /\ SegmentWF(pending'[i])
                           /\ \A c, s : Has(pending'[i], c, s) <=> Has(pending[i], c, s)
  BY <1>1, <1>4, <1>5 DEF Positions, SegmentsWF
<1>7. Positions' = Positions /\ log' = log /\ emitted' = emitted
  BY <1>5 DEF Positions, ElapseFront, history
<1>8. OrderInv'
  <2>1. HeldIsLogged'
    BY <1>1, <1>6, <1>7 DEF OrderInv, HeldIsLogged
  <2>2. SegmentsOrdered'
    <3> SUFFICES ASSUME NEW i \in Positions, NEW j \in Positions, NEW c \in Class,
                        NEW d \in Class, NEW a \in Nat, NEW b \in Nat,
                        i < j, Has(pending'[i], c, a), Has(pending'[j], d, b)
                 PROVE  a < b
      BY <1>7, Zenon DEF SegmentsOrdered
    <3>1. Has(pending[i], c, a) /\ Has(pending[j], d, b)
      BY <1>6
    <3> QED
      BY <3>1, <1>1, Zenon DEF OrderInv, SegmentsOrdered
  <2>3. AllAccounted'
    BY <1>1, <1>6, <1>7 DEF OrderInv, AllAccounted
  <2>4. EmittedFirst'
    <3> SUFFICES ASSUME NEW e \in 1..Len(emitted), NEW i \in Positions,
                        NEW c \in Class, NEW a \in Nat, NEW b \in Nat,
                        a \in emitted[e], Has(pending'[i], c, b),
                        log[a] = Durable \/ c = Durable \/ log[a] = c
                 PROVE  a < b
      BY <1>7, Zenon DEF EmittedFirst
    <3>1. Has(pending[i], c, b) /\ EmittedFirst
      BY <1>1, <1>6 DEF OrderInv
    <3> QED
      BY <3>1, EmittedFirstInstance
  <2>5. EmittedIsLogged' /\ NoCrossing'
    BY <1>1, <1>7 DEF OrderInv, EmittedIsLogged, NoCrossing, Related
  <2> QED
    BY <2>1, <2>2, <2>3, <2>4, <2>5 DEF OrderInv
<1>9. SegmentsWF'
  BY <1>6, <1>7 DEF SegmentsWF
<1>10. TypeOK'
  BY <1>1, <1>5 DEF TypeOK, ElapseFront, semVars, outVars, history
<1>11. WorkerHasFront'
  BY <1>1, <1>5, EmptySeq DEF WorkerHasFront
<1> QED
  BY <1>6, <1>7, <1>8, <1>9, <1>10, <1>11 DEF IndInv

\* The steps of producers, semaphore, close, worker and output that leave the
\* queue and the history alone.
LEMMA OtherStepsInv ==
    ASSUME IndInv,
           \/ \E p \in Producers : AwaitPermit(p) \/ AbandonWait(p) \/ NotifyWorker(p)
           \/ GrantPermit \/ CloseState \/ CloseSemaphore \/ CloseNotify
           \/ WorkerLoop \/ WorkerScan \/ WorkerPoll \/ WorkerNotified \/ WorkerSlept
           \/ WorkerReserve \/ WorkerAborts \/ Receive \/ DropOutput
    PROVE  IndInv'
<1>1. TypeOK /\ WorkerHasFront
  BY DEF IndInv
<1> USE DEF stateVars, semVars, outVars, history
<1>2. UNCHANGED <<pending, log, emitted>>
  BY DEF AwaitPermit, AbandonWait, NotifyWorker, GrantPermit, CloseState, CloseSemaphore,
         CloseNotify, WorkerLoop, WorkerScan, WorkerPoll, WorkerNotified, WorkerSlept,
         WorkerReserve, WorkerAborts, Receive, DropOutput
<1>3. OrderInv' /\ SegmentsWF'
  BY <1>2, QuietStep
<1>4. WorkerHasFront'
  BY <1>1, <1>2 DEF WorkerHasFront, AwaitPermit, AbandonWait, NotifyWorker, GrantPermit,
         CloseState, CloseSemaphore, CloseNotify, WorkerLoop, WorkerScan, WorkerPoll,
         WorkerNotified, WorkerSlept, WorkerReserve, WorkerAborts, Receive, DropOutput
<1>5. TypeOK'
  <2>1. CASE \E p \in Producers : AwaitPermit(p)
    <3> PICK p \in Producers : AwaitPermit(p)
      BY <2>1
    <3>1. waiters' \in Seq(Producers)
      BY <1>1, AppendProperties DEF TypeOK, AwaitPermit
    <3> QED
      BY <3>1, <1>1 DEF TypeOK, AwaitPermit
  <2>2. CASE \E p \in Producers : AbandonWait(p)
    <3> PICK p \in Producers : AbandonWait(p)
      BY <2>2
    <3>1. waiters' \in Seq(Producers)
      <4>1. CASE UNCHANGED waiters
        BY <4>1, <1>1 DEF TypeOK
      <4>2. ASSUME NEW i \in 1..Len(waiters),
                   waiters' = SubSeq(waiters, 1, i - 1) \o SubSeq(waiters, i + 1, Len(waiters))
            PROVE  waiters' \in Seq(Producers)
        <5>1. waiters \in Seq(Producers) /\ Len(waiters) \in Nat
          BY <1>1 DEF TypeOK
        <5>2. SubSeq(waiters, 1, i - 1) \in Seq(Producers)
          BY <5>1, SubSeqProperties
        <5>3. SubSeq(waiters, i + 1, Len(waiters)) \in Seq(Producers)
          BY <5>1, SubSeqProperties
        <5> QED
          BY <4>2, <5>2, <5>3, ConcatProperties
      <4> QED
        BY <4>1, <4>2 DEF AbandonWait
    <3>2. capacity' \in Nat
      <4>1. capacity' = capacity \/ capacity' = capacity + 1
        BY DEF AbandonWait, ReturnPermit
      <4> QED
        BY <4>1, <1>1 DEF TypeOK
    <3> QED
      BY <3>1, <3>2, <1>1 DEF TypeOK, AbandonWait
  <2>3. CASE \E p \in Producers : NotifyWorker(p)
    BY <2>3, <1>1 DEF TypeOK, NotifyWorker
  <2>4. CASE GrantPermit
    <3>1. waiters' \in Seq(Producers) /\ Head(waiters) \in Producers
      BY <2>4, <1>1, HeadTailProperties DEF TypeOK, GrantPermit
    <3> QED
      BY <2>4, <3>1, <1>1 DEF TypeOK, GrantPermit
  <2>5. CASE CloseState \/ CloseSemaphore \/ CloseNotify
    BY <2>5, <1>1 DEF TypeOK, CloseState, CloseSemaphore, CloseNotify
  <2>6. CASE WorkerLoop \/ WorkerScan \/ WorkerPoll \/ WorkerSlept
    BY <2>6, <1>1 DEF TypeOK, WorkerLoop, WorkerScan, WorkerPoll, WorkerSlept
  <2>7. CASE WorkerNotified
    <3>1. permit' \in BOOLEAN
      BY <2>7, <1>1, Zenon DEF TypeOK, WorkerNotified
    <3> QED
      BY <2>7, <3>1, <1>1 DEF TypeOK, WorkerNotified
  <2>8. CASE WorkerReserve \/ WorkerAborts
    BY <2>8, <1>1 DEF TypeOK, WorkerReserve, WorkerAborts
  <2>9. CASE Receive \/ DropOutput
    <3>1. (out > 0 /\ out' = out - 1) \/ out' = out
      BY <2>9, Zenon DEF Receive, DropOutput
    <3>2. out' \in Nat
      BY <3>1, <1>1 DEF TypeOK
    <3>3. out_open' \in BOOLEAN
      BY <2>9, <1>1, Zenon DEF TypeOK, Receive, DropOutput
    <3> QED
      BY <2>9, <3>2, <3>3, <1>1 DEF TypeOK, Receive, DropOutput
  <2> QED
    BY <2>1, <2>2, <2>3, <2>4, <2>5, <2>6, <2>7, <2>8, <2>9
<1> QED
  BY <1>3, <1>4, <1>5 DEF IndInv

\* Every step keeps the inductive invariant.
LEMMA NextIndInv == IndInv /\ [Next]_vars => IndInv'
<1> SUFFICES ASSUME IndInv, [Next]_vars PROVE IndInv'
  OBVIOUS
<1>1. CASE \E p \in Producers : AcceptDurable(p)
  BY <1>1, AcceptDurableInv
<1>2. CASE \E p \in Producers, k \in Keys : AcceptCoalesced(p, k)
  BY <1>2, AcceptCoalescedInv
<1>3. CASE PopDurable
  BY <1>3, PopDurableInv
<1>4. CASE PopCoalesced
  BY <1>4, PopCoalescedInv
<1>5. CASE ElapseFront
  BY <1>5, ElapseFrontInv
<1>6. CASE \/ \E p \in Producers : AwaitPermit(p) \/ AbandonWait(p) \/ NotifyWorker(p)
           \/ GrantPermit \/ CloseState \/ CloseSemaphore \/ CloseNotify
           \/ WorkerLoop \/ WorkerScan \/ WorkerPoll \/ WorkerNotified \/ WorkerSlept
           \/ WorkerReserve \/ WorkerAborts \/ Receive \/ DropOutput
  BY <1>6, OtherStepsInv
<1>7. CASE UNCHANGED vars
  <2>1. UNCHANGED <<pending, log, emitted>>
    BY <1>7 DEF vars, stateVars, history
  <2>2. OrderInv' /\ SegmentsWF'
    BY <2>1, QuietStep
  <2>3. TypeOK' /\ WorkerHasFront'
    BY <1>7 DEF IndInv, TypeOK, WorkerHasFront, vars, stateVars, semVars, outVars, history
  <2> QED
    BY <2>2, <2>3 DEF IndInv
<1> QED
  BY <1>1, <1>2, <1>3, <1>4, <1>5, <1>6, <1>7 DEF Next, Producer, Worker

\* The inductive invariant of the ordered ingress holds in every reachable state.
THEOREM InductiveInvariant == Spec => []IndInv
BY InitIndInv, NextIndInv, PTL DEF Spec

\* The state of the ingress is always well typed.
THEOREM TypeCorrect == Spec => []TypeOK
<1>1. IndInv => TypeOK
  BY DEF IndInv
<1> QED
  BY <1>1, InductiveInvariant, PTL

\* Whatever the interleaving of offers, timers, close and worker, what the
\* worker of run_ordered_ingress sends never crosses a durable event or
\* reorders the updates of a key.
THEOREM OrderPreserved == Spec => []NoCrossing
<1>1. IndInv => NoCrossing
  BY DEF IndInv, OrderInv
<1> QED
  BY <1>1, InductiveInvariant, PTL

\* No offer answered with Accepted is ever lost.
THEOREM NothingLost == Spec => []Lossless
<1>1. IndInv => Lossless
  <2> SUFFICES ASSUME IndInv, NEW s \in DOMAIN log
               PROVE  \/ \E e \in DOMAIN emitted : s \in emitted[e]
                      \/ \E i \in DOMAIN pending : s \in Held(pending[i])
    BY DEF Lossless
  <2>1. /\ DOMAIN log = 1..Len(log) /\ DOMAIN emitted = 1..Len(emitted)
        /\ DOMAIN pending = Positions
    BY DEF IndInv, TypeOK, Positions
  <2>2. CASE \E e \in 1..Len(emitted) : s \in emitted[e]
    BY <2>1, <2>2
  <2>3. CASE \E i \in Positions, c \in Class : Has(pending[i], c, s)
    <3> PICK i \in Positions : \E c \in Class : Has(pending[i], c, s)
      BY <2>3
    <3>1. pending[i] \in Segment /\ s \in Nat
      BY <2>1 DEF IndInv, TypeOK, Positions
    <3>2. s \in Held(pending[i])
      BY <3>1, HeldHas
    <3> QED
      BY <2>1, <3>2
  <2> QED
    BY <2>1, <2>2, <2>3 DEF IndInv, OrderInv, AllAccounted
<1> QED
  BY <1>1, InductiveInvariant, PTL
-----------------------------------------------------------------------------
(***************************************************************************)
(* The counts: the permits of durable_capacity and pending_coalesced_keys. *)
(***************************************************************************)
\* The places of the queue that hold something under a class of C.
Slots(C) == {ic \in Positions \X C : \E s \in Nat : Has(pending[ic[1]], ic[2], s)}

Holders == {p \in Producers : offer[p] = "permit"}

\* A producer in the queue of the semaphore waits, and is in it once.
WaitersSound ==
    /\ \A i \in 1..Len(waiters) : offer[waiters[i]] = "waiting"
    /\ \A i, j \in 1..Len(waiters) : waiters[i] = waiters[j] => i = j

\* The producers and the keys need not be finite: those in use are.
Finite == IsFiniteSet(Holders) /\ IsFiniteSet(Slots({Durable})) /\ IsFiniteSet(Slots(Keys))

Counted ==
    /\ capacity + Cardinality(Slots({Durable})) + Cardinality(Holders)
         = AtLeastOne(DurableLimit)
    /\ pending_coalesced_keys = Cardinality(Slots(Keys))
    /\ pending_coalesced_keys <= AtLeastOne(KeyLimit)

CountInv == WaitersSound /\ Finite /\ Counted

\* Slots are pairs.
LEMMA SlotPairs ==
    ASSUME NEW C
    PROVE  /\ \A i, d : <<i, d>> \in Slots(C) <=>
                 i \in Positions /\ d \in C /\ \E s \in Nat : Has(pending[i], d, s)
           /\ \A x \in Slots(C) : \E i \in Positions, d \in C : x = <<i, d>>
BY DEF Slots

LEMMA SlotPairsAfter ==
    ASSUME NEW C
    PROVE  /\ \A i, d : <<i, d>> \in Slots(C)' <=>
                 i \in Positions' /\ d \in C /\ \E s \in Nat : Has(pending'[i], d, s)
           /\ \A x \in Slots(C)' : \E i \in Positions', d \in C : x = <<i, d>>
BY DEF Slots

\* An accepted offer is in the last segment, alone or merged.
LEMMA AcceptedSlots ==
    ASSUME TypeOK, TypeOK', NEW c \in Class, Accepts(c), NEW C \in SUBSET Class
    PROVE  Slots(C)' = IF c \in C THEN Slots(C) \cup {<<Len(pending'), c>>} ELSE Slots(C)
<1>1. /\ Positions = 1..Len(pending) /\ Positions' = 1..Len(pending')
      /\ Len(pending) \in Nat /\ Len(pending') \in Nat /\ Stamp \in Nat
  BY DEF Positions, TypeOK, Stamp
<1>2. Len(pending') >= Len(pending) /\ Len(pending') > 0
  BY DEF Accepts
<1>3. ASSUME NEW i, NEW d
      PROVE  <<i, d>> \in Slots(C)' <=>
                 <<i, d>> \in Slots(C) \/ (c \in C /\ i = Len(pending') /\ d = c)
  <2>1. CASE i \in Positions' /\ d \in C
    <3>1. \A s \in Nat : Has(pending'[i], d, s) <=>
              \/ i <= Len(pending) /\ Has(pending[i], d, s)
              \/ i = Len(pending') /\ d = c /\ s = Stamp
      BY <1>1, <2>1 DEF Accepts
    <3>2. i <= Len(pending) <=> i \in Positions
      BY <1>1, <2>1
    <3> QED
      BY <1>1, <2>1, <3>1, <3>2, SlotPairs, SlotPairsAfter
  <2>2. CASE ~(i \in Positions' /\ d \in C)
    <3>1. <<i, d>> \notin Slots(C)'
      BY <2>2, SlotPairsAfter
    <3>2. <<i, d>> \notin Slots(C)
      BY <1>1, <1>2, <2>2, SlotPairs
    <3>3. ~(c \in C /\ i = Len(pending') /\ d = c)
      BY <1>1, <1>2, <2>2
    <3> QED
      BY <3>1, <3>2, <3>3
  <2> QED
    BY <2>1, <2>2
<1> DEFINE T == IF c \in C THEN Slots(C) \cup {<<Len(pending'), c>>} ELSE Slots(C)
<1>4. \A x \in T : \E i, d : x = <<i, d>>
  BY SlotPairs
<1>5. ASSUME NEW i, NEW d PROVE <<i, d>> \in Slots(C)' <=> <<i, d>> \in T
  <2>1. <<i, d>> = <<Len(pending'), c>> <=> i = Len(pending') /\ d = c
    OBVIOUS
  <2>2. CASE c \in C
    <3>1. <<i, d>> \in T <=> <<i, d>> \in Slots(C) \/ <<i, d>> = <<Len(pending'), c>>
      BY <2>2
    <3>2. <<i, d>> \in Slots(C)' <=> <<i, d>> \in Slots(C) \/ (i = Len(pending') /\ d = c)
      BY <1>3, <2>2
    <3> HIDE DEF T
    <3> QED
      BY <2>1, <3>1, <3>2
  <2>3. CASE c \notin C
    <3>1. T = Slots(C)
      BY <2>3
    <3> QED
      BY <1>3, <2>3, <3>1, Zenon
  <2> QED
    BY <2>2, <2>3
<1>6. \A x \in Slots(C)' : \E i, d : x = <<i, d>>
  BY SlotPairsAfter
<1> HIDE DEF T
<1>7. \A x : x \in Slots(C)' <=> x \in T
  BY <1>4, <1>5, <1>6
<1>8. Slots(C)' = T
  BY <1>7
<1> QED
  BY <1>8 DEF T

\* What is emitted leaves one slot; the others stay, or move up by one.
LEMMA EmittedSlots ==
    ASSUME TypeOK, TypeOK', pending # << >>, NEW c \in Class, NEW shift \in {0, 1},
           Emits(c, shift), NEW C \in SUBSET Class, IsFiniteSet(Slots(C))
    PROVE  /\ IsFiniteSet(Slots(C)')
           /\ Cardinality(Slots(C)) \in Nat
           /\ Cardinality(Slots(C)') = IF c \in C THEN Cardinality(Slots(C)) - 1
                                                  ELSE Cardinality(Slots(C))
<1> DEFINE S == Slots(C) \ {<<1, c>>}
           T == Slots(C)'
           f == [x \in S |-> <<x[1] - shift, x[2]>>]
<1>1. /\ Positions = 1..Len(pending) /\ Positions' = 1..Len(pending')
      /\ Len(pending) \in Nat /\ Len(pending) > 0
      /\ Len(pending') = Len(pending) - shift
  BY EmptySeq DEF Positions, TypeOK, Emits
<1>2. /\ \E s \in Nat : Has(pending[1], c, s)
      /\ shift = 1 => \A d \in Class, s \in Nat : Has(pending[1], d, s) => d = c
  BY DEF Emits
<1>3. ASSUME NEW i \in Positions, NEW d \in C, <<i, d>> \in S
      PROVE  <<i - shift, d>> \in T
  <2>1. PICK s \in Nat : Has(pending[i], d, s)
    BY <1>3, SlotPairs
  <2>2. i = 1 => d # c
    BY <1>3
  <2>3. i = 1 => shift = 0
    BY <1>2, <2>1, <2>2
  <2>4. i - shift \in Positions' /\ (i - shift) + shift = i
    BY <1>1, <2>3
  <2>5. Has(pending'[i - shift], d, s)
    BY <1>1, <2>1, <2>2, <2>4 DEF Emits
  <2> QED
    BY <2>4, <2>5, SlotPairsAfter
<1>4. ASSUME NEW j \in Positions', NEW d \in C, <<j, d>> \in T
      PROVE  j + shift \in Positions /\ <<j + shift, d>> \in S
  <2>1. PICK s \in Nat : Has(pending'[j], d, s)
    BY <1>4, SlotPairsAfter
  <2>2. Has(pending[j + shift], d, s) /\ (j + shift = 1 => d # c)
    BY <1>1, <2>1 DEF Emits
  <2>3. j + shift \in Positions
    BY <1>1
  <2>4. <<j + shift, d>> \in Slots(C)
    BY <2>2, <2>3, SlotPairs
  <2> QED
    BY <2>2, <2>3, <2>4
<1>5. \A x \in S : \E i \in Positions, d \in C : x = <<i, d>>
  BY SlotPairs
<1>6. \A y \in T : \E j \in Positions', d \in C : y = <<j, d>>
  BY SlotPairsAfter
<1> HIDE DEF S, T
<1>7. f \in [S -> T]
  <2> SUFFICES ASSUME NEW x \in S PROVE <<x[1] - shift, x[2]>> \in T
    OBVIOUS
  <2>1. PICK i \in Positions, d \in C : x = <<i, d>>
    BY <1>5
  <2> QED
    BY <1>3, <2>1
<1>8. ASSUME NEW x \in S, NEW y \in S, f[x] = f[y] PROVE x = y
  <2>1. PICK i \in Positions, d \in C : x = <<i, d>>
    BY <1>5
  <2>2. PICK j \in Positions, e \in C : y = <<j, e>>
    BY <1>5
  <2>3. i - shift = j - shift /\ d = e
    BY <1>8, <2>1, <2>2
  <2>4. i = j
    BY <1>1, <2>3
  <2> QED
    BY <2>1, <2>2, <2>3, <2>4
<1>9. ASSUME NEW y \in T PROVE \E x \in S : f[x] = y
  <2>1. PICK j \in Positions', d \in C : y = <<j, d>>
    BY <1>6
  <2>2. <<j + shift, d>> \in S /\ (j + shift) - shift = j
    BY <1>1, <1>4, <2>1
  <2>3. f[<<j + shift, d>>] = y
    BY <2>1, <2>2
  <2> QED
    BY <2>2, <2>3
<1>10. ExistsBijection(S, T)
  <2>1. f \in Injection(S, T) /\ f \in Surjection(S, T)
    <3> HIDE DEF f
    <3>1. DOMAIN f = S
      BY <1>7
    <3> QED
      BY <3>1, <1>7, <1>8, <1>9 DEF Injection, IsInjective, Surjection
  <2> QED
    BY <2>1 DEF ExistsBijection, Bijection
<1>11. /\ IsFiniteSet(S) /\ Cardinality(Slots(C)) \in Nat
       /\ Cardinality(S) = IF <<1, c>> \in Slots(C) THEN Cardinality(Slots(C)) - 1
                                                    ELSE Cardinality(Slots(C))
  BY FS_RemoveElement, FS_CardinalityType DEF S
<1>12. <<1, c>> \in Slots(C) <=> c \in C
  BY <1>1, <1>2, SlotPairs
<1>13. IsFiniteSet(T) /\ Cardinality(T) = Cardinality(S)
  BY <1>10, <1>11, FS_Bijection
<1> QED
  BY <1>11, <1>12, <1>13 DEF T

\* The places of the queue, when the step does not touch what they hold.
LEMMA SlotsStay ==
    ASSUME Positions' = Positions,
           \A i \in Positions : \A c, s : Has(pending'[i], c, s) <=> Has(pending[i], c, s),
           NEW C
    PROVE  Slots(C)' = Slots(C)
BY DEF Slots

\* A producer gets the permit that it did not have, or gives it away.
LEMMA HoldersMove ==
    ASSUME TypeOK, IsFiniteSet(Holders), NEW p \in Producers,
           NEW st \in {"idle", "waiting", "permit", "notify"},
           offer' = [offer EXCEPT ![p] = st]
    PROVE  /\ IsFiniteSet(Holders') /\ Cardinality(Holders) \in Nat
           /\ Cardinality(Holders') =
                IF offer[p] = "permit" /\ st # "permit" THEN Cardinality(Holders) - 1
                ELSE IF offer[p] # "permit" /\ st = "permit" THEN Cardinality(Holders) + 1
                ELSE Cardinality(Holders)
<1>1. /\ offer'[p] = st /\ \A q \in Producers \ {p} : offer'[q] = offer[q]
  BY DEF TypeOK
<1>2. p \in Holders <=> offer[p] = "permit"
  BY DEF Holders
<1>3. CASE st = "permit"
  <2>1. Holders' = Holders \cup {p}
    BY <1>1, <1>3 DEF Holders
  <2> QED
    BY <1>2, <1>3, <2>1, FS_AddElement, FS_CardinalityType
<1>4. CASE st # "permit"
  <2>1. Holders' = Holders \ {p}
    BY <1>1, <1>4 DEF Holders
  <2> QED
    BY <1>2, <1>4, <2>1, FS_RemoveElement, FS_CardinalityType
<1> QED
  BY <1>3, <1>4

LEMMA InitCountInv == Init => CountInv
<1> SUFFICES ASSUME Init PROVE CountInv
  OBVIOUS
<1>1. Positions = {} /\ Len(waiters) = 0
  BY DEF Init, Positions
<1>2. Holders = {} /\ Slots({Durable}) = {} /\ Slots(Keys) = {}
  BY <1>1 DEF Init, Holders, Slots
<1>3. WaitersSound
  BY <1>1 DEF WaitersSound
<1>4. AtLeastOne(DurableLimit) \in Nat /\ AtLeastOne(KeyLimit) \in Nat
  BY ConstantsAssumption DEF AtLeastOne
<1>5. IsFiniteSet({}) /\ Cardinality({}) = 0
  BY FS_EmptySet
<1>6. Finite /\ Cardinality(Holders) = 0 /\ Cardinality(Slots({Durable})) = 0
      /\ Cardinality(Slots(Keys)) = 0
  BY <1>2, <1>5, Zenon DEF Finite
<1>7. Counted
  BY <1>4, <1>6 DEF Init, Counted
<1> QED
  BY <1>3, <1>6, <1>7 DEF CountInv

\* A step that leaves the queue, the offers and the counts alone.
LEMMA CountsStay ==
    ASSUME CountInv, offer' = offer, waiters' = waiters, capacity' = capacity,
           pending_coalesced_keys' = pending_coalesced_keys, Positions' = Positions,
           \A i \in Positions : \A c, s : Has(pending'[i], c, s) <=> Has(pending[i], c, s)
    PROVE  CountInv'
<1>1. Slots({Durable})' = Slots({Durable}) /\ Slots(Keys)' = Slots(Keys)
  BY SlotsStay
<1>2. Holders' = Holders
  BY DEF Holders
<1> QED
  BY <1>1, <1>2 DEF CountInv, WaitersSound, Finite, Counted

\* The semaphore's queue, when one producer that is not in it moves.
LEMMA WaitersStay ==
    ASSUME TypeOK, WaitersSound, NEW p \in Producers, NEW st, offer[p] # "waiting",
           offer' = [offer EXCEPT ![p] = st], waiters' = waiters
    PROVE  WaitersSound'
<1>1. \A i \in 1..Len(waiters) : waiters[i] \in Producers \ {p}
  BY DEF TypeOK, WaitersSound
<1>2. \A q \in Producers \ {p} : offer'[q] = offer[q]
  BY DEF TypeOK
<1> QED
  BY <1>1, <1>2 DEF WaitersSound

\* Steps of producers and semaphore that leave the queue alone.
LEMMA PermitStepsCount ==
    ASSUME IndInv, CountInv,
           \/ \E p \in Producers : AwaitPermit(p) \/ AbandonWait(p) \/ NotifyWorker(p)
           \/ GrantPermit
    PROVE  CountInv'
<1> USE DEF stateVars, semVars, history
<1>1. TypeOK /\ WaitersSound /\ Finite /\ Counted /\ waiters \in Seq(Producers)
      /\ Len(waiters) \in Nat /\ capacity \in Nat
  BY DEF IndInv, CountInv, TypeOK
<1>2. pending' = pending /\ pending_coalesced_keys' = pending_coalesced_keys
  BY DEF AwaitPermit, AbandonWait, NotifyWorker, GrantPermit
<1>3. Slots({Durable})' = Slots({Durable}) /\ Slots(Keys)' = Slots(Keys)
  BY <1>2 DEF Slots, Positions
<1>4. IsFiniteSet(Holders) /\ Cardinality(Slots({Durable})) \in Nat
      /\ AtLeastOne(DurableLimit) \in Nat
  BY <1>1, FS_CardinalityType, ConstantsAssumption DEF Finite, AtLeastOne
<1>5. CASE \E p \in Producers : AwaitPermit(p)
  <2>1. PICK p \in Producers : AwaitPermit(p)
    BY <1>5
  <2>2. /\ offer[p] = "idle" /\ offer' = [offer EXCEPT ![p] = "waiting"]
        /\ waiters' = Append(waiters, p) /\ capacity' = capacity
    BY <2>1 DEF AwaitPermit
  <2>3. IsFiniteSet(Holders') /\ Cardinality(Holders') = Cardinality(Holders)
    BY <1>1, <1>4, <2>2, HoldersMove
  <2>4. /\ Len(waiters') = Len(waiters) + 1 /\ waiters'[Len(waiters) + 1] = p
        /\ \A i \in 1..Len(waiters) : waiters'[i] = waiters[i]
    BY <1>1, <2>2, AppendProperties
  <2>5. \A i \in 1..Len(waiters) : waiters[i] \in Producers \ {p}
    BY <1>1, <2>2 DEF WaitersSound
  <2>6. offer'[p] = "waiting" /\ \A q \in Producers \ {p} : offer'[q] = offer[q]
    BY <1>1, <2>2 DEF TypeOK
  <2>7. ASSUME NEW i \in 1..Len(waiters')
        PROVE  i = Len(waiters) + 1 \/ i \in 1..Len(waiters)
    BY <1>1, <2>4
  <2>8. WaitersSound'
    <3>1. ASSUME NEW i \in 1..Len(waiters') PROVE offer'[waiters'[i]] = "waiting"
      BY <1>1, <2>4, <2>5, <2>6, <2>7 DEF WaitersSound
    <3>2. ASSUME NEW i \in 1..Len(waiters'), NEW j \in 1..Len(waiters'),
                 waiters'[i] = waiters'[j]
          PROVE  i = j
      BY <1>1, <2>4, <2>5, <2>7, <3>2 DEF WaitersSound
    <3> QED
      BY <3>1, <3>2 DEF WaitersSound
  <2> QED
    BY <1>1, <1>2, <1>3, <2>2, <2>3, <2>8 DEF CountInv, Finite, Counted
<1>6. CASE \E p \in Producers : AbandonWait(p)
  <2>1. PICK p \in Producers : AbandonWait(p)
    BY <1>6
  <2>2. offer' = [offer EXCEPT ![p] = "idle"]
    BY <2>1 DEF AbandonWait
  <2>3. CASE offer[p] = "permit" /\ capacity' = capacity + 1 /\ waiters' = waiters
    <3>1. /\ IsFiniteSet(Holders') /\ Cardinality(Holders) \in Nat
          /\ Cardinality(Holders') = Cardinality(Holders) - 1
      BY <1>1, <1>4, <2>2, <2>3, HoldersMove
    <3>2. WaitersSound'
      BY <1>1, <2>2, <2>3, WaitersStay
    <3>3. Finite' /\ Counted'
      BY <1>1, <1>2, <1>3, <1>4, <2>3, <3>1 DEF Finite, Counted
    <3> QED
      BY <3>2, <3>3 DEF CountInv
  <2>4. ASSUME offer[p] = "waiting", capacity' = capacity,
               NEW k \in 1..Len(waiters), waiters[k] = p,
               waiters' = SubSeq(waiters, 1, k - 1) \o SubSeq(waiters, k + 1, Len(waiters))
        PROVE  CountInv'
    <3>1. IsFiniteSet(Holders') /\ Cardinality(Holders') = Cardinality(Holders)
      BY <1>1, <1>4, <2>2, <2>4, HoldersMove
    <3> DEFINE n == Len(waiters)
    <3>2. /\ Len(waiters') = n - 1
          /\ \A i \in 1..(n - 1) : waiters'[i] = IF i < k THEN waiters[i] ELSE waiters[i + 1]
      <4> DEFINE a == SubSeq(waiters, 1, k - 1)
                 b == SubSeq(waiters, k + 1, n)
      <4>1. /\ a \in Seq(Producers) /\ Len(a) = k - 1
            /\ \A i \in 1..(k - 1) : a[i] = waiters[i]
        BY <1>1
      <4>2. /\ b \in Seq(Producers) /\ Len(b) = n - k
            /\ \A i \in 1..(n - k) : b[i] = waiters[i + k]
        BY <1>1
      <4> HIDE DEF a, b
      <4>3. /\ Len(a \o b) = Len(a) + Len(b)
            /\ \A i \in 1..(Len(a) + Len(b)) :
                  (a \o b)[i] = IF i <= Len(a) THEN a[i] ELSE b[i - Len(a)]
        BY <4>1, <4>2, ConcatProperties
      <4>4. /\ Len(a \o b) = (k - 1) + (n - k)
            /\ \A i \in 1..((k - 1) + (n - k)) :
                  (a \o b)[i] = IF i <= k - 1 THEN a[i] ELSE b[i - (k - 1)]
        BY <4>3, <4>1, <4>2, Zenon
      <4>5. n \in Nat /\ k \in 1..n /\ (k - 1) + (n - k) = n - 1 /\ waiters' = a \o b
        BY <1>1, <2>4 DEF a, b
      <4>6. ASSUME NEW i \in 1..(n - 1)
            PROVE  waiters'[i] = IF i < k THEN waiters[i] ELSE waiters[i + 1]
        <5>1. CASE i < k
          <6>1. i \in 1..(k - 1) /\ i <= k - 1
            BY <4>5, <5>1
          <6> QED
            BY <4>1, <4>4, <4>5, <5>1, <6>1
        <5>2. CASE ~(i < k)
          <6>1. /\ i - (k - 1) \in 1..(n - k) /\ (i - (k - 1)) + k = i + 1
                /\ ~(i <= k - 1)
            BY <4>5, <5>2
          <6>2. b[i - (k - 1)] = waiters[i + 1]
            BY <4>2, <6>1
          <6> QED
            BY <4>4, <4>5, <5>2, <6>1, <6>2
        <5> QED
          BY <5>1, <5>2
      <4> QED
        BY <4>4, <4>5, <4>6
    <3> HIDE DEF n
    <3>3. n \in Nat /\ k \in 1..n
      BY <1>1 DEF n
    <3>4. ASSUME NEW i \in 1..(n - 1)
          PROVE  \E x \in 1..n : x # k /\ x = (IF i < k THEN i ELSE i + 1) /\ waiters'[i] = waiters[x]
      BY <3>2, <3>3
    <3>5. \A i \in 1..n : i # k => waiters[i] \in Producers \ {p}
      BY <1>1, <2>4 DEF WaitersSound, n
    <3>6. \A q \in Producers \ {p} : offer'[q] = offer[q]
      BY <1>1, <2>2 DEF TypeOK
    <3>7. ASSUME NEW i \in 1..Len(waiters') PROVE offer'[waiters'[i]] = "waiting"
      <4>1. PICK x \in 1..n : x # k /\ waiters'[i] = waiters[x]
        BY <3>2, <3>4
      <4> QED
        BY <1>1, <3>5, <3>6, <4>1 DEF WaitersSound, n
    <3>8. ASSUME NEW i \in 1..Len(waiters'), NEW j \in 1..Len(waiters'),
                 waiters'[i] = waiters'[j]
          PROVE  i = j
      <4>1. PICK x \in 1..n : x = (IF i < k THEN i ELSE i + 1) /\ waiters'[i] = waiters[x]
        BY <3>2, <3>4
      <4>2. PICK y \in 1..n : y = (IF j < k THEN j ELSE j + 1) /\ waiters'[j] = waiters[y]
        BY <3>2, <3>4
      <4>3. x = y
        BY <1>1, <3>8, <4>1, <4>2 DEF WaitersSound, n
      <4> QED
        BY <3>2, <3>3, <4>1, <4>2, <4>3
    <3>9. WaitersSound'
      BY <3>7, <3>8 DEF WaitersSound
    <3> QED
      BY <1>1, <1>2, <1>3, <2>4, <3>1, <3>9 DEF CountInv, Finite, Counted
  <2> QED
    BY <2>1, <2>3, <2>4 DEF AbandonWait, ReturnPermit
<1>7. CASE \E p \in Producers : NotifyWorker(p)
  <2>1. PICK p \in Producers : NotifyWorker(p)
    BY <1>7
  <2>2. /\ offer[p] = "notify" /\ offer' = [offer EXCEPT ![p] = "idle"]
        /\ waiters' = waiters /\ capacity' = capacity
    BY <2>1 DEF NotifyWorker
  <2>3. IsFiniteSet(Holders') /\ Cardinality(Holders') = Cardinality(Holders)
    BY <1>1, <1>4, <2>2, HoldersMove
  <2>4. WaitersSound'
    BY <1>1, <2>2, WaitersStay
  <2> QED
    BY <1>1, <1>2, <1>3, <2>2, <2>3, <2>4 DEF CountInv, Finite, Counted
<1>8. CASE GrantPermit
  <2>1. /\ waiters # << >> /\ capacity > 0 /\ capacity' = capacity - 1
        /\ waiters' = Tail(waiters) /\ offer' = [offer EXCEPT ![Head(waiters)] = "permit"]
    BY <1>8 DEF GrantPermit
  <2>2. /\ Len(waiters) > 0 /\ Head(waiters) = waiters[1] /\ Head(waiters) \in Producers
        /\ Len(waiters') = Len(waiters) - 1
        /\ \A i \in 1..(Len(waiters) - 1) : waiters'[i] = waiters[i + 1]
    <3>1. Len(waiters) > 0
      BY <1>1, <2>1, EmptySeq
    <3> QED
      BY <1>1, <2>1, <3>1, HeadTailProperties
  <2>3. offer[Head(waiters)] = "waiting"
    BY <1>1, <2>2 DEF WaitersSound
  <2>4. /\ IsFiniteSet(Holders') /\ Cardinality(Holders) \in Nat
        /\ Cardinality(Holders') = Cardinality(Holders) + 1
    BY <1>1, <1>4, <2>1, <2>2, <2>3, HoldersMove
  <2>5. ASSUME NEW i \in 1..Len(waiters')
        PROVE  /\ i + 1 \in 1..Len(waiters) /\ waiters'[i] = waiters[i + 1]
               /\ waiters[i + 1] \in Producers \ {Head(waiters)}
    <3>1. i + 1 \in 1..Len(waiters) /\ waiters'[i] = waiters[i + 1] /\ i + 1 # 1
          /\ 1 \in 1..Len(waiters)
      BY <1>1, <2>2
    <3>2. waiters[i + 1] # waiters[1]
      BY <1>1, <3>1 DEF WaitersSound
    <3>3. waiters[i + 1] \in Producers
      BY <1>1, <3>1
    <3> QED
      BY <2>2, <3>1, <3>2, <3>3
  <2>6. \A q \in Producers \ {Head(waiters)} : offer'[q] = offer[q]
    BY <1>1, <2>1 DEF TypeOK
  <2>7. ASSUME NEW i \in 1..Len(waiters') PROVE offer'[waiters'[i]] = "waiting"
    BY <1>1, <2>5, <2>6 DEF WaitersSound
  <2>8. ASSUME NEW i \in 1..Len(waiters'), NEW j \in 1..Len(waiters'),
               waiters'[i] = waiters'[j]
        PROVE  i = j
    <3>1. i + 1 = j + 1
      BY <1>1, <2>5, <2>8 DEF WaitersSound
    <3> QED
      BY <3>1
  <2>9. WaitersSound'
    BY <2>7, <2>8 DEF WaitersSound
  <2>10. Finite' /\ Counted'
    BY <1>1, <1>2, <1>3, <1>4, <2>1, <2>4 DEF Finite, Counted
  <2> QED
    BY <2>9, <2>10 DEF CountInv
<1> QED
  BY <1>5, <1>6, <1>7, <1>8

\* A slot is added to what is counted.
LEMMA OneMoreSlot ==
    ASSUME NEW S, NEW T, NEW x, IsFiniteSet(S), T = S \cup {x}
    PROVE  /\ IsFiniteSet(T) /\ Cardinality(S) \in Nat
           /\ Cardinality(T) = IF x \in S THEN Cardinality(S) ELSE Cardinality(S) + 1
BY FS_AddElement, FS_CardinalityType

\* The permit of a durable offer goes into the queue with its event.
LEMMA AcceptDurableCount ==
    ASSUME IndInv, CountInv, NEW p \in Producers, AcceptDurable(p)
    PROVE  CountInv'
<1>1. /\ TypeOK /\ WaitersSound /\ Finite /\ Counted /\ capacity \in Nat
      /\ Len(pending) \in Nat /\ {Durable} \in SUBSET Class /\ Keys \in SUBSET Class
      /\ Durable \in Class /\ Durable \notin Keys
  BY ConstantsAssumption DEF IndInv, CountInv, TypeOK, Class
<1>2. TypeOK' /\ Accepts(Durable) /\ Len(pending') = Len(pending) + 1
  BY AcceptDurableInv DEF IndInv
<1>3. /\ offer[p] = "permit" /\ offer' = [offer EXCEPT ![p] = "notify"]
      /\ waiters' = waiters /\ capacity' = capacity
      /\ pending_coalesced_keys' = pending_coalesced_keys
  BY DEF AcceptDurable, semVars
<1>4. /\ Slots({Durable})' = Slots({Durable}) \cup {<<Len(pending) + 1, Durable>>}
      /\ Slots(Keys)' = Slots(Keys)
  BY <1>1, <1>2, AcceptedSlots
<1>5. <<Len(pending) + 1, Durable>> \notin Slots({Durable})
  <2>1. Len(pending) + 1 \notin Positions
    BY <1>1 DEF Positions
  <2> QED
    BY <2>1, SlotPairs
<1>6. /\ IsFiniteSet(Slots({Durable})') /\ Cardinality(Slots({Durable})) \in Nat
      /\ Cardinality(Slots({Durable})') = Cardinality(Slots({Durable})) + 1
  <2>1. IsFiniteSet(Slots({Durable}))
    BY <1>1 DEF Finite
  <2> DEFINE S == Slots({Durable})
             T == Slots({Durable})'
             x == <<Len(pending) + 1, Durable>>
  <2>2. T = S \cup {x} /\ IsFiniteSet(S) /\ x \notin S
    BY <1>4, <1>5, <2>1
  <2> HIDE DEF S, T, x
  <2>3. /\ IsFiniteSet(T) /\ Cardinality(S) \in Nat
        /\ Cardinality(T) = IF x \in S THEN Cardinality(S) ELSE Cardinality(S) + 1
    BY <2>2, OneMoreSlot
  <2> QED
    BY <2>2, <2>3 DEF S, T
<1>7. /\ IsFiniteSet(Holders') /\ Cardinality(Holders) \in Nat
      /\ Cardinality(Holders') = Cardinality(Holders) - 1
  BY <1>1, <1>3, HoldersMove DEF Finite
<1>8. WaitersSound'
  BY <1>1, <1>3, WaitersStay
<1>9. Finite' /\ Counted'
  BY <1>1, <1>3, <1>4, <1>6, <1>7 DEF Finite, Counted
<1> QED
  BY <1>8, <1>9 DEF CountInv

\* A key is counted when the back segment does not have it yet.
LEMMA AcceptCoalescedCount ==
    ASSUME IndInv, CountInv, NEW p \in Producers, NEW k \in Keys, AcceptCoalesced(p, k)
    PROVE  CountInv'
<1>1. /\ TypeOK /\ WaitersSound /\ Finite /\ Counted /\ capacity \in Nat
      /\ pending \in Seq(Segment) /\ Len(pending) \in Nat
      /\ {Durable} \in SUBSET Class /\ Keys \in SUBSET Class
      /\ k \in Class /\ k \notin {Durable}
  BY ConstantsAssumption DEF IndInv, CountInv, TypeOK, Class
<1>2. /\ TypeOK' /\ Accepts(k)
      /\ Len(pending') = IF BackIsCoalesced THEN Len(pending) ELSE Len(pending) + 1
  BY AcceptCoalescedInv DEF IndInv
<1>3. /\ offer[p] = "idle" /\ offer' = [offer EXCEPT ![p] = "notify"]
      /\ waiters' = waiters /\ capacity' = capacity
      /\ BackHas(k) => pending_coalesced_keys' = pending_coalesced_keys
      /\ ~BackHas(k) => /\ pending_coalesced_keys < AtLeastOne(KeyLimit)
                        /\ pending_coalesced_keys' = pending_coalesced_keys + 1
  BY DEF AcceptCoalesced, semVars
<1>4. /\ Slots({Durable})' = Slots({Durable})
      /\ Slots(Keys)' = Slots(Keys) \cup {<<Len(pending'), k>>}
  BY <1>1, <1>2, AcceptedSlots
<1>5. <<Len(pending'), k>> \in Slots(Keys) <=> BackHas(k)
  <2>1. CASE BackIsCoalesced
    <3>1. /\ Len(pending') = Len(pending) /\ Len(pending) \in Positions
          /\ pending[Len(pending)] \in Segment /\ pending[Len(pending)].kind = "coalesced"
          /\ pending[Len(pending)] = Last
      BY <1>1, <1>2, <2>1, EmptySeq DEF BackIsCoalesced, Last, Positions
    <3>2. Last.by_key[k] \subseteq Nat
      BY <3>1 DEF Segment
    <3>3. BackHas(k) <=> \E s \in Nat : Has(Last, k, s)
      BY <2>1, <3>1, <3>2, ConstantsAssumption DEF BackHas, Has
    <3> QED
      BY <3>1, <3>3, SlotPairs
  <2>2. CASE ~BackIsCoalesced
    <3>1. Len(pending') \notin Positions /\ ~BackHas(k)
      BY <1>1, <1>2, <2>2 DEF Positions, BackHas
    <3> QED
      BY <3>1, SlotPairs
  <2> QED
    BY <2>1, <2>2
<1>6. /\ IsFiniteSet(Slots(Keys)') /\ Cardinality(Slots(Keys)) \in Nat
      /\ Cardinality(Slots(Keys)') = IF BackHas(k) THEN Cardinality(Slots(Keys))
                                                   ELSE Cardinality(Slots(Keys)) + 1
  <2>1. IsFiniteSet(Slots(Keys))
    BY <1>1 DEF Finite
  <2> DEFINE S == Slots(Keys)
             T == Slots(Keys)'
             x == <<Len(pending'), k>>
  <2>2. T = S \cup {x} /\ IsFiniteSet(S) /\ (x \in S <=> BackHas(k))
    BY <1>4, <1>5, <2>1
  <2> HIDE DEF S, T, x
  <2>3. /\ IsFiniteSet(T) /\ Cardinality(S) \in Nat
        /\ Cardinality(T) = IF x \in S THEN Cardinality(S) ELSE Cardinality(S) + 1
    BY <2>2, OneMoreSlot
  <2> QED
    BY <2>2, <2>3 DEF S, T
<1>7. IsFiniteSet(Holders') /\ Cardinality(Holders') = Cardinality(Holders)
  BY <1>1, <1>3, HoldersMove DEF Finite
<1>8. WaitersSound'
  BY <1>1, <1>3, WaitersStay
<1>9. AtLeastOne(KeyLimit) \in Nat
  BY ConstantsAssumption DEF AtLeastOne
<1>10. Finite' /\ Counted'
  BY <1>1, <1>3, <1>4, <1>6, <1>7, <1>9 DEF Finite, Counted
<1> QED
  BY <1>8, <1>10 DEF CountInv

\* The worker returns the permit of the event it takes.
LEMMA PopDurableCount ==
    ASSUME IndInv, CountInv, PopDurable
    PROVE  CountInv'
<1>1. /\ TypeOK /\ WaitersSound /\ Finite /\ Counted /\ capacity \in Nat
      /\ {Durable} \in SUBSET Class /\ Keys \in SUBSET Class
      /\ Durable \in Class /\ Durable \notin Keys /\ pending # << >>
  BY ConstantsAssumption DEF IndInv, CountInv, TypeOK, Class, PopDurable, WorkerHasFront
<1>2. TypeOK' /\ Emits(Durable, 1)
  BY PopDurableInv DEF IndInv
<1>3. /\ offer' = offer /\ waiters' = waiters /\ capacity' = capacity + 1
      /\ pending_coalesced_keys' = pending_coalesced_keys
  BY DEF PopDurable, ReturnPermit
<1>4. PICK shift \in {0, 1} : shift = 1 /\ Emits(Durable, shift)
  BY <1>2
<1>5. /\ IsFiniteSet(Slots({Durable})') /\ Cardinality(Slots({Durable})) \in Nat
      /\ Cardinality(Slots({Durable})') = Cardinality(Slots({Durable})) - 1
      /\ IsFiniteSet(Slots(Keys)') /\ Cardinality(Slots(Keys)') = Cardinality(Slots(Keys))
  <2>1. /\ IsFiniteSet(Slots({Durable})') /\ Cardinality(Slots({Durable})) \in Nat
        /\ Cardinality(Slots({Durable})') = Cardinality(Slots({Durable})) - 1
    BY <1>1, <1>2, <1>4, EmittedSlots DEF Finite
  <2>2. IsFiniteSet(Slots(Keys)') /\ Cardinality(Slots(Keys)') = Cardinality(Slots(Keys))
    BY <1>1, <1>2, <1>4, EmittedSlots DEF Finite
  <2> QED
    BY <2>1, <2>2
<1>6. Holders' = Holders /\ Cardinality(Holders) \in Nat
  BY <1>1, <1>3, FS_CardinalityType DEF Holders, Finite
<1>7. WaitersSound'
  BY <1>1, <1>3 DEF WaitersSound
<1>8. Finite'
  BY <1>1, <1>5, <1>6 DEF Finite
<1>9. Counted'
  BY <1>1, <1>3, <1>5, <1>6 DEF Counted
<1> QED
  BY <1>7, <1>8, <1>9 DEF CountInv

\* The worker takes one key out of the count.
LEMMA PopCoalescedCount ==
    ASSUME IndInv, CountInv, PopCoalesced
    PROVE  CountInv'
<1>1. /\ TypeOK /\ WaitersSound /\ Finite /\ Counted /\ capacity \in Nat
      /\ {Durable} \in SUBSET Class /\ Keys \in SUBSET Class /\ pending # << >>
  BY DEF IndInv, CountInv, TypeOK, Class, PopCoalesced, WorkerHasFront
<1>2. PICK k \in Keys, shift \in {0, 1} : TypeOK' /\ Emits(k, shift)
  BY PopCoalescedInv DEF IndInv
<1>3. k \in Class /\ k \notin {Durable}
  BY ConstantsAssumption DEF Class
<1>4. /\ offer' = offer /\ waiters' = waiters /\ capacity' = capacity
      /\ pending_coalesced_keys' = SaturatingSub(pending_coalesced_keys, 1)
  BY DEF PopCoalesced, CountPopped, semVars
<1>5. /\ IsFiniteSet(Slots(Keys)') /\ Cardinality(Slots(Keys)) \in Nat
      /\ Cardinality(Slots(Keys)') = Cardinality(Slots(Keys)) - 1
  BY <1>1, <1>2, <1>3, EmittedSlots DEF Finite
<1>6. /\ IsFiniteSet(Slots({Durable})')
      /\ Cardinality(Slots({Durable})') = Cardinality(Slots({Durable}))
  BY <1>1, <1>2, <1>3, EmittedSlots DEF Finite
<1>7. Cardinality(Slots(Keys)') \in Nat
  BY <1>5, FS_CardinalityType
<1>8. Holders' = Holders
  BY <1>4 DEF Holders
<1>9. WaitersSound'
  BY <1>1, <1>4 DEF WaitersSound
<1>10. Finite'
  BY <1>1, <1>5, <1>6, <1>8 DEF Finite
<1>11. AtLeastOne(KeyLimit) \in Nat
  BY ConstantsAssumption DEF AtLeastOne
<1>12. Counted'
  BY <1>1, <1>4, <1>5, <1>6, <1>7, <1>8, <1>11 DEF Counted, SaturatingSub
<1> QED
  BY <1>9, <1>10, <1>12 DEF CountInv

LEMMA NextCountInv == IndInv /\ CountInv /\ [Next]_vars => CountInv'
<1> SUFFICES ASSUME IndInv, CountInv, [Next]_vars PROVE CountInv'
  OBVIOUS
<1>1. CASE \E p \in Producers : AcceptDurable(p)
  BY <1>1, AcceptDurableCount
<1>2. CASE \E p \in Producers, k \in Keys : AcceptCoalesced(p, k)
  BY <1>2, AcceptCoalescedCount
<1>3. CASE PopDurable
  BY <1>3, PopDurableCount
<1>4. CASE PopCoalesced
  BY <1>4, PopCoalescedCount
<1>5. CASE \/ \E p \in Producers : AwaitPermit(p) \/ AbandonWait(p) \/ NotifyWorker(p)
           \/ GrantPermit
  BY <1>5, PermitStepsCount
<1>6. CASE ElapseFront
  <2>1. /\ offer' = offer /\ waiters' = waiters /\ capacity' = capacity
        /\ pending_coalesced_keys' = pending_coalesced_keys
    BY <1>6 DEF ElapseFront, semVars
  <2> QED
    BY <1>6, <2>1, ElapseFrontInv, CountsStay
<1>7. CASE \/ CloseState \/ CloseSemaphore \/ CloseNotify
           \/ WorkerLoop \/ WorkerScan \/ WorkerPoll \/ WorkerNotified \/ WorkerSlept
           \/ WorkerReserve \/ WorkerAborts \/ Receive \/ DropOutput \/ UNCHANGED vars
  <2>1. /\ offer' = offer /\ waiters' = waiters /\ capacity' = capacity
        /\ pending_coalesced_keys' = pending_coalesced_keys /\ pending' = pending
    BY <1>7 DEF CloseState, CloseSemaphore, CloseNotify, WorkerLoop, WorkerScan, WorkerPoll,
                WorkerNotified, WorkerSlept, WorkerReserve, WorkerAborts, Receive, DropOutput,
                vars, stateVars, semVars, outVars, history
  <2>2. /\ Positions' = Positions
        /\ \A i \in Positions : \A c, s : Has(pending'[i], c, s) <=> Has(pending[i], c, s)
    BY <2>1 DEF Positions
  <2> QED
    BY <2>1, <2>2, CountsStay
<1> QED
  BY <1>1, <1>2, <1>3, <1>4, <1>5, <1>6, <1>7 DEF Next, Producer, Worker

\* The counts are right in every reachable state.
THEOREM CountInvariant == Spec => [](IndInv /\ CountInv)
BY InitIndInv, NextIndInv, InitCountInv, NextCountInv, PTL DEF Spec

\* PermitsConserved: each permit of durable_capacity is free, in the hands of one
\* offer, or behind one queued durable event, whichever offers are cancelled,
\* refused by close, queued or popped.
THEOREM NoPermitLeaks == Spec => []PermitsConserved
<1>1. IndInv /\ CountInv => PermitsConserved
  <2> SUFFICES ASSUME IndInv, CountInv PROVE PermitsConserved
    OBVIOUS
  <2>1. DOMAIN pending = Positions /\ pending \in Seq(Segment)
    BY DEF IndInv, TypeOK, Positions
  <2>2. \A i \in Positions : pending[i] \in Segment
    BY <2>1 DEF Positions
  <2>3. \A i \in Positions : i \in DurableSegments <=> <<i, Durable>> \in Slots({Durable})
    <3> SUFFICES ASSUME NEW i \in Positions
                 PROVE  i \in DurableSegments <=> <<i, Durable>> \in Slots({Durable})
      OBVIOUS
    <3>1. pending[i].kind = "durable" <=> \E s \in Nat : Has(pending[i], Durable, s)
      BY <2>2, ConstantsAssumption DEF Segment, Has
    <3> QED
      BY <2>1, <3>1, SlotPairs DEF DurableSegments
  <2> DEFINE S == Slots({Durable})
             f == [x \in S |-> x[1]]
  <2>4. \A x \in S : x[1] \in DurableSegments /\ x = <<x[1], Durable>>
    <3> SUFFICES ASSUME NEW x \in S PROVE x[1] \in DurableSegments /\ x = <<x[1], Durable>>
      OBVIOUS
    <3>1. PICK i \in Positions, d \in {Durable} : x = <<i, d>>
      BY SlotPairs
    <3> QED
      BY <2>3, <3>1
  <2>5. \A i \in DurableSegments : <<i, Durable>> \in S
    BY <2>1, <2>3 DEF DurableSegments
  <2> HIDE DEF S
  <2>6. f \in [S -> DurableSegments] /\ DOMAIN f = S
    BY <2>4
  <2>7. \A x, y \in S : f[x] = f[y] => x = y
    BY <2>4
  <2>8. \A i \in DurableSegments : \E x \in S : f[x] = i
    <3> SUFFICES ASSUME NEW i \in DurableSegments PROVE f[<<i, Durable>>] = i
      BY <2>5
    <3> QED
      BY <2>5
  <2> HIDE DEF f
  <2>9. f \in Bijection(S, DurableSegments)
    BY <2>6, <2>7, <2>8 DEF Bijection, Injection, IsInjective, Surjection
  <2>10. Cardinality(DurableSegments) = Cardinality(S)
    BY <2>9, FS_Bijection DEF ExistsBijection, CountInv, Finite, S
  <2> QED
    BY <2>10 DEF CountInv, Counted, Holders, PermitsConserved, S
<1> QED
  BY <1>1, CountInvariant, PTL

\* KeysCounted: pending_coalesced_keys is the number of keys of all segments and
\* stays within the configured limit; its saturating_sub never saturates.
THEOREM KeysAreCounted == Spec => []KeysCounted
<1>1. IndInv /\ CountInv => KeysCounted
  <2> SUFFICES ASSUME IndInv, CountInv PROVE KeysCounted
    OBVIOUS
  <2>1. DOMAIN pending = Positions /\ \A i \in Positions : pending[i] \in Segment
    BY DEF IndInv, TypeOK, Positions
  <2>2. ASSUME NEW i \in Positions, NEW k \in Keys
        PROVE  pending[i].kind = "coalesced" /\ pending[i].by_key[k] # {} <=>
                   \E s \in Nat : Has(pending[i], k, s)
    BY <2>1, ConstantsAssumption DEF Segment, Has
  <2>3. Slots(Keys) = {ik \in (DOMAIN pending) \X Keys :
                          /\ pending[ik[1]].kind = "coalesced"
                          /\ pending[ik[1]].by_key[ik[2]] # {}}
    BY <2>1, <2>2 DEF Slots
  <2> QED
    BY <2>3 DEF CountInv, Counted, KeysCounted
<1> QED
  BY <1>1, CountInvariant, PTL
-----------------------------------------------------------------------------
(***************************************************************************)
(* The refinement.                                                         *)
(***************************************************************************)
\* An accepted offer that was not emitted is in the queue.
LEMMA WaitingIsQueued ==
    ASSUME IndInv, NEW t \in Stream!Waiting
    PROVE  /\ t \in 1..Len(log) /\ t \in Nat
           /\ \E i \in Positions, c \in Class : Has(pending[i], c, t) /\ log[t] = c
<1>1. DOMAIN log = 1..Len(log) /\ DOMAIN emitted = 1..Len(emitted)
  BY DEF IndInv, TypeOK
<1>2. t \in 1..Len(log) /\ t \in Nat /\ ~\E e \in 1..Len(emitted) : t \in emitted[e]
  BY <1>1 DEF Stream!Waiting, Stream!Emitted
<1>3. PICK i \in Positions, c \in Class : Has(pending[i], c, t)
  BY <1>2 DEF IndInv, OrderInv, AllAccounted
<1>4. log[t] = c
  BY <1>2, <1>3 DEF IndInv, OrderInv, HeldIsLogged
<1> QED
  BY <1>2, <1>3, <1>4

\* What is queued was not emitted.
LEMMA QueuedIsWaiting ==
    ASSUME IndInv, NEW i \in Positions, NEW c \in Class, NEW s \in Nat, Has(pending[i], c, s)
    PROVE  s \in Stream!Waiting
<1>1. DOMAIN log = 1..Len(log) /\ DOMAIN emitted = 1..Len(emitted)
  BY DEF IndInv, TypeOK
<1>2. s \in 1..Len(log) /\ log[s] = c
  BY DEF IndInv, OrderInv, HeldIsLogged
<1>3. ASSUME NEW e \in 1..Len(emitted), s \in emitted[e] PROVE FALSE
  <2>1. EmittedFirst
    BY DEF IndInv, OrderInv
  <2>2. s < s
    BY <1>2, <1>3, <2>1, EmittedFirstInstance
  <2> QED
    BY <2>2
<1> QED
  BY <1>1, <1>2, <1>3 DEF Stream!Waiting, Stream!Emitted

\* Every step of the ingress is a step of the stream or leaves it alone.
LEMMA StepRefines ==
    ASSUME IndInv, [Next]_vars
    PROVE  [Stream!Next]_(Stream!vars)
<1>1. CASE \E p \in Producers : AcceptDurable(p)
  <2>1. Stream!Accept(Durable) /\ Durable \in Stream!Class
    BY <1>1 DEF AcceptDurable, Stream!Accept, Stream!Class
  <2> QED
    BY <2>1 DEF Stream!Next
<1>2. CASE \E p \in Producers, k \in Keys : AcceptCoalesced(p, k)
  <2>1. PICK k \in Keys : Stream!Accept(k)
    BY <1>2 DEF AcceptCoalesced, Stream!Accept
  <2> QED
    BY <2>1 DEF Stream!Next, Stream!Class
<1>3. CASE PopDurable
  <2> DEFINE s == pending[1].event
  <2>1. /\ pending \in Seq(Segment) /\ pending # << >> /\ SegmentsOrdered
        /\ 1 \in Positions /\ Durable \in Class
    <3>1. pending \in Seq(Segment) /\ pending # << >> /\ SegmentsOrdered
      BY <1>3 DEF IndInv, TypeOK, OrderInv, WorkerHasFront, PopDurable
    <3> QED
      BY <3>1, FrontAndRest DEF Positions, Class
  <2>2. /\ pending[1].kind = "durable" /\ s \in Nat /\ pending[1] \in Segment
        /\ emitted' = Append(emitted, {s}) /\ log' = log
    <3>1. pending[1].kind = "durable" /\ emitted' = Append(emitted, {s}) /\ log' = log
      BY <1>3, <2>1, FrontAndRest DEF PopDurable
    <3>2. pending[1] \in Segment
      BY <2>1, FrontAndRest
    <3> QED
      BY <3>1, <3>2 DEF Segment
  <2>3. Has(pending[1], Durable, s)
    BY <2>2 DEF Has
  <2>4. s \in Stream!Waiting /\ log[s] = Durable
    <3>1. s \in Stream!Waiting
      BY <2>1, <2>2, <2>3, QueuedIsWaiting
    <3>2. log[s] = Durable
      BY <2>1, <2>2, <2>3 DEF IndInv, OrderInv, HeldIsLogged
    <3> QED
      BY <3>1, <3>2
  <2>5. ASSUME NEW t \in Stream!Waiting PROVE s <= t
    <3>1. t \in Nat /\ \E i \in Positions, c \in Class : Has(pending[i], c, t)
      BY WaitingIsQueued
    <3>2. PICK i \in Positions, c \in Class : Has(pending[i], c, t)
      BY <3>1
    <3>3. CASE i = 1
      BY <3>2, <3>3, <2>2 DEF Has
    <3>4. CASE i # 1
      <4>1. 1 < i
        BY <3>4 DEF Positions
      <4>2. s < t
        BY <4>1, <3>1, <3>2, <2>1, <2>2, <2>3, SegmentsOrderedInstance
      <4> QED
        BY <4>2, <3>1, <2>2
    <3> QED
      BY <3>3, <3>4
  <2> HIDE DEF s
  <2>6. Stream!EmitDurable(s)
    BY <2>2, <2>4, <2>5 DEF Stream!EmitDurable
  <2> QED
    BY <2>4, <2>6 DEF Stream!Next
<1>4. CASE PopCoalesced
  <2> DEFINE front == pending[1]
             k == FirstKey(front)
             S == front.by_key[k]
  <2>1. /\ pending \in Seq(Segment) /\ pending # << >> /\ SegmentsOrdered /\ 1 \in Positions
    <3>1. pending \in Seq(Segment) /\ pending # << >> /\ SegmentsOrdered
      BY <1>4 DEF IndInv, TypeOK, OrderInv, WorkerHasFront, PopCoalesced
    <3> QED
      BY <3>1, FrontAndRest DEF Positions
  <2>2. /\ front \in Segment /\ front.kind = "coalesced" /\ SegmentWF(front)
        /\ emitted' = Append(emitted, S) /\ log' = log
    BY <1>4, <2>1, FrontAndRest DEF PopCoalesced, IndInv, SegmentsWF, Positions
  <2>3. k \in Keys /\ k \in Class /\ S # {} /\ S \subseteq Nat
    BY <2>2, PoppedSegment DEF Class
  <2>4. \A s \in S : Has(front, k, s)
    BY <2>2, <2>3 DEF Has
  <2>5. \A s \in S : s \in Stream!Waiting /\ log[s] = k
    <3> SUFFICES ASSUME NEW s \in S PROVE s \in Stream!Waiting /\ log[s] = k
      OBVIOUS
    <3>1. s \in Nat /\ Has(pending[1], k, s)
      BY <2>3, <2>4
    <3>2. s \in Stream!Waiting
      BY <3>1, <2>1, <2>3, QueuedIsWaiting
    <3>3. log[s] = k
      BY <3>1, <2>1, <2>3 DEF IndInv, OrderInv, HeldIsLogged
    <3> QED
      BY <3>2, <3>3
  <2>6. ASSUME NEW s \in S, NEW t \in Stream!Waiting \ S, t < s
        PROVE  log[t] \in Keys \ {k}
    <3>1. PICK i \in Positions, c \in Class : Has(pending[i], c, t) /\ log[t] = c
      BY WaitingIsQueued
    <3>2. t \in Nat /\ s \in Nat
      BY WaitingIsQueued, <2>3
    <3>3. CASE i # 1
      <4>1. 1 < i
        BY <3>3 DEF Positions
      <4>2. Has(pending[1], k, s) /\ s \in Nat
        BY <2>4, <3>2
      <4>3. s < t
        BY <4>1, <4>2, <3>1, <3>2, <2>1, <2>3, SegmentsOrderedInstance
      <4> QED
        BY <4>3, <3>2, <2>6
    <3>4. CASE i = 1
      BY <3>1, <3>4, <2>2, <2>6 DEF Has
    <3> QED
      BY <3>3, <3>4
  <2> HIDE DEF k, S
  <2>7. Stream!EmitMerged(k, S)
    BY <2>2, <2>5, <2>6 DEF Stream!EmitMerged
  <2>8. S \in (SUBSET Stream!Waiting) \ {{}}
    BY <2>3, <2>5
  <2> QED
    BY <2>3, <2>7, <2>8 DEF Stream!Next
<1>5. CASE UNCHANGED <<log, emitted>>
  BY <1>5 DEF Stream!vars
<1>6. \/ \E p \in Producers : AcceptDurable(p)
      \/ \E p \in Producers, k \in Keys : AcceptCoalesced(p, k)
      \/ PopDurable \/ PopCoalesced
      \/ UNCHANGED <<log, emitted>>
  BY DEF Next, Producer, Worker, vars, stateVars, semVars, outVars, history,
         AwaitPermit, AbandonWait, NotifyWorker, GrantPermit, CloseState, CloseSemaphore,
         CloseNotify, WorkerLoop, WorkerScan, WorkerPoll, WorkerNotified, WorkerSlept,
         WorkerReserve, WorkerAborts, Receive, DropOutput, ElapseFront
<1> QED
  BY <1>1, <1>2, <1>3, <1>4, <1>5, <1>6

\* The ingress, with its queue, semaphore, timer and worker, implements the
\* abstract event stream.
THEOREM Refinement == Spec => StreamSpec
<1>1. Init => Stream!Init
  BY DEF Init, Stream!Init
<1>2. IndInv /\ [Next]_vars => [Stream!Next]_(Stream!vars)
  BY StepRefines
<1> QED
  BY <1>1, <1>2, InductiveInvariant, PTL DEF Spec, StreamSpec, Stream!Spec
=============================================================================
