----------------------- MODULE SessionOutbound_proofs -----------------------
(***************************************************************************)
(* Proofs about SessionOutbound, for any senders, messages and limits: no  *)
(* waiting send is forgotten, the accounts are exactly the charges of what *)
(* was admitted and not let go, the reserve for replies is never given to  *)
(* data, and no sender publishes to a receiver that is gone.               *)
(*                                                                         *)
(* The accounts are sums over the envelopes of a channel.  A sum is not    *)
(* defined by recursion here: Holds says that there is a function of       *)
(* suffix sums, which a push extends and a pop shifts.                     *)
(***************************************************************************)
EXTENDS SessionOutbound, TLAPS

-----------------------------------------------------------------------------
(* The inductive invariant. *)

Usage == [count : Int, bytes : Int, data_count : Int, data_bytes : Int,
          closed : BOOLEAN, aborted : BOOLEAN]

SendRecord == [pc : {"idle", "try", "publish", "await", "evict"},
               msg : Messages \union {Nothing}, enabled : BOOLEAN, woken : BOOLEAN]

WriterRecord == [pc : {"poll", "polled", "sealAudio", "write", "drop", "abandon", "done"},
                 lane : Lanes, held : Messages \union {Nothing}]

Typed ==
    /\ usage \in [Lanes -> Usage]
    /\ lock \in [Lanes -> Senders \union {Nobody}]
    /\ queue \in [Lanes -> Seq(Messages)]
    /\ rx \in [Lanes -> {"open", "closed", "dropped"}]
    /\ sender \in [Senders -> SendRecord]
    /\ writer \in WriterRecord

\* A send has its message; one that waits was registered when it tried; one
\* that publishes holds the mutex of its lane.
SendersSound ==
    \A s \in Senders :
        /\ sender[s].pc # "idle" => sender[s].msg \in Messages
        /\ sender[s].pc = "await" => sender[s].enabled
        /\ sender[s].pc = "try" /\ sender[s].msg.waits => sender[s].enabled
        /\ sender[s].pc = "publish" => lock[sender[s].msg.lane] = s

\* A mutex is held across steps only by a send that publishes.
LockSound ==
    \A l \in Lanes : lock[l] # Nobody =>
        sender[lock[l]].pc = "publish" /\ sender[lock[l]].msg.lane = l

WriterSound ==
    /\ writer.pc = "write" <=> writer.held # Nothing
    /\ writer.pc = "abandon" => usage[writer.lane].closed

\* The account is closed before the receiver is, and under the mutex.
ClosedSound ==
    \A l \in Lanes :
        /\ rx[l] # "open" => usage[l].closed
        /\ usage[l].closed => lock[l] = Nobody

Shape == Typed /\ SendersSound /\ LockSound /\ WriterSound /\ ClosedSound

Kinds == {"slots", "bytes"}

\* What a message takes of the slots or bytes of a class.
Weight(c, k, m) == IF m.class # c THEN 0 ELSE IF k = "slots" THEN 1 ELSE m.bytes

\* rest[i] is what the messages of q from the i-th on take; where it is not
\* zero one of them is of the class.
Sums(q, c, k, rest) ==
    /\ rest \in [1 .. Len(q) + 1 -> Nat]
    /\ rest[Len(q) + 1] = 0
    /\ \A i \in 1 .. Len(q) : rest[i] = rest[i + 1] + Weight(c, k, q[i])
    /\ \A i \in 1 .. Len(q) : rest[i] # 0 => \E j \in i .. Len(q) : q[j].class = c

\* The messages of q take n in all.
Holds(q, c, k, n) == \E rest : Sums(q, c, k, rest) /\ rest[1] = n

\* What the account of a lane says, and the part of it that is not for messages
\* of the channel.
Share(u, c, k) ==
    IF k = "slots" THEN IF c = "data" THEN u.data_count ELSE u.count - u.data_count
                   ELSE IF c = "data" THEN u.data_bytes ELSE u.bytes - u.data_bytes

AtWriter(l, c, k) ==
    IF writer.held # Nothing /\ writer.lane = l THEN Weight(c, k, writer.held) ELSE 0

AtSender(l, c, k) == IF lock[l] # Nobody THEN Weight(c, k, sender[lock[l]].msg) ELSE 0

InChannel(l, c, k) == Share(usage[l], c, k) - AtWriter(l, c, k) - AtSender(l, c, k)

\* The account of a lane is the sum of the charges of what is outstanding.
Accounted ==
    \A l \in Lanes, c \in Classes, k \in Kinds : Holds(queue[l], c, k, InChannel(l, c, k))

\* No account exceeds its limits.
Bounded ==
    \A l \in Lanes :
        /\ usage[l].count <= Count /\ usage[l].bytes <= Bytes
        /\ usage[l].data_count <= DataCount /\ usage[l].data_bytes <= DataBytes

IInv == Shape /\ NoLostWakeup /\ Accounted /\ Bounded

-----------------------------------------------------------------------------
(* Sums over a channel. *)

\* A message of the model has its fields, and a weight.
LEMMA MessageFields ==
    ASSUME NEW m \in Messages
    PROVE  /\ m.lane \in Lanes /\ m.class \in Classes /\ m.bytes \in Nat
           /\ m.close \in BOOLEAN /\ m.waits \in BOOLEAN /\ m # Nothing
           /\ \A c \in Classes, k \in Kinds : Weight(c, k, m) \in Nat
  <1>1. /\ m.lane \in Lanes /\ m.class \in Classes /\ m.bytes \in Nat
        /\ m.close \in BOOLEAN /\ m.waits \in BOOLEAN /\ m # Nothing
    BY MessagesAssumption, NothingAssumption
  <1> QED  BY <1>1 DEF Weight

\* An empty channel takes nothing.
LEMMA HoldsEmpty ==
    ASSUME NEW c \in Classes, NEW k \in Kinds
    PROVE  /\ Holds(<<>>, c, k, 0)
           /\ \A n : Holds(<<>>, c, k, n) => n = 0
  <1>1. Len(<<>>) = 0
    OBVIOUS
  <1>2. Sums(<<>>, c, k, [i \in 1 .. 1 |-> 0]) /\ [i \in 1 .. 1 |-> 0][1] = 0
    BY <1>1 DEF Sums
  <1>3. ASSUME NEW n, NEW rest, Sums(<<>>, c, k, rest), rest[1] = n PROVE n = 0
    BY <1>1, <1>3 DEF Sums
  <1> QED  BY <1>2, <1>3 DEF Holds

\* A push adds what the message takes.
LEMMA HoldsAppend ==
    ASSUME NEW q \in Seq(Messages), NEW m \in Messages, NEW c \in Classes, NEW k \in Kinds,
           NEW n, Holds(q, c, k, n)
    PROVE  Holds(Append(q, m), c, k, n + Weight(c, k, m))
  <1> DEFINE p == Append(q, m)
             w == Weight(c, k, m)
  <1>1. PICK rest : Sums(q, c, k, rest) /\ rest[1] = n
    BY DEF Holds
  <1> DEFINE more == [i \in 1 .. Len(q) + 2 |-> IF i = Len(q) + 2 THEN 0 ELSE rest[i] + w]
  <1>2. /\ Len(q) \in Nat /\ Len(p) = Len(q) + 1 /\ p[Len(q) + 1] = m
        /\ \A i \in 1 .. Len(q) : p[i] = q[i]
    OBVIOUS
  <1>3. w \in Nat /\ (w # 0 => m.class = c)
    BY MessageFields DEF Weight
  <1>4. /\ rest \in [1 .. Len(q) + 1 -> Nat] /\ rest[Len(q) + 1] = 0
        /\ \A i \in 1 .. Len(q) : rest[i] = rest[i + 1] + Weight(c, k, q[i])
        /\ \A i \in 1 .. Len(q) : rest[i] # 0 => \E j \in i .. Len(q) : q[j].class = c
    BY <1>1 DEF Sums
  <1>w. w = Weight(c, k, m)
    OBVIOUS
  <1> HIDE DEF p, w
  <1>5. more \in [1 .. Len(p) + 1 -> Nat] /\ more[Len(p) + 1] = 0 /\ more[1] = n + w
    BY <1>1, <1>2, <1>3, <1>4
  <1>6. ASSUME NEW i \in 1 .. Len(p)
        PROVE  more[i] = more[i + 1] + Weight(c, k, p[i])
    <2>1. CASE i = Len(p)
      BY <1>2, <1>3, <1>4, <1>w, <2>1
    <2>2. CASE i # Len(p)
      <3>1. i \in 1 .. Len(q) /\ i + 1 \in 1 .. Len(q) + 1 /\ p[i] = q[i]
        BY <1>2, <2>2
      <3>2. more[i] = rest[i] + w /\ more[i + 1] = rest[i + 1] + w
        BY <1>2, <3>1
      <3>3. rest[i] \in Nat /\ rest[i + 1] \in Nat
        BY <1>2, <1>4, <3>1
      <3>5. rest[i] = rest[i + 1] + Weight(c, k, q[i])
        BY <1>4, <3>1
      <3>4. Weight(c, k, p[i]) \in Nat
        BY <3>1, MessageFields
      <3> HIDE DEF more
      <3> QED  BY <1>3, <3>1, <3>2, <3>3, <3>4, <3>5
    <2> QED  BY <2>1, <2>2
  <1>7. ASSUME NEW i \in 1 .. Len(p), more[i] # 0
        PROVE  \E j \in i .. Len(p) : p[j].class = c
    <2>1. CASE w # 0
      BY <1>2, <1>3, <2>1
    <2>2. CASE w = 0
      <3>1. i \in 1 .. Len(q) + 1 /\ more[i] = rest[i] + w /\ rest[i] \in Nat
        BY <1>2, <1>4
      <3>2. rest[i] # 0 /\ i \in 1 .. Len(q)
        BY <1>2, <1>4, <1>7, <2>2, <3>1
      <3>3. PICK j \in i .. Len(q) : q[j].class = c
        BY <1>4, <3>2
      <3>4. j \in i .. Len(p) /\ p[j] = q[j]
        BY <1>2, <3>2
      <3> QED  BY <3>3, <3>4
    <2> QED  BY <2>1, <2>2
  <1>8. Sums(p, c, k, more)
    BY <1>5, <1>6, <1>7 DEF Sums
  <1>9. Holds(p, c, k, n + w)
    <2> HIDE DEF more
    <2> QED  BY <1>5, <1>8 DEF Holds
  <1> QED  BY <1>9 DEF p, w

\* A pop takes away what the first message takes.
LEMMA HoldsTail ==
    ASSUME NEW q \in Seq(Messages), q # <<>>, NEW c \in Classes, NEW k \in Kinds,
           NEW n, Holds(q, c, k, n)
    PROVE  Holds(Tail(q), c, k, n - Weight(c, k, Head(q)))
  <1> DEFINE p == Tail(q)
  <1>1. PICK rest : Sums(q, c, k, rest) /\ rest[1] = n
    BY DEF Holds
  <1> DEFINE less == [i \in 1 .. Len(q) |-> rest[i + 1]]
  <1>2. /\ Len(q) \in Nat \ {0} /\ Len(p) = Len(q) - 1 /\ Head(q) = q[1] /\ q[1] \in Messages
        /\ \A i \in 1 .. Len(p) : p[i] = q[i + 1]
    OBVIOUS
  <1>3. /\ rest \in [1 .. Len(q) + 1 -> Nat] /\ rest[Len(q) + 1] = 0
        /\ \A i \in 1 .. Len(q) : rest[i] = rest[i + 1] + Weight(c, k, q[i])
        /\ \A i \in 1 .. Len(q) : rest[i] # 0 => \E j \in i .. Len(q) : q[j].class = c
    BY <1>1 DEF Sums
  <1> HIDE DEF p
  <1>4. less \in [1 .. Len(p) + 1 -> Nat] /\ less[Len(p) + 1] = 0
    BY <1>2, <1>3
  <1>5. less[1] = n - Weight(c, k, Head(q))
    <2>1. 1 \in 1 .. Len(q) /\ less[1] = rest[2] /\ rest[2] \in Nat /\ rest[1] = n
      BY <1>1, <1>2, <1>3
    <2>2. rest[1] = rest[2] + Weight(c, k, q[1])
      BY <1>3, <2>1
    <2>3. Weight(c, k, q[1]) \in Nat
      BY <1>2, MessageFields
    <2> HIDE DEF less
    <2> QED  BY <1>2, <2>1, <2>2, <2>3
  <1>6. ASSUME NEW i \in 1 .. Len(p)
        PROVE  less[i] = less[i + 1] + Weight(c, k, p[i])
    <2>1. i + 1 \in 1 .. Len(q) /\ i \in 1 .. Len(q) /\ p[i] = q[i + 1]
      BY <1>2
    <2>2. less[i] = rest[i + 1] /\ less[i + 1] = rest[i + 1 + 1]
      BY <2>1
    <2> QED  BY <1>3, <2>1, <2>2
  <1>7. ASSUME NEW i \in 1 .. Len(p), less[i] # 0
        PROVE  \E j \in i .. Len(p) : p[j].class = c
    <2>1. i + 1 \in 1 .. Len(q) /\ i \in 1 .. Len(q) /\ less[i] = rest[i + 1]
      BY <1>2
    <2>2. PICK j \in i + 1 .. Len(q) : q[j].class = c
      BY <1>3, <1>7, <2>1
    <2>3. j - 1 \in i .. Len(p) /\ p[j - 1] = q[j]
      BY <1>2, <2>1
    <2> QED  BY <2>2, <2>3
  <1>8. Sums(p, c, k, less)
    BY <1>4, <1>6, <1>7 DEF Sums
  <1>9. Holds(p, c, k, n - Weight(c, k, Head(q)))
    <2> HIDE DEF less
    <2> QED  BY <1>5, <1>8 DEF Holds
  <1> QED  BY <1>9 DEF p

\* A channel takes a natural number, and nothing of a class of which it has no
\* message.
LEMMA HoldsNat ==
    ASSUME NEW q \in Seq(Messages), NEW c \in Classes, NEW k \in Kinds, NEW n,
           Holds(q, c, k, n)
    PROVE  n \in Nat /\ ((\A i \in 1 .. Len(q) : q[i].class # c) => n = 0)
  <1>1. PICK rest : Sums(q, c, k, rest) /\ rest[1] = n
    BY DEF Holds
  <1>2. Len(q) \in Nat
    OBVIOUS
  <1>3. n \in Nat
    BY <1>1, <1>2 DEF Sums
  <1>4. ASSUME \A i \in 1 .. Len(q) : q[i].class # c PROVE n = 0
    <2>1. CASE Len(q) = 0
      BY <1>1, <2>1 DEF Sums
    <2>2. CASE Len(q) # 0
      BY <1>1, <1>2, <1>4, <2>2 DEF Sums
    <2> QED  BY <2>1, <2>2
  <1> QED  BY <1>3, <1>4

-----------------------------------------------------------------------------
(* What the steps have in common. *)

SenderWaits(s) == sender[s].pc = "await" /\ sender[s].enabled /\ ~sender[s].woken

Notified(l) == \E a \in Notifiers : <<a, l>> \in owed

\* The charges of the accounts stay as they are.
SameCharges ==
    /\ usage' \in [Lanes -> Usage]
    /\ \A l \in Lanes :
        /\ usage'[l].count = usage[l].count /\ usage'[l].bytes = usage[l].bytes
        /\ usage'[l].data_count = usage[l].data_count
        /\ usage'[l].data_bytes = usage[l].data_bytes

\* A send moves on, without the mutex and without waiting unseen.
Moved(s, r) ==
    /\ sender' = [sender EXCEPT ![s] = r]
    /\ r \in SendRecord
    /\ sender[s].pc # "publish" /\ r.pc # "publish"
    /\ r.pc # "idle" => r.msg \in Messages
    /\ r.pc = "await" => r.enabled
    /\ r.pc = "try" /\ r.msg.waits => r.enabled

\* The messages that publish stay what they are.
SamePublished == \A l \in Lanes : lock[l] # Nobody => sender'[lock[l]] = sender[lock[l]]

\* A send that moves on disturbs nobody who publishes.
LEMMA SendMoves ==
    ASSUME Shape, NEW s \in Senders, NEW r, Moved(s, r), lock' = lock
    PROVE  /\ sender' \in [Senders -> SendRecord] /\ SendersSound' /\ LockSound'
           /\ SamePublished
           /\ sender'[s] = r /\ \A t \in Senders \ {s} : sender'[t] = sender[t]
  <1>1. /\ sender' \in [Senders -> SendRecord]
        /\ sender'[s] = r /\ \A t \in Senders \ {s} : sender'[t] = sender[t]
    BY DEF Moved, Shape, Typed
  <1>2. \A l \in Lanes : lock[l] # Nobody => lock[l] \in Senders /\ lock[l] # s
    BY DEF Moved, Shape, Typed, LockSound
  <1>3. SamePublished
    BY <1>1, <1>2 DEF SamePublished
  <1>4. LockSound'
    BY <1>3 DEF Shape, LockSound, SamePublished
  <1>5. SendersSound'
    <2> SUFFICES ASSUME NEW t \in Senders
                 PROVE  /\ sender'[t].pc # "idle" => sender'[t].msg \in Messages
                        /\ sender'[t].pc = "await" => sender'[t].enabled
                        /\ sender'[t].pc = "try" /\ sender'[t].msg.waits => sender'[t].enabled
                        /\ sender'[t].pc = "publish" => lock'[sender'[t].msg.lane] = t
      BY DEF SendersSound
    <2>1. CASE t = s
      BY <1>1, <2>1 DEF Moved
    <2>2. CASE t # s
      <3>1. sender'[t] = sender[t]
        BY <1>1, <2>2
      <3> QED  BY <3>1 DEF Shape, SendersSound
    <2> QED  BY <2>1, <2>2
  <1> QED  BY <1>1, <1>3, <1>4, <1>5

\* Nobody sends: nothing of the senders changes.
LEMMA SendersStay ==
    ASSUME Shape, sender' = sender, lock' = lock
    PROVE  /\ sender' \in [Senders -> SendRecord] /\ SendersSound' /\ LockSound'
           /\ SamePublished
  BY DEF Shape, Typed, SendersSound, LockSound, SamePublished

\* Charges that stay are still those of what is outstanding.
LEMMA AccountsStay ==
    ASSUME Shape, Accounted, Bounded, SameCharges, SamePublished,
           queue' = queue, lock' = lock,
           writer' = writer \/ (writer.held = Nothing /\ writer'.held = Nothing)
    PROVE  Accounted' /\ Bounded'
  <1>1. ASSUME NEW l \in Lanes, NEW c \in Classes, NEW k \in Kinds
        PROVE  InChannel(l, c, k)' = InChannel(l, c, k)
    <2>1. Share(usage'[l], c, k) = Share(usage[l], c, k)
      BY DEF SameCharges, Share
    <2>2. AtWriter(l, c, k)' = AtWriter(l, c, k)
      BY DEF AtWriter
    <2>3. AtSender(l, c, k)' = AtSender(l, c, k)
      BY DEF AtSender, SamePublished
    <2> QED  BY <2>1, <2>2, <2>3 DEF InChannel
  <1>2. Accounted'
    <2> SUFFICES ASSUME NEW l \in Lanes, NEW c \in Classes, NEW k \in Kinds
                 PROVE  Holds(queue'[l], c, k, InChannel(l, c, k)')
      BY DEF Accounted
    <2>1. Holds(queue[l], c, k, InChannel(l, c, k))
      BY DEF Accounted
    <2> QED  BY <1>1, <2>1
  <1>3. Bounded'
    BY DEF Bounded, SameCharges
  <1> QED  BY <1>2, <1>3

\* On lane l nobody is forgotten: a notification comes, or nothing changed that
\* a waiting send would like to know.
Heard(l) ==
    \/ Notified(l)'
    \/ /\ ~Notified(l)
       /\ ~Refuses(l) => ~Refuses(l)'
       /\ \A m \in Messages : ~Refuses(l) /\ Full(usage[l], m) => Full(usage'[l], m)

\* What NoLostWakeup asks of a send that waits.
Excused(s) ==
    \/ Notified(sender[s].msg.lane)
    \/ ~Refuses(sender[s].msg.lane) /\ Full(usage[sender[s].msg.lane], sender[s].msg)

LEMMA WakeupsRead == NoLostWakeup <=> \A s \in Senders : SenderWaits(s) => Excused(s)
  BY DEF NoLostWakeup, SenderWaits, Excused, Notified

LEMMA WakeupsStay ==
    ASSUME Shape, NoLostWakeup, \A l \in Lanes : Heard(l),
           \A s \in Senders : SenderWaits(s)' => sender'[s] = sender[s] \/ Excused(s)'
    PROVE  NoLostWakeup'
  <1>1. ASSUME NEW s \in Senders, SenderWaits(s)', sender'[s] = sender[s] PROVE Excused(s)'
    <2> DEFINE m == sender[s].msg
    <2>1. sender'[s] = sender[s] /\ SenderWaits(s)
      BY <1>1 DEF SenderWaits
    <2>2. m \in Messages /\ m.lane \in Lanes
      BY <2>1, MessageFields DEF Shape, SendersSound, SenderWaits
    <2>3. Notified(m.lane) \/ (~Refuses(m.lane) /\ Full(usage[m.lane], m))
      BY <2>1, WakeupsRead DEF Excused
    <2>4. Heard(m.lane)
      BY <2>2
    <2>5. Notified(m.lane)' \/ (~Refuses(m.lane)' /\ Full(usage'[m.lane], m))
      BY <2>2, <2>3, <2>4 DEF Heard
    <2> QED  BY <2>1, <2>5 DEF Excused, Notified, Refuses
  <1> QED  BY <1>1 DEF NoLostWakeup, SenderWaits, Excused, Notified

\* The lane is closed, under its mutex, and its waiters will be notified.
Closes(a, l) ==
    /\ lock[l] = Nobody /\ SameCharges
    /\ usage'[l].closed
    /\ \A x \in Lanes \ {l} : usage'[x] = usage[x]
    /\ owed' = owed \union {<<a, l>>}

LEMMA CloseOrAbort ==
    ASSUME Typed, NEW a \in Notifiers, NEW l \in Lanes, CloseLane(a, l) \/ AbortLane(a, l)
    PROVE  Closes(a, l)
  <1>1. usage[l] \in Usage
    BY DEF Typed
  <1>2. CASE CloseLane(a, l)
    BY <1>1, <1>2 DEF CloseLane, Closes, SameCharges, Typed, Usage
  <1>3. CASE AbortLane(a, l)
    BY <1>1, <1>3 DEF AbortLane, Closes, SameCharges, Typed, Usage
  <1> QED  BY <1>2, <1>3

\* The fields of an account after a charge or its return.
LEMMA ChargedFields ==
    ASSUME NEW u \in Usage, NEW m \in Messages, NEW n \in {-1, 1}
    PROVE  /\ Charged(u, m, n) \in Usage
           /\ Charged(u, m, n).closed = u.closed
           /\ Charged(u, m, n).count = u.count + n
           /\ Charged(u, m, n).bytes = u.bytes + n * m.bytes
           /\ m.class = "data" => /\ Charged(u, m, n).data_count = u.data_count + n
                                  /\ Charged(u, m, n).data_bytes = u.data_bytes + n * m.bytes
           /\ m.class # "data" => /\ Charged(u, m, n).data_count = u.data_count
                                  /\ Charged(u, m, n).data_bytes = u.data_bytes
  <1> DEFINE x == n * m.bytes
             d == IF m.class = "data" THEN n ELSE 0
             y == d * m.bytes
             cn == u.count + n
             by == u.bytes + x
             dc == u.data_count + d
             db == u.data_bytes + y
             v == [u EXCEPT !.count = cn, !.bytes = by, !.data_count = dc, !.data_bytes = db]
  <1>1. Charged(u, m, n) = v
    BY Zenon DEF Charged
  <1>2. x \in Int /\ n \in Int /\ m.bytes \in Nat
    BY MessageFields
  <1>3. d \in Int /\ y \in Int /\ (m.class = "data" => d = n /\ y = x)
        /\ (m.class # "data" => d = 0 /\ y = 0)
    <2>1. CASE m.class = "data"
      BY <1>2, <2>1
    <2>2. CASE m.class # "data"
      <3>1. d = 0 /\ 0 * m.bytes = 0
        BY <1>2, <2>2
      <3> QED  BY <2>2, <3>1
    <2> QED  BY <2>1, <2>2
  <1> HIDE DEF x, d, y
  <1>4. /\ u.count \in Int /\ u.bytes \in Int /\ u.data_count \in Int /\ u.data_bytes \in Int
    BY DEF Usage
  <1>5. cn \in Int /\ by \in Int /\ dc \in Int /\ db \in Int
    BY <1>2, <1>3, <1>4
  <1> HIDE DEF cn, by, dc, db
  <1>6. /\ v \in Usage /\ v.closed = u.closed
        /\ v.count = cn /\ v.bytes = by /\ v.data_count = dc /\ v.data_bytes = db
    BY <1>5 DEF Usage
  <1> HIDE DEF v
  <1>8. /\ m.class = "data" => v.data_count = u.data_count + n /\ v.data_bytes = u.data_bytes + x
        /\ m.class # "data" => v.data_count = u.data_count /\ v.data_bytes = u.data_bytes
    <2>1. v.data_count = u.data_count + d /\ v.data_bytes = u.data_bytes + y
      BY <1>6 DEF dc, db
    <2>2. CASE m.class = "data"
      BY <1>3, <2>1, <2>2
    <2>3. CASE m.class # "data"
      BY <1>3, <1>4, <2>1, <2>3
    <2> QED  BY <2>2, <2>3
  <1> QED  BY <1>1, <1>6, <1>8 DEF x, cn, by

\* A charge is made in the class of its message and in no other.
LEMMA ChargedShare ==
    ASSUME NEW u \in Usage, NEW m \in Messages, NEW c \in Classes, NEW k \in Kinds
    PROVE  /\ Share(Charged(u, m, 1), c, k) = Share(u, c, k) + Weight(c, k, m)
           /\ Share(Charged(u, m, -1), c, k) = Share(u, c, k) - Weight(c, k, m)
  <1> DEFINE v == Charged(u, m, 1)
             w == Charged(u, m, -1)
  <1>1. m.bytes \in Nat /\ m.class \in Classes
    BY MessageFields
  <1>2. /\ u.count \in Int /\ u.bytes \in Int /\ u.data_count \in Int /\ u.data_bytes \in Int
    BY DEF Usage
  <1>3. /\ v.count = u.count + 1 /\ v.bytes = u.bytes + m.bytes
        /\ m.class = "data" => /\ v.data_count = u.data_count + 1
                               /\ v.data_bytes = u.data_bytes + m.bytes
        /\ m.class # "data" => v.data_count = u.data_count /\ v.data_bytes = u.data_bytes
    <2>1. 1 * m.bytes = m.bytes /\ 1 \in {-1, 1}
      BY <1>1
    <2> QED  BY <2>1, ChargedFields
  <1>4. /\ w.count = u.count - 1 /\ w.bytes = u.bytes - m.bytes
        /\ m.class = "data" => /\ w.data_count = u.data_count - 1
                               /\ w.data_bytes = u.data_bytes - m.bytes
        /\ m.class # "data" => w.data_count = u.data_count /\ w.data_bytes = u.data_bytes
    <2>1. (-1) * m.bytes = -m.bytes /\ -1 \in {-1, 1}
      BY <1>1
    <2>2. u.bytes + (-m.bytes) = u.bytes - m.bytes
          /\ u.data_bytes + (-m.bytes) = u.data_bytes - m.bytes
          /\ u.count + (-1) = u.count - 1 /\ u.data_count + (-1) = u.data_count - 1
      BY <1>1, <1>2
    <2>3. /\ w.count = u.count + (-1) /\ w.bytes = u.bytes + (-1) * m.bytes
          /\ m.class = "data" => /\ w.data_count = u.data_count + (-1)
                                 /\ w.data_bytes = u.data_bytes + (-1) * m.bytes
          /\ m.class # "data" => w.data_count = u.data_count /\ w.data_bytes = u.data_bytes
      BY <2>1, ChargedFields
    <2> QED  BY <2>1, <2>2, <2>3
  <1> HIDE DEF v, w
  <1>5. /\ Share(v, c, k) = Share(u, c, k) + Weight(c, k, m)
        /\ Share(w, c, k) = Share(u, c, k) - Weight(c, k, m)
    <2>1. CASE m.class = "data"
      BY <1>1, <1>2, <1>3, <1>4, <2>1 DEF Share, Weight, Classes, Kinds
    <2>2. CASE m.class = "reply"
      BY <1>1, <1>2, <1>3, <1>4, <2>2 DEF Share, Weight, Classes, Kinds
    <2> QED  BY <1>1, <2>1, <2>2 DEF Classes
  <1> QED  BY <1>5 DEF v, w

\* The accounts of all lanes when one of them is charged or gets a charge back.
LEMMA OneLaneCharged ==
    ASSUME Typed, NEW l \in Lanes, NEW m \in Messages, NEW n \in {-1, 1},
           usage' = [usage EXCEPT ![l] = Charged(@, m, n)]
    PROVE  /\ usage' \in [Lanes -> Usage] /\ usage'[l] = Charged(usage[l], m, n)
           /\ \A x \in Lanes \ {l} : usage'[x] = usage[x]
           /\ usage[l] \in Usage /\ usage'[l].closed = usage[l].closed
  <1>1. usage[l] \in Usage /\ usage \in [Lanes -> Usage]
    BY DEF Typed
  <1>2. Charged(usage[l], m, n) \in Usage /\ Charged(usage[l], m, n).closed = usage[l].closed
    BY <1>1, ChargedFields
  <1> QED  BY <1>1, <1>2

\* A release gives back what the message takes.
LEMMA ReleaseGivesBack ==
    ASSUME Typed, NEW l \in Lanes, NEW m \in Messages, Release("writer", l, m)
    PROVE  /\ lock[l] = Nobody /\ usage' \in [Lanes -> Usage]
           /\ owed' = owed \union {<<"writer", l>>}
           /\ \A x \in Lanes \ {l} : usage'[x] = usage[x]
           /\ usage'[l].closed = usage[l].closed
           /\ \A c \in Classes, k \in Kinds :
                Share(usage'[l], c, k) = Share(usage[l], c, k) - Weight(c, k, m)
           /\ Bounded => Bounded'
  <1>1. /\ lock[l] = Nobody /\ owed' = owed \union {<<"writer", l>>}
        /\ usage' = [usage EXCEPT ![l] = Charged(@, m, -1)]
    BY DEF Release
  <1>2. /\ usage' \in [Lanes -> Usage] /\ usage'[l] = Charged(usage[l], m, -1)
        /\ \A x \in Lanes \ {l} : usage'[x] = usage[x]
        /\ usage[l] \in Usage /\ usage'[l].closed = usage[l].closed
    BY <1>1, OneLaneCharged
  <1>3. \A c \in Classes, k \in Kinds :
            Share(usage'[l], c, k) = Share(usage[l], c, k) - Weight(c, k, m)
    BY <1>2, ChargedShare
  <1>4. ASSUME Bounded PROVE Bounded'
    <2> DEFINE u == usage[l]
               v == usage'[l]
    <2>1. /\ u.count <= Count /\ u.bytes <= Bytes
          /\ u.data_count <= DataCount /\ u.data_bytes <= DataBytes
      BY <1>4 DEF Bounded
    <2>2. /\ u.count \in Int /\ u.bytes \in Int /\ u.data_count \in Int /\ u.data_bytes \in Int
          /\ v.count \in Int /\ v.bytes \in Int /\ v.data_count \in Int /\ v.data_bytes \in Int
      BY <1>2 DEF Usage
    <2>3. /\ v.count - v.data_count = (u.count - u.data_count) - Weight("reply", "slots", m)
          /\ v.bytes - v.data_bytes = (u.bytes - u.data_bytes) - Weight("reply", "bytes", m)
          /\ v.data_count = u.data_count - Weight("data", "slots", m)
          /\ v.data_bytes = u.data_bytes - Weight("data", "bytes", m)
      BY <1>3 DEF Share, Classes, Kinds
    <2>4. /\ Weight("reply", "slots", m) \in Nat /\ Weight("reply", "bytes", m) \in Nat
          /\ Weight("data", "slots", m) \in Nat /\ Weight("data", "bytes", m) \in Nat
      BY MessageFields DEF Classes, Kinds
    <2> HIDE DEF u, v
    <2>5. /\ v.count <= Count /\ v.bytes <= Bytes
          /\ v.data_count <= DataCount /\ v.data_bytes <= DataBytes
      BY <2>1, <2>2, <2>3, <2>4, LimitsAssumption
    <2> QED  BY <1>2, <1>4, <2>5 DEF Bounded, v
  <1> QED  BY <1>1, <1>2, <1>3, <1>4

-----------------------------------------------------------------------------
(* The steps. *)

LEMMA InitIInv == Init => IInv
  <1> SUFFICES ASSUME Init PROVE IInv
    OBVIOUS
  <1>1. Empty \in Usage /\ Idle \in SendRecord /\ <<>> \in Seq(Messages)
        /\ writer \in WriterRecord
    BY DEF Init, Empty, Usage, Idle, SendRecord, WriterRecord, Lanes
  <1>2. Typed
    BY <1>1 DEF Init, Typed
  <1>3. Shape
    BY <1>2, NothingAssumption DEF Init, Shape, SendersSound, LockSound, WriterSound,
       ClosedSound, Idle, Empty
  <1>4. NoLostWakeup
    BY DEF Init, NoLostWakeup, Idle
  <1>5. Accounted
    <2> SUFFICES ASSUME NEW l \in Lanes, NEW c \in Classes, NEW k \in Kinds
                 PROVE  Holds(queue[l], c, k, InChannel(l, c, k))
      BY DEF Accounted
    <2>1. queue[l] = <<>> /\ InChannel(l, c, k) = 0
      BY DEF Init, InChannel, Share, Empty, AtWriter, AtSender
    <2> QED  BY <2>1, HoldsEmpty
  <1>6. Bounded
    BY LimitsAssumption DEF Init, Bounded, Empty
  <1> QED  BY <1>3, <1>4, <1>5, <1>6 DEF IInv

\* A send moves on and touches nothing that is shared.
LEMMA QuietSend ==
    ASSUME IInv, NEW s \in Senders, NEW r, Moved(s, r), r.pc = "await" => Excused(s)',
           UNCHANGED <<usage, lock, queue, rx, owed, writer>>
    PROVE  IInv'
  <1>1. Shape /\ NoLostWakeup /\ Accounted /\ Bounded
    BY DEF IInv
  <1>2. /\ sender' \in [Senders -> SendRecord] /\ SendersSound' /\ LockSound'
        /\ SamePublished
        /\ sender'[s] = r /\ \A t \in Senders \ {s} : sender'[t] = sender[t]
    BY <1>1, SendMoves
  <1>3. Shape'
    BY <1>1, <1>2 DEF Shape, Typed, WriterSound, ClosedSound
  <1>4. SameCharges
    BY <1>1 DEF SameCharges, Shape, Typed
  <1>5. Accounted' /\ Bounded'
    BY <1>1, <1>2, <1>4, AccountsStay
  <1>6. \A l \in Lanes : Heard(l)
    BY DEF Heard, Notified, Refuses
  <1>7. \A t \in Senders : SenderWaits(t)' => sender'[t] = sender[t] \/ Excused(t)'
    BY <1>2 DEF SenderWaits
  <1>8. NoLostWakeup'
    BY <1>1, <1>6, <1>7, WakeupsStay
  <1> QED  BY <1>3, <1>5, <1>8 DEF IInv

\* A lane is closed or aborted by whoever sends, closes the session or writes.
LEMMA CloseStep ==
    ASSUME IInv, NEW a \in Notifiers, NEW l \in Lanes, Closes(a, l),
           UNCHANGED <<lock, queue>>,
           sender' = sender \/ \E s \in Senders : Moved(s, Idle),
           rx' = rx \/ rx' = [rx EXCEPT ![l] = "closed"],
           \/ writer' = writer
           \/ /\ writer.held = Nothing /\ writer'.held = Nothing
              /\ writer' \in WriterRecord /\ writer'.pc # "write"
              /\ writer'.pc = "abandon" => writer'.lane = l
    PROVE  IInv'
  <1>1. Shape /\ NoLostWakeup /\ Accounted /\ Bounded
    BY DEF IInv
  <1>2. /\ sender' \in [Senders -> SendRecord] /\ SendersSound' /\ LockSound'
        /\ SamePublished
        /\ \A t \in Senders : sender'[t] = sender[t] \/ sender'[t] = Idle
    <2>1. CASE sender' = sender
      BY <1>1, <2>1, SendersStay
    <2>2. ASSUME NEW s \in Senders, Moved(s, Idle)
          PROVE  /\ sender' \in [Senders -> SendRecord] /\ SendersSound' /\ LockSound'
                 /\ SamePublished
                 /\ \A t \in Senders : sender'[t] = sender[t] \/ sender'[t] = Idle
      BY <1>1, <2>2, SendMoves
    <2> QED  BY <2>1, <2>2
  <1>3. /\ usage' \in [Lanes -> Usage] /\ SameCharges
        /\ lock[l] = Nobody /\ usage'[l].closed
        /\ \A x \in Lanes \ {l} : usage'[x] = usage[x]
        /\ <<a, l>> \in owed' /\ owed \subseteq owed'
    BY DEF Closes, SameCharges
  <1>4. /\ rx' \in [Lanes -> {"open", "closed", "dropped"}]
        /\ \A x \in Lanes \ {l} : rx'[x] = rx[x]
    BY <1>1 DEF Shape, Typed
  <1>5. writer' \in WriterRecord
    BY <1>1 DEF Shape, Typed
  <1>6. Typed'
    BY <1>1, <1>2, <1>3, <1>4, <1>5 DEF Shape, Typed
  <1>7. WriterSound'
    <2>1. \A x \in Lanes : usage[x].closed => usage'[x].closed
      BY <1>3
    <2>2. writer.lane \in Lanes
      BY <1>1 DEF Shape, Typed, WriterRecord
    <2> QED  BY <1>1, <1>3, <2>1, <2>2 DEF Shape, WriterSound
  <1>8. ClosedSound'
    BY <1>1, <1>3, <1>4 DEF Shape, ClosedSound
  <1>9. Accounted' /\ Bounded'
    BY <1>1, <1>2, <1>3, AccountsStay
  <1>10. \A x \in Lanes : Heard(x)
    <2>1. Heard(l)
      BY <1>3 DEF Heard, Notified
    <2>2. ASSUME NEW x \in Lanes \ {l} PROVE Heard(x)
      <3>1. Refuses(x)' = Refuses(x) /\ usage'[x] = usage[x]
        BY <1>3, <1>4 DEF Refuses
      <3>2. Notified(x) => Notified(x)'
        BY <1>3 DEF Notified
      <3> QED  BY <3>1, <3>2 DEF Heard
    <2> QED  BY <2>1, <2>2
  <1>11. \A t \in Senders : SenderWaits(t)' => sender'[t] = sender[t]
    BY <1>2 DEF SenderWaits, Idle
  <1>12. NoLostWakeup'
    BY <1>1, <1>10, <1>11, WakeupsStay
  <1> QED  BY <1>2, <1>6, <1>7, <1>8, <1>9, <1>12 DEF IInv, Shape

\* The writer goes on without an envelope, or only the clock does.
LEMMA WriterQuiet ==
    ASSUME IInv, UNCHANGED <<usage, lock, queue, rx, owed, sender>>,
           \/ writer' = writer
           \/ /\ writer.held = Nothing /\ writer'.held = Nothing
              /\ writer' \in WriterRecord /\ writer'.pc \notin {"write", "abandon"}
    PROVE  IInv'
  <1>1. Shape /\ NoLostWakeup /\ Accounted /\ Bounded
    BY DEF IInv
  <1>2. SendersSound' /\ LockSound' /\ SamePublished /\ SameCharges
    BY <1>1, SendersStay DEF SameCharges, Shape, Typed
  <1>3. Shape'
    BY <1>1, <1>2 DEF Shape, Typed, WriterSound, ClosedSound
  <1>4. Accounted' /\ Bounded'
    BY <1>1, <1>2, AccountsStay
  <1>5. NoLostWakeup'
    BY <1>1 DEF NoLostWakeup, Refuses
  <1> QED  BY <1>3, <1>4, <1>5 DEF IInv

\* The record of a sender that is under way.
LEMMA SenderFields ==
    ASSUME Shape, NEW s \in Senders
    PROVE  /\ sender[s] \in SendRecord
           /\ sender[s].pc # "idle" => /\ sender[s].msg \in Messages
                                       /\ sender[s].msg.lane \in Lanes
                                       /\ sender[s].msg.waits \in BOOLEAN
           /\ Idle \in SendRecord /\ Idle.pc = "idle"
  <1>1. sender[s] \in SendRecord /\ (sender[s].pc # "idle" => sender[s].msg \in Messages)
    BY DEF Shape, Typed, SendersSound
  <1>2. Idle \in SendRecord /\ Idle.pc = "idle"
    BY DEF Idle, SendRecord
  <1> QED  BY <1>1, <1>2, MessageFields

\* A send that gives up or ends is idle again.
LEMMA BecomesIdle ==
    ASSUME Shape, NEW s \in Senders, sender[s].pc # "publish",
           sender' = [sender EXCEPT ![s] = Idle]
    PROVE  Moved(s, Idle)
  BY SenderFields DEF Moved

\* A send starts, or starts again after it was woken.
LEMMA BecomesRegistered ==
    ASSUME Shape, NEW s \in Senders, NEW m \in Messages, sender[s].pc # "publish",
           sender' = [sender EXCEPT ![s] = Registered(m)]
    PROVE  Moved(s, Registered(m)) /\ Registered(m).pc # "await"
  <1>1. Registered(m) = [pc |-> "try", msg |-> m, enabled |-> m.waits, woken |-> FALSE]
    BY DEF Registered
  <1>2. m.waits \in BOOLEAN
    BY MessageFields
  <1>3. Registered(m) \in SendRecord
    BY <1>1, <1>2 DEF SendRecord
  <1>4. Registered(m).pc = "try" /\ Registered(m).msg = m /\ Registered(m).enabled = m.waits
    BY <1>1
  <1> QED  BY <1>3, <1>4 DEF Moved

LEMMA BeginKeeps ==
    ASSUME IInv, NEW s \in Senders, NEW m \in Messages, Begin(s, m)
    PROVE  IInv'
  <1>1. Moved(s, Registered(m)) /\ Registered(m).pc # "await"
    BY BecomesRegistered DEF IInv, Begin
  <1> QED  BY <1>1, QuietSend DEF Begin

LEMMA TryClosedKeeps ==
    ASSUME IInv, NEW s \in Senders, TryClosed(s)
    PROVE  IInv'
  <1>1. Moved(s, Idle) /\ Idle.pc # "await"
    BY BecomesIdle, SenderFields DEF IInv, TryClosed
  <1> QED  BY <1>1, QuietSend DEF TryClosed

LEMMA CancelSendKeeps ==
    ASSUME IInv, NEW s \in Senders, CancelSend(s)
    PROVE  IInv'
  <1>1. Moved(s, Idle) /\ Idle.pc # "await"
    BY BecomesIdle, SenderFields DEF IInv, CancelSend
  <1> QED  BY <1>1, QuietSend DEF CancelSend

\* Only a send that was woken goes on: it was registered before it tried.
LEMMA AwaitKeeps ==
    ASSUME IInv, NEW s \in Senders, Await(s)
    PROVE  IInv'
  <1>1. sender[s].pc = "await" /\ sender[s].enabled /\ sender[s].msg \in Messages
    BY DEF IInv, Shape, SendersSound, Await
  <1>2. sender' = [sender EXCEPT ![s] = Registered(sender[s].msg)]
    BY <1>1 DEF Await
  <1>3. Moved(s, Registered(sender[s].msg)) /\ Registered(sender[s].msg).pc # "await"
    BY <1>1, <1>2, BecomesRegistered DEF IInv
  <1> QED  BY <1>3, QuietSend DEF Await

\* A send that finds no room is excused when it begins to wait: the lane is full
\* at that moment.
LEMMA TryFullKeeps ==
    ASSUME IInv, NEW s \in Senders, TryFull(s)
    PROVE  IInv'
  <1> DEFINE m == sender[s].msg
             r == [sender[s] EXCEPT !.pc = IF m.waits THEN "await" ELSE "evict"]
  <1>1. /\ sender[s] \in SendRecord /\ m \in Messages /\ m.waits \in BOOLEAN
        /\ sender[s].pc = "try" /\ (m.waits => sender[s].enabled)
    BY SenderFields DEF IInv, Shape, SendersSound, TryFull
  <1>2. /\ sender' = [sender EXCEPT ![s] = r]
        /\ ~Refuses(m.lane) /\ Full(usage[m.lane], m)
        /\ UNCHANGED <<usage, lock, queue, rx, owed, writer>>
    BY DEF TryFull
  <1>3. /\ r \in SendRecord /\ r.msg = m /\ r.enabled = sender[s].enabled
        /\ r.pc = IF m.waits THEN "await" ELSE "evict"
    BY <1>1 DEF SendRecord
  <1> HIDE DEF r
  <1>4. Moved(s, r)
    BY <1>1, <1>2, <1>3 DEF Moved
  <1>5. Excused(s)'
    <2>1. sender'[s] = r
      BY <1>2 DEF IInv, Shape, Typed
    <2> QED  BY <1>2, <1>3, <2>1 DEF Excused, Refuses
  <1> QED  BY <1>2, <1>4, <1>5, QuietSend

\* The oversized message, the expired authority and the evicted notification
\* abort a lane.
LEMMA SendersAbort ==
    ASSUME IInv, NEW s \in Senders, TryOversized(s) \/ Expire(s) \/ Evict(s)
    PROVE  IInv'
  <1>1. Shape /\ Typed /\ s \in Notifiers /\ "ordinary" \in Lanes
    BY DEF IInv, Shape, Notifiers, Closers, Lanes
  <1>2. CASE TryOversized(s)
    <2>1. sender[s].msg.lane \in Lanes
      BY <1>1, <1>2, SenderFields DEF TryOversized
    <2>2. Closes(s, sender[s].msg.lane)
      BY <1>1, <1>2, <2>1, CloseOrAbort DEF TryOversized
    <2>3. Moved(s, Idle)
      BY <1>1, <1>2, BecomesIdle DEF TryOversized
    <2>4. UNCHANGED <<lock, queue, rx, writer>>
      BY <1>2 DEF TryOversized
    <2> QED  BY <1>1, <2>1, <2>2, <2>3, <2>4, CloseStep
  <1>3. CASE Expire(s)
    <2>1. Closes(s, "ordinary") /\ UNCHANGED <<lock, queue, rx, sender, writer>>
      BY <1>1, <1>3, CloseOrAbort DEF Expire
    <2> QED  BY <1>1, <2>1, CloseStep
  <1>4. CASE Evict(s)
    <2>1. Closes(s, "ordinary") /\ UNCHANGED <<lock, queue, rx, writer>>
      BY <1>1, <1>4, CloseOrAbort DEF Evict
    <2>2. Moved(s, Idle)
      BY <1>1, <1>4, BecomesIdle DEF Evict
    <2> QED  BY <1>1, <2>1, <2>2, CloseStep
  <1> QED  BY <1>2, <1>3, <1>4

\* Both halves of closing the session.
LEMMA CloseKeeps ==
    ASSUME IInv, Close \/ \E a \in Closers : FollowAudio(a)
    PROVE  IInv'
  <1>1. Typed /\ "ordinary" \in Lanes /\ "audio" \in Lanes /\ "close" \in Notifiers
    BY DEF IInv, Shape, Notifiers, Closers, Lanes
  <1>2. CASE Close
    <2>1. Closes("close", "ordinary") /\ UNCHANGED <<lock, queue, rx, sender, writer>>
      BY <1>1, <1>2, CloseOrAbort DEF Close
    <2> QED  BY <1>1, <2>1, CloseStep
  <1>3. ASSUME NEW a \in Closers, FollowAudio(a) PROVE IInv'
    <2>1. a \in Notifiers
      BY DEF Notifiers
    <2>2. CloseLane(a, "audio") \/ AbortLane(a, "audio")
      BY <1>3 DEF FollowAudio
    <2>3. Closes(a, "audio") /\ UNCHANGED <<lock, queue, rx, sender, writer>>
      BY <1>1, <1>3, <2>1, <2>2, CloseOrAbort DEF FollowAudio
    <2> QED  BY <1>1, <2>1, <2>3, CloseStep
  <1> QED  BY <1>2, <1>3

\* notify_waiters wakes every send that is registered on the lane.
LEMMA NotifyWaitersKeeps ==
    ASSUME IInv, NEW a \in Notifiers, NEW l \in Lanes, NotifyWaiters(a, l)
    PROVE  IInv'
  <1>1. Shape /\ NoLostWakeup /\ Accounted /\ Bounded
    BY DEF IInv
  <1>2. UNCHANGED <<usage, lock, queue, rx, writer>>
    BY DEF NotifyWaiters
  <1>3. ASSUME NEW t \in Senders
        PROVE  /\ sender'[t] \in SendRecord
               /\ sender'[t].pc = sender[t].pc /\ sender'[t].msg = sender[t].msg
               /\ sender'[t].enabled = sender[t].enabled
               /\ SenderWaits(t)' => sender'[t] = sender[t] /\ sender[t].msg.lane # l
    <2>1. sender[t] \in SendRecord
      BY <1>1, SenderFields
    <2>2. sender'[t] = IF sender[t].enabled /\ sender[t].msg.lane = l
                         THEN [sender[t] EXCEPT !.woken = TRUE] ELSE sender[t]
      BY DEF NotifyWaiters
    <2>3. CASE sender[t].enabled /\ sender[t].msg.lane = l
      BY <2>1, <2>2, <2>3 DEF SendRecord, SenderWaits
    <2>4. CASE ~(sender[t].enabled /\ sender[t].msg.lane = l)
      BY <2>1, <2>2, <2>4 DEF SenderWaits
    <2> QED  BY <2>3, <2>4
  <1>4. sender' \in [Senders -> SendRecord]
    <2>1. sender' = [t \in Senders |-> sender'[t]]
      BY DEF NotifyWaiters
    <2> QED  BY <1>3, <2>1
  <1>5. SendersSound'
    BY <1>1, <1>2, <1>3 DEF Shape, SendersSound
  <1>6. \A x \in Lanes : lock[x] # Nobody => lock[x] \in Senders
    BY <1>1 DEF Shape, Typed
  <1>7. LockSound'
    BY <1>1, <1>2, <1>3, <1>6 DEF Shape, LockSound
  <1>8. Shape'
    BY <1>1, <1>2, <1>4, <1>5, <1>7 DEF Shape, Typed, WriterSound, ClosedSound
  <1>9. Accounted' /\ Bounded'
    <2>1. ASSUME NEW x \in Lanes, NEW c \in Classes, NEW k \in Kinds
          PROVE  InChannel(x, c, k)' = InChannel(x, c, k)
      <3>1. AtSender(x, c, k)' = AtSender(x, c, k)
        BY <1>2, <1>3, <1>6 DEF AtSender
      <3> QED  BY <1>2, <3>1 DEF InChannel, AtWriter
    <2> QED  BY <1>1, <1>2, <2>1 DEF Accounted, Bounded
  <1>10. NoLostWakeup'
    <2>1. ASSUME NEW t \in Senders, SenderWaits(t)' PROVE Excused(t)'
      <3>1. sender'[t] = sender[t] /\ sender[t].msg.lane # l /\ SenderWaits(t)
        BY <1>3, <2>1 DEF SenderWaits
      <3>2. Excused(t)
        BY <1>1, <3>1, WakeupsRead
      <3>3. Notified(sender[t].msg.lane) => Notified(sender[t].msg.lane)'
        BY <3>1 DEF Notified, NotifyWaiters
      <3> QED  BY <1>2, <3>1, <3>2, <3>3 DEF Excused, Notified, Refuses
    <2> QED  BY <2>1 DEF NoLostWakeup, SenderWaits, Excused, Notified
  <1> QED  BY <1>8, <1>9, <1>10 DEF IInv

\* A lane that is full for a message stays full for it when another is
\* admitted, and no admission exceeds a limit.
LEMMA AdmissionFills ==
    ASSUME NEW u \in Usage, NEW m \in Messages, ~Full(u, m),
           u.count <= Count, u.bytes <= Bytes,
           u.data_count <= DataCount, u.data_bytes <= DataBytes
    PROVE  LET v == Charged(u, m, 1)
           IN  /\ v.count <= Count /\ v.bytes <= Bytes
               /\ v.data_count <= DataCount /\ v.data_bytes <= DataBytes
               /\ \A other \in Messages : Full(u, other) => Full(v, other)
  <1> DEFINE v == Charged(u, m, 1)
  <1>1. m.bytes \in Nat /\ m.class \in Classes
    BY MessageFields
  <1>2. u.count \in Int /\ u.bytes \in Int /\ u.data_count \in Int /\ u.data_bytes \in Int
    BY DEF Usage
  <1>3. /\ v.count = u.count + 1 /\ v.bytes = u.bytes + m.bytes
        /\ m.class = "data" => /\ v.data_count = u.data_count + 1
                               /\ v.data_bytes = u.data_bytes + m.bytes
        /\ m.class # "data" => v.data_count = u.data_count /\ v.data_bytes = u.data_bytes
    <2>1. 1 * m.bytes = m.bytes /\ 1 \in {-1, 1}
      BY <1>1
    <2> QED  BY <2>1, ChargedFields
  <1> HIDE DEF v
  <1>4. /\ u.count # Count /\ m.bytes <= Bytes - u.bytes
        /\ m.class = "data" => /\ u.data_count # DataCount
                               /\ m.bytes <= DataBytes - u.data_bytes
    BY <1>1, <1>2, LimitsAssumption DEF Full
  <1>5. /\ v.count <= Count /\ v.bytes <= Bytes
        /\ v.data_count <= DataCount /\ v.data_bytes <= DataBytes
    BY <1>1, <1>2, <1>3, <1>4, LimitsAssumption
  <1>6. ASSUME NEW other \in Messages, Full(u, other) PROVE Full(v, other)
    <2>1. other.bytes \in Nat
      BY MessageFields
    <2>2. CASE m.class = "data"
      BY <1>1, <1>2, <1>3, <1>4, <1>6, <2>1, <2>2, LimitsAssumption DEF Full
    <2>3. CASE m.class # "data"
      BY <1>1, <1>2, <1>3, <1>4, <1>6, <2>1, <2>3, LimitsAssumption DEF Full
    <2> QED  BY <2>2, <2>3
  <1> QED  BY <1>5, <1>6 DEF v

\* A message is admitted: charged, and not yet in the channel.
LEMMA TryReserveKeeps ==
    ASSUME IInv, NEW s \in Senders, TryReserve(s)
    PROVE  IInv'
  <1>1. Shape /\ Typed /\ NoLostWakeup /\ Accounted /\ Bounded
    BY DEF IInv, Shape
  <1>m. PICK m \in Messages, l \in Lanes : sender[s].msg = m /\ m.lane = l
    BY <1>1, SenderFields DEF TryReserve
  <1> DEFINE r == [sender[s] EXCEPT !.pc = "publish"]
  <1>2. /\ sender[s] \in SendRecord /\ sender[s].pc = "try"
        /\ m \in Messages /\ l \in Lanes
    BY <1>1, <1>m, SenderFields DEF TryReserve
  <1>3. /\ lock[l] = Nobody /\ ~Refuses(l) /\ ~Full(usage[l], m)
        /\ lock' = [lock EXCEPT ![l] = s]
        /\ usage' = [usage EXCEPT ![l] = Charged(@, m, 1)]
        /\ sender' = [sender EXCEPT ![s] = r]
        /\ UNCHANGED <<queue, rx, owed, writer>>
    BY <1>m DEF TryReserve
  <1>4. r \in SendRecord /\ r.pc = "publish" /\ r.msg = m
    BY <1>m, <1>2 DEF SendRecord
  <1> HIDE DEF r
  <1>5. /\ sender' \in [Senders -> SendRecord] /\ sender'[s] = r
        /\ \A t \in Senders \ {s} : sender'[t] = sender[t]
        /\ lock' \in [Lanes -> Senders \union {Nobody}] /\ lock'[l] = s
        /\ \A x \in Lanes \ {l} : lock'[x] = lock[x]
    BY <1>1, <1>2, <1>3, <1>4 DEF Typed
  <1>6. /\ usage' \in [Lanes -> Usage] /\ usage'[l] = Charged(usage[l], m, 1)
        /\ \A x \in Lanes \ {l} : usage'[x] = usage[x]
        /\ usage[l] \in Usage /\ usage'[l].closed = usage[l].closed
    BY <1>1, <1>2, <1>3, OneLaneCharged
  <1>7. \A x \in Lanes \ {l} : lock[x] # Nobody =>
            lock[x] \in Senders \ {s} /\ sender'[lock[x]] = sender[lock[x]]
    BY <1>1, <1>m, <1>2, <1>5 DEF Shape, Typed, LockSound
  <1>8. SendersSound'
    <2> SUFFICES ASSUME NEW t \in Senders
                 PROVE  /\ sender'[t].pc # "idle" => sender'[t].msg \in Messages
                        /\ sender'[t].pc = "await" => sender'[t].enabled
                        /\ sender'[t].pc = "try" /\ sender'[t].msg.waits => sender'[t].enabled
                        /\ sender'[t].pc = "publish" => lock'[sender'[t].msg.lane] = t
      BY DEF SendersSound
    <2>1. CASE t = s
      BY <1>m, <1>2, <1>4, <1>5, <2>1
    <2>2. CASE t # s
      <3>1. sender'[t] = sender[t]
        BY <1>5, <2>2
      <3>2. sender[t].pc = "publish" =>
                sender[t].msg.lane \in Lanes \ {l} /\ lock[sender[t].msg.lane] = t
        <4>1. ASSUME sender[t].pc = "publish"
              PROVE  sender[t].msg.lane \in Lanes /\ lock[sender[t].msg.lane] = t
          BY <1>1, <4>1, SenderFields DEF Shape, SendersSound
        <4> QED  BY <1>3, <4>1, NothingAssumption
      <3> QED  BY <1>1, <1>5, <3>1, <3>2 DEF Shape, SendersSound
    <2> QED  BY <2>1, <2>2
  <1>9. LockSound'
    BY <1>m, <1>1, <1>4, <1>5, <1>7 DEF Shape, LockSound
  <1>10. Shape'
    <2>1. WriterSound'
      <3>1. writer.lane \in Lanes
        BY <1>1 DEF Typed, WriterRecord
      <3> QED  BY <1>1, <1>3, <1>6, <3>1 DEF Shape, WriterSound
    <2>2. ClosedSound'
      BY <1>1, <1>3, <1>5, <1>6 DEF Shape, ClosedSound, Refuses
    <2> QED  BY <1>1, <1>3, <1>5, <1>6, <1>8, <1>9, <2>1, <2>2 DEF Shape, Typed
  <1>11. /\ usage[l].count <= Count /\ usage[l].bytes <= Bytes
         /\ usage[l].data_count <= DataCount /\ usage[l].data_bytes <= DataBytes
    BY <1>1, <1>2 DEF Bounded
  <1>12. /\ usage'[l].count <= Count /\ usage'[l].bytes <= Bytes
         /\ usage'[l].data_count <= DataCount /\ usage'[l].data_bytes <= DataBytes
         /\ \A other \in Messages : Full(usage[l], other) => Full(usage'[l], other)
    BY <1>2, <1>3, <1>6, <1>11, AdmissionFills
  <1>13. Bounded'
    BY <1>1, <1>6, <1>12 DEF Bounded
  <1>14. Accounted'
    <2> SUFFICES ASSUME NEW x \in Lanes, NEW c \in Classes, NEW k \in Kinds
                 PROVE  Holds(queue'[x], c, k, InChannel(x, c, k)')
      BY DEF Accounted
    <2>1. AtWriter(x, c, k)' = AtWriter(x, c, k)
      BY <1>3 DEF AtWriter
    <2>2. InChannel(x, c, k)' = InChannel(x, c, k)
      <3>1. CASE x = l
        <4>1. AtSender(l, c, k) = 0 /\ AtSender(l, c, k)' = Weight(c, k, m)
          BY <1>3, <1>4, <1>5, NothingAssumption DEF AtSender
        <4>2. Share(usage'[l], c, k) = Share(usage[l], c, k) + Weight(c, k, m)
          BY <1>2, <1>6, ChargedShare
        <4>3. Weight(c, k, m) \in Nat /\ Share(usage[l], c, k) \in Int
          BY <1>2, <1>6, MessageFields DEF Share, Usage
        <4>4. AtWriter(l, c, k) \in Int
          BY <1>1, MessageFields DEF AtWriter, Typed, WriterRecord
        <4> QED  BY <2>1, <3>1, <4>1, <4>2, <4>3, <4>4 DEF InChannel
      <3>2. CASE x # l
        <4>1. AtSender(x, c, k)' = AtSender(x, c, k)
          BY <1>5, <1>7, <3>2 DEF AtSender
        <4> QED  BY <1>6, <2>1, <3>2, <4>1 DEF InChannel
      <3> QED  BY <3>1, <3>2
    <2>3. Holds(queue[x], c, k, InChannel(x, c, k))
      BY <1>1 DEF Accounted
    <2> QED  BY <1>3, <2>2, <2>3
  <1>15. NoLostWakeup'
    <2>1. \A x \in Lanes : Heard(x)
      <3>1. \A x \in Lanes : Refuses(x)' = Refuses(x) /\ (Notified(x) => Notified(x)')
        BY <1>3, <1>6 DEF Refuses, Notified
      <3>2. \A x \in Lanes, other \in Messages : Full(usage[x], other) => Full(usage'[x], other)
        BY <1>6, <1>12
      <3> QED  BY <3>1, <3>2 DEF Heard
    <2>2. \A t \in Senders : SenderWaits(t)' => sender'[t] = sender[t]
      BY <1>4, <1>5 DEF SenderWaits
    <2> QED  BY <1>1, <2>1, <2>2, WakeupsStay
  <1> QED  BY <1>10, <1>13, <1>14, <1>15 DEF IInv

\* The envelope goes into the channel and the mutex is released.
LEMMA PublishKeeps ==
    ASSUME IInv, NEW s \in Senders, Publish(s)
    PROVE  IInv'
  <1>1. Shape /\ Typed /\ NoLostWakeup /\ Accounted /\ Bounded
    BY DEF IInv, Shape
  <1>m. PICK m \in Messages, l \in Lanes : sender[s].msg = m /\ m.lane = l
    BY <1>1, SenderFields DEF Publish
  <1>2. /\ sender[s].pc = "publish" /\ m \in Messages /\ l \in Lanes /\ lock[l] = s
        /\ Idle \in SendRecord /\ Idle.pc = "idle"
    BY <1>1, <1>m, SenderFields DEF Publish, Shape, SendersSound
  <1>3. /\ queue' = [queue EXCEPT ![l] = Append(@, m)]
        /\ lock' = [lock EXCEPT ![l] = Nobody]
        /\ sender' = [sender EXCEPT ![s] = Idle]
        /\ UNCHANGED <<usage, rx, owed, writer>>
    BY <1>m DEF Publish
  <1>4. /\ sender' \in [Senders -> SendRecord] /\ sender'[s] = Idle
        /\ \A t \in Senders \ {s} : sender'[t] = sender[t]
        /\ lock' \in [Lanes -> Senders \union {Nobody}] /\ lock'[l] = Nobody
        /\ \A x \in Lanes \ {l} : lock'[x] = lock[x]
    BY <1>1, <1>2, <1>3 DEF Typed
  <1>5. /\ queue[l] \in Seq(Messages) /\ queue'[l] = Append(queue[l], m)
        /\ queue' \in [Lanes -> Seq(Messages)]
        /\ \A x \in Lanes \ {l} : queue'[x] = queue[x]
    BY <1>1, <1>2, <1>3 DEF Typed
  <1>6. \A x \in Lanes \ {l} : lock[x] # Nobody =>
            lock[x] \in Senders \ {s} /\ sender'[lock[x]] = sender[lock[x]]
    BY <1>1, <1>m, <1>2, <1>4 DEF Shape, Typed, LockSound
  <1>7. SendersSound'
    <2> SUFFICES ASSUME NEW t \in Senders
                 PROVE  /\ sender'[t].pc # "idle" => sender'[t].msg \in Messages
                        /\ sender'[t].pc = "await" => sender'[t].enabled
                        /\ sender'[t].pc = "try" /\ sender'[t].msg.waits => sender'[t].enabled
                        /\ sender'[t].pc = "publish" => lock'[sender'[t].msg.lane] = t
      BY DEF SendersSound
    <2>1. CASE t = s
      BY <1>2, <1>4, <2>1
    <2>2. CASE t # s
      <3>1. sender'[t] = sender[t]
        BY <1>4, <2>2
      <3>2. sender[t].pc = "publish" =>
                sender[t].msg.lane \in Lanes \ {l} /\ lock[sender[t].msg.lane] = t
        <4>1. ASSUME sender[t].pc = "publish"
              PROVE  sender[t].msg.lane \in Lanes /\ lock[sender[t].msg.lane] = t
          BY <1>1, <4>1, SenderFields DEF Shape, SendersSound
        <4> QED  BY <1>2, <2>2, <4>1
      <3> QED  BY <1>1, <1>4, <3>1, <3>2 DEF Shape, SendersSound
    <2> QED  BY <2>1, <2>2
  <1>8. LockSound'
    BY <1>1, <1>4, <1>6 DEF Shape, LockSound
  <1>9. Shape'
    <2>1. WriterSound' /\ ClosedSound'
      BY <1>1, <1>3, <1>4 DEF Shape, WriterSound, ClosedSound
    <2> QED  BY <1>1, <1>3, <1>4, <1>5, <1>7, <1>8, <2>1 DEF Shape, Typed
  <1>10. Accounted'
    <2> SUFFICES ASSUME NEW x \in Lanes, NEW c \in Classes, NEW k \in Kinds
                 PROVE  Holds(queue'[x], c, k, InChannel(x, c, k)')
      BY DEF Accounted
    <2>1. AtWriter(x, c, k)' = AtWriter(x, c, k)
      BY <1>3 DEF AtWriter
    <2>2. Holds(queue[x], c, k, InChannel(x, c, k))
      BY <1>1 DEF Accounted
    <2>3. CASE x = l
      <3>1. AtSender(l, c, k)' = 0 /\ AtSender(l, c, k) = Weight(c, k, m)
        BY <1>m, <1>2, <1>4, NothingAssumption DEF AtSender
      <3>2. Weight(c, k, m) \in Nat /\ Share(usage[l], c, k) \in Int
        <4>1. usage[l] \in Usage
          BY <1>1, <1>2 DEF Typed
        <4> QED  BY <1>2, <4>1, MessageFields DEF Share, Usage
      <3>3. AtWriter(l, c, k) \in Int
        BY <1>1, MessageFields DEF AtWriter, Typed, WriterRecord
      <3>4. InChannel(l, c, k)' = InChannel(l, c, k) + Weight(c, k, m)
        BY <1>3, <2>1, <2>3, <3>1, <3>2, <3>3 DEF InChannel
      <3>5. Holds(Append(queue[l], m), c, k, InChannel(l, c, k) + Weight(c, k, m))
        BY <1>2, <1>5, <2>2, <2>3, HoldsAppend
      <3> QED  BY <1>5, <2>3, <3>4, <3>5
    <2>4. CASE x # l
      <3>1. AtSender(x, c, k)' = AtSender(x, c, k)
        BY <1>4, <1>6, <2>4 DEF AtSender
      <3>2. InChannel(x, c, k)' = InChannel(x, c, k)
        BY <1>3, <2>1, <3>1 DEF InChannel
      <3> QED  BY <1>5, <2>2, <2>4, <3>2
    <2> QED  BY <2>3, <2>4
  <1>11. Bounded'
    BY <1>1, <1>3 DEF Bounded
  <1>12. NoLostWakeup'
    <2>1. \A x \in Lanes : Heard(x)
      BY <1>3 DEF Heard, Refuses, Notified
    <2>2. \A t \in Senders : SenderWaits(t)' => sender'[t] = sender[t]
      BY <1>2, <1>4 DEF SenderWaits
    <2> QED  BY <1>1, <2>1, <2>2, WakeupsStay
  <1> QED  BY <1>9, <1>10, <1>11, <1>12 DEF IInv

\* Places of the writer without an envelope.
LEMMA WriterMoves ==
    ASSUME NEW pc, NEW l \in Lanes, WriterAt(pc, l, Nothing),
           pc \in {"poll", "polled", "sealAudio", "drop", "abandon", "done"}
    PROVE  /\ writer' \in WriterRecord /\ writer'.pc = pc /\ writer'.lane = l
           /\ writer'.held = Nothing
  BY DEF WriterAt, WriterRecord

LEMMA QuietWriterKeeps ==
    ASSUME IInv, PollStopped \/ AbortTask \/ Elapse \/ UNCHANGED vars
    PROVE  IInv'
  <1>1. "ordinary" \in Lanes
    BY DEF Lanes
  <1>2. ASSUME writer.pc = "poll" PROVE writer.held = Nothing
    BY <1>2 DEF IInv, Shape, WriterSound
  <1>3. CASE PollStopped
    <2>1. WriterAt("drop", "ordinary", Nothing) \/ WriterAt("polled", "ordinary", Nothing)
      BY <1>3 DEF PollStopped
    <2>2. /\ writer.held = Nothing /\ writer'.held = Nothing
          /\ writer' \in WriterRecord /\ writer'.pc \notin {"write", "abandon"}
      BY <1>1, <1>2, <1>3, <2>1, WriterMoves DEF PollStopped
    <2> QED  BY <1>3, <2>2, WriterQuiet DEF PollStopped
  <1>4. CASE AbortTask
    <2>1. /\ writer.held = Nothing /\ writer'.held = Nothing
          /\ writer' \in WriterRecord /\ writer'.pc \notin {"write", "abandon"}
      BY <1>1, <1>2, <1>4, WriterMoves DEF AbortTask
    <2> QED  BY <1>4, <2>1, WriterQuiet DEF AbortTask
  <1>5. CASE Elapse
    BY <1>5, WriterQuiet DEF Elapse
  <1>6. CASE UNCHANGED vars
    BY <1>6, WriterQuiet DEF vars
  <1> QED  BY <1>3, <1>4, <1>5, <1>6

\* seal and the drop of the receiver close a lane.
LEMMA WriterCloses ==
    ASSUME IInv, NEW l \in Lanes, Seal(l) \/ DropReceiver(l)
    PROVE  IInv'
  <1>1. Typed /\ "writer" \in Notifiers /\ "ordinary" \in Lanes
    BY DEF IInv, Shape, Notifiers, Lanes
  <1>2. ASSUME writer.pc # "write" PROVE writer.held = Nothing
    BY <1>2 DEF IInv, Shape, WriterSound
  <1>3. CASE Seal(l)
    <2>1. /\ Closes("writer", l) /\ UNCHANGED <<lock, queue, sender>>
          /\ rx' = [rx EXCEPT ![l] = "closed"] /\ writer.pc # "write"
      BY <1>1, <1>3, CloseOrAbort DEF Seal
    <2>2. WriterAt("sealAudio", "ordinary", Nothing) \/ WriterAt("poll", "ordinary", Nothing)
      BY <1>3 DEF Seal
    <2>3. /\ writer'.held = Nothing /\ writer' \in WriterRecord
          /\ writer'.pc \notin {"write", "abandon"}
      BY <1>1, <2>2, WriterMoves
    <2> QED  BY <1>1, <1>2, <2>1, <2>3, CloseStep
  <1>4. CASE DropReceiver(l)
    <2>1. /\ Closes("writer", l) /\ UNCHANGED <<lock, queue, sender, rx>>
          /\ writer.pc # "write" /\ WriterAt("abandon", l, Nothing)
      BY <1>1, <1>4, CloseOrAbort DEF DropReceiver
    <2>2. /\ writer'.held = Nothing /\ writer' \in WriterRecord
          /\ writer'.pc = "abandon" /\ writer'.lane = l
      BY <2>1, WriterMoves
    <2> QED  BY <1>1, <1>2, <2>1, <2>2, CloseStep
  <1> QED  BY <1>3, <1>4

\* What the account of a lane says and what the writer holds are numbers.
LEMMA SharesAreInts ==
    ASSUME Shape, NEW l \in Lanes, NEW c \in Classes, NEW k \in Kinds
    PROVE  /\ Share(usage[l], c, k) \in Int /\ AtWriter(l, c, k) \in Nat
           /\ AtSender(l, c, k) \in Nat /\ InChannel(l, c, k) \in Int
  <1>1. Share(usage[l], c, k) \in Int
    <2>1. usage[l] \in Usage
      BY DEF Shape, Typed
    <2> QED  BY <2>1 DEF Share, Usage
  <1>2. AtWriter(l, c, k) \in Nat
    BY MessageFields DEF AtWriter, Shape, Typed, WriterRecord
  <1>3. AtSender(l, c, k) \in Nat
    <2>1. lock[l] # Nobody => lock[l] \in Senders /\ sender[lock[l]].pc = "publish"
      BY DEF Shape, Typed, LockSound
    <2>2. lock[l] # Nobody => sender[lock[l]].msg \in Messages
      BY <2>1 DEF Shape, SendersSound
    <2> QED  BY <2>2, MessageFields DEF AtSender
  <1> QED  BY <1>1, <1>2, <1>3 DEF InChannel

\* The writer takes an envelope: its charge stays.
LEMMA RecvKeeps ==
    ASSUME IInv, Recv
    PROVE  IInv'
  <1>1. Shape /\ Typed /\ NoLostWakeup /\ Accounted /\ Bounded
    BY DEF IInv, Shape
  <1>2. writer.pc = "polled" /\ writer.held = Nothing /\ "ordinary" \in Lanes
    BY <1>1 DEF Recv, Shape, WriterSound, Lanes
  <1>3. CASE \E l \in Lanes : /\ queue[l] # <<>> /\ WriterAt("write", l, Head(queue[l]))
                              /\ queue' = [queue EXCEPT ![l] = Tail(@)]
    <2>1. PICK l \in Lanes : /\ queue[l] # <<>> /\ WriterAt("write", l, Head(queue[l]))
                             /\ queue' = [queue EXCEPT ![l] = Tail(@)]
      BY <1>3
    <2>2. queue[l] \in Seq(Messages)
      BY <1>1 DEF Typed
    <2>3. PICK m \in Messages : m = Head(queue[l])
      BY <2>1, <2>2
    <2>4. Tail(queue[l]) \in Seq(Messages) /\ m # Nothing
      BY <2>1, <2>2, <2>3, MessageFields
    <2>5. UNCHANGED <<usage, lock, rx, owed, sender>>
      BY DEF Recv
    <2>6. /\ writer' \in WriterRecord /\ writer'.pc = "write" /\ writer'.lane = l
          /\ writer'.held = m
      BY <2>1, <2>3 DEF WriterAt, WriterRecord
    <2>7. /\ queue' \in [Lanes -> Seq(Messages)] /\ queue'[l] = Tail(queue[l])
          /\ \A x \in Lanes \ {l} : queue'[x] = queue[x]
      BY <1>1, <2>1, <2>4 DEF Typed
    <2>8. Shape'
      <3>1. SendersSound' /\ LockSound'
        BY <1>1, <2>5, SendersStay
      <3>2. WriterSound' /\ ClosedSound'
        BY <1>1, <2>4, <2>5, <2>6 DEF Shape, WriterSound, ClosedSound
      <3> QED  BY <1>1, <2>5, <2>6, <2>7, <3>1, <3>2 DEF Shape, Typed
    <2>9. Accounted'
      <3> SUFFICES ASSUME NEW x \in Lanes, NEW c \in Classes, NEW k \in Kinds
                   PROVE  Holds(queue'[x], c, k, InChannel(x, c, k)')
        BY DEF Accounted
      <3>1. Holds(queue[x], c, k, InChannel(x, c, k))
        BY <1>1 DEF Accounted
      <3>2. AtWriter(x, c, k) = 0 /\ AtSender(x, c, k)' = AtSender(x, c, k)
        BY <1>2, <2>5 DEF AtWriter, AtSender
      <3>3. CASE x = l
        <4>1. AtWriter(l, c, k)' = Weight(c, k, m)
          BY <2>4, <2>6 DEF AtWriter
        <4>2. InChannel(l, c, k)' = InChannel(l, c, k) - Weight(c, k, m)
          <5>1. /\ Share(usage[l], c, k) \in Int /\ AtSender(l, c, k) \in Nat
                /\ Weight(c, k, m) \in Nat
            BY <1>1, SharesAreInts, MessageFields
          <5> QED  BY <2>5, <3>2, <3>3, <4>1, <5>1 DEF InChannel
        <4>3. Holds(Tail(queue[l]), c, k, InChannel(l, c, k) - Weight(c, k, m))
          BY <2>1, <2>2, <2>3, <3>1, <3>3, HoldsTail
        <4> QED  BY <2>7, <3>3, <4>2, <4>3
      <3>4. CASE x # l
        <4>1. AtWriter(x, c, k)' = 0
          BY <2>6, <3>4 DEF AtWriter
        <4>2. InChannel(x, c, k)' = InChannel(x, c, k)
          BY <2>5, <3>2, <4>1 DEF InChannel
        <4> QED  BY <2>7, <3>1, <3>4, <4>2
      <3> QED  BY <3>3, <3>4
    <2>10. Bounded' /\ NoLostWakeup'
      BY <1>1, <2>5 DEF Bounded, NoLostWakeup, Refuses
    <2> QED  BY <2>8, <2>9, <2>10 DEF IInv
  <1>4. CASE WriterAt("drop", "ordinary", Nothing) /\ queue' = queue
    <2>1. writer' \in WriterRecord /\ writer'.pc = "drop" /\ writer'.held = Nothing
      BY <1>2, <1>4, WriterMoves
    <2> QED  BY <1>2, <1>4, <2>1, WriterQuiet DEF Recv
  <1> QED  BY <1>3, <1>4 DEF Recv, Lanes

\* A charge is returned for an envelope that leaves the writer or the channel.
LEMMA ReleaseStep ==
    ASSUME IInv, NEW l \in Lanes, NEW m \in Messages, Release("writer", l, m),
           UNCHANGED <<lock, sender>>, writer' \in WriterRecord, writer'.held = Nothing,
           writer'.pc # "write" /\ (writer'.pc = "abandon" => writer' = writer),
           rx' = rx \/ (usage[l].closed /\ rx' = [rx EXCEPT ![l] = "dropped"]),
           \/ writer.held = m /\ writer.lane = l /\ queue' = queue
           \/ /\ writer.held = Nothing
              /\ queue[l] # <<>> /\ m = Head(queue[l])
              /\ queue' = [queue EXCEPT ![l] = Tail(@)]
    PROVE  IInv'
  <1>1. Shape /\ Typed /\ NoLostWakeup /\ Accounted /\ Bounded
    BY DEF IInv, Shape
  <1>2. /\ lock[l] = Nobody /\ usage' \in [Lanes -> Usage]
        /\ owed' = owed \union {<<"writer", l>>}
        /\ \A x \in Lanes \ {l} : usage'[x] = usage[x]
        /\ usage'[l].closed = usage[l].closed
        /\ \A c \in Classes, k \in Kinds :
             Share(usage'[l], c, k) = Share(usage[l], c, k) - Weight(c, k, m)
        /\ Bounded'
    BY <1>1, ReleaseGivesBack
  <1>3. queue[l] \in Seq(Messages) /\ m # Nothing
    BY <1>1, MessageFields DEF Typed
  <1>4. /\ queue' \in [Lanes -> Seq(Messages)]
        /\ \A x \in Lanes \ {l} : queue'[x] = queue[x]
    <2>1. queue[l] # <<>> => Tail(queue[l]) \in Seq(Messages)
      BY <1>3
    <2> QED  BY <1>1, <2>1 DEF Typed
  <1>5. /\ rx' \in [Lanes -> {"open", "closed", "dropped"}]
        /\ \A x \in Lanes \ {l} : rx'[x] = rx[x]
        /\ rx'[l] = rx[l] \/ usage[l].closed
    BY <1>1 DEF Typed
  <1>6. Shape'
    <2>1. SendersSound' /\ LockSound'
      BY <1>1, SendersStay
    <2>2. \A x \in Lanes : usage'[x].closed = usage[x].closed
      BY <1>2
    <2>3. ClosedSound'
      BY <1>1, <1>5, <2>2 DEF Shape, ClosedSound
    <2>4. WriterSound'
      <3>1. writer.lane \in Lanes
        BY <1>1 DEF Typed, WriterRecord
      <3> QED  BY <1>1, <2>2, <3>1 DEF Shape, WriterSound
    <2> QED  BY <1>1, <1>2, <1>4, <1>5, <2>1, <2>3, <2>4 DEF Shape, Typed
  <1>7. Accounted'
    <2> SUFFICES ASSUME NEW x \in Lanes, NEW c \in Classes, NEW k \in Kinds
                 PROVE  Holds(queue'[x], c, k, InChannel(x, c, k)')
      BY DEF Accounted
    <2>1. Holds(queue[x], c, k, InChannel(x, c, k))
      BY <1>1 DEF Accounted
    <2>2. AtWriter(x, c, k)' = 0 /\ AtSender(x, c, k)' = AtSender(x, c, k)
      BY DEF AtWriter, AtSender
    <2>3. /\ Share(usage[x], c, k) \in Int /\ AtSender(x, c, k) \in Nat
          /\ Weight(c, k, m) \in Nat
      BY <1>1, SharesAreInts, MessageFields
    <2>4. CASE x = l /\ writer.held = m /\ writer.lane = l /\ queue' = queue
      <3>1. AtWriter(x, c, k) = Weight(c, k, m)
        BY <1>3, <2>4 DEF AtWriter
      <3>2. InChannel(x, c, k)' = InChannel(x, c, k)
        BY <1>2, <2>2, <2>3, <2>4, <3>1 DEF InChannel
      <3> QED  BY <2>1, <2>4, <3>2
    <2>5. CASE /\ x = l /\ writer.held = Nothing
               /\ queue[l] # <<>> /\ m = Head(queue[l])
               /\ queue' = [queue EXCEPT ![l] = Tail(@)]
      <3>1. AtWriter(x, c, k) = 0
        BY <2>5 DEF AtWriter
      <3>2. InChannel(x, c, k)' = InChannel(x, c, k) - Weight(c, k, m)
        BY <1>2, <2>2, <2>3, <2>5, <3>1 DEF InChannel
      <3>3. Holds(Tail(queue[l]), c, k, InChannel(l, c, k) - Weight(c, k, m))
        BY <1>3, <2>1, <2>5, HoldsTail
      <3>4. queue'[l] = Tail(queue[l])
        BY <1>1, <2>5 DEF Typed
      <3> QED  BY <2>5, <3>2, <3>3, <3>4
    <2>6. CASE x # l
      <3>1. AtWriter(x, c, k) = 0
        BY <2>6 DEF AtWriter
      <3>2. InChannel(x, c, k)' = InChannel(x, c, k)
        BY <1>2, <2>2, <2>6, <3>1 DEF InChannel
      <3> QED  BY <1>4, <2>1, <2>6, <3>2
    <2> QED  BY <2>4, <2>5, <2>6
  <1>8. NoLostWakeup'
    <2>1. Heard(l)
      BY <1>2 DEF Heard, Notified, Notifiers
    <2>2. ASSUME NEW x \in Lanes \ {l} PROVE Heard(x)
      <3>1. Refuses(x)' = Refuses(x) /\ usage'[x] = usage[x]
        BY <1>2, <1>5 DEF Refuses
      <3>2. Notified(x) => Notified(x)'
        BY <1>2 DEF Notified
      <3> QED  BY <3>1, <3>2 DEF Heard
    <2>3. \A x \in Lanes : Heard(x)
      BY <2>1, <2>2
    <2> QED  BY <1>1, <2>3, WakeupsStay
  <1> QED  BY <1>2, <1>6, <1>7, <1>8 DEF IInv

\* A socket write ends, well or not.
LEMMA WriteKeeps ==
    ASSUME IInv, WriteOk \/ WriteFails
    PROVE  IInv'
  <1>1. PICK l \in Lanes, m \in Messages : writer.lane = l /\ writer.held = m
    BY DEF IInv, Shape, Typed, WriterSound, WriterRecord, WriteOk, WriteFails
  <1>2. /\ Release("writer", l, m) /\ UNCHANGED <<lock, queue, rx, sender>>
        /\ WriterAt("drop", "ordinary", Nothing) \/ WriterAt("poll", "ordinary", Nothing)
    BY <1>1 DEF WriteOk, WriteFails
  <1>3. /\ writer' \in WriterRecord /\ writer'.held = Nothing
        /\ writer'.pc \notin {"write", "abandon"}
    BY <1>2, WriterMoves DEF Lanes
  <1> QED  BY <1>1, <1>2, <1>3, ReleaseStep

\* The physical receiver goes, with what is left in its channel.
LEMMA AbandonKeeps ==
    ASSUME IInv, NEW l \in Lanes, Abandon(l)
    PROVE  IInv'
  <1>1. Shape /\ Typed /\ NoLostWakeup /\ Accounted /\ Bounded
    BY DEF IInv, Shape
  <1>2. /\ writer.pc = "abandon" /\ writer.lane = l /\ writer.held = Nothing
        /\ usage[l].closed /\ writer \in WriterRecord
        /\ rx' = [rx EXCEPT ![l] = "dropped"] /\ UNCHANGED <<lock, sender>>
    BY <1>1 DEF Abandon, Shape, Typed, WriterSound
  <1>3. CASE queue[l] # <<>>
    <2>1. queue[l] \in Seq(Messages)
      BY <1>1 DEF Typed
    <2>2. PICK m \in Messages : m = Head(queue[l])
      BY <1>3, <2>1
    <2>3. /\ Release("writer", l, m) /\ writer' = writer
          /\ queue' = [queue EXCEPT ![l] = Tail(@)]
      BY <1>3, <2>2 DEF Abandon
    <2> QED  BY <1>2, <1>3, <2>2, <2>3, ReleaseStep
  <1>4. CASE queue[l] = <<>>
    <2>1. /\ UNCHANGED <<usage, owed, queue>>
          /\ WriterAt("drop", "audio", Nothing) \/ WriterAt("done", "audio", Nothing)
      BY <1>4 DEF Abandon
    <2>2. /\ writer' \in WriterRecord /\ writer'.held = Nothing
          /\ writer'.pc \notin {"write", "abandon"}
      BY <2>1, WriterMoves DEF Lanes
    <2>3. /\ rx' \in [Lanes -> {"open", "closed", "dropped"}]
          /\ \A x \in Lanes \ {l} : rx'[x] = rx[x]
      BY <1>1, <1>2 DEF Typed
    <2>4. SendersSound' /\ LockSound' /\ SamePublished /\ SameCharges
      BY <1>1, <1>2, <2>1, SendersStay DEF SameCharges, Typed
    <2>5. Shape'
      <3>1. WriterSound'
        BY <2>2 DEF WriterSound
      <3>2. ClosedSound'
        BY <1>1, <1>2, <2>1, <2>3 DEF Shape, ClosedSound
      <3> QED  BY <1>1, <1>2, <2>1, <2>2, <2>3, <2>4, <3>1, <3>2 DEF Shape, Typed
    <2>6. Accounted' /\ Bounded'
      BY <1>1, <1>2, <2>1, <2>2, <2>4, AccountsStay
    <2>7. \A x \in Lanes : Heard(x)
      BY <1>2, <2>1, <2>3 DEF Heard, Refuses, Notified
    <2>8. NoLostWakeup'
      BY <1>1, <1>2, <2>7, WakeupsStay
    <2> QED  BY <2>5, <2>6, <2>8 DEF IInv
  <1> QED  BY <1>3, <1>4

LEMMA NextIInv == IInv /\ [Next]_vars => IInv'
  <1> SUFFICES ASSUME IInv, [Next]_vars PROVE IInv'
    OBVIOUS
  <1>1. ASSUME NEW s \in Senders,
               \/ SenderStep(s) \/ CancelSend(s) \/ Expire(s)
               \/ \E m \in Messages : Begin(s, m)
        PROVE  IInv'
    BY <1>1, TryClosedKeeps, SendersAbort, TryFullKeeps, TryReserveKeeps, PublishKeeps,
       AwaitKeeps, CancelSendKeeps, BeginKeeps DEF SenderStep
  <1>2. ASSUME NEW a \in Notifiers, NEW l \in Lanes, NotifyWaiters(a, l) PROVE IInv'
    BY <1>2, NotifyWaitersKeeps
  <1>3. CASE Close \/ \E a \in Closers : FollowAudio(a)
    BY <1>3, CloseKeeps
  <1>4. CASE WriterStep
    BY <1>4, QuietWriterKeeps, RecvKeeps, WriteKeeps, WriterCloses, AbandonKeeps DEF WriterStep
  <1>5. CASE Elapse \/ AbortTask \/ Finished \/ UNCHANGED vars
    BY <1>5, QuietWriterKeeps DEF Finished
  <1> QED  BY <1>1, <1>2, <1>3, <1>4, <1>5 DEF Next

-----------------------------------------------------------------------------
(* The theorems. *)

\* The invariant of the outbound queue holds in every reachable state.
THEOREM Inductive == Spec => []IInv
  BY InitIInv, NextIInv, PTL DEF Spec

\* NoLostWakeup: a send that found its lane full and waits is about to be
\* notified, or would still find no room (send_class registers, tries, awaits;
\* releases, close and abort notify after they unlocked).
THEOREM WakeupsArrive == Spec => []NoLostWakeup
  <1>1. IInv => NoLostWakeup
    BY DEF IInv
  <1> QED  BY <1>1, Inductive, PTL

\* ReplyReserve: whatever data messages were admitted, written, failed or
\* abandoned, a lane that holds no reply has room for one that fits the reserve.
THEOREM ReserveIsKept == Spec => []ReplyReserve
  <1>1. IInv => ReplyReserve
    <2> SUFFICES ASSUME IInv, NEW l \in Lanes, NEW b \in 0 .. (Bytes - DataBytes),
                        \A m \in Outstanding(l) : m.class = "data"
                 PROVE  ~Full(usage[l], [lane |-> l, class |-> "reply", bytes |-> b,
                                         close |-> FALSE, waits |-> TRUE])
      BY DEF ReplyReserve
    <2>1. Shape /\ Typed /\ Accounted /\ Bounded
      BY DEF IInv, Shape
    <2>2. queue[l] \in Seq(Messages) /\ usage[l] \in Usage
      BY <2>1 DEF Typed
    <2>3. \A i \in 1 .. Len(queue[l]) : queue[l][i].class # "reply"
      <3>1. \A i \in 1 .. Len(queue[l]) : queue[l][i] \in Outstanding(l)
        BY <2>2 DEF Outstanding
      <3> QED  BY <3>1
    <2>4. ASSUME NEW k \in Kinds PROVE Share(usage[l], "reply", k) = 0
      <3>1. "reply" \in Classes
        BY DEF Classes
      <3>2. AtWriter(l, "reply", k) = 0
        <4>1. CASE writer.held # Nothing /\ writer.lane = l
          <5>1. writer.held \in Outstanding(l)
            BY <2>1, <4>1 DEF Typed, WriterRecord, Outstanding
          <5> QED  BY <5>1 DEF AtWriter, Weight
        <4>2. CASE ~(writer.held # Nothing /\ writer.lane = l)
          BY <4>2 DEF AtWriter
        <4> QED  BY <4>1, <4>2
      <3>3. AtSender(l, "reply", k) = 0
        <4>1. CASE lock[l] # Nobody
          <5>1. /\ lock[l] \in Senders /\ sender[lock[l]].pc = "publish"
                /\ sender[lock[l]].msg.lane = l
            BY <2>1, <4>1 DEF Shape, Typed, LockSound
          <5>2. sender[lock[l]].msg \in Messages
            BY <2>1, <5>1 DEF Shape, SendersSound
          <5>3. sender[lock[l]].msg \in Outstanding(l)
            BY <5>1, <5>2 DEF Outstanding
          <5> QED  BY <4>1, <5>3 DEF AtSender, Weight
        <4>2. CASE lock[l] = Nobody
          BY <4>2 DEF AtSender
        <4> QED  BY <4>1, <4>2
      <3>4. InChannel(l, "reply", k) = 0
        <4>1. Holds(queue[l], "reply", k, InChannel(l, "reply", k))
          BY <2>1, <3>1 DEF Accounted
        <4> QED  BY <2>2, <2>3, <3>1, <4>1, HoldsNat
      <3>5. Share(usage[l], "reply", k) \in Int
        BY <2>1, <3>1, SharesAreInts
      <3> QED  BY <3>2, <3>3, <3>4, <3>5 DEF InChannel
    <2>5. /\ usage[l].count - usage[l].data_count = 0
          /\ usage[l].bytes - usage[l].data_bytes = 0
      BY <2>4 DEF Share, Kinds
    <2>6. /\ usage[l].count \in Int /\ usage[l].data_count \in Int
          /\ usage[l].bytes \in Int /\ usage[l].data_bytes \in Int
          /\ usage[l].data_count <= DataCount /\ usage[l].data_bytes <= DataBytes
      BY <2>1, <2>2 DEF Usage, Bounded
    <2>7. usage[l].count # Count /\ b <= Bytes - usage[l].bytes
      BY <2>5, <2>6, LimitsAssumption
    <2> QED  BY <2>6, <2>7, LimitsAssumption DEF Full
  <1> QED  BY <1>1, Inductive, PTL

\* What an account may say: no counter was ever taken below zero, by a charge
\* returned twice or to the wrong share, none exceeds its limit, and the account
\* of a lane of which nothing is outstanding is empty.
Balanced ==
    \A l \in Lanes :
        /\ usage[l].data_count \in 0 .. DataCount /\ usage[l].data_bytes \in 0 .. DataBytes
        /\ usage[l].count \in usage[l].data_count .. Count
        /\ usage[l].bytes \in usage[l].data_bytes .. Bytes
        /\ queue[l] = <<>> /\ lock[l] = Nobody /\ ~(writer.pc = "write" /\ writer.lane = l)
             => usage[l].count = 0 /\ usage[l].bytes = 0

\* The accounts of the lanes balance: the unchecked subtractions of
\* Reservation::drop never underflow, and all charges of a lane are returned
\* when its channel is empty and its writer idle.
THEOREM AccountsBalance == Spec => []Balanced
  <1>1. IInv => Balanced
    <2> SUFFICES ASSUME IInv, NEW l \in Lanes
                 PROVE  /\ usage[l].data_count \in 0 .. DataCount
                        /\ usage[l].data_bytes \in 0 .. DataBytes
                        /\ usage[l].count \in usage[l].data_count .. Count
                        /\ usage[l].bytes \in usage[l].data_bytes .. Bytes
                        /\ queue[l] = <<>> /\ lock[l] = Nobody
                             /\ ~(writer.pc = "write" /\ writer.lane = l)
                             => usage[l].count = 0 /\ usage[l].bytes = 0
      BY DEF Balanced
    <2>1. Shape /\ Typed /\ Accounted /\ Bounded
      BY DEF IInv, Shape
    <2>2. queue[l] \in Seq(Messages) /\ usage[l] \in Usage
      BY <2>1 DEF Typed
    <2>3. ASSUME NEW c \in Classes, NEW k \in Kinds
          PROVE  /\ Share(usage[l], c, k) \in Nat
                 /\ queue[l] = <<>> /\ lock[l] = Nobody
                      /\ ~(writer.pc = "write" /\ writer.lane = l)
                      => Share(usage[l], c, k) = 0
      <3>1. /\ Share(usage[l], c, k) \in Int /\ AtWriter(l, c, k) \in Nat
            /\ AtSender(l, c, k) \in Nat
        BY <2>1, SharesAreInts
      <3>2. Holds(queue[l], c, k, InChannel(l, c, k))
        BY <2>1 DEF Accounted
      <3>3. InChannel(l, c, k) \in Nat /\ (queue[l] = <<>> => InChannel(l, c, k) = 0)
        BY <2>2, <3>2, HoldsNat, HoldsEmpty
      <3>4. lock[l] = Nobody /\ ~(writer.pc = "write" /\ writer.lane = l)
              => AtWriter(l, c, k) = 0 /\ AtSender(l, c, k) = 0
        BY <2>1 DEF AtWriter, AtSender, Shape, WriterSound
      <3> QED  BY <3>1, <3>3, <3>4 DEF InChannel
    <2>4. /\ usage[l].data_count \in Nat /\ usage[l].data_bytes \in Nat
          /\ usage[l].count - usage[l].data_count \in Nat
          /\ usage[l].bytes - usage[l].data_bytes \in Nat
      BY <2>3 DEF Share, Classes, Kinds
    <2>5. /\ usage[l].count \in Int /\ usage[l].bytes \in Int
          /\ usage[l].count <= Count /\ usage[l].bytes <= Bytes
          /\ usage[l].data_count <= DataCount /\ usage[l].data_bytes <= DataBytes
      BY <2>1, <2>2 DEF Usage, Bounded
    <2>6. /\ usage[l].data_count \in 0 .. DataCount
          /\ usage[l].data_bytes \in 0 .. DataBytes
          /\ usage[l].count \in usage[l].data_count .. Count
          /\ usage[l].bytes \in usage[l].data_bytes .. Bytes
      BY <2>4, <2>5, LimitsAssumption
    <2>7. ASSUME queue[l] = <<>>, lock[l] = Nobody, ~(writer.pc = "write" /\ writer.lane = l)
          PROVE  usage[l].count = 0 /\ usage[l].bytes = 0
      <3>1. \A c \in Classes, k \in Kinds : Share(usage[l], c, k) = 0
        BY <2>3, <2>7
      <3>2. /\ usage[l].data_count = 0 /\ usage[l].data_bytes = 0
            /\ usage[l].count - usage[l].data_count = 0
            /\ usage[l].bytes - usage[l].data_bytes = 0
        BY <3>1 DEF Share, Classes, Kinds
      <3> QED  BY <2>5, <3>2
    <2> QED  BY <2>6, <2>7
  <1> QED  BY <1>1, Inductive, PTL

\* A sender that holds the mutex publishes to a receiver that is there.
PublishesToReceiver ==
    \A s \in Senders : sender[s].pc = "publish" => rx[sender[s].msg.lane] = "open"

\* "A reserved channel slot cannot be published after receiver teardown": no
\* sender drops its own envelope, whose destructor would wait for the mutex that
\* the sender holds.
THEOREM NoPublishAfterTeardown == Spec => []PublishesToReceiver
  <1>1. IInv => PublishesToReceiver
    <2> SUFFICES ASSUME IInv, NEW s \in Senders, sender[s].pc = "publish"
                 PROVE  rx[sender[s].msg.lane] = "open"
      BY DEF PublishesToReceiver
    <2>1. sender[s].msg.lane \in Lanes /\ lock[sender[s].msg.lane] = s
      BY SenderFields DEF IInv, Shape, SendersSound
    <2> QED  BY <2>1, NothingAssumption DEF IInv, Shape, ClosedSound
  <1> QED  BY <1>1, Inductive, PTL

=============================================================================
