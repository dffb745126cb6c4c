--------------------------- MODULE SessionOutbound ---------------------------
(***************************************************************************)
(* The outbound queue of one WebSocket session                             *)
(* (crates/gateway/src/session/outbound.rs) with the writer task that      *)
(* empties it (crates/gateway/src/transport/server.rs).                    *)
(*                                                                         *)
(* A session has an ordinary lane and an audio lane.  Each has an          *)
(* admission account behind a mutex and a FIFO channel.  A message is      *)
(* charged to the account when it is admitted and the charge is held by    *)
(* the envelope until its socket write ends or the envelope is dropped.    *)
(* Data messages leave a reserve of slots and bytes to replies.  A sender  *)
(* that finds no room waits on a Notify: it registers first, then tries,   *)
(* then awaits.  Closing a lane refuses senders and starts a drain         *)
(* deadline; aborting it also stops the writer at once.                    *)
(***************************************************************************)
EXTENDS Integers, Sequences

CONSTANTS
    Senders,    \* the tasks that send to this session
    Messages,   \* [lane, class, bytes, close, waits]: what a task may send
    Count,      \* slots of a lane
    DataCount,  \* the slots data messages may hold
    Bytes,      \* bytes of a lane
    DataBytes,  \* the bytes data messages may hold
    MaxSends,   \* bound: sends begun in a behaviour
    Nobody,     \* the holder of a free mutex
    Nothing     \* the sender without a message, the writer without an envelope

Lanes == {"ordinary", "audio"}
Classes == {"data", "reply"}

\* The assertions of channel_inner, and what capacity - reserve gives.
ASSUME LimitsAssumption ==
    /\ Count \in Nat /\ Count >= 2
    /\ DataCount \in 1..(Count - 1)
    /\ Bytes \in Nat
    /\ DataBytes \in 1..(Bytes - 1)

ASSUME MessagesAssumption ==
    Messages \subseteq [lane : Lanes, class : Classes, bytes : Nat,
                        close : BOOLEAN, waits : BOOLEAN]

ASSUME BoundAssumption == MaxSends \in Nat

\* Nobody is no sender, and Nothing no message.
ASSUME NothingAssumption == Nobody \notin Senders /\ Nothing \notin Messages

VARIABLES
    usage,    \* lane -> its Usage: count, bytes, data_count, data_bytes, closed, aborted
    lock,     \* lane -> the sender inside try_send_class, or Nobody
    queue,    \* lane -> the envelopes in its channel
    rx,       \* lane -> its physical receiver: "open", "closed" or "dropped"
    drain,    \* drain_deadline of the ordinary lane: "unset", "set" or "passed"
    owed,     \* <<a, lane>>: a has unlocked the account and not yet called notify_waiters
    follow,   \* who has closed or aborted the ordinary lane and not yet the audio lane
    sender,   \* sender -> [pc, msg, enabled, woken]
    writer,   \* [pc, lane, held]: the writer task
    prefer,   \* prefer_audio of the receiver
    sends     \* sends begun so far

vars == <<usage, lock, queue, rx, drain, owed, follow, sender, writer, prefer, sends>>

Idle == [pc |-> "idle", msg |-> Nothing, enabled |-> FALSE, woken |-> FALSE]

Empty == [count |-> 0, bytes |-> 0, data_count |-> 0, data_bytes |-> 0,
          closed |-> FALSE, aborted |-> FALSE]

Init ==
    /\ usage = [l \in Lanes |-> Empty]
    /\ lock = [l \in Lanes |-> Nobody]
    /\ queue = [l \in Lanes |-> <<>>]
    /\ rx = [l \in Lanes |-> "open"]
    /\ drain = "unset"
    /\ owed = {}
    /\ follow = {}
    /\ sender = [s \in Senders |-> Idle]
    /\ writer = [pc |-> "poll", lane |-> "ordinary", held |-> Nothing]
    /\ prefer = FALSE
    /\ sends = 0

-----------------------------------------------------------------------------
(***************************************************************************)
(* The account                                                             *)
(***************************************************************************)
\* What the account is after a message is admitted (n = 1) or let go (n = -1).
Charged(u, m, n) ==
    LET d == IF m.class = "data" THEN n ELSE 0
    IN  [u EXCEPT !.count = @ + n, !.bytes = @ + n * m.bytes,
                  !.data_count = @ + d, !.data_bytes = @ + d * m.bytes]

\* Reservation::drop: the charge goes back under the mutex; the call of
\* notify_waiters comes after the unlock.
\* Mutant: a data message returns its slot and bytes and keeps its data share.
ReleaseTotals(a, l, m) ==
    /\ lock[l] = Nobody
    /\ usage' = [usage EXCEPT ![l].count = @ - 1, ![l].bytes = @ - m.bytes]
    /\ owed' = owed \union {<<a, l>>}

Release(a, l, m) ==
    /\ lock[l] = Nobody
    /\ usage' = [usage EXCEPT ![l] = Charged(@, m, -1)]
    /\ owed' = owed \union {<<a, l>>}

\* A message that no account of its lane could ever hold.
Oversized(m) == m.bytes > (IF m.class = "data" THEN DataBytes ELSE Bytes)

\* Mutant: data is held to its slots and not to its bytes.
FullBySlots(u, m) ==
    \/ u.count = Count
    \/ m.bytes > Bytes - u.bytes
    \/ m.class = "data" /\ u.data_count = DataCount

Full(u, m) ==
    \/ u.count = Count
    \/ m.bytes > Bytes - u.bytes
    \/ /\ m.class = "data"
       /\ \/ u.data_count = DataCount
          \/ m.bytes > DataBytes - u.data_bytes

Refuses(l) == usage[l].closed \/ rx[l] # "open"

\* Admission::close and Admission::abort by a, up to the unlock.
CloseLane(a, l) ==
    /\ lock[l] = Nobody
    /\ usage' = [usage EXCEPT ![l].closed = TRUE]
    /\ drain' = IF l = "ordinary" /\ drain = "unset" THEN "set" ELSE drain
    /\ owed' = owed \union {<<a, l>>}

AbortLane(a, l) ==
    /\ lock[l] = Nobody
    /\ usage' = [usage EXCEPT ![l].closed = TRUE, ![l].aborted = TRUE]
    /\ drain' = drain
    /\ owed' = owed \union {<<a, l>>}

-----------------------------------------------------------------------------
(***************************************************************************)
(* Senders                                                                 *)
(***************************************************************************)
\* The top of the loop: a new Notified, registered before the account is read.
\* try_send of a notification has none.
\* Mutant: the Notified is registered only when it is awaited.
RegisterLater(m) == [pc |-> "try", msg |-> m, enabled |-> FALSE, woken |-> FALSE]

Registered(m) == [pc |-> "try", msg |-> m, enabled |-> m.waits, woken |-> FALSE]

\* a owes no notify_waiters call and no second lane: it may go on.
Free(a) == a \notin follow /\ \A l \in Lanes : <<a, l>> \notin owed

\* A task starts to send m.
Begin(s, m) ==
    /\ sender[s].pc = "idle" /\ Free(s)
    /\ sends < MaxSends
    /\ sends' = sends + 1
    /\ sender' = [sender EXCEPT ![s] = Registered(m)]
    /\ UNCHANGED <<usage, lock, queue, rx, drain, owed, follow, writer, prefer>>

\* try_send_class finds the lane closed: the send fails.
TryClosed(s) ==
    LET l == sender[s].msg.lane IN
    /\ sender[s].pc = "try" /\ lock[l] = Nobody
    /\ Refuses(l)
    /\ sender' = [sender EXCEPT ![s] = Idle]
    /\ UNCHANGED <<usage, lock, queue, rx, drain, owed, follow, writer, prefer, sends>>

\* A message above its ceiling retires the lane and no other.
TryOversized(s) ==
    LET m == sender[s].msg IN
    /\ sender[s].pc = "try"
    /\ ~Refuses(m.lane) /\ Oversized(m)
    /\ AbortLane(s, m.lane)
    /\ sender' = [sender EXCEPT ![s] = Idle]
    /\ UNCHANGED <<lock, queue, rx, follow, writer, prefer, sends>>

\* No room: a send that waits goes on to await; a notification is dropped and
\* its caller aborts the session.
TryFull(s) ==
    LET m == sender[s].msg IN
    /\ sender[s].pc = "try" /\ lock[m.lane] = Nobody
    /\ ~Refuses(m.lane) /\ ~Oversized(m)
    /\ Full(usage[m.lane], m)
    /\ sender' = [sender EXCEPT ![s].pc = IF m.waits THEN "await" ELSE "evict"]
    /\ UNCHANGED <<usage, lock, queue, rx, drain, owed, follow, writer, prefer, sends>>

\* Room: the channel slot is reserved and the account charged, all under the
\* mutex, which stays locked until the envelope is in the channel.
TryReserve(s) ==
    LET m == sender[s].msg IN
    /\ sender[s].pc = "try" /\ lock[m.lane] = Nobody
    /\ ~Refuses(m.lane) /\ ~Oversized(m)
    /\ ~Full(usage[m.lane], m)
    /\ lock' = [lock EXCEPT ![m.lane] = s]
    /\ usage' = [usage EXCEPT ![m.lane] = Charged(@, m, 1)]
    /\ sender' = [sender EXCEPT ![s].pc = "publish"]
    /\ UNCHANGED <<queue, rx, drain, owed, follow, writer, prefer, sends>>

\* permit.send and the unlock.  In a channel whose receiver is gone the
\* envelope would be dropped on the spot, and its destructor would wait for
\* the mutex its own caller holds: there is no step out of that.
Publish(s) ==
    LET m == sender[s].msg IN
    /\ sender[s].pc = "publish"
    /\ rx[m.lane] # "dropped"
    /\ queue' = [queue EXCEPT ![m.lane] = Append(@, m)]
    /\ lock' = [lock EXCEPT ![m.lane] = Nobody]
    /\ sender' = [sender EXCEPT ![s] = Idle]
    /\ UNCHANGED <<usage, rx, drain, owed, follow, writer, prefer, sends>>

\* notified.await: registers now if it was not yet; returns once woken.
Await(s) ==
    /\ sender[s].pc = "await"
    /\ IF sender[s].woken
         THEN sender' = [sender EXCEPT ![s] = Registered(@.msg)]
         ELSE /\ ~sender[s].enabled
              /\ sender' = [sender EXCEPT ![s].enabled = TRUE]
    /\ UNCHANGED <<usage, lock, queue, rx, drain, owed, follow, writer, prefer, sends>>

\* A waiting send is dropped: its timeout fires, or its handler is aborted.
CancelSend(s) ==
    /\ sender[s].pc = "await"
    /\ sender' = [sender EXCEPT ![s] = Idle]
    /\ UNCHANGED <<usage, lock, queue, rx, drain, owed, follow, writer, prefer, sends>>

\* The caller of a notification finds that the session's authority has ended,
\* or has found no room: sender.abort().
Expire(s) ==
    /\ sender[s].pc = "idle" /\ Free(s)
    /\ sends < MaxSends
    /\ sends' = sends + 1
    /\ AbortLane(s, "ordinary")
    /\ follow' = follow \union {s}
    /\ UNCHANGED <<lock, queue, rx, sender, writer, prefer>>

Evict(s) ==
    /\ sender[s].pc = "evict"
    /\ AbortLane(s, "ordinary")
    /\ follow' = follow \union {s}
    /\ sender' = [sender EXCEPT ![s] = Idle]
    /\ UNCHANGED <<lock, queue, rx, writer, prefer, sends>>

\* notify_waiters: wakes every Notified registered now.
NotifyWaiters(a, l) ==
    /\ <<a, l>> \in owed
    /\ owed' = owed \ {<<a, l>>}
    /\ sender' = [s \in Senders |->
                    IF sender[s].enabled /\ sender[s].msg.lane = l
                      THEN [sender[s] EXCEPT !.woken = TRUE]
                      ELSE sender[s]]
    /\ UNCHANGED <<usage, lock, queue, rx, drain, follow, writer, prefer, sends>>

-----------------------------------------------------------------------------
(***************************************************************************)
(* The session's owner                                                     *)
(***************************************************************************)
\* SessionOutbound::close, at the end of the connection's reader.
Close ==
    /\ drain = "unset"
    /\ CloseLane("close", "ordinary")
    /\ follow' = follow \union {"close"}
    /\ UNCHANGED <<lock, queue, rx, sender, writer, prefer, sends>>

\* The second half of close and of abort: the audio lane.
FollowAudio(a) ==
    /\ a \in follow /\ <<a, "ordinary">> \notin owed
    /\ IF a = "close" THEN CloseLane(a, "audio") ELSE AbortLane(a, "audio")
    /\ follow' = follow \ {a}
    /\ UNCHANGED <<lock, queue, rx, sender, writer, prefer, sends>>

\* The drain deadline, fixed by the first close, passes.
Elapse ==
    /\ drain = "set"
    /\ drain' = "passed"
    /\ UNCHANGED <<usage, lock, queue, rx, owed, follow, sender, writer, prefer, sends>>

-----------------------------------------------------------------------------
(***************************************************************************)
(* The writer                                                              *)
(***************************************************************************)
\* writer_stopped and closed watch the ordinary lane only.
Stopped == usage["ordinary"].aborted \/ drain = "passed"

Unsealed == usage["ordinary"].closed /\ rx["ordinary"] = "open"

\* A lane of the receiver has ended: closed and empty.
LaneDone(l) == rx[l] # "open" /\ queue[l] = <<>>

WriterAt(pc, l, e) == writer' = [pc |-> pc, lane |-> l, held |-> e]

\* The biased select polls writer_stopped, then closed, then recv; the account
\* may change after the first poll.
PollStopped ==
    /\ writer.pc = "poll"
    /\ \/ Stopped /\ WriterAt("drop", "ordinary", Nothing)
       \/ /\ ~Stopped
          /\ \/ Unsealed
             \/ \E l \in Lanes : queue[l] # <<>>
             \/ \A l \in Lanes : LaneDone(l)
          /\ WriterAt("polled", "ordinary", Nothing)
    /\ UNCHANGED <<usage, lock, queue, rx, drain, owed, follow, sender, prefer, sends>>

\* OutboundReceiver::seal, one lane after the other.
Seal(l) ==
    /\ \/ l = "ordinary" /\ writer.pc = "polled" /\ Unsealed
       \/ l = "audio" /\ writer.pc = "sealAudio"
    /\ CloseLane("writer", l)
    /\ rx' = [rx EXCEPT ![l] = "closed"]
    /\ WriterAt(IF l = "ordinary" THEN "sealAudio" ELSE "poll", "ordinary", Nothing)
    /\ UNCHANGED <<lock, queue, follow, sender, prefer, sends>>

\* OutboundReceiver::recv takes from the preferred lane, else from the other,
\* and prefers the other lane next.  It returns None, and the task ends, when
\* both lanes are done; otherwise it is not polled to completion before a lane
\* has something (PollStopped).
Recv ==
    LET first == IF prefer THEN "audio" ELSE "ordinary"
        other == IF prefer THEN "ordinary" ELSE "audio"
        l == IF queue[first] # <<>> THEN first ELSE other
    IN
    /\ writer.pc = "polled" /\ ~Unsealed
    /\ IF queue[l] # <<>>
         THEN /\ WriterAt("write", l, Head(queue[l]))
              /\ queue' = [queue EXCEPT ![l] = Tail(@)]
              /\ prefer' = (l # "audio")
         ELSE /\ WriterAt("drop", "ordinary", Nothing)
              /\ UNCHANGED <<queue, prefer>>
    /\ UNCHANGED <<usage, lock, rx, drain, owed, follow, sender, sends>>

\* The socket took the frame: the envelope's reservation ends with the loop
\* body, and the task ends after a Close frame.
WriteOk ==
    /\ writer.pc = "write"
    /\ Release("writer", writer.lane, writer.held)
    /\ WriterAt(IF writer.held.close THEN "drop" ELSE "poll", "ordinary", Nothing)
    /\ UNCHANGED <<lock, queue, rx, drain, follow, sender, prefer, sends>>

\* The write fails, exceeds its deadline, or is given up because the lane was
\* retired, or the task is aborted; the reservation goes before the receiver,
\* which the task owns.
WriteFails ==
    /\ writer.pc = "write"
    /\ Release("writer", writer.lane, writer.held)
    /\ WriterAt("drop", "ordinary", Nothing)
    /\ UNCHANGED <<lock, queue, rx, drain, follow, sender, prefer, sends>>

\* The connection closed the session, waited for the grace and aborts the task.
AbortTask ==
    /\ writer.pc = "poll" /\ Free("writer") /\ drain # "unset"
    /\ WriterAt("drop", "ordinary", Nothing)
    /\ UNCHANGED <<usage, lock, queue, rx, drain, owed, follow, sender, prefer, sends>>

\* OutboundReceiver::drop: the account is aborted, then the physical receiver
\* goes with what is left in the channel; the audio receiver is a field and
\* goes after it in the same way.
DropReceiver(l) ==
    /\ writer.pc = "drop" /\ writer.lane = l
    /\ AbortLane("writer", l)
    /\ WriterAt("abandon", l, Nothing)
    /\ UNCHANGED <<lock, queue, rx, follow, sender, prefer, sends>>

\* Each envelope left in the channel is dropped and its charge returned.
Abandon(l) ==
    /\ writer.pc = "abandon" /\ writer.lane = l
    /\ rx' = [rx EXCEPT ![l] = "dropped"]
    /\ IF queue[l] # <<>>
         THEN /\ Release("writer", l, Head(queue[l]))
              /\ queue' = [queue EXCEPT ![l] = Tail(@)]
              /\ writer' = writer
         ELSE /\ IF l = "ordinary" THEN WriterAt("drop", "audio", Nothing)
                                   ELSE WriterAt("done", "audio", Nothing)
              /\ UNCHANGED <<usage, owed, queue>>
    /\ UNCHANGED <<lock, drain, follow, sender, prefer, sends>>

-----------------------------------------------------------------------------
SenderStep(s) ==
    \/ TryClosed(s) \/ TryOversized(s) \/ TryFull(s) \/ TryReserve(s)
    \/ Publish(s) \/ Await(s) \/ Evict(s)

\* The writer calls notify_waiters before it goes on.
WriterStep ==
    /\ Free("writer")
    /\ \/ PollStopped \/ Recv \/ WriteOk \/ WriteFails
       \/ \E l \in Lanes : Seal(l) \/ DropReceiver(l) \/ Abandon(l)

\* Those who close or abort the session, and those who notify its waiters.
Closers == Senders \union {"close"}
Notifiers == Closers \union {"writer"}

Finished ==
    /\ writer.pc = "done" /\ sends = MaxSends
    /\ \A s \in Senders : sender[s].pc = "idle"
    /\ UNCHANGED vars

Next ==
    \/ \E s \in Senders :
         \/ SenderStep(s) \/ CancelSend(s) \/ Expire(s)
         \/ \E m \in Messages : Begin(s, m)
    \/ \E a \in Notifiers, l \in Lanes : NotifyWaiters(a, l)
    \/ \E a \in Closers : FollowAudio(a)
    \/ Close \/ Elapse \/ AbortTask
    \/ WriterStep
    \/ Finished

Spec == Init /\ [][Next]_vars

(***************************************************************************)
(* Every task is polled once it is ready, the clock runs (a write has a    *)
(* deadline, and so has the drain), and a thread between an unlock and its *)
(* notify_waiters call goes on.  Nobody has to close the session, and      *)
(* nothing is assumed of the socket.                                       *)
(***************************************************************************)
Fairness ==
    /\ \A s \in Senders : WF_vars(SenderStep(s))
    /\ \A a \in Notifiers, l \in Lanes : WF_vars(NotifyWaiters(a, l))
    /\ \A a \in Closers : WF_vars(FollowAudio(a))
    /\ WF_vars(Elapse)
    /\ WF_vars(WriterStep)

FairSpec == Spec /\ Fairness

-----------------------------------------------------------------------------
(***************************************************************************)
(* Properties                                                              *)
(***************************************************************************)
\* What is admitted to a lane and not let go.
Outstanding(l) ==
    { m \in Messages :
        \/ \E i \in 1..Len(queue[l]) : queue[l][i] = m
        \/ writer.held = m /\ writer.lane = l
        \/ \E s \in Senders : sender[s].pc = "publish" /\ sender[s].msg = m /\ m.lane = l }

\* A send that awaits a notification nobody is about to give would still find
\* no room: between its failed try and its await no release, close or abort
\* can pass it by (send_class registers before it tries).
NoLostWakeup ==
    \A s \in Senders :
        LET m == sender[s].msg IN
        /\ sender[s].pc = "await" /\ sender[s].enabled /\ ~sender[s].woken
        => \/ \E a \in Notifiers : <<a, m.lane>> \in owed
           \/ ~Refuses(m.lane) /\ Full(usage[m.lane], m)

\* Whatever data is admitted, and whatever was charged and returned before, a
\* lane that holds no reply has room for one that fits the reserve (the doc of
\* channel: "Two slots and 8 KiB within this audio lane remain reserved").
ReplyReserve ==
    \A l \in Lanes : \A b \in 0..(Bytes - DataBytes) :
        (\A m \in Outstanding(l) : m.class = "data")
        => ~Full(usage[l], [lane |-> l, class |-> "reply", bytes |-> b,
                            close |-> FALSE, waits |-> TRUE])

\* Once the ordinary lane is closed, by whatever path, the writer task ends,
\* every charge is returned on both lanes and no send is left waiting.
CloseRetires ==
    usage["ordinary"].closed
    ~> /\ writer.pc = "done"
       /\ \A s \in Senders : sender[s].pc # "await"
       /\ \A l \in Lanes :
            /\ lock[l] = Nobody
            /\ usage[l] = [Empty EXCEPT !.closed = TRUE, !.aborted = TRUE]

=============================================================================
