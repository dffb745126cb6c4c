# TLA+ verification of pioneer

pioneer is a gateway that runs agents and tasks for its clients. It keeps its state
in SQLite, speaks JSON-RPC over WebSockets, and drives language-model providers,
command-line agents, tools and MCP servers. This directory holds TLA+ models of the
parts of it where concurrency decides correctness, the TLC configurations that check
them, and TLAPS proofs. `PROJECT.json` maps every definition to the source lines it
stands for.

Run a check with `tlc -workers 2 -config X.cfg M`, a proof with `tlapm M.tla`. Names
of actions and variables are those of the code.

## The system

| part | state | operations | what is hard |
|---|---|---|---|
| ordered ingress, `runtime-events/src/ordered_ingress.rs` | a queue of segments, a key count, a semaphore, a `Notify` | `offer`, `close`, the worker | two lock sections of the worker with an await between them, lost wake-ups, permits held by futures that are dropped |
| durable lane, `runtime-events/src/hub.rs` | a bounded channel, the receiver lease, the pending acknowledgement | the `publish_*` calls, `take_durable_receiver`, `recv`, `acknowledge_last`, drops | listeners that end or forget to acknowledge, publishers that are cancelled while they wait |
| progress lane, `runtime-events/src/progress.rs` | two maps, `flush_scheduled`, timer tasks, batches in flight | offers, heartbeats, `flush_*`, timers | several tasks drain the maps and send outside the lock |
| snapshot lane, `runtime-events/src/snapshot.rs` | a map, a closed flag, a `Notify` | `offer`, `notify_turn`, `close`, `recv` | a flag read outside the lock, lost wake-ups |
| write admission, `sqlite/src/writer.rs` | three queues, `active`, two debt counters, reservations | `acquire` and its cancellation, `release`, `dispatch`, nested transactions | a grant that meets a dropped future, starvation |
| work signal, `sqlite/src/work_signal.rs` | a watch channel with an epoch of unknown outcomes | `changing`, `begin_pass`, `wait` | a write that is cancelled after it was dispatched |
| task scheduler, `tasks/src/scheduler.rs` | a due queue, dirty marks, a rebuild flag, an event subscription | passes of the run loop and of the service, tracked and direct mutations | hints consumed before the change they announce is read |
| task deliveries, `crud/src/task_delivery_lifecycle.rs`, `tasks/src/service.rs`, `gateway/src/message/task_delivery.rs` | a delivery row, its attempts, a recovery retry row | start, execute, complete, fail, recover, cancel | late workers against recovery, crashes between two transactions |
| tasks and runs, `tasks/src/{service,trigger}.rs` | tasks, runs, reviews, locks in the database | create, start, finish, cancel, pause, review | rules spread over service, projector and SQL |
| session outbound, `gateway/src/session/outbound.rs` | counts and bytes in use, two lanes | `try_send_class`, `send`, `close`, `seal`, `abort`, `recv` | the reserve for replies, waiters at shutdown, the drain deadline |
| remote access, `tunnel/src/lib.rs` | the supervisor's task, its shutdown channel, the status | `apply`, `shutdown`, the restart loop | cancellation while the previous client is joined |
| MCP OAuth, `mcp-oauth/src/{service,store}.rs` | entries, flows, stored credentials | sign in, callback, expiry, suspend, disconnect, cleanup | a callback that races a cancel or a disconnect |
| updater, `desktop-updater/src` | plan, result and receipt files | `apply_plan` | a stop between two file operations |
| authorization, `gateway/src/authorization` | policy generation, execution leases | publish, guard, revalidate | a stale cached generation |
| recovery, `gateway/src/resilience` | turns in the database | recovery, timeouts | a timeout against a late answer |

They interact like this. A runtime adapter puts a provider's events through an
ordered ingress and then publishes them on a hub: lifecycle events on the durable
lane, deltas on the progress lane, whole-item values on the snapshot lane. The
gateway's listener leases the durable receiver, writes each event to the database
through the write admission and acknowledges it, which answers the publisher. Tasks,
recovery and maintenance write through the same admission and wake each other with
work signals. What clients see goes through the outbound queue of their session.

## The modules

**EventStream** says what a consumer of an ordered ingress may rely on: offers are
accepted in an order, a durable event is emitted alone and after everything accepted
before it, updates of one key may be emitted merged, and nothing overtakes an
earlier durable event or an earlier update of its key. It has no queue and no
worker.

**OrderedIngress** is the code. `pending` is the `VecDeque` of segments; a coalesced
segment has its `order`, its `by_key` map and its two readiness flags. An accepted
offer is known by its position in acceptance order, so that merging is the union of
two sets of positions. `offer` is split at its await (`AwaitPermit`, `GrantPermit`,
`AbandonWait`) and at the end of its lock section (`AcceptDurable` or
`AcceptCoalesced`, then `NotifyWorker`); `close` has its three steps; the worker has
the steps `WorkerLoop` (a new `Notified`), `WorkerScan`, `WorkerPoll`,
`WorkerNotified` or `WorkerSlept`, `WorkerReserve`, `PopDurable` or `PopCoalesced`.
A refused offer changes nothing. `log` and `emitted` are history variables and the
two variables of EventStream, which the module instantiates as `Stream`.

**DurableLane** has the channel, the lease, the pending event of each listener and
the publish calls. The guard of a turn's transition mutex is an `Arc`: a caller
locks the mutex (`LockTransition`), hands a clone to as many publishes as it likes
and drops its own when it likes (`DropTransition`). `holders` is the set of callers
and envelopes that have a clone, and the mutex is unlocked when it is empty; the
clone a handler takes lives inside the handling of its envelope and counts as the
envelope's. The publisher's future can be dropped before the event is sent (the
event and its clone go with it) or after (they stay). `DropReceiver` is the Rust
destructor: it rejects the pending event, then gives the lease back. The errors
`DurableLaneClosed` and `CommitAcknowledgementDropped` cannot occur while the hub
exists, because a publish borrows the hub and the hub owns the raw receiver.

**SnapshotCoalescer** splits `offer` and `recv` wherever the code leaves the lock.
**ProgressCoalescer** does the same for the progress lane: whoever drains the maps
(`DrainBatch`, `FlushItems`) owns a batch and sends it event by event with
`SendLive`. Text is a sequence of numbered deltas of length one, the truncation
suffix has length one, and of a heartbeat only its presence is kept. A publisher
that has flushed is at `flushed` until its event is in the lane.

**WriteAdmission** follows a request through `queued`, `selected` (its reservation
exists), `granted` (sent through the oneshot channel) and `holding` (a permit with
one or more owners), with `dropped` and `orphaned` for the time between the drop of
its receiver and the cancellation of its registration. The grant decision is the
operator `GrantNext`, shared by `Enqueue`, `Release` and `Cancel` as in the code.
Time is the action `Age`: a maintenance waiter can be found older than
`max_maintenance_wait` at any moment.

**TaskDelivery** has the durable rows of one delivery (`row`, `attempts`, `retry`)
and what each delivery pass and the cancellation of its task carry in memory.
Everybody reads, prepares an event outside the writer and commits it in one writer
transaction; a transaction is one step, which WriteAdmission justifies, and its
answer may be lost. `StartPreflight`, `FinishPreflight`, `RecoverPreflight` and
`CancelPreflight` are the decisions the code makes inside the transaction; "corrupt"
stands for each of its `bail!`s. There is a set of passes, since the store does not
rely on there being only one, and a pass can stop anywhere. A recovery that cannot
read its candidates or their snapshot (`RecoveryUnavailable`) repairs nothing, cools
down and lets its pass go on. The execution that the pass spawns and aborts on a
timeout can have committed before: `TimeOut` is possible after the commit. Time is
three comparisons (`dueNow`, `due`, `stale`). Left out: several deliveries and their
paging, authority checks, the work at the destination.

**WorkSignal** is the watch channel with its epoch of unknown outcomes, the guards
of `changing`, and the writer's commands as a queue in which `begin_pass` puts its
fence. It is extended by **TaskScheduler**: the run loop, the passes of the loop and
of the service under `process_lock`, both refreshes, the rebuild flag, the `Notify`
permit, the dirty revisions and the event subscription that overflows. A mutation
changes the inputs of one task; the tracked ones go through `track_task_mutation`,
the others commit behind the scheduler's back; a caller may go away when its command
is already with the writer. `cache` is the set of tasks whose inputs the due queue
has taken in. A row that a refresh cannot read leaves its task marked and the pass
`partial`: the pass counts as complete, and the loop does not sleep after it. What a
pass does with due work is abstracted to the marks and wake-ups it leaves; a scan is
one step. `TopOfLoop` raises the rebuild flag and `AcknowledgeSignal` calls
`begin_pass`: a service pass can run in between. `erased` remembers the race of the
first finding, so that NoMissedWork can say everything but it.

**SessionOutbound** has two lanes with an account behind a mutex each. A send is
`Begin`, register, try (with its mutex, up to the publish), await; `owed` is the
time between an unlock and the `notify_waiters` after it, and `follow` the time
between the two lanes of a close or abort. The writer's biased select is polled
branch by branch; a write ends well, fails or times out; the end of the writer task
drops the receiver, whose envelopes return their charges. A sender that published
after that would drop its own envelope and wait for the mutex it holds; the model
has no step out of that state, and NoPublishAfterTeardown proves that it is not
reached.

**RemoteAccess** is the supervisor of the relay client. `holder` is what the call of
`apply` or `shutdown` wants that has the mutex; a call that still waits for it has
done nothing. `Cancel` drops its future while it joins the previous task, whose
handle stays in `task`. A task that ended is not told anything any more, since its
end of the shutdown channel is gone. The supervised task polls the three branches of
its biased select one by one, so that the client can report and end in between.
`StatusSnapshot` is what a reader of the status is told. Tasks are kept by
generation, so that two can exist. The three events by which a relay rejects a
gateway are one, and a public URL is the key it belongs to.

The `MC*` modules instantiate these for TLC and define symmetry sets. Definitions
marked "Mutant" are wrong variants of the definition that follows them; no
specification uses them. They are what shows that a property can fail.

## The runs

| run | shows |
|---|---|
| ordered_ingress_safety | order, no loss, conservation of permits, the key count; OrderedIngress implements EventStream |
| ordered_ingress_progress | durable events are sent although no timer fires; once the clock runs everything accepted is sent, and `close` ends the worker |
| write_admission | one owner of the writer, for as long as a savepoint or stream needs it; no waiter at an idle writer; at most `max_non_maintenance_burst` grants pass a waiting maintenance request and `max_critical_burst` a waiting interactive one; both are granted under continuous load |
| durable_lane | one consumer, a backlog without loss or reordering, no false confirmation, a turn transition that stays locked while an envelope of it exists; in a lane that is leased again and again, commit waiters are answered and transitions released once their callers let go |
| snapshot_lane | the newest value is never lost, wake-ups are not lost, `close` ends the receiver |
| progress_lane | every delta is in one place, nothing is left without a flush, the map is clean when a durable event is enqueued, every accepted delta is sent or merged into one that is |
| task_delivery | no transaction meets rows the lifecycle could not have left; an attempt is executed by one pass; nothing closed is rewritten; whatever stops a pass, the delivery ends |
| task_scheduler | the loop never sleeps on a commit it has not read, also when the committing caller went away; the mark of a tracked mutation outlives a refresh that ran too early |
| session_outbound | no lost wake-up, the reserve for replies, and the end of a closed session with every charge returned |
| remote_access | no URL of an old key is shown, one relay client at a time, a rejection is final, stops complete |
| progress_causal, task_scheduler_direct | the findings below |

*Bounds.* Two producers are enough for every race on the ingress, whose worker is
alone; four offers give a merge, a second segment, a durable event between two
updates of one key and a refused key. Three writers are one that holds the writer
and two that wait, in one class or in two (all three classes never queue at once);
they come back for ever, so the bursts 2 and 3 are reached, and overrun by the
mutants. `CounterMax` is 3, the larger burst, so the counters saturate where they
are compared. Two publishers and a lane of two, with three events, give a backlog of
two, a publish that waits for a slot (the event of a cancelled call keeps its slot),
two envelopes with one guard, and two listeners that race while one of them is
dropped. Three snapshots over items of two turns give a replacement while another
item waits. Two timers and one publisher give every overlap of two drains and a
third sender; `MaxFlushBatch` is 1 so that every drain with two keys leaves
something behind. Two delivery passes meet at every step; three attempts give a
first, a middle and a last one, and three faults let recovery itself fail and be
deferred. Two mutations, one of them tracked, an event subscription of one and one
storage error give a lag, a failed refresh and a commit between any two steps of a
pass. The outbound lanes have three slots and four bytes, of which data may hold two
and three; a data message has two bytes, so a lane reaches the byte half of the data
share and never its slots, which only the theorem ReserveIsKept covers. Two tasks
send three times in all: a notification, of which two exceed the data share, a reply
larger than the reserve, a Close frame, an audio acknowledgement, or an outcome that
fits no lane. For remote access, two keys and three generations replace a client
that was itself about to be replaced, one restart reaches the limit, and two queued
events put a report before a rejection. Deadlock checking is off where the modelled
bound or an ended worker really stops a behaviour.

*Fairness.* Weak fairness on the steps of a task that is already running: tokio
polls a woken task, destructors run to the end, `notify` follows the unlock. Nothing
makes anyone offer, publish, write, cancel, apply or close. The ingress's consumer
receives until it is dropped. Properties about its flush interval have `ClockRuns`
as their premise. The timers of ProgressCoalescer fire, and a flush has no await
between its drain and its last send; ProgressIsSent has as premise that flushes can
be scheduled again and again (`FlushesScheduled`), since outside a runtime nobody
spawns a timer. A holder of the SQLite writer finishes (strong fairness on its last
owner, because it may open savepoints in between). Nobody is obliged to lease the
durable receiver again when a listener ended: a native runtime leases its hub on
demand, and the CLI runtime makes a new hub and leaves the old one. WaiterIsAnswered
and TransitionIsReleased therefore have the premise `Resumed` (the lane is leased
again and again, or closed), and the latter also that the callers of the turn drop
their clones. Strong fairness excludes only that each of these listeners ends before
it asked for an event or took one that is there: their loops are biased to their
stop signal, so a single one may. Delivery passes loop for ever, an execution is
bounded by its timeout, and time passes. A socket write and the drain of a closed
session have deadlines; nothing else is assumed of the socket. A relay client ends
when it was told to (`tunnel/src/lib.rs:255` relies on it), and need not end or
report anything otherwise. TaskScheduler is checked for safety only: NoMissedWork is
the safety half of "what was committed is scheduled".

*InteractiveProgress* assumes that maintenance stops ageing at some point. The code
gives interactive writes no bound otherwise: an aged maintenance request goes first
and clears `consecutive_critical`, so critical writes and ageing maintenance can
alternate around a waiting interactive one. The same happens when
`max_non_maintenance_burst` is not above `max_critical_burst`; the defaults are 16
and 8. The code promises no more, so this is no finding.

## Findings

* A service pass can lower the rebuild flag that the scheduler's run loop has just
  raised (`tasks/src/scheduler.rs:570`): it stores `false` after its read,
  whoever raised the flag meanwhile. The loop has acknowledged the work signal by
  then, makes a pass that does not rebuild, and sleeps without the deadline of a
  direct commit, although the comment at line 183 says that such a commit must
  refresh the cached deadlines first. Run task_scheduler_direct.
* `runtime-events/src/lib.rs:4` says that a durable publish flushes causally related progress
  first. It flushes the map, which the run progress_lane confirms
  (MapFlushedFirst), but a timer task that has just drained a delta and not yet
  sent it is not waited for, and the durable event can overtake it on a
  multi-threaded runtime. Run progress_causal.

Met on the way, without a run: the comment on `durable_lane_is_closed`
(`hub.rs:637`) says that it "Returns true once the durable consumer has gone away".
The receiver belongs to the hub since listeners lease it, so the answer stays false;
nobody outside tests calls it.

Also met: when a CLI runtime loses its listener, the gateway puts a new hub in the
place of the old one (`gateway/src/cli_runtime/handlers.rs:3494` and `:3689`). A
publisher that has queued an event with the old hub keeps it alive by its borrow,
and nobody leases that hub again, so it waits at `hub.rs:401`, with its clone of the
turn's guard, until its future is dropped. The comment at `hub.rs:277` says that "a
replacement listener resumes from the same queue"; that is so for the hub, and for
the native runtime, which leases the same one. The CLI runtime never gives that
queue a replacement, which is the case that `Resumed` excludes.

## Proofs

Eight modules `*_proofs` hold theorems of the specifications, for every value of
their constants: any number of producers, keys, writers, passes or mutations, not
only those of the runs. There is one for each component, except that
`Coalescers_proofs` is about both coalescing lanes of the hub. The only assumptions
are the named ASSUMEs of the specifications, and TLC evaluates them in every run.
They say that limits and bounds are natural numbers, that the output channel of the
ingress has a slot and the event bus of the tasks a capacity, that a "nothing" value
is no element of the set it is added to, that tracked mutations are mutations and
snapshot keys are keys, that timers and publishers of the progress lane are
different tasks, that the burst limits of the write admission fit the width of its
counters (they have the same type), that data may take something of an outbound lane
but neither all slots nor all bytes (the constants of `outbound.rs` do so), that
outbound messages have a size, and, for the snapshot lane, that there is an item.

| theorem | states |
|---|---|
| OrderedIngress: TypeCorrect, OrderPreserved, NothingLost | `[]TypeOK`, `[]NoCrossing`, `[]Lossless` |
| OrderedIngress: NoPermitLeaks, KeysAreCounted | `[]PermitsConserved`, `[]KeysCounted` |
| OrderedIngress: Refinement | `Spec => StreamSpec`, the implementation of EventStream |
| DurableLane: TypeCorrect, OneConsumer, BacklogKept, OkIsHonest, TransitionsOwned | `[]TypeOK`, `[]SingleConsumer`, `[]BacklogSurvives`, `[]OkIsConfirmed`, `[]TransitionOwned` |
| SnapshotCoalescer: NewestKept, NoLostWakeUp | `[]LatestKept`, `[]WakeUpOnItsWay` |
| ProgressCoalescer: DeltasAreConserved, NothingIsStranded, ScopeLeavesTheMapFirst | `[]Conserved`, `[]NothingStranded`, `[]MapFlushedFirst` |
| WriteAdmission: TypeCorrect, WriterHasOneOwner, NobodyWaitsForAnIdleWriter | `[]TypeOK`, `[]OneReservation`, `[]IdleWriterHasNoWaiters` |
| WriteAdmission: MaintenanceIsServed, CriticalRunsEnd | `[]MaintenanceBypassBounded`, `[]CriticalRunBounded` |
| TaskDelivery: TypeCorrect, RowsNeverCorrupt, AttemptHasOneOwner | `[]TypeOK`, `[]NoCorruption`, `[]SoleOwner` |
| TaskDelivery: LosersWriteNothing | `Spec => ClosedStaysClosed`, an action property |
| TaskScheduler: NothingSleptOn, HintsSurvive | `[]NoMissedWork`, `[]AddressedHintSurvives` |
| SessionOutbound: WakeupsArrive, ReserveIsKept | `[]NoLostWakeup`, `[]ReplyReserve` |
| SessionOutbound: AccountsBalance, NoPublishAfterTeardown | no counter underflows or passes its limit and an empty lane has an empty account; no send publishes to a closed receiver |
| RemoteAccess: UrlIsCurrent, ClientIsOwned, RejectionStays | `[]NoStaleUrl`, `[]OneClient`, `[]RejectionIsFinal` |

Each proof has one inductive invariant and one lemma per action, or per group of
actions that change the same state in the same way.

*Ordered ingress.* `NoCrossing` speaks of emitted events only, so a step that emits
one needs to know what is still queued. `IndInv` adds it: every queued offer is an
accepted one of its own class (`HeldIsLogged`); offers of an earlier segment are
older than those of a later one (`SegmentsOrdered`); what was emitted is older than
what is queued wherever the order matters (`EmittedFirst`); every accepted offer is
emitted or queued (`AllAccounted`); a segment's `order` and `by_key` agree and are
not empty (`SegmentsWF`); and the worker that looked at the queue, released the lock
and came back still finds a front (`WorkerHasFront`), since nobody else pops. Two
lemmas carry the order: `AcceptKeepsOrder`, since a new offer is the youngest and
joins the back, and `EmitKeepsOrder`, since what the worker takes is the oldest of
its class. The refinement maps an accepted offer to `Accept`, `PopDurable` to
`EmitDurable` and `PopCoalesced` to `EmitMerged`, whose guards follow from the same
invariant. All other steps stutter.

The two counters come from a second invariant, `CountInv`. `Slots(C)` are the pairs
of a position and a class of `C` that hold something there; free permits, held
permits and durable slots add up to the capacity, and the key counter is the number
of key slots. An accepted offer adds one slot or none, a permit moves from an offer
into the queue, and a pop removes a slot of the front and shifts the others by a
bijection, which keeps their number. A producer is in the semaphore's queue once and
only while it waits (`WaitersSound`), so a grant makes exactly one holder. The sets
counted are finite because they start empty (`Finite`); producers and keys need not
be.

*Durable lane.* `SingleConsumer`, `BacklogSurvives` and `OkIsConfirmed` are
inductive once it is known that a listener has a pending event exactly while it
handles one and that a publish call keeps the hub alive (`LocalInv`).
`TransitionOwned` follows from `HasClone`: every envelope that exists with a turn is
itself among the holders of the turn, and so keeps the mutex locked whatever the
callers and the other envelopes do. That needs that an envelope that goes away is
not found elsewhere, or its clone would be dropped too early. `Identified` says that
an envelope has no number before it is sent and one of the past once it was
received; with the numbers of the backlog and the single consumer, no envelope is in
two places (`Places`).

*Snapshot lane.* `WakeUpOnItsWay` is about a receiver that awaits. The inductive
`WakeUpKept` covers it from the moment it found the map empty, which is where the
wake-up would be lost.

*Progress lane.* Conserved compares sets of deltas; the invariant says where each
single delta is. Only accepted deltas are anywhere (`OnlyAccepted`), each is
somewhere (`AllKept`), and in one entry of the map, one event of one batch, sent or
merged away (`OnePlace`). A task that does not send has an empty batch
(`BatchSent`), so no drain overwrites what an earlier one took. `Promised` says who
will drain when the flag is up, and why something may lie in the maps when it is
down. `ScopeFlushed` covers a publisher from its last drain on, before its event is
sent: progress of its scope that is in the map is newer.

*Write admission.* `Settled`: a queue holds requests of its class that have no
reservation, each once, so that a grant to its head makes the only reservation there
is; permits have owners exactly while they are held; nobody waits at an idle writer.
`DebtSound`: the two debt counters are never below what was really passed over, up
to the value at which they saturate, and a class is passed over only while its debt
is below the limit. Cancellation removes requests and never debt that a waiting
request counts on.

*Task delivery.* Whatever an actor prepared before it waited for the writer, its
transaction does one of four things to the rows: nothing, grant the next attempt,
close the current one, or cancel a pending delivery (`RowStep`). Each keeps the rows
in the shape their own checks ask for (`RowsSound`), and none rewrites what is
closed. What a pass carries in memory is behind the rows and never ahead of them
(`Carried`), so a prepared event is current or superseded, never corrupt. That
recovery is deferred only for faults (`DeferralsCounted`) rests on the same fact.

*Task scheduler.* Of the signal: a command is in the writer's queue once, nothing is
dispatched behind the fence, and while a command nobody waits for is in the writer,
the uncertain outcome it left is not settled and a subscription that is ready has
not seen it (`SeenSound`). Of the loop: from the moment the loop raises it to the
pass the rebuild flag is up, unless a service pass lowered it (`FlagUp`; this is the
first finding, and why `erased` is there), and what is missing from the cache and
was announced is still to be read (`NothingMissed`): by the rebuild of this pass or
the next, or by its mark, which the pass is still to copy or to read, or has kept
because it could not read the task, and then the loop does not sleep (`Ahead`). Of
the hints: a mark that moved since the pass copied it is not removed (`MarksSound`);
a read that was too early does not count for it.

*Session outbound.* `Shape`: a mutex is held across steps by the one send that
publishes to its lane; a send that tries or awaits was registered before; the
account of a lane is closed under its mutex before its receiver is, hence no
publisher ever meets a closed receiver (NoPublishAfterTeardown). For NoLostWakeup,
every step that returns a charge or closes a lane owes its `notify_waiters` until it
has called it, and the call finds the waiter registered. ReplyReserve needs to know
what the account stands for. `Accounted`: of each class, the slots and bytes charged
to a lane are those of the envelopes in its channel, at the writer and at the
publishing send. The sum over a channel is not computed: `Holds` says that a
function of suffix sums exists, which a push extends and a pop shifts, so no
induction is needed. With `Bounded` (what `Full` lets through stays within the
limits) a lane without replies has charged no more than the data share, and the rest
is free. `Accounted` also shows that the subtractions of `Reservation::drop` stay at
or above zero (AccountsBalance).

*Remote access.* The state keeps handle and shutdown channel of a task until it has
ended, so at most one task lives and it is the state's (`Owned`). No other task was
ever told to stop (`Held`), and a task that was not told runs for the key last asked
for (`Current`). A rejection waits in the event channel, or is published, or its
task was told to stop (`Remembered`); the events are drained one by one in the model
as in the code, and the rejection cannot be passed over.

Only model-checked: the liveness properties and everything that depends on fairness,
since TLAPS does not reason about ENABLED. Every invariant of a passing run is
proved. The provers at hand do no induction over data, so what a recursive
definition computes for every input is out of reach; no specification here needs
RECURSIVE, and counts and sums are followed by the change each step makes to them.

## Not modelled

The parts marked `not_modelled` in `PROJECT.json`, the broadcast of committed
events, the lag of broadcast receivers, all observability (queue observers, work
carriers, correlation), SQL execution, and the contents of events. Of the task
service, the status of tasks and runs, reviews and write locks: their rules are
spread over the service, the projector and SQL transactions, and a model of one
without the others would not be faithful. The callers of remote access (settings
updates, the persisted URL) and the whole-process restart of the gateway. Desktop,
provider, protocol, memory, artifact and tool crates are user interface, I/O, data
definitions or database access without a protocol of their own. They are most of the
repository by size: the models cover the protocols, a small part of its lines.

## Plan

1. Task and run status with cancel and review.
2. The hub as a composition of the three lanes, with an abstract
   specification of an execution's event history for listeners.
3. The settings update and the persisted URL around RemoteAccess; MCP OAuth
   flows; crash points of the updater.
