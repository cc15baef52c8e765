# Verification of RinCode

RinCode is an agent runtime: users, cron jobs and subagents submit *turns*, a
scheduler runs them one at a time per conversation, and what they produce is
delivered to chat channels or a terminal UI; sessions and scheduled jobs live in
files that several processes share. This directory holds TLA+ models of the parts
of it where orderings and crashes matter, the TLC configurations that check them,
and TLAPS proofs about them. Paths below are relative to `src/rincode/`.

```
tlc -workers 2 -config SpineChat.cfg MCSpineScheduler     # a run, see "Runs"
tlapm SpineKeepingProofs.tla                              # a module of proofs
```

## The system

| part | state | operations | talks to |
|---|---|---|---|
| **Turn scheduler** `spine/scheduler.py`, `spine/turn.py` | lanes by conversation; per lane a queue, an inject mailbox, a worker, the payload task of the running turn; two semaphores; reaper; shutdown task | `submit` (append, inject, interrupt), cancel of a handle, `/stop`, idle reaping, `shutdown` | calls the *runner* (agent loop) and the *event sink*; settles the futures behind handles |
| **Delivery hub** `spine/delivery.py` | per channel a bounded queue and a resident worker; routes of streams, open streams | `dispatch`, `post`, `close_stream`, `wait_idle`, `aclose` | called by sinks; calls *outlets* (channels, TUI) |
| **TUI plumbing** `tui_rpc/spine.py`, `tui_rpc/methods/turn.py` | the active turn of a session, ids and usage per request | `turn.send`, `turn.cancel`, sink for turn events | scheduler, hub, subscriptions |
| **Subscriptions** `tui_rpc/subscriptions.py` | per subscription a queue of 512 events and a consumer that coalesces | register, emit, overflow, close | the RPC connection |
| **Question/confirm brokers** `tui_rpc/question_broker.py`, `confirm_broker.py` | one pending future per conversation | ask, reply by request or by conversation, time out, cancel all | tools, the RPC server, gateway intake |
| **Cron service** `proactive_engine/schedulers/cron/service.py` | a job file shared by processes, a timer, claims with a TTL | start, stop, run due jobs, run one by hand, add, remove, enable, silent-fire count | file lock; submits CRON turns |
| **Session store** `session/manager.py`, `utils/atomic_io.py` | a JSONL file, a deletion epoch and its marker, per session; a cache | load, save (append or rewrite), delete, fork, flush | file lock, crashes, other processes |
| **Subagent manager** `agent/subagent/manager.py` | running tasks and rate windows per session | spawn, announce, cancel by session | submits SUBAGENT turns |
| **Agent loop** `agent/loop/` | a conversation's history, checkpoints | one coroutine per turn | providers, tools, session store |
| channels, hosts (`cli/`), context and memory engines, providers, routing, call efficiency, sandbox, evolver, UIs | configuration, caches, vendor connections | | |

A turn's life: a host builds a `TurnRequest` and calls `Scheduler.submit`; the
conversation's lane queues it, its worker starts a payload task, which takes a
slot of the origin's pool, announces `TurnStarted`, runs the agent, announces
`TurnEnded` or `TurnFailed` and returns; the worker settles the handle. The
runner's events go through the sink into the hub, where the channel's worker
hands them to the outlet.

What is hard here, and what would make it right:

* **Scheduler.** Cancels, interrupts, `/stop`, the reaper, the worker's exit and
  shutdown meet a turn at any of its suspension points. Right means: every
  accepted turn settles once and is never lost; one turn per conversation at a
  time; one lifecycle per started turn; slots neither leak nor multiply; a user
  does not starve behind the runtime; shutdown ends.
* **Hub.** A full queue suspends callers, who are cancelled or overtaken by
  `aclose`; outlets fail, hang or kill the worker. Right means: order kept, a
  barrier that covers what it claims, a stream that stays closable, an empty
  and quiet hub after close, channels that do not block each other.
* **TUI plumbing.** Two sources of terminal notifications, a one-second limit on
  the sink, a barrier on a shared channel. Right means: what the client is told of a
  turn's end is true, comes once unless a cancel comes too late (below), and after the
  last token; a turn's slot is released, and no other's.
* **Subscriptions, brokers.** Overflow, overlap and timeouts against late events.
* **Cron, session store.** Several processes on one file, stale in-memory copies,
  crashes between two files. Right means: no job run twice while its claim is
  live, no update lost, no deleted session revived, no torn state accepted.

The hazards, each at its line and with the properties that cover it, are in
`PROJECT.json`.

## Modules

| module | what it is |
|---|---|
| `SpineScheduler` | the scheduler, lanes, pools, reaper and shutdown; its properties; the invariant `KeepingInv` |
| `TurnLedger` | what the scheduler promises to a submitter, without lanes, queues or tasks |
| `MCSpineScheduler` | request sets, capacities, symmetry and fairness for TLC |
| `SequenceFacts` | lemmas on sequences: without repetitions, beginnings, folds by induction on the length |
| `SpineKeepingProofs` | type correctness; `KeepingInv` is inductive; the safety theorems that follow |
| `SpineOutcomeProofs` | pools, lifecycle events and shutdown, each with its invariant; the scheduler implements `TurnLedger` |
| `DeliveryHub` | queues, workers, streams, barrier and close of the hub; its properties |
| `DeliveryHubProofs` | the hub's invariants, from the place of every call to the life of a stream |
| `MCDeliveryHub` | the calls and channels TLC uses |
| `Subscriptions` | the event queues of one TUI session and their coalescing consumers |
| `TuiTurns` | turns of one TUI session from `turn.send` to the terminal event; extends `Subscriptions` and composes it with a reduced lane and hub |
| `TuiTurnsProofs` | the invariants of the turns, of what the client is told, of where the text falls and of the streams |
| `MCTuiTurns` | its instance |
| `AskUser` | questions and confirmations: both brokers and the three ways an answer comes in; the invariant `AskUserInv` |
| `AskUserProofs` | `AskUserInv` is inductive, and what follows |
| `MCAskUser` | its instance |
| `CronService` | processes that share a job file: claims, runs, the public calls, start, stop and crash; the invariant `CronInv` |
| `CronServiceProofs` | `CronInv` is inductive, and what follows |
| `MCCronService` | its processes, jobs and fairness |
| `SessionStore` | one session's file, epoch and marker, the Session objects that write it, and crashes between the writes |
| `SessionStoreProofs` | `StoreInv` and `HistoryInv` are inductive; what every write has seen; the file implements `GenerationLog` |
| `GenerationLog` | what the session store promises: a history that grows within a generation, of which a new one keeps a beginning, and that never takes back what it dropped |
| `MCSessionStore` | its instance and symmetry |

Operators whose comment begins with `Fault:` are wrong variants of the operator
after them, of the kind a plausible bug would be. No specification uses them;
`PROJECT.json` pairs each property with one that breaks it.

### Granularity

The code runs on one asyncio loop, so a step is what runs between two suspension
points: a synchronous call (`submit` with everything `Lane.submit` does), or one
resumption of a task. `Task.cancel()` sets `cancelling`; the `CancelledError` is
an action of its own at the task's next step. A worker that settles a future,
puts leftover injects back and pops the next turn does so in one action
(`WorkerResumes`), because the code has no `await` there.

### SpineScheduler and the code

`registry` is `Scheduler._lanes`; `pending`, `mailbox`, `worker`, `idle`,
`current` are `Lane._pending`, `_inject_mailbox`, `_worker`, `_idle_since`,
`_running_fut`; `task` says where the payload task `_run_task` is suspended
(created, queued for a slot, starting in the sink of `TurnStarted`, running in the
runner, emitting the terminal event, done); `chained` is the local list of merged
injects; `result` is the future behind a handle; `events` is a history variable.
`free` and `waiters` are the semaphores.

| actions | code |
|---|---|
| `Submit`, `LaneSubmit` and its parts | `Scheduler.submit`, `_effective_busy`, `Lane.submit`, `_enqueue` |
| `CancelTurn`, `Stop` | `TurnHandle.cancel` / `Lane.cancel_turn`; `cancel_conversation` / `Lane.cancel` |
| `WorkerBegins`, `WorkerResumes` | `Lane._run_worker` |
| `TaskBegins`, `SlotGranted`, `RunnerBegins`, `RunnerDrains`, `RunnerReturns`, `RunnerRaises`, `Cancelled...`, `CancelSwallowed`, `TerminalSent` | `Lane._run_turn`, `_emit_terminal` |
| `Sweep` | `_reap_loop`, `_sweep` |
| `ShutdownSeals` ... `ShutdownEnds` | `shutdown`, `_finish_shutdown` |

Abstractions. A turn's text, source and usage are left out; an outcome is "ok" (a
`TurnOutcome`) or "none" (`None`). Idle time is a choice: any idle lane may be old
enough. The grace window may close at any moment. A released slot and the wake-up
of the waiter are one step of the waiter, which allows fewer states in which a
slot is reserved and none in which it is lost. A `Lane` object nothing refers to
any more stands for a new one (`Unused`), so that finitely many identities serve
any number of reapings. Two shutdown actions that the code may run without a
suspension in between are kept apart, which only adds interleavings. Not modelled:
a runner that swallows cancellation or returns `None` (its type excludes it), and
a worker task that is itself cancelled (only at the end of the process).

### DeliveryHub and the code

`queue`, `putters`, `unfinished` are the channel's `asyncio.Queue`: items, callers
suspended in `put`, unfinished count; `worker` says where `_run_outlet` is
suspended, `item` and `attempt` what it delivers; `routed` and `openStreams` are
`_stream_channel` and `_open_streams`; `stage` follows `aclose`; `status`,
`covered`, `accepted`, `received` record what became of each call.

| actions | code |
|---|---|
| `Dispatch`, `Refuse` | `dispatch`, `post`, `_enqueue` |
| `CloseStream`, `Withdraws` | `close_stream` and its `except` clause |
| `Put`, `PutterResumes`, `GivesUp`, `Drain` | `_put`, `Queue.put` when cancelled, `drain` |
| `WorkerLoops`, `Takes`, `Skips`, `SendSucceeds`, `SendFails`, `Retries`, `Reports`, `SendKills`, `WorkerCancelled` | `_run_outlet`, `_stream_chunk`, `_close_stream_chunk`, `_deliver_routed`, `_deliver_with_retry`, `_report_delivery_failure` |
| `WaitIdle` | `wait_idle` |
| `Seals`, `CloseCancels`, `CloseEnds` | `aclose`, `_finish_close` |

Abstractions. Each conversation has one home channel, as hosts bind them. The calls
of one conversation come one after the other, because a turn's runner awaits each
`emit` and the terminal sink follows the runner. Outlets are registered before the
first call, as every host does. The worker's loop top is a step of its own, which
adds interleavings. A dead worker is replaced at the next dispatch, never by
`close_stream` or `wait_idle`: the worker dies in the safety run only. An outlet
that swallows cancellation is left out, and so is tracing. `drain()` has no caller
outside the hub. The sleep before a retry has no length.

### TuiTurns, Subscriptions and the code

`TuiTurns` keeps of the scheduler one lane (`lane`, `current`, `phase`), of the hub the
texts queued for the `tui` channel (`hub`), and of the TUI the whole state of a
session: `active` (`_active_turns` with its request key), `ids` (`turn_ids` and
`submission_ids`, written and removed together), `runningRequest`
(`running_requests`), and the `turn.cancel` calls that wait for a handle (`cancels`).
`Subscriptions` has the objects of that name (`subs`); `emitted` is what was emitted, in
order. What a subscriber is still owed and whether all it got was owed are history.

| actions | code |
|---|---|
| `BindRuntime`, `Send`, `SendFails`, `SubmitSystem` | `_bind_runtime` (`cli/tui_commands.py`), `turn_send`, `_emit_start_then_error`, the subagents' submit |
| `WorkerSteps`, `Leaves`, `CancelIsDelivered`, `CancelHandle` | `Lane._run_worker`, `_run_turn`, `cancel_turn`, as `SpineScheduler` has them in full |
| `RunnerBegins`, `RunnerWrites`, `RunnerReturns` | `TuiTurnRunner.run` |
| `HubDelivers` | `TuiOutlet.send_stream_chunk` under the hub's worker |
| `SinkReports`, `SinkIsCut` | the sink of `_make_tui_sink`; the deadline of `Lane._emit_terminal` |
| `Cancel`, `CancelReturns` | `turn_cancel` before and after `handle.result()` |
| `Register`, `Unregister`, `EmitAll` with `Put`, `TakeFirst`, `Flush` | `register`, `unregister`, `emit`, `_close_overflow`, `_coalesce_loop`, `_merge_consecutive_token_deltas` |

Abstractions. A lane never has two turns of the user, because `turn.send` refuses one
while the session has a turn that is active, waiting or running; a system turn may stand
before or behind it. `RpcServer.send_frame` writes to a pipe and never suspends
(`tui_rpc/server.py`), so an emit with all its overflows, and a flush, are one step. The
notice a subscriber gets on overflow is left out: its subscription is closed
either way. A token delta names no turn on the wire; the model keeps its author in the
text. Progress and usage events are left out, and so is the path of `turn.send` while the
process drains, which is that of a failed binding. One subscription id stands for all
later ones.

The error that `turn.cancel` sends (`error:cancelled_by_client`) is a report of the end
like the sink's `message.complete` and `error:internal`, and `TerminalIsTrue` counts all
three. There is one, except for the turns in `crossed`: those a `turn.cancel` found after
their payload had ended, or after another `turn.cancel`. For them the docstrings promise
one as well and the code sends two; that is the divergence of `TuiCancel` below.

One thing the model shows and no text denies: after a sink was cut by its deadline the
turn keeps its slot and ids until `turn.cancel`, while its late tokens may be shown in a
next (system) turn. The properties say so (`cut`).

### AskUser and the code

A request is the coroutine of one `await_question` or `await_confirm` together with its
future and id. `pending` is `QuestionBroker._pending`; `byRequest` holds the keys of
`_by_request` and of `ConfirmBroker._pending`. `step` says where the coroutine is
suspended: in `_send_frame`, or in `asyncio.wait_for`.

| actions | code |
|---|---|
| `Ask`, `Sent`, `SendFails`, `Resumes` | `await_question`, `await_confirm`, to and after each suspension |
| `TimesOut`, `CancelTask` | the timeout of `wait_for`; a cancel of the turn that asks |
| `ReplyByRequest` | `clarify.respond` with a request id, `confirm.respond` |
| `ReplyByConversation` | the gateway's inbound message, `clarify.respond` with a conversation |
| `CancelAll` | `cancel_all` at the end of the input |

`wait_for` of the Python version the project pins (3.12) drops an answer that was accepted
when the timeout or a cancel fires before the coroutine resumes; the model has it, and
`AnswerReachesAsked` excepts it, although the docstring of `tui_rpc/methods/question.py`
(line 10) has `ok=True` mean that the answer has reached the waiting tool call. The gateway routes an inbound message to a question even
when its future is done and its coroutine has not resumed; such a message changes nothing
and is no action of the model.

### CronService and the code

`store` is `jobs.json`; a record holds the schedule, topic, enabled flag, next run, status
and claim of a job. A batch of claimed jobs lives in a task, the timer task of a host or
the one call of a CLI command: `claimed`, `since` and `copy` are the jobs, the time of the
claim and the objects of them, which go stale while callbacks run. `cancelling` says that
the task was cancelled and its callback has not unwound. A host that re-arms its timer from
inside a callback may claim a second batch before the first has unwound, and the end of
the first, which arms the timer again, then cancels the second.

| actions | code |
|---|---|
| `RunDue`, `RunJob` with `Claim` | `run_due` up to the end of its locked section; `run_job` likewise |
| `CallbackReturns`, `CallbackCancelled` | the end of `_execute_job`, `_persist_job_result`, `_release_claims` |
| `AddJob`, `RemoveJob`, `EnableJob`, `DisableJob` with `ArmTimer` | the public calls, by the cron tool in a host or by a CLI command |
| `StartLoads`, `StartSaves`, `Stop`, `Crash` | `start` in its two unlocked halves, `stop`, the end of a process |

Abstractions. A schedule is recurring (`Every`; interval and calendar alike) or a
one-shot's time. All jobs have one channel and recipient; which job has the message of a
new one is left open. "ok" and "error" are one status, as nothing later tells them apart.
A batch is worked off in any order. A pid is never used again (a restart is another
process). Ids of removed jobs are not used again. Records that cannot be parsed and the
count of silent fires are left out; nothing calls the latter.

Start is the weak point of the file: it loads, recomputes and saves without the lock
(`service.py:411-413`), so a claim, a new job or a removal that another process writes in
between is undone, though the class comment (128-131) counts on the lock against this.
`overwritten` collects the jobs it happened to, and the three safety properties are
claims about the others. Further, the result of a run writes back the enabled flag and
next run of the copy (579-580), so a disable or a new schedule given while the callback
ran is lost; a callback that is cancelled leaves the turn it had submitted running; and a
reminder whose own turn removes or adds a job in the same process cancels its own
callback, with the next section's divergence.

### SessionStore and the code

`disk` is the JSONL file (`there`, `msgs`, `meta`, `torn`: it ends in half a record), the
marker and the epoch; `mem` holds `Session` objects, each with the snapshot it
last read or wrote (`snapMsgs`, `snapMeta`, `epoch`) and a confirmation that may be open.

| actions | code |
|---|---|
| `Load`, `Invalidate`, `Record`, `SetMeta` | `_load_state`, `invalidate`, `Session.record`, `session.title` (also what consolidation and clarification leave in the object) |
| `Save` with `SaveAs`, `AppendTo`, `RewriteAs` | `save`, `flush`; `locked_append`, `atomic_replace` with their checks |
| `CommitHistoryRewrite`, `NewSession` | `session.clear`, `session.undo` with `commit_history_rewrite`; `/new` |
| `CliDelete`, `AskDelete`, `ConfirmedDelete` | `rincode session delete`; `session.delete` before and after the confirmation |
| `Write` | the file lock: the operation as a whole; or its process dies, or it fails, after any of its writes |

Abstractions. A turn stands for its records and is recorded once. Metadata, the mark of
consolidation and a pending clarification are one value, since every check compares all
three. A crash in an append leaves any prefix of the new turns, with or without
half a record. An operation may also fail and its process live on. A failed `os.replace` or
`unlink` puts the epoch back and leaves the disk as it was, unless the restoring fails too;
a failed write, flush or fsync of an append (`atomic_io.py:205-216`) restores nothing, so
that the disk stays in one of the stages a crash may leave, all of the new turns included.
The object keeps its snapshot, and its next save appends the same turns again: turns may
stand twice in the file, and no text of the repository denies it. `crashes` counts
both. Fork, listing and resolving of keys, reads on a read-only disk and edits of stored
records in place are left out.

## Runs

| run | instance | properties | states |
|---|---|---|---|
| `SpineChat` | 3 turns of every policy (the runtime's interrupt is demoted), a conversation and another that shares its pool, 2 lane objects, 1 slot per pool | `TypeOK`, `SlotsConserved`, `AcceptedIsKept`, `SoleResolver`, `OneTurnPerConversation`, `LifecycleAgrees`, `ClosedIsQuiet`, `KeepingInv`; refines `TurnLedger` | 392 518 |
| `SpineLiveness` | 2 turns, two conversations of users, one with every policy, and a runtime one | `UserTurnsSettle`, `ShutdownReturns` | 185 854 |
| `SpineInterrupt` | 3 turns, one conversation, one lane | `InterruptJumpsBacklog`, **violated** | |
| `HubStream` | one channel, queue of 1, one retry; two deltas and a close marker of one conversation, an event of another whose delivery may kill the worker; one barrier | `TypeOK`, `WorkCounted`, `DeliveredInOrder`, `OpenIsClosable`, `BarrierCovers`, `ClosedIsEmpty` | 329 887 |
| `HubLiveness` | two channels, the second may hang; a stream, two events, one barrier | `BarrierReturns`, `BlockedCallReturns`, `CloseReturns` | 141 950 |
| `TuiSession` | 2 turns of the user and a subagent's, 2 pieces of text, two cancels of one of them, one subscriber with a queue of 2 | `TypeOK`, `StreamIsWhole`, `TextIsAttributable`, `TerminalIsTrue`, `ActiveIsReachable`, `CancelFreesSlot` | 928 911 |
| `TuiCancel` | one turn, one cancel | `OneReport`, **violated** | |
| `Questions` | 3 questions of one conversation, one confirmation | `TypeOK`, `WaitingIsReachable`, `AnswerReachesAsked` | 993 465 |
| `CronJobs` | a gateway with 2 tasks for batches, a TUI that may stop or crash, a CLI command; a stored recurring job and one to be added, by topic, schedule or time the same or not; clock to 4, interval 2, TTL 1, 2 tool calls | `TypeOK`, `ExclusiveClaims`, `ClaimsAreHeld`, `SettledStaysSettled`, `DueIsServed` | 375 418 |
| `CronCallback` | the same | `RemovalSparesCallback`, **violated** | |
| `SessionLog` | 2 objects, 2 turns, epochs to 3, 2 values of metadata, one crash or failed call | `TypeOK`, `ErasedStaysErased`, `SnapshotIsKept`, `NothingOverwrittenUnseen`, `DeletionWasSeen`; refines `GenerationLog` | 1 700 638 |
| `SessionCrash` | the same with epochs to 2 | `CrashKeepsKeyUsable`, **violated** | |

Why the bounds are enough. Three turns in one conversation give one that runs, one
that waits and one that arrives with any policy; two lane objects give a reaped
lane and its successor, or two lanes that compete for the one slot of a pool, where the
second turn waits and may be cancelled, granted or shut down in any order. A
queue of one item suspends the second caller, and the third stands behind it; the
real size (100 items) only delays that. Turns, lanes, calls and barriers
are finite sets of identities, each used at most once; there is no other bound in
these two.

Two turns of the user and a subagent's give a turn that ends while its successor is
active and a system turn before, between or after them; two pieces of text meet
in one coalesce window or not, and a queue of two overflows with three events
(`MaxText`). Two `turn.cancel` calls (`MaxCancels`) of the one turn in `Regretted` may
overlap, follow each other, or come too late; the other turn is then its predecessor or
its successor. Three questions are one that is replaced by one that is replaced.
In `CronJobs` the stored job is due at 3 and a claim made then expires at 4, the last
tick, so that a second process takes over from one that crashed, stopped or hangs, and a
claim by hand at 1 or 2 is long out of date when the job is due; `MaxClock` and `MaxCalls`
bound time and tool calls, and two `Tasks` of the gateway are one batch that unwinds and
one that has replaced it. In `SessionLog` two
objects are a writer and a stale one, four generations let one be cut or replaced, deleted
and begun anew while the other object, or the user who was asked, still has the first in mind,
two turns are one that is kept or dropped and one that others append, and one crash or failed
call may hit any write (`MaxEpoch`, `MaxMeta`, `MaxCrashes`). A claim too late to expire before `MaxClock` is set aside in `DueIsServed`.

`CHECK_DEADLOCK FALSE` in every configuration: once its finite set of turns,
calls, questions or ticks is used up, the system rightly stops. That nobody waits
for ever is what the liveness runs check instead.

### Fairness

The event loop runs every ready task and timer: `LoopFairness` is weak fairness of
each lane's (worker's) own steps and of the shutdown (close) task. The end of a
terminal event is fair by itself: `_emit_terminal` gives up after
`_TERMINAL_SINK_TIMEOUT`, whatever the sink does and however many cancels it
swallows. Clients are never fair. Runners and sinks of turns get fairness only where a
property needs it: users' turns in `UserTurnsSettle` (a runtime turn may hang),
nobody's in `ShutdownReturns`, which holds under the same specification because a
cancelled payload unwinds. In the hub only the outlet of the first channel is known
to come back; `CloseReturns` needs no outlet at all.

In `BlockedCallReturns` a putter that is woken can find the queue full again and go
to the back, as in `asyncio.Queue`. With an endless supply of other callers it could
starve; the finite set of calls does not show that, and it is not claimed.

In `CancelFreesSlot` the lane's worker, a cancelled payload task, the sink, which ends or is
cut by its deadline, and the coroutines of `turn.cancel` are fair (of the first three only
one can go on at a time, so that `LaneStep` is one condition); a pool's slot may never be
granted, a runner never return and the hub never deliver. In `DueIsServed` time
passes and one host, which nothing stops, starts, wakes up and gets an answer from its
callbacks; the process whose claim is in the way may hang or be dead.

### Divergences

`spine/turn.py:33-34` says that an INTERRUPT on a busy lane goes before the
existing backlog. `Lane.submit` decides by `_run_task.done()`. Between the end of
the payload task and the worker's next step the lane is busy by every other measure
(`running_future()`, `has_inflight()`), but the interrupter is appended. In
`SpineInterrupt` TLC finds the schedule: a turn has just ended, another waits, and
the interrupter lands behind it. Nothing is lost; the order is not the documented one.

`tui_rpc/methods/turn.py` (8-10, 322-325) and `tui_rpc/spine.py` (328-330) say that the error
of `turn.cancel` is the only report of a cancelled turn and that the sink keeps silent to
avoid a double error. While the sink of a turn that ended by itself waits in the render
barrier, the turn is still the active one: a `turn.cancel` that comes then finds the handle,
its cancel is swallowed (`scheduler.py:301-309`), it sends its error, and the sink goes on to
send `message.complete` or `error(turn_failed)`. `TuiCancel` shows it with one turn. (A second
`turn.cancel` that comes before the first has cleaned up sends its error too; `TerminalIsTrue`
excepts both through `crossed`.)

The docstring of `CronService.remove_job` (`service.py:933-935`) says that removing a job
does not cancel a callback that is running. It re-arms the timer, which cancels the task
in which `run_due` awaits the callback (488). `CronCallback` shows it: a host
claims a due job, and a tool call in the same process removes a job.

`utils/atomic_io.py:1` calls the file primitives crash-safe, and its comment at 168-169
takes a missing file for a legal snapshot of epoch zero. A process that dies in a
session's first append, between marker and epoch or between epoch and data, leaves
metadata that `read_epoch`, `_check_epoch` and `_load_state` refuse: the session can no
longer be loaded, saved or deleted. `SessionCrash` shows it.

## Proofs

TLAPS checks, for all sets of turns, lanes (finite), conversations and requests and all
capacities (`SchedulerAssumption`), for all sets of channels, conversations, calls and
barriers, all queue sizes and numbers of retries (`HubAssumption`), for all sets of user and
system turns, subscriptions and bounds of a terminal session (`TuiAssumption`,
`SubscriptionsAssumption`), for all sets of requests and conversations
(`AskUserAssumption`), and for all sets of processes and jobs, all schedules and lengths of
time (`CronAssumption`, `MissingAssumption`), and for all writers, turns, generations and
crashes of a session's file (`StoreAssumption`):

| theorem | statement |
|---|---|
| `TypeCorrect` | `Spec => []TypeOK` |
| `Keeping` | `Spec => []KeepingInv` |
| `NothingLost` | `Spec => []AcceptedIsKept` |
| `OnlyResolver` | `Spec => []SoleResolver` |
| `OneAtATime` | `Spec => []OneTurnPerConversation` |
| `SlotsAreConserved` | `Spec => []SlotsConserved` |
| `LifecycleIsTrue` | `Spec => []LifecycleAgrees` |
| `ShutdownLeavesNothing` | `Spec => []ClosedIsQuiet` |
| `LedgerIsKept` | `Spec => LedgerSpec`, the refinement of `TurnLedger` |
| `HubTypes`, `WorkIsCounted`, `BarriersCover`, `CloseLeavesNothing` | `Spec => []TypeOK`, `[]WorkCounted`, `[]BarrierCovers`, `[]ClosedIsEmpty` (`DeliveryHub`) |
| `DeliveryIsInOrder`, `DeliveryIsOnce`, `OpenStaysClosable` | `Spec => []DeliveredInOrder`, `[]DeliveredOnce`, `[]OpenIsClosable` (`DeliveryHub`) |
| `CallsMoveOn` | `Spec => [][\A i \in Calls : MovesOn(i)]_vars` (`DeliveryHub`) |
| `ActiveStaysReachable`, `TerminalStaysTrue`, `TextStaysAttributable` | `Spec => []ActiveIsReachable`, `[]TerminalIsTrue`, `[]TextIsAttributable` (`TuiTurns`) |
| `StreamStaysWhole`, `TuiTypes` | `Spec => []StreamIsWhole`, `[]TypeOK` (`TuiTurns`) |
| `AskUserTypes`, `WaitingStaysReachable`, `AnswersReachAsked` | `Spec => []TypeOK`, `[]WaitingIsReachable`, `[]AnswerReachesAsked` (`AskUser`) |
| `CronTypes`, `ClaimsAreExclusive`, `NoClaimIsLeft`, `SettledJobsStaySettled` | `Spec => []TypeOK`, `[]ExclusiveClaims`, `[]ClaimsAreHeld`, `[]SettledStaysSettled` (`CronService`) |
| `StoreTypes`, `ErasedTurnsStayErased`, `OverwritesAreSeen` | `Spec => []TypeOK`, `[]ErasedStaysErased`, `Spec => NothingOverwrittenUnseen` (`SessionStore`) |
| `SnapshotsAreKept`, `DeletionsWereSeen`, `FileImplementsLog` | `Spec => []SnapshotIsKept`, `Spec => DeletionWasSeen`, `Spec => KeepsGenerationLog`, the refinement of `GenerationLog` |

**Scheduler, keeping.** None of `NothingLost`, `OnlyResolver` and `OneAtATime` is
inductive. That an accepted turn is kept needs that only a worker's absence makes a lane
idle and reapable and that such a lane is empty (`LaneFits`); that its place is unique
needs that the places of a lane are disjoint and its sequences without repetition (`PlacesApart`); that no two lanes hold it, and
that no two run turns of one conversation, needs that every turn a lane holds is open
and belongs to the conversation the registry maps to that lane (`HeldIsOpen`), also
after the reaper replaced a lane; and that the settling steps settle only what leaves
a lane needs the converse (`OpenIsHeld`). `KeepingInv` is the conjunction of these
parts. `SpineKeepingProofs` proves it action by action, with one lemma for each, and
derives the three properties from it. The sequence facts (removing an element,
concatenating disjoint sequences) are in `SequenceFacts`.

**Scheduler, outcomes.** `SpineOutcomeProofs` builds on `KeepingInv`, since a slot, an event
and a verdict belong to the turn a lane holds.
`PoolInv` says of each pool that its queue is the lanes that wait for it, each once, and that
its slots are free or held; the slots are counted with cardinalities of the set of holders,
to which a step adds or from which it removes one lane, and a release gives the slot to the
head of the queue or back.
`StoryInv` adds what a sink has been told of a running turn at each point of its payload
task (`StoryFits`), which the verdict still to be settled must agree with: the turn's events
and its result meet only at the end.
`QuietInv` needs that nothing waits once the lanes were drained (`NothingWaits`), which rests
on a lane outside the registry being empty, that the shutdown task watches every turn still
running from its grace window on (`AllWatched`), and that all it watched have settled when
it ends (`AllOver`).
The refinement reads each turn's state in the ledger off the place where the scheduler keeps
it; `LedgerReads` says that this reading is a function, which is `KeepingInv` again, and
then each action is a step of the ledger (`Submit` accepts, a pop starts, a settling worker
settles its turn and its guests) or leaves all of it as it is.

**Delivery hub.** `LineInv` gives every call its place: the queue, the callers asleep in
`put` and the item in hand are told by the statuses, and no caller sleeps while the queue is
empty and nobody has been woken. The count of unfinished work and the empty hub after
`aclose` follow from it. `BarrierInv` adds that what `wait_idle` found is past its caller
and, once the count reached zero, settled; that no call goes back to an earlier place
(`CallsMoveOn`) keeps it so. Order is not inductive over what was received
alone: `OrderInv` says that the queue is the end of what the channel accepted and that the
received items, and then the one in hand, are among those before it, in order. That nothing
is delivered twice needs besides that no call is accepted twice (`OnceInv`). That a stream
stays closable needs that a conversation makes one call at a time, and that deltas in the
queue, not only a stream already open at the outlet, are covered by the note of the stream
or by a close marker behind them (`StreamInv`): the marker that closes a stream must not be
overtaken by a delta that opens it again.

**Terminal turns.** `TurnInv` says of each turn where it is by its phase, that the sink is
busy for the turn that closes and no other, that `running_requests` leads to that turn, that a
user turn keeps its ids until its sink has reported it, and that nothing is submitted
without a scheduler. `ActiveIsReachable` is inductive with these: whoever clears the slot,
the sink or a returning `turn.cancel`, clears it for a turn that is past running.
`ToldInv` counts the reports of a turn: the sink's none before it runs and one after,
`turn.cancel`'s one for each that found the turn, and of a turn that is cancelled one before
its sink runs; as long as no cancel has crossed, the two counts exclude each other. `TextInv` says that the text in the hub
belongs to the turn that runs or ends, or to one whose sink was cut, and that such a turn is
open at the client: started, and no turn started or ended since. The render barrier keeps
the report of the end behind the text, and the lane keeps the next start behind the report.
`StreamInv` says of each subscription that what it is owed is what its consumer holds, then
what its queue holds, and that everything emitted is one piece. `StreamIsWhole` then rests on
one fact of `MergeConsecutive`: split into pieces again, a merged batch is the batch, and the
frames sent before one raises are a beginning of it (`MergeKeepsPieces`, `PiecesOfStart`).

**Induction over a batch.** Merging, splitting and emitting are folds, and what a fold does
to a sequence of any length takes an induction. The library's theorems of induction take a
predicate as parameter, which the provers cannot instantiate; but well-foundedness of the
numbers gives a set of numbers its least element without one (`WFMin`), and from that
`SetInduction`: a set with 0 in it that is closed under adding 1 has every number.
`FoldLeft` is a choice of a function over sets of places; `FoldExists` builds one, and
`PutChain`, `MergeChain`, `PiecesChain` turn each fold into the sequence of its values, for
which the rest is shown from one element to the next.

**Brokers.** That the waiting question is the one its conversation leads to needs that an
id in the registry leads to its own request (`OwnRecord`): a question that replaces another
takes the other's id out with it. `AskUserInv` adds that to the properties.

**Cron.** That two claims exclude each other needs to know of each batch's belief to hold
a job that the file agrees, or the claim is past its TTL, or the job is gone for good
(`ClaimsAreKnown`), and that no claim is of the future (`NoFutureClaims`). That a settled
job stays so needs that a copy of it that could still be recorded is a disabled one
(`SettledCopies`): a one-shot that ran can be claimed again only by hand. `CronInv` is the
conjunction; `CronServiceProofs` has one lemma for each action.

**Session store.** A stale object may hold erased turns, so that they stay out of the file
needs that it can no longer write: an object whose epoch is the file's holds none
(`CurrentIsClean`), none has an epoch to come (`NoFutureEpoch`), and a turn still to be
recorded is nowhere yet (`UnusedIsFresh`). `StoreInv` is their conjunction. One lemma
(`WriteKeeps`) asks of each write that no state of the disk on its way loses turns within a
generation or brings new ones of others; that covers the crashes and the failures at once. That overwrites are
seen follows from the type invariant and the checks of each write.
That the file implements `GenerationLog` is not inductive over the file alone: a new generation
continues the old one because the object that writes it read the old one and only recorded or
dropped turns since (`HistoryContinues`: its history continues its snapshot), while others may
have appended; so that snapshot must still be in the file, in its order (`SnapshotIsKept`), and
a missing file has no history (`NoFileIsEmpty`). For a confirmed deletion the history known
when the user was asked must be in the file as long as its generation lasts (`AskedIsKept`), as
others may only append to it. `HistoryInv` adds these to `StoreInv`.
Order is told by an order-preserving map of places (`KeptIn`) and by a common beginning
(`Continues`), which need no recursion.

Model-checked only. Liveness under fairness is out of the prover's reach:
`UserTurnsSettle`, `ShutdownReturns`, `BarrierReturns`, `BlockedCallReturns`, `CloseReturns`,
`CancelFreesSlot`, `DueIsServed`. Every safety invariant, action property and refinement of the
passing runs is proved.

The inductive invariants stated in the proof modules were checked with TLC on the
configurations of their components before they were proved.

## Not modelled

The parts listed as `not_modelled` in `PROJECT.json`, which are data handling, vendor I/O
or user interface, or wire the modelled parts together; the subagent manager, whose effect
on the spine is a SUBAGENT turn; the teardown of a process, which calls the shutdowns
that are modelled one after the other. Of the parts listed as partly modelled, what each
section above leaves out. That a question of the gateway comes to an end is not claimed:
its sending is outside the timeout and waits for the channel's queue.

The specifications cover a small share of the repository's lines. Most of the rest (the
agent loop around the model calls, memory consolidation, providers, the command line, the
evolver's offline pipeline) is long and sequential, and its mistakes are of data, not of
order.

## Plan

Done: the scheduler with `TurnLedger`, the hub, the TUI's turns and subscriptions, the
brokers, the cron service, the session store with `GenerationLog`, and the proofs above.

Next: an abstract FIFO channel that `DeliveryHub` implements, and the subagent manager's rate
windows, are candidates for further modules.
