--------------------------- MODULE SpineScheduler ---------------------------
(***************************************************************************)
(* The turn scheduler of RinCode (rincode/spine/scheduler.py): lanes that  *)
(* run the turns of one conversation one after the other, the two pools    *)
(* that bound concurrency across lanes, cancellation, the reaper of idle   *)
(* lanes and the shutdown sequence.                                        *)
(*                                                                         *)
(* The code runs on one asyncio event loop, so an action is what happens   *)
(* between two suspension points: a synchronous call made by a client      *)
(* (submit, cancel, /stop, shutdown) or one step of a Task (a lane's       *)
(* worker, the payload task of the turn that runs, the reaper, the         *)
(* shutdown task).  Task.cancel() only marks the task; the CancelledError  *)
(* is raised at the task's next step.                                      *)
(*                                                                         *)
(* An operator whose comment begins with "Fault:" is a wrong variant of    *)
(* the operator it precedes; the specification does not use it, the        *)
(* mutation checks of PROJECT.json do.                                     *)
(***************************************************************************)
EXTENDS Naturals, FiniteSets, Sequences, SequencesExt

CONSTANTS
  Turns,          (* identities of the turns clients may submit             *)
  Lanes,          (* identities of Lane objects                             *)
  Conversations,  (* conversation keys                                      *)
  Requests,       (* the requests clients make                              *)
  Capacity,       (* slots of each pool                                     *)
  NoTurn, NoLane  (* Python's None, where a turn or a lane is expected      *)

Origins      == {"user", "cron", "subagent"}
BusyPolicies == {"append", "inject", "interrupt"}
Pools        == {"user", "system"}

ASSUME SchedulerAssumption ==
  /\ NoTurn \notin Turns
  /\ NoLane \notin Lanes
  /\ Requests \subseteq [conversation : Conversations,
                         origin : Origins, busy : BusyPolicies]
  /\ Capacity \in [Pools -> Nat \ {0}]
  /\ IsFiniteSet(Lanes)

VARIABLES
  registry,    (* Scheduler._lanes: the lane of a conversation, if any      *)
  reaper,      (* whether the reaper task is alive                          *)
  stage,       (* how far shutdown has come                                 *)
  survivors,   (* futures the shutdown task waits for                       *)
  pending,     (* Lane._pending                                             *)
  mailbox,     (* Lane._inject_mailbox                                      *)
  worker,      (* Lane._worker: absent or done, created, awaiting the task  *)
  idle,        (* Lane._idle_since is set                                   *)
  current,     (* Lane._running_fut                                         *)
  task,        (* where the payload task Lane._run_task is                  *)
  cancelling,  (* a cancel() of the payload task not delivered yet          *)
  chained,     (* injects merged into the running turn                      *)
  outcome,     (* what the payload task returns, once it is known           *)
  free,        (* the value of each pool's semaphore                        *)
  waiters,     (* lanes whose payload task waits for a slot, in order       *)
  request,     (* the request of each submitted turn                        *)
  result,      (* the future of each turn                                   *)
  events       (* lifecycle events handed to the sink, per turn (history)   *)

schedVars  == <<registry, reaper, stage, survivors>>
queueVars  == <<pending, mailbox>>
workerVars == <<worker, idle, current>>
taskVars   == <<task, cancelling, chained, outcome>>
poolVars   == <<free, waiters>>
turnVars   == <<request, result, events>>
vars == <<schedVars, queueVars, workerVars, taskVars, poolVars, turnVars>>

NoRequest == [conversation |-> "none", origin |-> "none", busy |-> "none"]

TaskStates == {"absent", "created", "queued", "starting", "running",
               "emitting", "done"}
Stages     == {"open", "sealed", "drained", "grace", "cascaded", "closed"}
Lifecycle  == {"started", "ended", "failed", "cancelled"}

TypeOK ==
  /\ registry \in [Conversations -> Lanes \cup {NoLane}]
  /\ reaper \in BOOLEAN
  /\ stage \in Stages
  /\ survivors \subseteq Turns
  /\ pending \in [Lanes -> Seq(Turns)]
  /\ mailbox \in [Lanes -> Seq(Turns)]
  /\ worker \in [Lanes -> {"absent", "created", "awaiting"}]
  /\ idle \in [Lanes -> BOOLEAN]
  /\ current \in [Lanes -> Turns \cup {NoTurn}]
  /\ task \in [Lanes -> TaskStates]
  /\ cancelling \in [Lanes -> BOOLEAN]
  /\ chained \in [Lanes -> SUBSET Turns]
  /\ outcome \in [Lanes -> {"ok", "none"}]
  /\ free \in [Pools -> Nat]
  /\ waiters \in [Pools -> Seq(Lanes)]
  /\ request \in [Turns -> Requests \cup {NoRequest}]
  /\ result \in [Turns -> {"unsubmitted", "open", "ok", "none"}]
  /\ events \in [Turns -> Seq(Lifecycle)]

Init ==
  /\ registry = [c \in Conversations |-> NoLane]
  /\ reaper = FALSE
  /\ stage = "open"
  /\ survivors = {}
  /\ pending = [l \in Lanes |-> <<>>]
  /\ mailbox = [l \in Lanes |-> <<>>]
  /\ worker = [l \in Lanes |-> "absent"]
  /\ idle = [l \in Lanes |-> FALSE]
  /\ current = [l \in Lanes |-> NoTurn]
  /\ task = [l \in Lanes |-> "absent"]
  /\ cancelling = [l \in Lanes |-> FALSE]
  /\ chained = [l \in Lanes |-> {}]
  /\ outcome = [l \in Lanes |-> "none"]
  /\ free = Capacity
  /\ waiters = [p \in Pools |-> <<>>]
  /\ request = [t \in Turns |-> NoRequest]
  /\ result = [t \in Turns |-> "unsubmitted"]
  /\ events = [t \in Turns |-> <<>>]

-----------------------------------------------------------------------------
(* Vocabulary of the actions.                                              *)

Registered == {registry[c] : c \in Conversations} \ {NoLane}

\* The payload task exists and is not done: what submit and the cancel
\* methods call "running".
Live(l) == task[l] \notin {"absent", "done"}

\* A slot is held from the acquire to the end of the "async with" block.
HoldsSlot(l) == task[l] \in {"starting", "running"}

\* Fault: one pool for everybody.
OnePoolForAll(t) == "system"

PoolOf(t) == IF request[t].origin = "user" THEN "user" ELSE "system"

\* Only a user may preempt or inject; the policy of a runtime turn is demoted.
EffectiveBusy(req) == IF req.origin = "user" THEN req.busy ELSE "append"

\* fut.set_result(v) under the guard "if not fut.done()".
Resolve(S, v) ==
  [t \in Turns |-> IF t \in S /\ result[t] = "open" THEN v ELSE result[t]]

Emit(t, event) == [events EXCEPT ![t] = Append(@, event)]

\* A Lane object nothing refers to any more stands for a new one.
Unused(l) ==
  /\ l \notin Registered
  /\ worker[l] = "absent" /\ task[l] = "absent"
  /\ pending[l] = <<>> /\ mailbox[l] = <<>>

Releases(p) == free' = [free EXCEPT ![p] = @ + 1]

-----------------------------------------------------------------------------
(* Clients: submit, cancel one turn, /stop a conversation.                 *)

StartWorker(l) ==
  worker' = [worker EXCEPT ![l] = IF @ = "absent" THEN "created" ELSE @]

LaneInterrupt(l, t) ==
  /\ Live(l)
  /\ cancelling' = [cancelling EXCEPT ![l] = TRUE]
  /\ pending' = [pending EXCEPT ![l] = <<t>> \o @]
  /\ StartWorker(l)
  /\ UNCHANGED mailbox

LaneInject(l, t) ==
  /\ Live(l)
  /\ mailbox' = [mailbox EXCEPT ![l] = Append(@, t)]
  /\ UNCHANGED <<pending, worker, cancelling>>

LaneAppend(l, t) ==
  /\ pending' = [pending EXCEPT ![l] = Append(@, t)]
  /\ StartWorker(l)
  /\ UNCHANGED <<mailbox, cancelling>>

LaneSubmit(l, t, busy) ==
  /\ idle' = [idle EXCEPT ![l] = FALSE]
  /\ \/ busy = "interrupt" /\ LaneInterrupt(l, t)
     \/ busy = "inject" /\ LaneInject(l, t)
     \/ (busy = "append" \/ ~Live(l)) /\ LaneAppend(l, t)
  /\ UNCHANGED <<current, task, chained, outcome, poolVars>>

Submit(t, req) ==
  /\ stage = "open"
  /\ result[t] = "unsubmitted"
  /\ request' = [request EXCEPT ![t] = req]
  /\ result' = [result EXCEPT ![t] = "open"]
  /\ \E l \in Lanes :
       /\ \/ registry[req.conversation] = l
          \/ registry[req.conversation] = NoLane /\ Unused(l)
       /\ registry' = [registry EXCEPT ![req.conversation] = l]
       /\ LaneSubmit(l, t, EffectiveBusy(req))
  /\ reaper' = TRUE
  /\ UNCHANGED <<stage, survivors, events>>

CancelPending(t) ==
  \E l \in Lanes : \E i \in DOMAIN pending[l] :
    /\ pending[l][i] = t
    /\ pending' = [pending EXCEPT ![l] = RemoveAt(@, i)]
    /\ result' = Resolve({t}, "none")
    /\ UNCHANGED <<mailbox, cancelling>>

CancelInjected(t) ==
  \E l \in Lanes : \E i \in DOMAIN mailbox[l] :
    /\ mailbox[l][i] = t
    /\ mailbox' = [mailbox EXCEPT ![l] = RemoveAt(@, i)]
    /\ result' = Resolve({t}, "none")
    /\ UNCHANGED <<pending, cancelling>>

\* Fault: the canceller settles the handle of the running turn itself.
CancelCurrentAndSettle(t) ==
  \E l \in Lanes :
    /\ current[l] = t /\ Live(l)
    /\ cancelling' = [cancelling EXCEPT ![l] = TRUE]
    /\ result' = Resolve({t}, "none")
    /\ UNCHANGED queueVars

CancelCurrent(t) ==
  \E l \in Lanes :
    /\ current[l] = t /\ Live(l)
    /\ cancelling' = [cancelling EXCEPT ![l] = TRUE]
    /\ UNCHANGED <<queueVars, result>>

\* TurnHandle.cancel.  On a resolved or merged turn it changes nothing.
CancelTurn(t) ==
  /\ result[t] = "open"
  /\ CancelPending(t) \/ CancelInjected(t) \/ CancelCurrent(t)
  /\ UNCHANGED <<schedVars, workerVars, task, chained, outcome, poolVars,
                 request, events>>

\* Lane.drain_pending on every lane of L.
Drain(L) ==
  /\ pending' = [l \in Lanes |-> IF l \in L THEN <<>> ELSE pending[l]]
  /\ mailbox' = [l \in Lanes |-> IF l \in L THEN <<>> ELSE mailbox[l]]
  /\ result' = Resolve(UNION {ToSet(pending[l]) \cup ToSet(mailbox[l]) : l \in L},
                       "none")

\* Lane.cancel_running on every lane of L.
CancelRunning(L) ==
  cancelling' = [l \in Lanes |-> cancelling[l] \/ (l \in L /\ Live(l))]

Stop(c) ==
  /\ registry[c] # NoLane
  /\ CancelRunning({registry[c]})
  /\ Drain({registry[c]})
  /\ UNCHANGED <<schedVars, workerVars, task, chained, outcome, poolVars,
                 request, events>>

-----------------------------------------------------------------------------
(* The lane's worker.  Between two turns it does not suspend: resolving a  *)
(* future, falling back the injects left over and popping the next turn,   *)
(* or retiring, are one step.                                              *)

TakeNext(l, queue) ==
  IF queue = <<>>
  THEN /\ pending' = [pending EXCEPT ![l] = <<>>]
       /\ worker' = [worker EXCEPT ![l] = "absent"]
       /\ idle' = [idle EXCEPT ![l] = TRUE]
       /\ current' = [current EXCEPT ![l] = NoTurn]
       /\ task' = [task EXCEPT ![l] = "absent"]
  ELSE /\ pending' = [pending EXCEPT ![l] = Tail(queue)]
       /\ worker' = [worker EXCEPT ![l] = "awaiting"]
       /\ current' = [current EXCEPT ![l] = Head(queue)]
       /\ task' = [task EXCEPT ![l] = "created"]
       /\ UNCHANGED idle

WorkerBegins(l) ==
  /\ worker[l] = "created"
  /\ TakeNext(l, pending[l])
  /\ UNCHANGED <<schedVars, mailbox, cancelling, chained, outcome, poolVars, turnVars>>

\* Fault: injects nobody drained are not put back into the queue.
WorkerResumesDroppingInjects(l) ==
  /\ worker[l] = "awaiting" /\ task[l] = "done"
  /\ result' = Resolve({current[l]}, outcome[l])
  /\ mailbox' = [mailbox EXCEPT ![l] = <<>>]
  /\ TakeNext(l, pending[l])
  /\ UNCHANGED <<schedVars, cancelling, chained, outcome, poolVars, request, events>>

WorkerResumes(l) ==
  /\ worker[l] = "awaiting" /\ task[l] = "done"
  /\ result' = Resolve({current[l]}, outcome[l])
  /\ mailbox' = [mailbox EXCEPT ![l] = <<>>]
  /\ TakeNext(l, pending[l] \o mailbox[l])
  /\ UNCHANGED <<schedVars, cancelling, chained, outcome, poolVars, request, events>>

-----------------------------------------------------------------------------
(* The payload task.                                                       *)

\* The slot is taken and TurnStarted handed to the sink.
Dispatch(l, p) ==
  /\ free' = [free EXCEPT ![p] = @ - 1]
  /\ task' = [task EXCEPT ![l] = "starting"]
  /\ events' = Emit(current[l], "started")

\* First step: Semaphore.acquire takes a free slot only if nobody queues.
TaskBegins(l) ==
  LET p == PoolOf(current[l]) IN
  /\ task[l] = "created" /\ ~cancelling[l]
  /\ \/ /\ free[p] > 0 /\ waiters[p] = <<>>
        /\ Dispatch(l, p)
        /\ UNCHANGED waiters
     \/ /\ free[p] = 0 \/ waiters[p] # <<>>
        /\ waiters' = [waiters EXCEPT ![p] = Append(@, l)]
        /\ task' = [task EXCEPT ![l] = "queued"]
        /\ UNCHANGED <<free, events>>
  /\ UNCHANGED <<schedVars, queueVars, workerVars, cancelling, chained, outcome,
                 request, result>>

\* Fault: a waiter is let in although no slot is free.
SlotGrantedUnchecked(l) ==
  LET p == PoolOf(current[l]) IN
  /\ task[l] = "queued" /\ ~cancelling[l]
  /\ waiters[p] # <<>> /\ Head(waiters[p]) = l
  /\ Dispatch(l, p)
  /\ waiters' = [waiters EXCEPT ![p] = Tail(@)]
  /\ UNCHANGED <<schedVars, queueVars, workerVars, cancelling, chained, outcome,
                 request, result>>

SlotGranted(l) ==
  LET p == PoolOf(current[l]) IN
  /\ task[l] = "queued" /\ ~cancelling[l]
  /\ free[p] > 0 /\ waiters[p] # <<>> /\ Head(waiters[p]) = l
  /\ Dispatch(l, p)
  /\ waiters' = [waiters EXCEPT ![p] = Tail(@)]
  /\ UNCHANGED <<schedVars, queueVars, workerVars, cancelling, chained, outcome,
                 request, result>>

\* The sink returns from TurnStarted and the runner is entered.
RunnerBegins(l) ==
  /\ task[l] = "starting" /\ ~cancelling[l]
  /\ task' = [task EXCEPT ![l] = "running"]
  /\ UNCHANGED <<schedVars, queueVars, workerVars, cancelling, chained, outcome,
                 poolVars, turnVars>>

\* Fault: drained injects stay in the mailbox as well.
RunnerDrainsByCopy(l) ==
  /\ task[l] = "running" /\ ~cancelling[l] /\ mailbox[l] # <<>>
  /\ chained' = [chained EXCEPT ![l] = @ \cup ToSet(mailbox[l])]
  /\ UNCHANGED <<schedVars, queueVars, workerVars, task, cancelling, outcome,
                 poolVars, turnVars>>

\* The runner calls drain() between two iterations of its tool loop.
RunnerDrains(l) ==
  /\ task[l] = "running" /\ ~cancelling[l] /\ mailbox[l] # <<>>
  /\ chained' = [chained EXCEPT ![l] = @ \cup ToSet(mailbox[l])]
  /\ mailbox' = [mailbox EXCEPT ![l] = <<>>]
  /\ UNCHANGED <<schedVars, pending, workerVars, task, cancelling, outcome,
                 poolVars, turnVars>>

\* The "async with" block is left: the slot is free again before the terminal
\* event goes to the sink, in a task of its own.
LeavesPool(l, event, v) ==
  /\ Releases(PoolOf(current[l]))
  /\ events' = Emit(current[l], event)
  /\ outcome' = [outcome EXCEPT ![l] = v]
  /\ task' = [task EXCEPT ![l] = "emitting"]

\* The runner returns: the merged injects get its outcome before TurnEnded.
RunnerReturns(l) ==
  /\ task[l] = "running" /\ ~cancelling[l]
  /\ LeavesPool(l, "ended", "ok")
  /\ result' = Resolve(chained[l], "ok")
  /\ chained' = [chained EXCEPT ![l] = {}]
  /\ UNCHANGED <<schedVars, queueVars, workerVars, cancelling, waiters, request>>

\* The sink (of TurnStarted) or the runner raises.
RunnerRaises(l) ==
  /\ HoldsSlot(l) /\ ~cancelling[l]
  /\ LeavesPool(l, "failed", "none")
  /\ UNCHANGED <<schedVars, queueVars, workerVars, cancelling, chained, waiters,
                 request, result>>

\* Semaphore.acquire gives up its place when it is cancelled.
LeavesQueue(l) ==
  LET p == PoolOf(current[l]) IN
  \/ task[l] = "created" /\ UNCHANGED waiters
  \/ /\ task[l] = "queued"
     /\ \E i \in DOMAIN waiters[p] :
          waiters[p][i] = l /\ waiters' = [waiters EXCEPT ![p] = RemoveAt(@, i)]

\* CancelledError before the slot was acquired: no event was or will be sent.
CancelledBeforeStart(l) ==
  /\ cancelling[l] /\ task[l] \in {"created", "queued"}
  /\ LeavesQueue(l)
  /\ task' = [task EXCEPT ![l] = "done"]
  /\ outcome' = [outcome EXCEPT ![l] = "none"]
  /\ cancelling' = [cancelling EXCEPT ![l] = FALSE]
  /\ UNCHANGED <<schedVars, queueVars, workerVars, chained, free, turnVars>>

\* Fault: the cancelled turn keeps its slot.
CancelledKeepingSlot(l) ==
  /\ cancelling[l] /\ HoldsSlot(l)
  /\ events' = Emit(current[l], "cancelled")
  /\ outcome' = [outcome EXCEPT ![l] = "none"]
  /\ task' = [task EXCEPT ![l] = "emitting"]
  /\ cancelling' = [cancelling EXCEPT ![l] = FALSE]
  /\ UNCHANGED <<schedVars, queueVars, workerVars, chained, poolVars, request, result>>

CancelledAfterStart(l) ==
  /\ cancelling[l] /\ HoldsSlot(l)
  /\ LeavesPool(l, "cancelled", "none")
  /\ cancelling' = [cancelling EXCEPT ![l] = FALSE]
  /\ UNCHANGED <<schedVars, queueVars, workerVars, chained, waiters, request, result>>

\* Fault: a cancel during the terminal event starts a second one.
CancelEmitsAgain(l) ==
  /\ cancelling[l] /\ task[l] = "emitting"
  /\ cancelling' = [cancelling EXCEPT ![l] = FALSE]
  /\ events' = Emit(current[l], "cancelled")
  /\ UNCHANGED <<schedVars, queueVars, workerVars, task, chained, outcome,
                 poolVars, request, result>>

\* A cancel that arrives while the terminal event is being sent is swallowed:
\* _emit_terminal waits on for the one call it made.
CancelSwallowed(l) ==
  /\ cancelling[l] /\ task[l] = "emitting"
  /\ cancelling' = [cancelling EXCEPT ![l] = FALSE]
  /\ UNCHANGED <<schedVars, queueVars, workerVars, task, chained, outcome,
                 poolVars, turnVars>>

\* The sink returned, raised or overran its deadline; the task is done.  After
\* a failure this is where the merged injects are resolved.
TerminalSent(l) ==
  /\ task[l] = "emitting"
  /\ task' = [task EXCEPT ![l] = "done"]
  /\ cancelling' = [cancelling EXCEPT ![l] = FALSE]
  /\ result' = Resolve(chained[l], outcome[l])
  /\ chained' = [chained EXCEPT ![l] = {}]
  /\ UNCHANGED <<schedVars, queueVars, workerVars, outcome, poolVars, request, events>>

-----------------------------------------------------------------------------
(* The reaper and the shutdown task.                                       *)

\* Fault: lanes are reaped by age alone.
SweepBusyLanes ==
  /\ reaper /\ stage \in {"open", "sealed"}
  /\ \E C \in SUBSET {c \in Conversations : registry[c] # NoLane} \ {{}} :
       /\ registry' = [c \in Conversations |-> IF c \in C THEN NoLane ELSE registry[c]]
       /\ reaper' = (\E c \in Conversations \ C : registry[c] # NoLane)
  /\ UNCHANGED <<stage, survivors, queueVars, workerVars, taskVars, poolVars, turnVars>>

\* Some of the idle lanes are older than the TTL; the reaper retires with the
\* last lane.
Sweep ==
  /\ reaper /\ stage \in {"open", "sealed"}
  /\ \E C \in SUBSET {c \in Conversations :
                        registry[c] # NoLane /\ idle[registry[c]]} \ {{}} :
       /\ registry' = [c \in Conversations |-> IF c \in C THEN NoLane ELSE registry[c]]
       /\ reaper' = (\E c \in Conversations \ C : registry[c] # NoLane)
  /\ UNCHANGED <<stage, survivors, queueVars, workerVars, taskVars, poolVars, turnVars>>

ShutdownSeals ==
  /\ stage = "open"
  /\ stage' = "sealed"
  /\ UNCHANGED <<registry, reaper, survivors, queueVars, workerVars, taskVars,
                 poolVars, turnVars>>

ShutdownDrains ==
  /\ stage = "sealed"
  /\ stage' = "drained"
  /\ Drain(Registered)
  /\ reaper' = FALSE
  /\ UNCHANGED <<registry, survivors, workerVars, taskVars, poolVars, request, events>>

\* The reaper is gone; the grace window opens for what runs now.
ShutdownWaits ==
  /\ stage = "drained"
  /\ stage' = "grace"
  /\ survivors' = {current[l] : l \in Registered} \ {NoTurn}
  /\ UNCHANGED <<registry, reaper, queueVars, workerVars, taskVars, poolVars, turnVars>>

\* Fault: the grace window ends without a cancellation.
ShutdownOnlyWaits ==
  /\ stage = "grace"
  /\ stage' = "cascaded"
  /\ survivors' = {t \in survivors : result[t] = "open"}
  /\ UNCHANGED <<registry, reaper, queueVars, workerVars, taskVars, poolVars, turnVars>>

\* The window closes, because all is done or by timeout.
ShutdownCascades ==
  /\ stage = "grace"
  /\ stage' = "cascaded"
  /\ CancelRunning(Registered)
  /\ survivors' = {t \in survivors : result[t] = "open"}
  /\ UNCHANGED <<registry, reaper, queueVars, workerVars, task, chained, outcome,
                 poolVars, turnVars>>

\* Fault: shutdown returns after the cascade without waiting for it.
ShutdownEndsEarly ==
  /\ stage = "cascaded"
  /\ stage' = "closed"
  /\ UNCHANGED <<registry, reaper, survivors, queueVars, workerVars, taskVars,
                 poolVars, turnVars>>

ShutdownEnds ==
  /\ stage = "cascaded"
  /\ \A t \in survivors : result[t] # "open"
  /\ stage' = "closed"
  /\ UNCHANGED <<registry, reaper, survivors, queueVars, workerVars, taskVars,
                 poolVars, turnVars>>

-----------------------------------------------------------------------------
Client ==
  \/ \E t \in Turns, req \in Requests : Submit(t, req)
  \/ \E t \in Turns : CancelTurn(t)
  \/ \E c \in Conversations : Stop(c)
  \/ ShutdownSeals

\* What the event loop runs by itself, without waiting for a sink or a runner.
LoopStep(l) ==
  \/ WorkerBegins(l) \/ WorkerResumes(l)
  \/ TaskBegins(l) \/ SlotGranted(l)
  \/ CancelledBeforeStart(l) \/ CancelledAfterStart(l)
  \/ CancelSwallowed(l) \/ TerminalSent(l)

\* What the turn's sink and runner do when nobody cancels them.
RunnerStep(l) == RunnerBegins(l) \/ RunnerReturns(l) \/ RunnerRaises(l)

ShutdownStep == ShutdownDrains \/ ShutdownWaits \/ ShutdownCascades \/ ShutdownEnds

Next ==
  \/ Client
  \/ \E l \in Lanes : LoopStep(l) \/ RunnerStep(l) \/ RunnerDrains(l)
  \/ Sweep
  \/ ShutdownStep

Spec == Init /\ [][Next]_vars

\* The loop keeps running ready tasks and timers; _TERMINAL_SINK_TIMEOUT bounds
\* the emission of a terminal event whatever the number of cancels it swallows.
LoopFairness ==
  /\ \A l \in Lanes : WF_vars(LoopStep(l)) /\ WF_vars(TerminalSent(l))
  /\ WF_vars(ShutdownStep)

\* Sinks and runners of the turns of these origins come back.
RunnerFairness(origins) ==
  \A l \in Lanes :
    WF_vars(current[l] # NoTurn /\ request[current[l]].origin \in origins
            /\ RunnerStep(l))

-----------------------------------------------------------------------------
(* Properties.                                                             *)

\* The four places of lane l that may keep an accepted turn.
Kept(l) == [pending |-> ToSet(pending[l]), mailbox |-> ToSet(mailbox[l]),
            running |-> {current[l]}, merged |-> chained[l]]

Places == {"pending", "mailbox", "running", "merged"}

(* Every accepted turn that is not resolved is kept by exactly one lane, in    *)
(* one place of it and once; that lane is in the registry, so /stop and        *)
(* shutdown reach it, and its worker is alive and not idle.  The reaper, the   *)
(* inject fallback, cancellation and the exit of the worker could each break   *)
(* this and leave a handle whose result() never returns.                       *)
AcceptedIsKept ==
  \A t \in Turns : result[t] = "open" =>
    \E l \in Lanes, place \in Places :
      /\ \A m \in Lanes, other \in Places :
           t \in Kept(m)[other] <=> (m = l /\ other = place)
      /\ IsInjective(pending[l]) /\ IsInjective(mailbox[l])
      /\ registry[request[t].conversation] = l
      /\ worker[l] # "absent" /\ ~idle[l]

(* The worker is the only one to resolve the turn that runs, and the payload   *)
(* task the only one to resolve the injects merged into it: /stop, handle      *)
(* cancellation and shutdown never settle a turn whose payload is not done.    *)
SoleResolver ==
  \A l \in Lanes :
    /\ current[l] # NoTurn => result[current[l]] = "open"
    /\ \A t \in chained[l] : result[t] = "open"

(* A conversation never has two turns in execution, across all lane objects    *)
(* that ever served it: history and replies of a conversation do not           *)
(* interleave, even when the reaper has replaced its lane.                     *)
OneTurnPerConversation ==
  \A l1, l2 \in Lanes :
    (l1 # l2 /\ current[l1] # NoTurn /\ current[l2] # NoTurn)
      => request[current[l1]].conversation # request[current[l2]].conversation

(* No path out of a turn leaks a slot or returns it twice: each pool's         *)
(* semaphore plus the turns holding one of its slots add up to its capacity.   *)
SlotsConserved ==
  \A p \in Pools :
    free[p] + Cardinality({l \in Lanes : HoldsSlot(l) /\ PoolOf(current[l]) = p})
      = Capacity[p]

(* A turn whose start was handed to the sink gets exactly one terminal event,  *)
(* sent before its handle settles and agreeing with it; a turn cancelled       *)
(* before its start, and a merged inject, get none.                            *)
LifecycleAgrees ==
  \A t \in Turns :
    /\ events[t] \in {<<>>, <<"started">>} \cup
                     {<<"started", e>> : e \in {"ended", "failed", "cancelled"}}
    /\ result[t] = "ok" => events[t] \in {<<>>, <<"started", "ended">>}
    /\ result[t] = "none" => events[t] \notin {<<"started">>, <<"started", "ended">>}

(* Once shutdown() has returned, every accepted handle has settled, nothing    *)
(* runs or waits, and all slots are free.                                      *)
ClosedIsQuiet ==
  stage = "closed" =>
    /\ \A t \in Turns : result[t] # "open"
    /\ \A l \in Lanes : task[l] = "absent" /\ worker[l] # "awaiting"
    /\ free = Capacity

(* The scheduler keeps the promise of TurnLedger to those who submit turns.    *)
LedgerStatus(t) ==
  IF result[t] # "open" THEN result[t]
  ELSE IF \E l \in Lanes : current[l] = t THEN "running"
  ELSE IF \E l \in Lanes : t \in chained[l] THEN "merged" ELSE "waiting"

LedgerConversation(t) ==
  IF result[t] = "unsubmitted" THEN NoTurn ELSE request[t].conversation

LedgerHost(t) ==
  IF \E l \in Lanes : t \in chained[l]
  THEN current[CHOOSE l \in Lanes : t \in chained[l]] ELSE NoTurn

Decided(l) == task[l] \in {"emitting", "done"}

LedgerVerdict(t) ==
  IF \E l \in Lanes : current[l] = t /\ Decided(l)
  THEN outcome[CHOOSE l \in Lanes : current[l] = t /\ Decided(l)] ELSE "undecided"

Ledger == INSTANCE TurnLedger WITH
  Nobody       <- NoTurn,
  status       <- [t \in Turns |-> LedgerStatus(t)],
  conversation <- [t \in Turns |-> LedgerConversation(t)],
  host         <- [t \in Turns |-> LedgerHost(t)],
  verdict      <- [t \in Turns |-> LedgerVerdict(t)]

LedgerSpec == Ledger!Spec

(* A user's turn settles whatever the runtime's turns do, as long as no        *)
(* runtime turn shares its conversation: the pools are separate.               *)
UserTurnsSettle ==
  \A t \in Turns : (result[t] = "open" /\ request[t].origin = "user")
                     ~> result[t] \in {"ok", "none"}

(* shutdown() returns even if no sink or runner ever comes back by itself.     *)
ShutdownReturns == stage = "sealed" ~> stage = "closed"

(* The docstring of BusyPolicy: on a busy lane an INTERRUPT goes before the    *)
(* existing backlog.                                                           *)
InterruptJumpsBacklog ==
  [][\A l \in Lanes, t \in Turns :
       (/\ result[t] = "unsubmitted" /\ request'[t].busy = "interrupt"
        /\ request'[t].origin = "user"
        /\ current[l] # NoTurn /\ pending[l] # <<>>
        /\ t \in ToSet(pending'[l]))
       => Head(pending'[l]) = t]_vars

-----------------------------------------------------------------------------
(* The inductive invariant behind AcceptedIsKept, SoleResolver and             *)
(* OneTurnPerConversation.                                                     *)

Held(l) == ToSet(pending[l]) \cup ToSet(mailbox[l]) \cup chained[l]
             \cup ({current[l]} \ {NoTurn})

\* A lane keeps a turn in one place, once.
PlacesApart(l) ==
  /\ IsInjective(pending[l]) /\ IsInjective(mailbox[l])
  /\ ToSet(pending[l]) \cap ToSet(mailbox[l]) = {}
  /\ chained[l] \cap (ToSet(pending[l]) \cup ToSet(mailbox[l])) = {}
  /\ current[l] \notin ToSet(pending[l]) \cup ToSet(mailbox[l]) \cup chained[l]

\* Worker, payload task and queues of a lane fit together: work implies a
\* worker, and only a turn that runs has an inject waiting or merged.
LaneFits(l) ==
  /\ current[l] = NoTurn <=> task[l] = "absent"
  /\ worker[l] = "awaiting" <=> task[l] # "absent"
  /\ worker[l] = "absent" => pending[l] = <<>>
  /\ idle[l] => worker[l] = "absent"
  /\ mailbox[l] # <<>> => worker[l] = "awaiting"
  /\ chained[l] # {} => task[l] \in {"running", "emitting"}
  /\ cancelling[l] => Live(l)

\* The turns a lane keeps are the open turns of the conversation it serves.
HeldIsOpen ==
  \A l \in Lanes, t \in Turns : t \in Held(l) =>
    result[t] = "open" /\ registry[request[t].conversation] = l

OpenIsHeld == \A t \in Turns : result[t] = "open" => \E l \in Lanes : t \in Held(l)

SubmittedHasRequest ==
  \A t \in Turns : result[t] # "unsubmitted" => request[t] \in Requests

OneConversationPerLane ==
  \A c1, c2 \in Conversations :
    registry[c1] # NoLane /\ registry[c1] = registry[c2] => c1 = c2

(* The scheduler loses no accepted turn: all of the above, in every state.     *)
KeepingInv ==
  /\ TypeOK
  /\ \A l \in Lanes : PlacesApart(l) /\ LaneFits(l)
  /\ HeldIsOpen /\ OpenIsHeld
  /\ SubmittedHasRequest /\ OneConversationPerLane

=============================================================================
