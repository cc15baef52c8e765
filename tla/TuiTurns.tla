------------------------------ MODULE TuiTurns ------------------------------
(***************************************************************************)
(* The turns of one terminal session, from turn.send to the terminal event *)
(* (rincode/tui_rpc/methods/turn.py and spine.py, wired up by              *)
(* rincode/cli/tui_commands.py), over the scheduler's lane and the hub's   *)
(* queue of the tui channel, reduced to what this path sees of them, and   *)
(* the subscriptions the events go to.                                     *)
(*                                                                         *)
(* A request is identified by id(req); the model writes the turn itself.   *)
(* System turns are subagent results of the same session; what other       *)
(* sessions do to the shared pools and queue is delay.                     *)
(***************************************************************************)
EXTENDS Subscriptions, FiniteSets

CONSTANTS
  UserTurns,       (* turns sent by turn.send; the others are system turns  *)
  Regretted,       (* turns the client may cancel                           *)
  MaxText, MaxCancels   (* bounds: pieces of text, turn.cancel calls *)

ASSUME TuiAssumption ==
  /\ UserTurns \subseteq Turns /\ Regretted \subseteq UserTurns
  /\ MaxText \in Nat /\ MaxCancels \in Nat

VARIABLES
  runtime,         (* how far _bind_runtime has come                        *)
  lane,            (* Lane._pending                                         *)
  current,         (* the turn of Lane._running_fut                         *)
  phase, outcome,  (* of each turn                                          *)
  cancelling,      (* a cancel of the payload task not delivered yet        *)
  hub,             (* texts in the channel's queue                          *)
  written,         (* pieces of text the runner has emitted                 *)
  sink,            (* the terminal event's sink: busy, returned             *)
  runningRequest,  (* running_requests of the session                       *)
  ids,             (* keys of turn_ids and submission_ids                   *)
  active,          (* _active_turns and _active_request_keys                *)
  cancels,         (* turn.cancel calls that wait for the handle            *)
  calls,           (* turn.cancel calls made                                *)
  cut,             (* turns whose sink overran its deadline (history)       *)
  crossed          (* turns told of a cancel that came too late (history)   *)

laneVars == <<lane, current, phase, outcome, cancelling>>
sinkVars == <<hub, written, sink, cut>>
slotVars == <<ids, active>>
callVars == <<cancels, calls, crossed>>
vars == <<subVars, runtime, laneVars, sinkVars, slotVars, callVars, runningRequest>>

SystemTurns == Turns \ UserTurns
MaybeTurn == Turns \cup {NoTurn}

TurnTypeOK ==
  /\ runtime \in {"binding", "ready", "failed"}
  /\ lane \in Seq(Turns) /\ IsInjective(lane)
  /\ current \in MaybeTurn /\ runningRequest \in MaybeTurn
  /\ phase \in [Turns -> {"new", "refused", "pending", "created", "running",
                          "closing", "settled"}]
  /\ outcome \in [Turns -> {"none", "ok", "failed", "cancelled"}]
  /\ cancelling \in BOOLEAN
  /\ hub \in Seq(UserTurns) /\ written \in 0 .. MaxText
  /\ sink \in {"idle", "busy", "returned"}
  /\ ids \subseteq UserTurns /\ active \in UserTurns \cup {NoTurn}
  /\ cancels \subseteq UserTurns /\ calls \in 0 .. MaxCancels
  /\ cut \subseteq Turns /\ crossed \subseteq UserTurns

TypeOK == SubTypeOK /\ TurnTypeOK

Init ==
  /\ SubInit
  /\ runtime = "binding" /\ lane = <<>> /\ current = NoTurn
  /\ phase = [t \in Turns |-> "new"] /\ outcome = [t \in Turns |-> "none"]
  /\ cancelling = FALSE /\ hub = <<>> /\ written = 0 /\ sink = "idle"
  /\ runningRequest = NoTurn /\ ids = {} /\ active = NoTurn
  /\ cancels = {} /\ calls = 0 /\ cut = {} /\ crossed = {}

Of(type, t) == [type |-> type, turn |-> t, text |-> <<>>]
Delta(t) == [type |-> "token.delta", turn |-> NoTurn, text |-> <<t>>]

\* How often the client was told how t ended: by the sink, or by turn.cancel.
Times(type, t) == Cardinality({i \in DOMAIN emitted : emitted[i] = Of(type, t)})
Completed(t) == Times("message.complete", t)
Failed(t) == Times("error:internal", t)
Told(t) == Times("error:cancelled_by_client", t)
-----------------------------------------------------------------------------
(* turn.send, and the subagents' submit.                                    *)

BindRuntime ==
  /\ runtime = "binding"
  /\ runtime' \in {"ready", "failed"}
  /\ UNCHANGED <<subVars, laneVars, sinkVars, slotVars, callVars, runningRequest>>

Enqueue(t) ==
  /\ phase[t] = "new"
  /\ phase' = [phase EXCEPT ![t] = "pending"]
  /\ lane' = Append(lane, t)
  /\ UNCHANGED <<subVars, runtime, current, outcome, cancelling, sinkVars, callVars,
                 runningRequest>>

\* Submitted, and bound before anything else runs; refused as long as the
\* session has a turn that is active, pending or running.
Send(t) ==
  /\ runtime = "ready" /\ active = NoTurn /\ current = NoTurn /\ lane = <<>>
  /\ Enqueue(t)
  /\ ids' = ids \cup {t}
  /\ active' = t

\* Without a scheduler the turn fails at once, and visibly.
SendFails(t) ==
  /\ runtime = "failed" /\ phase[t] = "new"
  /\ phase' = [phase EXCEPT ![t] = "refused"]
  /\ outcome' = [outcome EXCEPT ![t] = "failed"]
  /\ EmitAll(<<Of("message.start", t), Of("error:internal", t)>>)
  /\ UNCHANGED <<runtime, lane, current, cancelling, sinkVars, slotVars, callVars,
                 runningRequest>>

SubmitSystem(t) == runtime = "ready" /\ Enqueue(t) /\ UNCHANGED slotVars
-----------------------------------------------------------------------------
(* The lane (spine/scheduler.py) and the runner.                            *)

\* The worker settles the turn whose payload is done, and takes the next.
WorkerSteps ==
  /\ IF current = NoTurn THEN lane # <<>> ELSE phase[current] = "closing" /\ sink = "returned"
  /\ phase' = [t \in Turns |->
       IF t = current THEN "settled"
       ELSE IF lane # <<>> /\ t = Head(lane) THEN "created" ELSE phase[t]]
  /\ current' = IF lane = <<>> THEN NoTurn ELSE Head(lane)
  /\ lane' = IF lane = <<>> THEN lane ELSE Tail(lane)
  /\ cancelling' = FALSE /\ sink' = "idle"
  /\ UNCHANGED <<subVars, runtime, outcome, hub, written, cut, slotVars, callVars, runningRequest>>

\* A slot is granted and the runner entered: only a request bound to a turn.send
\* has a message.start.
RunnerBegins ==
  /\ current # NoTurn /\ phase[current] = "created" /\ ~cancelling
  /\ phase' = [phase EXCEPT ![current] = "running"]
  /\ runningRequest' = current
  /\ EmitAll(IF current \in ids THEN <<Of("message.start", current)>> ELSE <<>>)
  /\ UNCHANGED <<runtime, lane, current, outcome, cancelling, sinkVars, slotVars, callVars>>

RunnerWrites ==
  /\ current \in UserTurns /\ phase[current] = "running" /\ written < MaxText
  /\ hub' = Append(hub, current) /\ written' = written + 1
  /\ UNCHANGED <<subVars, runtime, laneVars, sink, cut, slotVars, callVars, runningRequest>>

\* The payload task ends the run; the terminal event goes to the sink.
Leaves(verdict) ==
  /\ phase' = [phase EXCEPT ![current] = "closing"]
  /\ outcome' = [outcome EXCEPT ![current] = verdict]
  /\ sink' = "busy" /\ cancelling' = FALSE
  /\ UNCHANGED <<runtime, lane, current, hub, written, cut, slotVars, callVars, runningRequest>>

RunnerReturns ==
  /\ current # NoTurn /\ phase[current] = "running" /\ ~cancelling
  /\ \/ Leaves("failed") /\ UNCHANGED subVars
     \/ /\ Leaves("ok")
        /\ EmitAll(IF current \in SystemTurns THEN <<Of("subagent.delivered", current)>>
                                              ELSE <<>>)

\* A turn that was running has a terminal event; one cancelled before has none.
CancelIsDelivered ==
  /\ cancelling
  /\ IF phase[current] = "running" THEN Leaves("cancelled")
     ELSE /\ phase[current] = "created"
          /\ phase' = [phase EXCEPT ![current] = "closing"]
          /\ outcome' = [outcome EXCEPT ![current] = "cancelled"]
          /\ sink' = "returned" /\ cancelling' = FALSE
          /\ UNCHANGED <<runtime, lane, current, hub, written, cut, slotVars, callVars,
                         runningRequest>>
  /\ UNCHANGED subVars
-----------------------------------------------------------------------------
(* The hub and the sink of terminal events.                                 *)

HubDelivers ==            \* TuiOutlet.send_stream_chunk
  /\ hub # <<>>
  /\ hub' = Tail(hub)
  /\ EmitAll(<<Delta(Head(hub))>>)
  /\ UNCHANGED <<runtime, laneVars, written, sink, cut, slotVars, callVars, runningRequest>>

\* Fault: the slot is cleared whoever holds it.
ClearAny(t) == active' = NoTurn

ClearActive(t) == active' = IF active = t THEN NoTurn ELSE active     \* clear_active

\* Fault: no render barrier.
NoBarrier == TRUE

Rendered == hub = <<>>    \* wait_idle has returned

\* Fault: a cancelled turn is reported as failed.
ErrorOfAny(t) == IF outcome[t] = "ok" THEN <<Of("message.complete", t)>> ELSE <<Of("error:internal", t)>>

TerminalEvent(t) ==
  CASE outcome[t] = "ok" -> <<Of("message.complete", t)>>
    [] outcome[t] = "failed" -> <<Of("error:internal", t)>>
    [] outcome[t] = "cancelled" -> <<>>

\* After the barrier the sink goes on without suspending: it drops the records
\* of the request that ran, frees the slot, and reports a bound turn.
SinkReports ==
  LET t == runningRequest IN
  /\ sink = "busy" /\ Rendered
  /\ sink' = "returned"
  /\ runningRequest' = NoTurn
  /\ ids' = ids \ {t}
  /\ ClearActive(t)
  /\ EmitAll(IF t \in ids THEN TerminalEvent(t) ELSE <<>>)
  /\ UNCHANGED <<runtime, laneVars, hub, written, cut, callVars>>

\* _emit_terminal gives up after its second; the sink is cancelled in the barrier.
SinkIsCut ==
  /\ sink = "busy"
  /\ sink' = "returned" /\ cut' = cut \cup {current}
  /\ UNCHANGED <<subVars, runtime, laneVars, hub, written, slotVars, callVars, runningRequest>>
-----------------------------------------------------------------------------
(* turn.cancel: cancel, tell, wait for the handle, clean up.                *)

\* TurnHandle.cancel: from the queue, or by a cancel of the payload task, which
\* is swallowed once the terminal event is being sent.
CancelHandle(t) ==
  /\ IF phase[t] = "pending"
     THEN \E k \in DOMAIN lane : lane[k] = t /\ lane' = RemoveAt(lane, k)
     ELSE UNCHANGED lane
  /\ phase' = [phase EXCEPT ![t] = IF @ = "pending" THEN "settled" ELSE @]
  /\ outcome' = [outcome EXCEPT ![t] = IF phase[t] = "pending" THEN "cancelled" ELSE @]
  /\ cancelling' = (cancelling \/ phase[t] \in {"created", "running"})
  /\ UNCHANGED current

Cancel(t) ==
  /\ t \in Regretted /\ active = t /\ calls < MaxCancels
  /\ calls' = calls + 1
  /\ CancelHandle(t)
  /\ EmitAll(<<Of("error:cancelled_by_client", t)>>)
  /\ cancels' = cancels \cup {t}
  /\ crossed' = IF phase[t] \in {"pending", "created", "running"} /\ Told(t) = 0
                THEN crossed ELSE crossed \cup {t}
  /\ UNCHANGED <<runtime, sinkVars, slotVars, runningRequest>>

\* Fault: the slot is left to the sink.
CancelReturnsOnly(t) ==
  /\ t \in cancels /\ phase[t] = "settled"
  /\ cancels' = cancels \ {t}
  /\ ids' = ids \ {t}
  /\ UNCHANGED <<subVars, runtime, laneVars, sinkVars, calls, crossed, runningRequest, active>>

\* (Of two turn.cancel calls for one turn the second to return changes nothing.)
CancelReturns(t) ==
  /\ t \in cancels /\ phase[t] = "settled"
  /\ cancels' = cancels \ {t}
  /\ ids' = ids \ {t}
  /\ ClearActive(t)
  /\ UNCHANGED <<subVars, runtime, laneVars, sinkVars, calls, crossed, runningRequest>>
-----------------------------------------------------------------------------
Client ==
  \/ BindRuntime
  \/ \E t \in UserTurns : Send(t) \/ SendFails(t) \/ Cancel(t)
  \/ \E t \in SystemTurns : SubmitSystem(t)

Runner == RunnerBegins \/ RunnerWrites \/ RunnerReturns

Subscriber == SubNext /\ UNCHANGED <<runtime, laneVars, sinkVars, slotVars, callVars,
                                     runningRequest>>

Next ==
  \/ Client \/ Runner \/ Subscriber
  \/ WorkerSteps \/ CancelIsDelivered \/ HubDelivers \/ SinkReports \/ SinkIsCut
  \/ \E t \in UserTurns : CancelReturns(t)

Spec == Init /\ [][Next]_vars

\* What the lane's worker, the payload task that is cancelled and the sink of a
\* terminal event do: at most one of them can go on.
LaneStep == WorkerSteps \/ CancelIsDelivered \/ SinkReports \/ SinkIsCut

\* The loop runs ready tasks and timers.  A slot may never be granted, a runner
\* never return and the hub never deliver.
Fairness == WF_vars(LaneStep) /\ WF_vars(\E t \in UserTurns : CancelReturns(t))

FairSpec == Spec /\ Fairness
-----------------------------------------------------------------------------
At(i, type) == emitted[i].type = type

(* A token delta names no turn, so a client puts its text into the turn that   *)
(* was started last: between that message.start and the text there is no       *)
(* terminal event of the sink.  The render barrier, the drop of the slot       *)
(* before the terminal event and the next turn.send must keep this order       *)
(* between the hub's queue and the events that bypass it.  (A sink cut by its  *)
(* deadline gives the barrier up.  The error of a turn.cancel goes out at      *)
(* once, and a client drops the text of that turn that comes after it.)        *)
TextIsAttributable ==
  \A i \in DOMAIN emitted : IsDelta(emitted[i]) =>
    \A t \in ToSet(emitted[i].text) \ cut :
      \E j \in 1 .. i - 1 :
        /\ emitted[j] = Of("message.start", t)
        /\ \A k \in j + 1 .. i - 1 :
             ~ \E type \in {"message.start", "message.complete", "error:internal"} : At(k, type)

(* What the client is told of the end of a turn is true: the sink reports a    *)
(* turn once and as it ended, and turn.cancel reports as cancelled no turn     *)
(* that ended otherwise.  Unless a turn.cancel came after the payload had      *)
(* ended, or after another one, there is one terminal event, the error of      *)
(* turn.cancel included; and once the handle of a turn that had started        *)
(* settles there is one, unless the sink was cut.                              *)
TerminalIsTrue ==
  \A t \in UserTurns :
    /\ Completed(t) > 0 => outcome[t] = "ok"
    /\ Failed(t) > 0 => outcome[t] = "failed"
    /\ Completed(t) + Failed(t) <= 1
    /\ t \notin crossed =>
         /\ Completed(t) + Failed(t) + Told(t) <= 1
         /\ Told(t) > 0 => outcome[t] \in {"none", "cancelled"}
    /\ phase[t] = "settled" /\ Times("message.start", t) > 0 /\ t \notin cut =>
         Completed(t) + Failed(t) + Told(t) > 0

(* The docstrings of turn.cancel and of the sink: the error of turn.cancel is  *)
(* the only one for a cancelled turn, there is no double error.                *)
OneReport == \A t \in UserTurns : Completed(t) + Failed(t) + Told(t) <= 1

(* A user turn that waits or runs is in the active slot with its ids bound, so *)
(* turn.cancel reaches it, the sink can report it and no second one is         *)
(* accepted: not the sink of a system turn, nor a turn.cancel that returns     *)
(* late, clears the slot of the next turn.                                     *)
ActiveIsReachable ==
  \A t \in UserTurns :
    phase[t] \in {"pending", "created", "running"} => active = t /\ t \in ids

(* turn.cancel frees the slot, wherever the turn was: queued, waiting for a    *)
(* slot of the pool, running, or held by a sink that gave up.                  *)
CancelFreesSlot == \A t \in UserTurns : t \in cancels ~> active # t
=============================================================================
