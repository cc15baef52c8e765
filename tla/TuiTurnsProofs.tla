-------------------------- MODULE TuiTurnsProofs --------------------------
(***************************************************************************)
(* Proofs about TuiTurns, for every set of turns and subscriptions, every  *)
(* queue capacity, any number of pieces of text and of cancels: the active *)
(* turn is the one a cancel reaches, the client is told the truth about    *)
(* its end, and every piece of text falls into the turn that wrote it.     *)
(***************************************************************************)
EXTENDS TuiTurns, SequenceFacts, FiniteSetTheorems, TLAPS

USE DEF subVars, laneVars, sinkVars, slotVars, callVars, Completed, Failed, Told

Taken(t)   == phase[t] \in {"created", "running", "closing"}
Running(t) == t = current /\ phase[t] = "running"
Ending(t)  == t = current /\ sink = "busy"

\* The phases of the turns say where they are, and the sink works for the turn
\* that ends; the records of the request that ran lead it to that turn.
PhasesFit ==
  /\ IsInjective(lane) /\ ToSet(lane) = {t \in Turns : phase[t] = "pending"}
  /\ \A t \in Turns : Taken(t) <=> t = current
  /\ sink # "idle" <=> current # NoTurn /\ phase[current] = "closing"
  /\ cancelling => current # NoTurn /\ phase[current] \in {"created", "running"}
  /\ \A t \in Turns : Running(t) \/ Ending(t) => runningRequest = t
  /\ \A t \in Turns : phase[t] = "closing" => outcome[t] # "none"

\* Nothing is submitted before there is a scheduler, nor without one.
RuntimeFits ==
  runtime # "ready" =>
    /\ lane = <<>> /\ current = NoTurn /\ hub = <<>>
    /\ \A t \in Turns : phase[t] \in {"new", "refused"}

\* A user turn has its ids until the sink has reported it.
IdsFit == \A t \in UserTurns : Ending(t) => t \in ids

TurnInv ==
  /\ TurnTypeOK /\ emitted \in Seq(Event)
  /\ PhasesFit /\ RuntimeFits /\ IdsFit /\ ActiveIsReachable

\* What the client has been told of a user turn: nothing of its end before the
\* sink reports it or a cancel is on its way, and then the truth; twice only if a
\* turn.cancel crossed another report.
Early == {"new", "pending", "created", "running"}
Over == {"closing", "settled"}
Reports(t) == Completed(t) + Failed(t) + Told(t)

ToldOnce(t) ==
  t \notin crossed =>
    /\ Told(t) <= 1
    /\ Told(t) > 0 => \/ t = current /\ cancelling
                      \/ phase[t] \in Over /\ outcome[t] = "cancelled"

ToldFits(t) ==
  /\ phase[t] \in Early => outcome[t] = "none"
  /\ phase[t] \in Early \/ Ending(t) => Completed(t) = 0 /\ Failed(t) = 0
  /\ Completed(t) + Failed(t) <= 1
  /\ Completed(t) > 0 => outcome[t] = "ok"
  /\ Failed(t) > 0 => outcome[t] = "failed"
  /\ outcome[t] = "cancelled" \/ (cancelling /\ t = current) => Told(t) > 0
  /\ phase[t] \in Over => t \in cut \/ Ending(t) \/ Reports(t) > 0
  /\ ToldOnce(t)

ToldInv == \A t \in UserTurns : ToldFits(t)

\* The client has t open: t was started, and nothing since then started or ended
\* a turn.  That is so as long as t runs or its sink waits for the text in the
\* hub, and only a turn whose sink was cut has text there after that.
Boundary == {"message.start", "message.complete", "error:internal"}
OpenBefore(q, t, i) ==
  \E j \in 1 .. i - 1 : /\ q[j] = Of("message.start", t)
                        /\ \A k \in j + 1 .. i - 1 : q[k].type \notin Boundary
Attributed(q, i, gone) == IsDelta(q[i]) => \A t \in ToSet(q[i].text) \ gone : OpenBefore(q, t, i)

TextInv ==
  /\ \A t \in ToSet(hub) \ cut : Running(t) \/ Ending(t)
  /\ \A t \in UserTurns : Running(t) \/ Ending(t) => OpenBefore(emitted, t, Len(emitted) + 1)
  /\ \A i \in 1 .. Len(emitted) : Attributed(emitted, i, cut)

-----------------------------------------------------------------------------
(* Where the turns are.                                                    *)

\* An event of the stream as emit takes it: a delta has one piece of text.
Emittable == {e \in Event : IsDelta(e) => e.turn = NoTurn /\ \E t \in Turns : e.text = <<t>>}

\* What the turns emit are events of the stream.
LEMMA EventTypes ==
  ASSUME NEW t \in Turns
  PROVE  /\ \A type \in {"message.start", "message.complete", "error:internal", "error:cancelled_by_client",
                         "subagent.delivered"} :
              Of(type, t) \in Event /\ Of(type, t) \in Emittable
         /\ Delta(t) \in Event /\ Delta(t) \in Emittable
<1>1. <<>> \in Seq(Turns) /\ <<t>> \in Seq(Turns)
  OBVIOUS
<1> QED BY <1>1 DEF Of, Delta, Event, Emittable, IsDelta

\* A step emits some events, or is one of the subscribers', or does nothing to them.
LEMMA EmitStep ==
  ASSUME TurnInv, [Next]_vars
  PROVE  \/ \E es \in Seq(Emittable) : EmitAll(es)
         \/ SubNext /\ UNCHANGED emitted
         \/ UNCHANGED subVars
<1> DEFINE Emits == \E es \in Seq(Emittable) : EmitAll(es)
<1>t. TurnTypeOK /\ UserTurns \subseteq Turns
  BY TuiAssumption DEF TurnInv
<1>1. ASSUME NEW t \in UserTurns, SendFails(t) PROVE Emits
  <2>1. <<Of("message.start", t), Of("error:internal", t)>> \in Seq(Emittable)
    BY <1>t, EventTypes
  <2> QED BY <1>1, <2>1 DEF SendFails
<1>2. ASSUME NEW t \in UserTurns, Cancel(t) PROVE Emits
  <2>1. <<Of("error:cancelled_by_client", t)>> \in Seq(Emittable)
    BY <1>t, EventTypes
  <2> QED BY <1>2, <2>1 DEF Cancel
<1>3. CASE RunnerBegins
  <2>1. current \in Turns
    BY <1>3, <1>t DEF RunnerBegins, TurnTypeOK, MaybeTurn
  <2>2. <<Of("message.start", current)>> \in Seq(Emittable) /\ <<>> \in Seq(Emittable)
    BY <2>1, EventTypes
  <2> QED BY <1>3, <2>2 DEF RunnerBegins
<1>4. CASE RunnerReturns
  <2>1. current \in Turns
    BY <1>4, <1>t DEF RunnerReturns, TurnTypeOK, MaybeTurn
  <2>2. <<Of("subagent.delivered", current)>> \in Seq(Emittable) /\ <<>> \in Seq(Emittable)
    BY <2>1, EventTypes
  <2> QED BY <1>4, <2>2 DEF RunnerReturns
<1>5. CASE HubDelivers
  <2>1. Head(hub) \in Turns
    BY <1>5, <1>t DEF HubDelivers, TurnTypeOK
  <2>2. <<Delta(Head(hub))>> \in Seq(Emittable)
    BY <2>1, EventTypes
  <2> QED BY <1>5, <2>2 DEF HubDelivers
<1>6. CASE SinkReports
  <2>1. PICK t : t = runningRequest
    OBVIOUS
  <2>2. ASSUME t \in ids PROVE TerminalEvent(t) \in Seq(Emittable)
    <3>1. current \in Turns /\ phase[current] = "closing" /\ t = current
      BY <1>6, <1>t, <2>1 DEF TurnInv, PhasesFit, SinkReports, TurnTypeOK, MaybeTurn, Ending
    <3>2. outcome[t] \in {"ok", "failed", "cancelled"}
      BY <1>t, <3>1 DEF TurnInv, PhasesFit, TurnTypeOK
    <3>3. /\ <<Of("message.complete", t)>> \in Seq(Emittable)
          /\ <<Of("error:internal", t)>> \in Seq(Emittable) /\ <<>> \in Seq(Emittable)
      BY <3>1, EventTypes
    <3> QED BY <3>2, <3>3 DEF TerminalEvent
  <2>3. <<>> \in Seq(Emittable)
    OBVIOUS
  <2> QED BY <1>6, <2>1, <2>2, <2>3 DEF SinkReports
<1>7. SubNext => UNCHANGED emitted
  BY DEF SubNext, Register, Unregister, TakeFirst, Flush
<1> QED BY <1>1, <1>2, <1>3, <1>4, <1>5, <1>6, <1>7
        DEF Next, Client, Runner, Subscriber, BindRuntime, Send, SubmitSystem, Enqueue,
            RunnerWrites, WorkerSteps, CancelIsDelivered, SinkIsCut, CancelReturns, vars

\* Every event emitted is an event.
LEMMA EmittedStep ==
  ASSUME TurnInv, [Next]_vars
  PROVE  emitted' \in Seq(Event)
<1>1. emitted \in Seq(Event) /\ Seq(Emittable) \subseteq Seq(Event)
  <2>1. Emittable \subseteq Event
    BY DEF Emittable
  <2> QED BY <2>1, SeqMonotonic DEF TurnInv
<1>2. ASSUME NEW es \in Seq(Emittable), EmitAll(es) PROVE emitted' \in Seq(Event)
  <2>1. es \in Seq(Event) /\ emitted' = emitted \o es
    BY <1>1, <1>2 DEF EmitAll
  <2> QED BY <1>1, <2>1, ConcatProperties
<1> QED BY <1>1, <1>2, EmitStep

\* In the states that occur, the phase of the turn that is taken is known.
LEMMA TurnFacts ==
  ASSUME TurnInv
  PROVE  /\ TurnTypeOK /\ UserTurns \subseteq Turns /\ NoTurn \notin Turns
         /\ lane \in Seq(Turns) /\ current \in Turns \cup {NoTurn}
         /\ current # NoTurn => current \in Turns /\ Taken(current)
         /\ \A t \in Turns : Taken(t) => t = current
         /\ \A t \in Turns : t \in ToSet(lane) <=> phase[t] = "pending"
BY TuiAssumption, SubscriptionsAssumption DEF TurnInv, TurnTypeOK, MaybeTurn, PhasesFit

LEMMA TurnInit == Init => TurnInv
<1> SUFFICES ASSUME Init PROVE TurnInv
  OBVIOUS
<1>1. ToSet(<<>>) = {} /\ IsInjective(<<>>)
  BY EmptyElements
<1>2. UserTurns \subseteq Turns /\ NoTurn \notin Turns
  BY TuiAssumption, SubscriptionsAssumption
<1>3. TurnTypeOK /\ emitted \in Seq(Event)
  <2>1. <<>> \in Seq(Turns) /\ <<>> \in Seq(UserTurns) /\ <<>> \in Seq(Event)
    OBVIOUS
  <2>2. 0 \in 0 .. MaxText /\ 0 \in 0 .. MaxCancels
    BY TuiAssumption
  <2>3. lane \in Seq(Turns) /\ IsInjective(lane) /\ hub \in Seq(UserTurns)
    BY <1>1, <2>1 DEF Init
  <2> QED BY <2>1, <2>2, <2>3 DEF Init, SubInit, TurnTypeOK, MaybeTurn
<1>4. PhasesFit
  BY <1>1, <1>2 DEF Init, PhasesFit, Taken, Running, Ending
<1>5. RuntimeFits /\ IdsFit /\ ActiveIsReachable
  BY <1>2 DEF Init, RuntimeFits, IdsFit, ActiveIsReachable, Ending
<1> QED BY <1>3, <1>4, <1>5 DEF TurnInv

\* A turn is submitted: it waits in the lane, and a user turn in the slot.
LEMMA SubmitKeeps ==
  ASSUME TurnInv, NEW t \in Turns,
         (t \in UserTurns /\ Send(t)) \/ (t \notin UserTurns /\ SubmitSystem(t))
  PROVE  TurnInv'
<1>1. /\ TurnTypeOK /\ UserTurns \subseteq Turns /\ NoTurn \notin Turns
      /\ lane \in Seq(Turns) /\ phase[t] = "new" /\ t \notin ToSet(lane)
      /\ IsInjective(lane) /\ Enqueue(t) /\ runtime = "ready" /\ UNCHANGED emitted
  BY TurnFacts DEF TurnInv, PhasesFit, Send, SubmitSystem, Enqueue
<1>2. /\ lane' \in Seq(Turns) /\ ToSet(lane') = ToSet(lane) \cup {t} /\ IsInjective(lane')
      /\ phase' = [phase EXCEPT ![t] = "pending"]
  BY <1>1, AppendElements DEF Enqueue
<1>3. TurnTypeOK'
  BY <1>1, <1>2 DEF TurnTypeOK, MaybeTurn, Enqueue, Send, SubmitSystem
<1>4. PhasesFit'
  BY <1>1, <1>2 DEF TurnInv, TurnTypeOK, PhasesFit, Enqueue, Taken, Running, Ending
<1>5. RuntimeFits' /\ IdsFit'
  BY <1>1 DEF TurnInv, RuntimeFits, IdsFit, Ending, Enqueue, Send, SubmitSystem
<1>6. ActiveIsReachable'
  <2>1. CASE t \in UserTurns /\ Send(t)
    <3>1. \A u \in UserTurns : phase[u] \notin {"pending", "created", "running"}
      BY <1>1, <2>1, TurnFacts, EmptyElements DEF Send, Taken
    <3> QED BY <1>1, <1>2, <2>1, <3>1 DEF ActiveIsReachable, Send, TurnTypeOK
  <2>2. CASE t \notin UserTurns /\ SubmitSystem(t)
    BY <1>1, <1>2, <2>2 DEF TurnInv, ActiveIsReachable, SubmitSystem, TurnTypeOK
  <2> QED BY <2>1, <2>2
<1> QED BY <1>1, <1>3, <1>4, <1>5, <1>6 DEF TurnInv

\* turn.send without a scheduler.
LEMMA SendFailsKeeps ==
  ASSUME TurnInv, emitted' \in Seq(Event), NEW t \in UserTurns, SendFails(t)
  PROVE  TurnInv'
<1>1. /\ TurnTypeOK /\ t \in Turns /\ phase[t] = "new" /\ runtime = "failed"
      /\ phase' = [phase EXCEPT ![t] = "refused"] /\ outcome' = [outcome EXCEPT ![t] = "failed"]
      /\ UNCHANGED <<runtime, lane, current, cancelling, sinkVars, slotVars, callVars,
                     runningRequest>>
  BY TurnFacts DEF SendFails
<1>2. TurnTypeOK'
  BY <1>1 DEF TurnTypeOK
<1>3. PhasesFit'
  BY <1>1 DEF TurnInv, TurnTypeOK, PhasesFit, Taken, Running, Ending
<1>4. RuntimeFits' /\ IdsFit' /\ ActiveIsReachable'
  BY <1>1 DEF TurnInv, TurnTypeOK, RuntimeFits, IdsFit, Ending, ActiveIsReachable
<1> QED BY <1>2, <1>3, <1>4 DEF TurnInv

\* turn.cancel: a waiting turn leaves the lane for good, the payload task of one
\* that is taken is to be cancelled.
LEMMA CancelKeeps ==
  ASSUME TurnInv, emitted' \in Seq(Event), NEW t \in UserTurns, Cancel(t)
  PROVE  TurnInv'
<1>1. /\ TurnTypeOK /\ t \in Turns /\ NoTurn \notin Turns /\ lane \in Seq(Turns)
      /\ \A u \in Turns : Taken(u) => u = current
      /\ CancelHandle(t) /\ active = t
      /\ UNCHANGED <<runtime, sinkVars, slotVars, runningRequest, current>>
      /\ calls < MaxCancels /\ calls' = calls + 1 /\ cancels' = cancels \cup {t}
  BY TurnFacts DEF Cancel, CancelHandle
<1>2. /\ lane' \in Seq(Turns) /\ IsInjective(lane')
      /\ phase[t] = "pending" => ToSet(lane') = ToSet(lane) \ {t}
      /\ phase[t] # "pending" => lane' = lane
  <2>1. CASE phase[t] = "pending"
    <3>1. PICK k \in DOMAIN lane : lane[k] = t /\ lane' = RemoveAt(lane, k)
      BY <1>1, <2>1 DEF CancelHandle
    <3> QED BY <1>1, <2>1, <3>1, RemoveElements DEF TurnTypeOK
  <2>2. CASE phase[t] # "pending"
    BY <1>1, <2>2 DEF CancelHandle, TurnTypeOK
  <2> QED BY <2>1, <2>2
<1>3. /\ phase' = [phase EXCEPT ![t] = IF @ = "pending" THEN "settled" ELSE @]
      /\ outcome' = [outcome EXCEPT ![t] = IF phase[t] = "pending" THEN "cancelled" ELSE @]
      /\ cancelling' = (cancelling \/ phase[t] \in {"created", "running"})
  BY <1>1 DEF CancelHandle
<1>4. calls' \in 0 .. MaxCancels /\ crossed' \subseteq UserTurns
  BY <1>1, TuiAssumption DEF TurnTypeOK, Cancel
<1>5. phase' \in [Turns -> {"new", "refused", "pending", "created", "running", "closing", "settled"}]
      /\ outcome' \in [Turns -> {"none", "ok", "failed", "cancelled"}] /\ cancelling' \in BOOLEAN
  BY <1>1, <1>3 DEF TurnTypeOK
<1>6. TurnTypeOK'
  BY <1>1, <1>2, <1>4, <1>5 DEF TurnTypeOK
<1>7. PhasesFit'
  <2>1. /\ \A u \in Turns : Taken(u)' <=> Taken(u)
        /\ \A u \in Turns : phase'[u] = phase[u] \/ (u = t /\ phase[u] = "pending")
    BY <1>1, <1>3 DEF TurnTypeOK, Taken
  <2>2. ToSet(lane') = {u \in Turns : phase'[u] = "pending"}
    BY <1>1, <1>2, <1>3 DEF TurnInv, TurnTypeOK, PhasesFit
  <2>3. \A u \in Turns : Taken(u)' <=> u = current'
    BY <1>1, <2>1 DEF TurnInv, PhasesFit
  <2>4. sink' # "idle" <=> current' # NoTurn /\ phase'[current'] = "closing"
    BY <1>1, <2>1, TurnFacts DEF TurnInv, PhasesFit, Taken
  <2>5. cancelling' => current' # NoTurn /\ phase'[current'] \in {"created", "running"}
    <3>1. CASE cancelling
      <4>1. current \in Turns /\ phase[current] \in {"created", "running"}
        BY <3>1, TurnFacts DEF TurnInv, PhasesFit
      <4> QED BY <1>1, <2>1, <4>1
    <3>2. CASE phase[t] \in {"created", "running"}
      <4>1. t = current
        BY <1>1, <3>2 DEF Taken
      <4> QED BY <1>1, <2>1, <3>2, <4>1
    <3>3. cancelling \/ phase[t] \in {"created", "running"} \/ ~cancelling'
      BY <1>3
    <3> QED BY <3>1, <3>2, <3>3
  <2>6. \A u \in Turns : (Running(u) \/ Ending(u))' => runningRequest' = u
    BY <1>1, <2>1 DEF TurnInv, PhasesFit, Taken, Running, Ending
  <2>7. \A u \in Turns : phase'[u] = "closing" => outcome'[u] # "none"
    BY <1>1, <1>3 DEF TurnInv, PhasesFit, TurnTypeOK
  <2> QED BY <1>2, <2>2, <2>3, <2>4, <2>5, <2>6, <2>7 DEF PhasesFit
<1>8. RuntimeFits' /\ IdsFit'
  <2>1. phase[t] = "pending" => runtime = "ready"
    BY <1>1 DEF TurnInv, RuntimeFits
  <2> QED BY <1>1, <1>2, <1>3, <2>1 DEF TurnInv, TurnTypeOK, RuntimeFits, IdsFit, Ending
<1>9. ActiveIsReachable'
  BY <1>1, <1>3 DEF TurnInv, TurnTypeOK, ActiveIsReachable
<1> QED BY <1>6, <1>7, <1>8, <1>9 DEF TurnInv

\* The worker settles one turn and takes the next.
LEMMA WorkerKeeps ==
  ASSUME TurnInv, emitted' \in Seq(Event), WorkerSteps
  PROVE  TurnInv'
<1>1. /\ TurnTypeOK /\ UserTurns \subseteq Turns /\ NoTurn \notin Turns /\ lane \in Seq(Turns)
      /\ \A t \in Turns : Taken(t) <=> t = current
      /\ \A t \in Turns : t \in ToSet(lane) <=> phase[t] = "pending"
      /\ cancelling' = FALSE /\ sink' = "idle"
      /\ UNCHANGED <<runtime, outcome, hub, written, cut, slotVars, callVars, runningRequest>>
      /\ current # NoTurn => phase[current] = "closing"
  BY TurnFacts DEF TurnInv, PhasesFit, WorkerSteps
<1>2. phase' = [t \in Turns |->
       IF t = current THEN "settled"
       ELSE IF lane # <<>> /\ t = Head(lane) THEN "created" ELSE phase[t]]
  BY DEF WorkerSteps
<1>3. CASE lane = <<>>
  <2>1. lane' = lane /\ current' = NoTurn /\ current # NoTurn
    BY <1>3 DEF WorkerSteps
  <2>2. TurnTypeOK'
    BY <1>1, <1>2, <1>3, <2>1 DEF TurnTypeOK, MaybeTurn
  <2>3. PhasesFit'
    BY <1>1, <1>2, <1>3, <2>1 DEF TurnInv, PhasesFit, Taken, Running, Ending
  <2>4. RuntimeFits' /\ IdsFit' /\ ActiveIsReachable'
    BY <1>1, <1>2, <1>3, <2>1 DEF TurnInv, RuntimeFits, IdsFit, ActiveIsReachable, Ending
  <2> QED BY <2>2, <2>3, <2>4 DEF TurnInv
<1>4. CASE lane # <<>>
  <2>1. lane' = Tail(lane) /\ current' = Head(lane)
    BY <1>4 DEF WorkerSteps
  <2>2. /\ Head(lane) \in Turns /\ Tail(lane) \in Seq(Turns) /\ IsInjective(Tail(lane))
        /\ ToSet(lane) = ToSet(Tail(lane)) \cup {Head(lane)} /\ Head(lane) \notin ToSet(Tail(lane))
    BY <1>1, <1>4, TailElements DEF TurnTypeOK
  <2>3. PICK h \in Turns : h = Head(lane)
    BY <2>2
  <2>4. phase[h] = "pending" /\ h # current
    BY <1>1, <2>2, <2>3 DEF Taken
  <2>5. phase' = [t \in Turns |-> IF t = current THEN "settled"
                                  ELSE IF t = h THEN "created" ELSE phase[t]]
    BY <1>2, <1>4, <2>3
  <2>6. TurnTypeOK'
    BY <1>1, <2>1, <2>2, <2>3, <2>5 DEF TurnTypeOK, MaybeTurn
  <2>7. PhasesFit'
    <3>1. \A t \in Turns : Taken(t)' <=> t = current'
      BY <1>1, <2>1, <2>3, <2>4, <2>5 DEF Taken
    <3>2. ToSet(lane') = {t \in Turns : phase'[t] = "pending"}
      BY <1>1, <2>1, <2>2, <2>3, <2>4, <2>5 DEF TurnInv, PhasesFit, Taken
    <3>3. phase'[current'] = "created" /\ current' = h
      BY <2>1, <2>3, <2>4, <2>5
    <3>4. \A t \in Turns : phase'[t] # "closing"
      BY <3>1, <3>3 DEF Taken
    <3> QED BY <1>1, <2>1, <2>2, <3>1, <3>2, <3>3, <3>4 DEF PhasesFit, Running, Ending
  <2>8. RuntimeFits' /\ IdsFit' /\ ActiveIsReachable'
    BY <1>1, <1>4, <2>1, <2>3, <2>4, <2>5
       DEF TurnInv, RuntimeFits, IdsFit, ActiveIsReachable, Ending
  <2> QED BY <2>6, <2>7, <2>8 DEF TurnInv
<1> QED BY <1>3, <1>4

\* The payload task of the turn that is taken enters or leaves its runner.
LEMMA RunKeeps ==
  ASSUME TurnInv, emitted' \in Seq(Event), RunnerBegins \/ RunnerReturns \/ CancelIsDelivered
  PROVE  TurnInv'
<1>1. /\ TurnTypeOK /\ UserTurns \subseteq Turns /\ NoTurn \notin Turns
      /\ \A t \in Turns : Taken(t) <=> t = current
      /\ sink # "idle" <=> current # NoTurn /\ phase[current] = "closing"
      /\ UNCHANGED <<runtime, lane, current, hub, written, cut, slotVars, callVars>>
  BY TurnFacts DEF TurnInv, PhasesFit, RunnerBegins, RunnerReturns, CancelIsDelivered, Leaves
<1>2. current \in Turns /\ phase[current] \in {"created", "running"}
  BY TurnFacts DEF TurnInv, PhasesFit, RunnerBegins, RunnerReturns, CancelIsDelivered
<1>3. sink = "idle" /\ \A t \in Turns : ~Ending(t)
  BY <1>1, <1>2 DEF TurnTypeOK, Ending
<1>4. CASE RunnerBegins
  <2>1. /\ phase' = [phase EXCEPT ![current] = "running"] /\ runningRequest' = current
        /\ UNCHANGED <<outcome, cancelling, sink>> /\ ~cancelling
    BY <1>4 DEF RunnerBegins
  <2>2. TurnTypeOK'
    BY <1>1, <1>2, <2>1 DEF TurnTypeOK, MaybeTurn
  <2>3. PhasesFit'
    BY <1>1, <1>2, <1>3, <2>1 DEF TurnInv, TurnTypeOK, PhasesFit, Taken, Running, Ending
  <2>4. RuntimeFits' /\ IdsFit' /\ ActiveIsReachable'
    BY <1>1, <1>2, <1>3, <2>1
       DEF TurnInv, TurnTypeOK, RuntimeFits, IdsFit, ActiveIsReachable, Ending
  <2> QED BY <2>2, <2>3, <2>4 DEF TurnInv
<1>5. ASSUME NEW v \in {"ok", "failed", "cancelled"}, NEW s \in {"busy", "returned"},
             phase' = [phase EXCEPT ![current] = "closing"],
             outcome' = [outcome EXCEPT ![current] = v], sink' = s, cancelling' = FALSE,
             UNCHANGED runningRequest, s = "busy" => phase[current] = "running"
      PROVE  TurnInv'
  <2>1. TurnTypeOK'
    BY <1>1, <1>2, <1>5 DEF TurnTypeOK
  <2>2. PhasesFit'
    BY <1>1, <1>2, <1>3, <1>5 DEF TurnInv, TurnTypeOK, PhasesFit, Taken, Running, Ending
  <2>3. RuntimeFits' /\ ActiveIsReachable'
    BY <1>1, <1>2, <1>5 DEF TurnInv, TurnTypeOK, RuntimeFits, ActiveIsReachable
  <2>4. IdsFit'
    BY <1>1, <1>2, <1>5 DEF TurnInv, IdsFit, ActiveIsReachable, Ending
  <2> QED BY <2>1, <2>2, <2>3, <2>4 DEF TurnInv
<1>6. CASE RunnerReturns
  BY <1>5, <1>6 DEF RunnerReturns, Leaves
<1>7. CASE CancelIsDelivered
  BY <1>5, <1>7 DEF CancelIsDelivered, Leaves
<1> QED BY <1>4, <1>6, <1>7

\* The sink reports, or is cut.
LEMMA SinkKeeps ==
  ASSUME TurnInv, emitted' \in Seq(Event), SinkReports \/ SinkIsCut
  PROVE  TurnInv'
<1>1. /\ TurnTypeOK /\ UserTurns \subseteq Turns /\ NoTurn \notin Turns
      /\ \A t \in Turns : Taken(t) <=> t = current
      /\ UNCHANGED <<runtime, laneVars, hub, written, callVars>>
      /\ sink = "busy" /\ sink' = "returned"
  BY TurnFacts DEF TurnInv, PhasesFit, SinkReports, SinkIsCut
<1>2. current \in Turns /\ phase[current] = "closing" /\ runningRequest = current
  BY <1>1, TurnFacts DEF TurnInv, PhasesFit, Ending
<1>3. CASE SinkReports
  <2>1. runningRequest' = NoTurn /\ ids' = ids \ {current} /\ ClearActive(current) /\ UNCHANGED cut
    BY <1>2, <1>3 DEF SinkReports
  <2>2. TurnTypeOK'
    BY <1>1, <1>2, <2>1 DEF TurnTypeOK, MaybeTurn, ClearActive
  <2>3. PhasesFit' /\ RuntimeFits' /\ IdsFit'
    BY <1>1, <1>2, <2>1 DEF TurnInv, PhasesFit, Taken, RuntimeFits, IdsFit, Running, Ending
  <2>4. ActiveIsReachable'
    BY <1>1, <1>2, <2>1 DEF TurnInv, ActiveIsReachable, ClearActive
  <2> QED BY <2>2, <2>3, <2>4 DEF TurnInv
<1>4. CASE SinkIsCut
  <2>1. cut' = cut \cup {current} /\ UNCHANGED <<slotVars, runningRequest>>
    BY <1>4 DEF SinkIsCut
  <2>2. TurnTypeOK'
    BY <1>1, <1>2, <2>1 DEF TurnTypeOK
  <2>3. PhasesFit' /\ RuntimeFits' /\ IdsFit' /\ ActiveIsReachable'
    BY <1>1, <1>2, <2>1
       DEF TurnInv, PhasesFit, Taken, RuntimeFits, IdsFit, Running, Ending, ActiveIsReachable
  <2> QED BY <2>2, <2>3 DEF TurnInv
<1> QED BY <1>3, <1>4

\* turn.cancel returns and cleans up after its own turn only.
LEMMA CancelReturnKeeps ==
  ASSUME TurnInv, emitted' \in Seq(Event), NEW t \in UserTurns, CancelReturns(t)
  PROVE  TurnInv'
<1>1. /\ TurnTypeOK /\ t \in Turns /\ NoTurn \notin Turns /\ phase[t] = "settled"
      /\ ~Taken(current) => current = NoTurn
      /\ cancels' = cancels \ {t} /\ ids' = ids \ {t} /\ ClearActive(t)
      /\ UNCHANGED <<runtime, laneVars, sinkVars, calls, crossed, runningRequest>>
  BY TurnFacts DEF CancelReturns
<1>2. TurnTypeOK'
  BY <1>1 DEF TurnTypeOK, ClearActive
<1>3. PhasesFit' /\ RuntimeFits'
  BY <1>1 DEF TurnInv, PhasesFit, RuntimeFits, Taken, Running, Ending
<1>4. IdsFit'
  <2>1. ~Ending(t)
    BY <1>1, TurnFacts DEF Taken, Ending
  <2> QED BY <1>1, <2>1 DEF TurnInv, IdsFit, Ending
<1>5. ActiveIsReachable'
  BY <1>1 DEF TurnInv, ActiveIsReachable, ClearActive
<1> QED BY <1>2, <1>3, <1>4, <1>5 DEF TurnInv

\* The other steps: the runtime is bound, text is written and delivered, the
\* consumers of the subscriptions run.
LEMMA TextKeeps ==
  ASSUME TurnInv, emitted' \in Seq(Event),
         BindRuntime \/ RunnerWrites \/ HubDelivers \/ Subscriber \/ UNCHANGED vars
  PROVE  TurnInv'
<1>1. TurnTypeOK /\ UNCHANGED <<laneVars, sink, cut, slotVars, callVars, runningRequest>>
  BY DEF TurnInv, BindRuntime, RunnerWrites, HubDelivers, Subscriber, vars
<1>2. PhasesFit' /\ IdsFit' /\ ActiveIsReachable'
  BY <1>1 DEF TurnInv, PhasesFit, IdsFit, Taken, Running, Ending, ActiveIsReachable
<1>3. hub' \in Seq(UserTurns) /\ written' \in 0 .. MaxText /\ runtime' \in {"binding", "ready", "failed"}
  <2>1. CASE BindRuntime \/ Subscriber \/ UNCHANGED vars
    BY <1>1, <2>1 DEF TurnTypeOK, BindRuntime, Subscriber, vars
  <2>2. CASE RunnerWrites
    BY <1>1, <2>2, TuiAssumption DEF TurnTypeOK, RunnerWrites
  <2>3. CASE HubDelivers
    BY <1>1, <2>3 DEF TurnTypeOK, HubDelivers
  <2> QED BY <2>1, <2>2, <2>3
<1>4. TurnTypeOK'
  BY <1>1, <1>3 DEF TurnTypeOK
<1>5. RuntimeFits'
  <2>1. CASE RunnerWrites
    <3>1. runtime = "ready"
      BY <2>1, TurnFacts DEF TurnInv, RuntimeFits, RunnerWrites
    <3> QED BY <2>1, <3>1 DEF RuntimeFits, RunnerWrites
  <2>2. CASE HubDelivers
    BY <2>2 DEF TurnInv, RuntimeFits, HubDelivers
  <2>3. CASE BindRuntime \/ Subscriber \/ UNCHANGED vars
    BY <2>3 DEF TurnInv, RuntimeFits, BindRuntime, Subscriber, vars
  <2> QED BY <2>1, <2>2, <2>3
<1> QED BY <1>2, <1>4, <1>5 DEF TurnInv

LEMMA TurnStep == TurnInv /\ [Next]_vars => TurnInv'
<1> SUFFICES ASSUME TurnInv, [Next]_vars PROVE TurnInv'
  OBVIOUS
<1>1. emitted' \in Seq(Event) /\ SystemTurns = Turns \ UserTurns /\ UserTurns \subseteq Turns
  BY EmittedStep, TuiAssumption DEF SystemTurns
<1>2. CASE Client
  BY <1>1, <1>2, SubmitKeeps, SendFailsKeeps, CancelKeeps, TextKeeps DEF Client
<1>3. CASE Runner
  BY <1>1, <1>3, RunKeeps, TextKeeps DEF Runner
<1> QED BY <1>1, <1>2, <1>3, TextKeeps, WorkerKeeps, RunKeeps, SinkKeeps, CancelReturnKeeps
        DEF Next

\* The phases, the lane, the slot of the payload task and the records of the
\* request agree in every reachable state.
THEOREM TurnsFit == Spec => []TurnInv
BY TurnInit, TurnStep, PTL DEF Spec

\* A user turn that waits or runs is in the active slot with its ids bound: no
\* sink of another turn and no turn.cancel that returns late takes it out.
THEOREM ActiveStaysReachable == Spec => []ActiveIsReachable
<1>1. TurnInv => ActiveIsReachable
  BY DEF TurnInv
<1> QED BY <1>1, TurnsFit, PTL

-----------------------------------------------------------------------------
(* What the client is told of the end of a turn.                           *)

Count(q, e) == Cardinality({i \in DOMAIN q : q[i] = e})

LEMMA CountTypes ==
  ASSUME NEW S, NEW q \in Seq(S), NEW e
  PROVE  IsFiniteSet({i \in DOMAIN q : q[i] = e}) /\ Count(q, e) \in Nat
<1>1. Len(q) \in Nat /\ DOMAIN q = 1 .. Len(q)
  BY LenProperties
<1>2. IsFiniteSet(1 .. Len(q))
  BY <1>1, FS_Interval
<1>3. {i \in DOMAIN q : q[i] = e} \subseteq 1 .. Len(q)
  BY <1>1
<1> QED BY <1>2, <1>3, FS_Subset, FS_CardinalityType DEF Count

LEMMA CountAppended ==
  ASSUME NEW S, NEW q \in Seq(S), NEW x \in S, NEW e
  PROVE  Count(Append(q, x), e) = Count(q, e) + (IF x = e THEN 1 ELSE 0)
<1>1. PICK n \in Nat : n = Len(q)
  BY LenProperties
<1>2. PICK r : r = Append(q, x)
  OBVIOUS
<1>3. PICK at : at = {i \in DOMAIN q : q[i] = e}
  OBVIOUS
<1>4. /\ DOMAIN q = 1 .. n /\ DOMAIN r = 1 .. n + 1
      /\ r[n + 1] = x /\ \A i \in 1 .. n : r[i] = q[i]
  BY <1>1, <1>2, AppendProperties, LenProperties
<1>5. 1 .. n + 1 = (1 .. n) \cup {n + 1} /\ n + 1 \notin 1 .. n
  OBVIOUS
<1>6. {i \in DOMAIN r : r[i] = e} = IF x = e THEN at \cup {n + 1} ELSE at
  BY <1>3, <1>4, <1>5
<1>7. n + 1 \notin at /\ IsFiniteSet(at) /\ Cardinality(at) \in Nat
  BY <1>3, <1>4, <1>5, CountTypes, FS_CardinalityType
<1>8. Cardinality(at \cup {n + 1}) = Cardinality(at) + 1
  BY <1>7, FS_AddElement
<1>9. Count(q, e) = Cardinality(at) /\ Count(r, e) = Cardinality({i \in DOMAIN r : r[i] = e})
  BY <1>3 DEF Count
<1>10. CASE x = e
  <2>1. Count(r, e) = Cardinality(at \cup {n + 1})
    BY <1>6, <1>9, <1>10
  <2> QED BY <1>2, <1>8, <1>9, <1>10, <2>1
<1>11. CASE x # e
  <2>1. Count(r, e) = Cardinality(at)
    BY <1>6, <1>9, <1>11
  <2>2. Count(Append(q, x), e) = Count(q, e)
    BY <1>2, <1>9, <2>1
  <2>3. Count(q, e) \in Nat
    BY CountTypes
  <2> QED BY <1>11, <2>2, <2>3
<1> QED BY <1>10, <1>11

LEMMA TimesTypes ==
  ASSUME emitted \in Seq(Event), NEW type, NEW t
  PROVE  Times(type, t) \in Nat
<1>1. Times(type, t) = Count(emitted, Of(type, t))
  BY DEF Times, Count
<1> QED BY <1>1, CountTypes

\* An event counts for what it is.
LEMMA TimesGrows ==
  ASSUME emitted \in Seq(Event), NEW x \in Event, emitted' = emitted \o <<x>>,
         NEW type, NEW t
  PROVE  Times(type, t)' = Times(type, t) + (IF x = Of(type, t) THEN 1 ELSE 0)
<1>1. emitted' = Append(emitted, x)
  OBVIOUS
<1>2. Times(type, t) = Count(emitted, Of(type, t)) /\ Times(type, t)' = Count(emitted', Of(type, t))
  BY DEF Times, Count
<1> QED BY <1>1, <1>2, CountAppended

\* The events that tell the end of a turn, and whether the counts stay.
Ends == {"message.complete", "error:internal", "error:cancelled_by_client"}
Untold(t) == \A type \in Ends : Times(type, t)' = Times(type, t)

LEMMA OtherEvent ==
  ASSUME emitted \in Seq(Event), NEW t,
         UNCHANGED emitted \/ emitted' = emitted \o <<>> \/
         \E x \in Event : emitted' = emitted \o <<x>> /\ (x.type \in Ends => x.turn # t)
  PROVE  Untold(t)
<1>1. CASE UNCHANGED emitted \/ emitted' = emitted \o <<>>
  <2>1. emitted' = emitted
    BY <1>1
  <2> QED BY <2>1 DEF Untold, Times
<1>2. ASSUME NEW x \in Event, emitted' = emitted \o <<x>>, x.type \in Ends => x.turn # t
      PROVE  Untold(t)
  <2>1. \A type \in Ends : x # Of(type, t)
    BY <1>2 DEF Of
  <2>2. ASSUME NEW type \in Ends PROVE Times(type, t)' = Times(type, t)
    BY <1>2, <2>1, <2>2, TimesGrows, TimesTypes
  <2> QED BY <2>2 DEF Untold
<1> QED BY <1>1, <1>2

\* A step that only moves a turn on before its end.
LEMMA ToldQuiet ==
  ASSUME TurnInv, ToldInv, NEW t \in UserTurns, Untold(t),
         UNCHANGED <<outcome, cancelling, current, sink, cut, crossed>>,
         phase'[t] = phase[t] \/ (phase[t] \in Early /\ phase'[t] \in Early)
  PROVE  ToldFits(t)'
<1>1. ToldFits(t) /\ Times("message.complete", t)' = Times("message.complete", t)
      /\ Times("error:internal", t)' = Times("error:internal", t)
      /\ Times("error:cancelled_by_client", t)' = Times("error:cancelled_by_client", t)
  BY DEF ToldInv, Untold, Ends
<1> QED BY <1>1 DEF ToldFits, ToldOnce, Over, Reports, Ending, Early

LEMMA ToldInit == Init => ToldInv
<1> SUFFICES ASSUME Init, NEW t \in UserTurns PROVE ToldFits(t)
  BY DEF ToldInv
<1>1. ASSUME NEW type PROVE Times(type, t) = 0
  <2>1. {i \in DOMAIN emitted : emitted[i] = Of(type, t)} = {}
    BY DEF Init, SubInit
  <2> QED BY <2>1, FS_EmptySet DEF Times
<1>2. phase[t] = "new" /\ outcome[t] = "none" /\ ~cancelling
  BY TuiAssumption DEF Init
<1> QED BY <1>1, <1>2 DEF ToldFits, ToldOnce, Over, Ending, Reports

\* The steps that tell nothing of an end.
LEMMA QuietTells ==
  ASSUME TurnInv, ToldInv,
         \/ BindRuntime \/ RunnerBegins \/ RunnerWrites \/ Subscriber \/ HubDelivers
         \/ UNCHANGED vars
         \/ \E u \in UserTurns : Send(u) \/ CancelReturns(u)
         \/ \E u \in SystemTurns : SubmitSystem(u)
  PROVE  ToldInv'
<1>1. /\ UNCHANGED <<outcome, cancelling, current, sink, cut, crossed>>
      /\ TurnTypeOK /\ UserTurns \subseteq Turns /\ emitted \in Seq(Event)
      /\ current # NoTurn => current \in Turns
  BY TurnFacts DEF TurnInv, BindRuntime, RunnerBegins, RunnerWrites, Subscriber, HubDelivers,
                   vars, Send, SubmitSystem, Enqueue, CancelReturns
<1> SUFFICES ASSUME NEW t \in UserTurns PROVE ToldFits(t)'
  BY DEF ToldInv
<1>2. phase'[t] = phase[t] \/ (phase[t] \in Early /\ phase'[t] \in Early)
  <2>1. CASE RunnerBegins
    BY <1>1, <2>1 DEF TurnTypeOK, RunnerBegins, Early
  <2>2. CASE \E u \in Turns : Enqueue(u)
    BY <1>1, <2>2 DEF TurnTypeOK, Enqueue, Early
  <2>3. CASE UNCHANGED phase
    BY <2>3
  <2> QED BY <1>1, <2>1, <2>2, <2>3
          DEF BindRuntime, RunnerWrites, Subscriber, HubDelivers, vars, Send, SubmitSystem,
              CancelReturns, SystemTurns
<1>3. Untold(t)
  <2>1. CASE RunnerBegins
    <3>1. \/ emitted' = emitted \o <<>>
          \/ emitted' = emitted \o <<Of("message.start", current)>>
      BY <2>1 DEF RunnerBegins, EmitAll
    <3>2. /\ Of("message.start", current) \in Event
          /\ Of("message.start", current).type \notin Ends
      BY <1>1, <2>1, EventTypes DEF RunnerBegins, Of, Ends
    <3> QED BY <1>1, <3>1, <3>2, OtherEvent
  <2>2. CASE HubDelivers
    <3>1. Head(hub) \in Turns
      BY <1>1, <2>2 DEF HubDelivers, TurnTypeOK
    <3>2. /\ emitted' = emitted \o <<Delta(Head(hub))>>
          /\ Delta(Head(hub)) \in Event /\ Delta(Head(hub)).type \notin Ends
      BY <2>2, <3>1, EventTypes DEF HubDelivers, EmitAll, Delta, Ends
    <3> QED BY <1>1, <3>2, OtherEvent
  <2>3. CASE UNCHANGED emitted
    BY <1>1, <2>3, OtherEvent
  <2> QED BY <2>1, <2>2, <2>3
          DEF BindRuntime, RunnerWrites, Subscriber, SubNext, Register, Unregister, TakeFirst,
              Flush, vars, Send, SubmitSystem, Enqueue, CancelReturns
<1> QED BY <1>1, <1>2, <1>3, ToldQuiet

\* A turn that was running ends without a word until its sink has run; one that
\* was cancelled before it ran has been told so.
LEMMA EndingTells ==
  ASSUME TurnInv, ToldInv, RunnerReturns \/ CancelIsDelivered
  PROVE  ToldInv'
<1>1. /\ TurnTypeOK /\ UserTurns \subseteq Turns /\ emitted \in Seq(Event)
      /\ current \in Turns /\ phase[current] \in {"created", "running"} /\ sink = "idle"
  BY TurnFacts DEF TurnInv, PhasesFit, TurnTypeOK, RunnerReturns, CancelIsDelivered
<1> SUFFICES ASSUME NEW t \in UserTurns PROVE ToldFits(t)'
  BY DEF ToldInv
<1>2. Untold(t)
  <2>1. \/ UNCHANGED emitted \/ emitted' = emitted \o <<>>
        \/ emitted' = emitted \o <<Of("subagent.delivered", current)>>
    BY DEF RunnerReturns, CancelIsDelivered, EmitAll
  <2>2. /\ Of("subagent.delivered", current) \in Event
        /\ Of("subagent.delivered", current).type \notin Ends
    BY <1>1, EventTypes DEF Of, Ends
  <2> QED BY <1>1, <2>1, <2>2, OtherEvent
<1>3. /\ ToldFits(t) /\ Times("message.complete", t)' = Times("message.complete", t)
      /\ Times("error:internal", t)' = Times("error:internal", t)
      /\ Times("error:cancelled_by_client", t)' = Times("error:cancelled_by_client", t)
      /\ Times("message.complete", t) \in Nat /\ Times("error:internal", t) \in Nat
      /\ Times("error:cancelled_by_client", t) \in Nat
  BY <1>1, <1>2, TimesTypes DEF ToldInv, Untold, Ends
<1>4. ASSUME NEW v \in {"ok", "failed", "cancelled"}, NEW s \in {"busy", "returned"},
             phase' = [phase EXCEPT ![current] = "closing"],
             outcome' = [outcome EXCEPT ![current] = v], sink' = s, cancelling' = FALSE,
             UNCHANGED <<current, cut, crossed>>, (v = "cancelled") <=> cancelling,
             s = "returned" => v = "cancelled"
      PROVE  ToldFits(t)'
  <2>1. CASE t = current
    BY <1>1, <1>3, <1>4, <2>1 DEF TurnTypeOK, ToldFits, ToldOnce, Over, Reports, Ending, Early
  <2>2. CASE t # current
    BY <1>1, <1>3, <1>4, <2>2 DEF TurnTypeOK, ToldFits, ToldOnce, Over, Reports, Ending, Early
  <2> QED BY <2>1, <2>2
<1>5. CASE RunnerReturns
  BY <1>4, <1>5 DEF RunnerReturns, Leaves
<1>6. CASE CancelIsDelivered
  BY <1>4, <1>6 DEF CancelIsDelivered, Leaves
<1> QED BY <1>5, <1>6

\* The sink tells a user turn how it ended, or turn.cancel has; a sink that was
\* cut may leave it untold.
LEMMA SinkTells ==
  ASSUME TurnInv, ToldInv, SinkReports \/ SinkIsCut
  PROVE  ToldInv'
<1>1. /\ TurnTypeOK /\ UserTurns \subseteq Turns /\ NoTurn \notin Turns
      /\ emitted \in Seq(Event) /\ UNCHANGED <<laneVars, crossed>>
      /\ sink = "busy" /\ sink' = "returned"
  BY TurnFacts DEF TurnInv, PhasesFit, SinkReports, SinkIsCut
<1>2. /\ current \in Turns /\ phase[current] = "closing" /\ runningRequest = current
      /\ ~cancelling
      /\ outcome[current] \in {"ok", "failed", "cancelled"}
  BY <1>1, TurnFacts DEF TurnInv, PhasesFit, Ending, TurnTypeOK
<1> SUFFICES ASSUME NEW t \in UserTurns PROVE ToldFits(t)'
  BY DEF ToldInv
<1>3. ToldFits(t) /\ \A type : Times(type, t) \in Nat
  BY <1>1, TimesTypes DEF ToldInv
<1>4. CASE SinkIsCut
  <2>1. UNCHANGED emitted /\ cut' = cut \cup {current}
    BY <1>4 DEF SinkIsCut
  <2>2. Untold(t)
    BY <1>1, <2>1, OtherEvent
  <2> QED BY <1>1, <1>2, <1>3, <2>1, <2>2 DEF ToldFits, ToldOnce, Over, Reports, Ending, Early, Untold, Ends
<1>5. CASE SinkReports
  <2>1. UNCHANGED cut /\ emitted' = emitted \o (IF current \in ids THEN TerminalEvent(current) ELSE <<>>)
    BY <1>2, <1>5 DEF SinkReports, EmitAll
  <2>2. PICK e \in {"message.complete", "error:internal", "none"} :
          /\ e = "none" => emitted' = emitted \o <<>>
          /\ e # "none" => emitted' = emitted \o <<Of(e, current)>>
          /\ e = "message.complete" => outcome[current] = "ok"
          /\ e = "error:internal" => outcome[current] = "failed"
          /\ e = "none" => current \notin ids \/ outcome[current] = "cancelled"
    BY <1>2, <2>1 DEF TerminalEvent
  <2>3. Of("message.complete", current) \in Event /\ Of("error:internal", current) \in Event
    BY <1>2, EventTypes
  <2>4. CASE t # current
    <3>1. Untold(t)
      BY <1>1, <2>2, <2>3, <2>4, OtherEvent DEF Of
    <3> QED BY <1>1, <1>2, <1>3, <2>1, <2>4, <3>1
            DEF ToldFits, ToldOnce, Over, Reports, Ending, Early, Untold, Ends
  <2>5. CASE t = current
    <3>1. /\ t \in ids
          /\ Times("message.complete", t) = 0 /\ Times("error:internal", t) = 0
      BY <1>1, <1>3, <2>5 DEF TurnInv, IdsFit, ToldFits, ToldOnce, Over, Ending
    <3>2. CASE e = "none"
      <4>1. Untold(t) /\ outcome[t] = "cancelled"
        BY <1>1, <2>2, <2>5, <3>1, <3>2, OtherEvent
      <4>2. /\ Times("message.complete", t)' = 0 /\ Times("error:internal", t)' = 0
            /\ Times("error:cancelled_by_client", t)' = Times("error:cancelled_by_client", t)
            /\ Times("error:cancelled_by_client", t) > 0 /\ ~Ending(t)'
            /\ phase[t] = "closing"
        BY <1>1, <1>2, <1>3, <2>5, <3>1, <4>1 DEF ToldFits, Untold, Ends, Ending
      <4>3. /\ ToldFits(t) /\ Times("error:cancelled_by_client", t) \in Nat
            /\ UNCHANGED <<crossed, cut, current, phase, outcome>> /\ ~cancelling /\ ~cancelling'
        BY <1>1, <1>2, <1>3, <2>1
      <4> QED BY <4>1, <4>2, <4>3 DEF ToldFits, ToldOnce, Over, Reports, Early
    <3>3. CASE e \in {"message.complete", "error:internal"}
      <4>1. emitted' = emitted \o <<Of(e, t)>> /\ Of(e, t) \in Event
        BY <2>2, <2>3, <2>5, <3>3
      <4>2. /\ Of(e, t) = Of("message.complete", t) <=> e = "message.complete"
            /\ Of(e, t) = Of("error:internal", t) <=> e = "error:internal"
            /\ Of(e, t) # Of("error:cancelled_by_client", t)
        BY <3>3 DEF Of
      <4>3. /\ Times("message.complete", t)' = IF e = "message.complete" THEN 1 ELSE 0
            /\ Times("error:internal", t)' = IF e = "error:internal" THEN 1 ELSE 0
            /\ Times("error:cancelled_by_client", t)' = Times("error:cancelled_by_client", t)
        BY <1>1, <1>3, <3>1, <4>1, <4>2, TimesGrows
      <4>4. /\ phase'[t] = "closing" /\ outcome'[t] = outcome[t] /\ outcome[t] # "cancelled"
            /\ (cancelling' <=> cancelling) /\ ~Ending(t)'
        BY <1>1, <1>2, <2>2, <2>5, <3>3 DEF Ending
      <4>5. Reports(t)' > 0
        BY <1>3, <3>3, <4>3 DEF Reports
      <4>6. ~cancelling' /\ UNCHANGED crossed
        BY <1>1, <1>2, <4>4
      <4>7. t \notin crossed => Times("error:cancelled_by_client", t) = 0
        BY <1>2, <1>3, <4>4 DEF ToldFits, ToldOnce
      <4> QED BY <2>2, <2>5, <3>3, <4>3, <4>4, <4>5, <4>6, <4>7 DEF ToldFits, ToldOnce, Over, Early
    <3> QED BY <3>2, <3>3
  <2> QED BY <2>4, <2>5
<1> QED BY <1>4, <1>5

LEMMA WorkerTells ==
  ASSUME TurnInv, ToldInv, WorkerSteps
  PROVE  ToldInv'
<1>1. /\ TurnTypeOK /\ UserTurns \subseteq Turns /\ lane \in Seq(Turns)
      /\ emitted \in Seq(Event) /\ UNCHANGED <<emitted, outcome, cut, crossed>>
      /\ sink' = "idle" /\ cancelling' = FALSE /\ ~cancelling
      /\ \A t \in Turns : t \in ToSet(lane) <=> phase[t] = "pending"
      /\ current # NoTurn => phase[current] = "closing" /\ sink = "returned"
      /\ current = NoTurn => sink = "idle"
  BY TurnFacts DEF TurnInv, PhasesFit, WorkerSteps
<1> SUFFICES ASSUME NEW t \in UserTurns PROVE ToldFits(t)'
  BY DEF ToldInv
<1>2. ToldFits(t) /\ Untold(t) /\ sink # "busy" /\ t \in Turns
  BY <1>1, OtherEvent DEF ToldInv
<1>3. /\ t = current => phase[t] = "closing" /\ phase'[t] = "settled"
      /\ t # current => phase'[t] = phase[t] \/ (phase[t] \in Early /\ phase'[t] \in Early)
  <2>1. lane # <<>> => Head(lane) \in ToSet(lane)
    BY <1>1, TailElements
  <2>2. phase' = [u \in Turns |->
         IF u = current THEN "settled"
         ELSE IF lane # <<>> /\ u = Head(lane) THEN "created" ELSE phase[u]]
    BY DEF WorkerSteps
  <2>3. t = current => phase[t] = "closing"
    BY <1>1, <1>2, TurnFacts
  <2> QED BY <1>1, <1>2, <2>1, <2>2, <2>3 DEF Early
<1> QED BY <1>1, <1>2, <1>3 DEF ToldFits, ToldOnce, Over, Reports, Ending, Early, Untold, Ends

\* turn.cancel tells the client, whatever comes of it.
LEMMA CancelTells ==
  ASSUME TurnInv, ToldInv, NEW u \in UserTurns, Cancel(u)
  PROVE  ToldInv'
<1>1. /\ TurnTypeOK /\ UserTurns \subseteq Turns /\ emitted \in Seq(Event)
      /\ \A t \in Turns : Taken(t) => t = current
      /\ emitted' = emitted \o <<Of("error:cancelled_by_client", u)>> /\ Of("error:cancelled_by_client", u) \in Event
      /\ UNCHANGED <<current, sink, cut>>
      /\ crossed' = IF phase[u] \in {"pending", "created", "running"} /\ Told(u) = 0
                    THEN crossed ELSE crossed \cup {u}
      /\ phase' = [phase EXCEPT ![u] = IF @ = "pending" THEN "settled" ELSE @]
      /\ outcome' = [outcome EXCEPT ![u] = IF phase[u] = "pending" THEN "cancelled" ELSE @]
      /\ cancelling' = (cancelling \/ phase[u] \in {"created", "running"})
  BY TurnFacts, EventTypes DEF TurnInv, Cancel, CancelHandle, EmitAll
<1> SUFFICES ASSUME NEW t \in UserTurns PROVE ToldFits(t)'
  BY DEF ToldInv
<1>2. ToldFits(t) /\ \A type : Times(type, t) \in Nat
  BY <1>1, TimesTypes DEF ToldInv
<1>3. CASE t # u
  <2>1. Untold(t)
    BY <1>1, <1>3, OtherEvent DEF Of
  <2>2. phase'[t] = phase[t] /\ outcome'[t] = outcome[t]
        /\ (cancelling' /\ t = current => cancelling)
    BY <1>1, <1>3 DEF TurnTypeOK, Taken
  <2> QED BY <1>1, <1>2, <2>1, <2>2 DEF ToldFits, ToldOnce, Over, Reports, Ending, Early, Untold, Ends
<1>4. CASE t = u
  <2>1. /\ Of("error:cancelled_by_client", t) # Of("message.complete", t)
        /\ Of("error:cancelled_by_client", t) # Of("error:internal", t)
    BY DEF Of
  <2>2. /\ Times("message.complete", t)' = Times("message.complete", t)
        /\ Times("error:internal", t)' = Times("error:internal", t)
        /\ Times("error:cancelled_by_client", t)' = Times("error:cancelled_by_client", t) + 1
    BY <1>1, <1>2, <1>4, <2>1, TimesGrows
  <2>3. IF phase[t] = "pending" THEN phase'[t] = "settled" /\ outcome'[t] = "cancelled"
                                ELSE phase'[t] = phase[t] /\ outcome'[t] = outcome[t]
    BY <1>1, <1>4 DEF TurnTypeOK
  <2>4. /\ Ending(t)' <=> Ending(t)
        /\ t \notin crossed' => t \notin crossed /\ Times("error:cancelled_by_client", t) = 0
                                /\ phase[t] \in {"pending", "created", "running"}
        /\ phase[t] \in {"created", "running"} => t = current /\ cancelling'
        /\ phase[t] = "pending" => t # current /\ ~Ending(t)
    BY <1>1, <1>4, TurnFacts DEF Ending, Taken, TurnInv, PhasesFit
  <2>7. /\ Times("message.complete", t) \in Nat /\ Times("error:internal", t) \in Nat
        /\ Times("error:cancelled_by_client", t) \in Nat
    BY <1>2
  <2>8. ToldOnce(t)'
    BY <1>1, <2>2, <2>3, <2>4, <2>7 DEF ToldOnce, Over
  <2>9. ToldFits(t) /\ cut' = cut
    BY <1>1, <1>2
  <2>5. CASE phase[t] = "pending"
    BY <2>2, <2>3, <2>4, <2>5, <2>7, <2>8, <2>9 DEF ToldFits, Over, Reports, Early
  <2>6. CASE phase[t] # "pending"
    BY <2>2, <2>3, <2>4, <2>6, <2>7, <2>8, <2>9 DEF ToldFits, Over, Reports, Early
  <2> QED BY <2>5, <2>6
<1> QED BY <1>3, <1>4

LEMMA SendFailsTells ==
  ASSUME TurnInv, ToldInv, NEW u \in UserTurns, SendFails(u)
  PROVE  ToldInv'
<1>1. /\ TurnTypeOK /\ UserTurns \subseteq Turns /\ emitted \in Seq(Event)
      /\ UNCHANGED <<current, cancelling, sink, cut, crossed>>
      /\ phase[u] = "new" /\ phase' = [phase EXCEPT ![u] = "refused"]
      /\ outcome' = [outcome EXCEPT ![u] = "failed"] /\ u # current
      /\ emitted' = emitted \o <<Of("message.start", u), Of("error:internal", u)>>
  BY TurnFacts DEF TurnInv, SendFails, EmitAll, Taken
<1>2. PICK x \in Event, y \in Event : x = Of("message.start", u) /\ y = Of("error:internal", u)
  BY <1>1, EventTypes
<1>3. PICK q \in Seq(Event) : q = Append(emitted, x)
  BY <1>1, <1>2, AppendProperties
<1>4. emitted' = Append(q, y)
  BY <1>1, <1>2, <1>3
<1>5. ASSUME NEW t, NEW type \in Ends
      PROVE  Times(type, t)' = Times(type, t) + (IF y = Of(type, t) THEN 1 ELSE 0)
  <2>1. Times(type, t) = Count(emitted, Of(type, t)) /\ Times(type, t)' = Count(emitted', Of(type, t))
    BY DEF Times, Count
  <2>2. x # Of(type, t)
    BY <1>2, <1>5 DEF Of, Ends
  <2>3. Count(emitted, Of(type, t)) \in Nat
    BY <1>1, CountTypes
  <2>4. Count(q, Of(type, t)) = Count(emitted, Of(type, t))
    BY <1>1, <1>3, <2>2, <2>3, CountAppended
  <2> QED BY <1>4, <2>1, <2>4, CountAppended
<1> SUFFICES ASSUME NEW t \in UserTurns PROVE ToldFits(t)'
  BY DEF ToldInv
<1>6. ToldFits(t) /\ \A type : Times(type, t) \in Nat
  BY <1>1, TimesTypes DEF ToldInv
<1>7. /\ y = Of("error:internal", t) <=> t = u
      /\ y # Of("message.complete", t) /\ y # Of("error:cancelled_by_client", t)
  BY <1>2 DEF Of
<1>8. /\ Times("message.complete", t)' = Times("message.complete", t)
      /\ Times("error:cancelled_by_client", t)' = Times("error:cancelled_by_client", t)
      /\ Times("error:internal", t)' = Times("error:internal", t) + (IF t = u THEN 1 ELSE 0)
  BY <1>5, <1>6, <1>7 DEF Ends
<1>9. CASE t = u
  <2>1. /\ phase'[t] = "refused" /\ outcome'[t] = "failed" /\ t # current'
        /\ phase[t] \in Early
    BY <1>1, <1>9 DEF TurnTypeOK, Early
  <2>2. Times("message.complete", t) = 0 /\ Times("error:internal", t) = 0
    BY <1>6, <2>1 DEF ToldFits, ToldOnce, Over
  <2>3. Times("message.complete", t)' = 0 /\ Times("error:internal", t)' = 1
    BY <1>8, <1>9, <2>2
  <2>4. t \notin crossed => Times("error:cancelled_by_client", t)' = 0
    BY <1>1, <1>6, <1>8, <1>9 DEF ToldFits, ToldOnce, Over
  <2> QED BY <1>1, <2>1, <2>3, <2>4 DEF ToldFits, ToldOnce, Over, Ending, Early
<1>10. CASE t # u
  <2>1. phase'[t] = phase[t] /\ outcome'[t] = outcome[t]
    BY <1>1, <1>10 DEF TurnTypeOK
  <2>2. Times("error:internal", t)' = Times("error:internal", t)
    BY <1>6, <1>8, <1>10
  <2> QED BY <1>1, <1>6, <1>8, <2>1, <2>2 DEF ToldFits, ToldOnce, Over, Reports, Ending, Early
<1> QED BY <1>9, <1>10

LEMMA ToldStep ==
  ASSUME TurnInv, ToldInv, [Next]_vars
  PROVE  ToldInv'
<1>1. CASE Client
  BY <1>1, QuietTells, SendFailsTells, CancelTells DEF Client
<1>2. CASE Runner
  BY <1>2, QuietTells, EndingTells DEF Runner
<1> QED BY <1>1, <1>2, QuietTells, WorkerTells, EndingTells, SinkTells DEF Next

\* What the client is told of the end of a turn is true, by the sink and by
\* turn.cancel; it is told once, the error of turn.cancel included, unless a
\* turn.cancel came after the payload had ended or after another one; and a turn
\* that was started does not settle untold, unless its sink was cut.
THEOREM TerminalStaysTrue == Spec => []TerminalIsTrue
<1>1. TurnInv /\ ToldInv => TerminalIsTrue
  <2> SUFFICES ASSUME TurnInv, ToldInv, NEW t \in UserTurns
               PROVE  /\ Completed(t) > 0 => outcome[t] = "ok"
                      /\ Failed(t) > 0 => outcome[t] = "failed"
                      /\ Completed(t) + Failed(t) <= 1
                      /\ t \notin crossed =>
                           /\ Completed(t) + Failed(t) + Told(t) <= 1
                           /\ Told(t) > 0 => outcome[t] \in {"none", "cancelled"}
                      /\ phase[t] = "settled" /\ Times("message.start", t) > 0 /\ t \notin cut =>
                           Completed(t) + Failed(t) + Told(t) > 0
    BY DEF TerminalIsTrue
  <2>1. ToldFits(t) /\ Completed(t) \in Nat /\ Failed(t) \in Nat /\ Told(t) \in Nat
    BY TimesTypes DEF ToldInv, TurnInv
  <2>2. Ending(t) => phase[t] # "settled"
    BY TurnFacts, TuiAssumption DEF TurnInv, PhasesFit, Ending
  <2>3. cancelling /\ t = current => phase[t] \in Early
    BY DEF TurnInv, PhasesFit, Early
  <2> QED BY <2>1, <2>2, <2>3 DEF ToldFits, ToldOnce, Over, Early, Reports
<1>2. TurnInv /\ ToldInv /\ [Next]_vars => ToldInv'
  BY ToldStep
<1> QED BY <1>1, <1>2, ToldInit, TurnsFit, PTL DEF Spec

-----------------------------------------------------------------------------
(* Where the text goes.                                                    *)

\* The next event leaves open what it neither starts nor ends.
LEMMA OpenGrows ==
  ASSUME NEW q \in Seq(Event), NEW x \in Event, NEW r, r = Append(q, x), NEW t
  PROVE  /\ \A i \in 1 .. Len(q) + 1 : OpenBefore(q, t, i) => OpenBefore(r, t, i)
         /\ x.type \notin Boundary /\ OpenBefore(q, t, Len(q) + 1) => OpenBefore(r, t, Len(r) + 1)
         /\ x = Of("message.start", t) => OpenBefore(r, t, Len(r) + 1)
<1>1. PICK n \in Nat : n = Len(q)
  BY LenProperties
<1>2. Len(r) = n + 1 /\ r[n + 1] = x /\ \A i \in 1 .. n : r[i] = q[i]
  BY <1>1, AppendProperties
<1>3. ASSUME NEW i \in 1 .. n + 1, OpenBefore(q, t, i)
      PROVE  OpenBefore(r, t, i)
  <2>1. PICK j \in 1 .. i - 1 : /\ q[j] = Of("message.start", t)
                                /\ \A k \in j + 1 .. i - 1 : q[k].type \notin Boundary
    BY <1>3 DEF OpenBefore
  <2>2. j \in 1 .. n /\ \A k \in j + 1 .. i - 1 : k \in 1 .. n
    OBVIOUS
  <2> QED BY <1>2, <2>1, <2>2 DEF OpenBefore
<1>4. ASSUME x.type \notin Boundary, OpenBefore(q, t, n + 1)
      PROVE  OpenBefore(r, t, n + 2)
  <2>1. PICK j \in 1 .. (n + 1) - 1 : /\ q[j] = Of("message.start", t)
                                      /\ \A k \in j + 1 .. (n + 1) - 1 : q[k].type \notin Boundary
    BY <1>4 DEF OpenBefore
  <2>2. /\ j \in 1 .. (n + 2) - 1 /\ j \in 1 .. n
        /\ \A k \in j + 1 .. (n + 2) - 1 : k = n + 1 \/ (k \in 1 .. n /\ k \in j + 1 .. (n + 1) - 1)
    OBVIOUS
  <2> QED BY <1>2, <1>4, <2>1, <2>2 DEF OpenBefore
<1>5. ASSUME x = Of("message.start", t) PROVE OpenBefore(r, t, n + 2)
  <2>1. n + 1 \in 1 .. (n + 2) - 1 /\ \A k \in (n + 1) + 1 .. (n + 2) - 1 : FALSE
    OBVIOUS
  <2> QED BY <1>2, <1>5, <2>1 DEF OpenBefore
<1>6. n + 2 = (n + 1) + 1
  OBVIOUS
<1> QED BY <1>1, <1>2, <1>3, <1>4, <1>5, <1>6

\* Text stays where it fell, and the next event is no text or falls right.
LEMMA AttributionGrows ==
  ASSUME NEW q \in Seq(Event), NEW x \in Event, NEW r, r = Append(q, x),
         NEW gone, NEW lost, gone \subseteq lost,
         \A i \in 1 .. Len(q) : Attributed(q, i, gone),
         IsDelta(x) => \A t \in ToSet(x.text) \ gone : OpenBefore(q, t, Len(q) + 1)
  PROVE  \A i \in 1 .. Len(r) : Attributed(r, i, lost)
<1>1. PICK n \in Nat : n = Len(q)
  BY LenProperties
<1>2. Len(r) = n + 1 /\ r[n + 1] = x /\ \A i \in 1 .. n : r[i] = q[i]
  BY <1>1, AppendProperties
<1>3. \A i \in 1 .. n + 1 : i \in 1 .. n \/ i = n + 1
  OBVIOUS
<1>4. ASSUME NEW i \in 1 .. n PROVE Attributed(r, i, lost)
  <2>1. i \in 1 .. n + 1
    OBVIOUS
  <2> QED BY <1>1, <1>2, <2>1, OpenGrows DEF Attributed
<1>5. Attributed(r, n + 1, lost)
  <2>1. n + 1 \in 1 .. n + 1
    OBVIOUS
  <2> QED BY <1>1, <1>2, <2>1, OpenGrows DEF Attributed
<1> QED BY <1>2, <1>3, <1>4, <1>5

LEMMA TextInit == Init => TextInv
<1> SUFFICES ASSUME Init PROVE TextInv
  OBVIOUS
<1>1. ToSet(hub) = {} /\ Len(emitted) = 0 /\ current = NoTurn
  BY EmptyElements DEF Init, SubInit
<1>2. \A t \in UserTurns : t # current
  BY <1>1, TuiAssumption, SubscriptionsAssumption
<1> QED BY <1>1, <1>2 DEF TextInv, Running, Ending

\* The turn that is open at the client, and the one whose text may be in the hub.
Open(t) == OpenBefore(emitted, t, Len(emitted) + 1)
Mine(t) == Running(t) \/ Ending(t)

\* A step that emits at most one event, which neither starts nor ends a turn, and
\* after which the turns that run or end did so before.
LEMMA TextQuiet ==
  ASSUME TurnInv, TextInv,
         \/ UNCHANGED emitted
         \/ emitted' = emitted \o <<>>
         \/ \E x \in Event : /\ emitted' = emitted \o <<x>> /\ x.type \notin Boundary
                             /\ IsDelta(x) => \A t \in ToSet(x.text) \ cut : Open(t),
         cut \subseteq cut',
         \A t \in ToSet(hub') \ cut' : Mine(t)',
         \A t \in UserTurns : Mine(t)' => Mine(t)
  PROVE  TextInv'
<1>1. emitted \in Seq(Event) /\ \A i \in 1 .. Len(emitted) : Attributed(emitted, i, cut)
  BY DEF TurnInv, TextInv
<1>2. \A t \in ToSet(hub') \ cut' : Mine(t)'
  OBVIOUS
<1>3. CASE emitted' = emitted \/ emitted' = emitted \o <<>>
  <2>1. emitted' = emitted
    BY <1>1, <1>3
  <2>2. \A i \in 1 .. Len(emitted') : Attributed(emitted', i, cut')
    BY <1>1, <2>1 DEF Attributed
  <2> QED BY <1>2, <2>1, <2>2 DEF TextInv, Mine
<1>4. ASSUME NEW x \in Event, emitted' = emitted \o <<x>>, x.type \notin Boundary,
             IsDelta(x) => \A t \in ToSet(x.text) \ cut : Open(t)
      PROVE  TextInv'
  <2>1. emitted' = Append(emitted, x)
    BY <1>1, <1>4
  <2>2. \A i \in 1 .. Len(emitted') : Attributed(emitted', i, cut')
    BY <1>1, <1>4, <2>1, AttributionGrows DEF Open
  <2>3. \A t \in UserTurns : Mine(t)' => OpenBefore(emitted', t, Len(emitted') + 1)
    BY <1>1, <1>4, <2>1, OpenGrows DEF TextInv, Mine
  <2> QED BY <1>2, <2>2, <2>3 DEF TextInv, Mine
<1> QED BY <1>3, <1>4

\* Most steps leave the hub alone and start no turn.
LEMMA StillTexts ==
  ASSUME TurnInv, TextInv,
         \/ BindRuntime \/ Subscriber \/ UNCHANGED vars \/ CancelIsDelivered \/ RunnerReturns
         \/ SinkIsCut \/ WorkerSteps
         \/ \E u \in UserTurns : Send(u) \/ CancelReturns(u) \/ Cancel(u)
         \/ \E u \in SystemTurns : SubmitSystem(u)
  PROVE  TextInv'
<1>1. /\ TurnTypeOK /\ UserTurns \subseteq Turns /\ emitted \in Seq(Event)
      /\ hub \in Seq(UserTurns) /\ UNCHANGED hub /\ cut \subseteq cut'
      /\ current # NoTurn => current \in Turns
  BY TurnFacts DEF TurnInv, TurnTypeOK, BindRuntime, Subscriber, vars, CancelIsDelivered, Leaves,
       RunnerReturns, SinkIsCut, WorkerSteps, Send, SubmitSystem, Enqueue, CancelReturns, Cancel
<1>2. \/ UNCHANGED emitted
      \/ emitted' = emitted \o <<>>
      \/ \E x \in Event : /\ emitted' = emitted \o <<x>> /\ x.type \notin Boundary
                          /\ IsDelta(x) => \A t \in ToSet(x.text) \ cut : Open(t)
  <2>1. ASSUME NEW u \in UserTurns, Cancel(u)
        PROVE  \E x \in Event : /\ emitted' = emitted \o <<x>> /\ x.type \notin Boundary
                                /\ ~IsDelta(x)
    <3>1. /\ Of("error:cancelled_by_client", u) \in Event
          /\ Of("error:cancelled_by_client", u).type = "error:cancelled_by_client"
      BY <1>1, EventTypes DEF Of
    <3>2. emitted' = emitted \o <<Of("error:cancelled_by_client", u)>>
      BY <2>1 DEF Cancel, EmitAll
    <3> QED BY <3>1, <3>2 DEF Boundary, IsDelta
  <2>2. CASE RunnerReturns
    <3>1. /\ Of("subagent.delivered", current) \in Event
          /\ Of("subagent.delivered", current).type = "subagent.delivered"
      BY <1>1, <2>2, EventTypes DEF RunnerReturns, Of
    <3>2. \/ UNCHANGED emitted \/ emitted' = emitted \o <<>>
          \/ emitted' = emitted \o <<Of("subagent.delivered", current)>>
      BY <2>2 DEF RunnerReturns, EmitAll
    <3> QED BY <3>1, <3>2 DEF Boundary, IsDelta
  <2>3. CASE UNCHANGED emitted
    BY <2>3
  <2> QED BY <2>1, <2>2, <2>3
          DEF BindRuntime, Subscriber, SubNext, Register, Unregister, TakeFirst, Flush, vars,
              CancelIsDelivered, SinkIsCut, WorkerSteps, Send, SubmitSystem, Enqueue,
              CancelReturns
<1>3. /\ \A t \in Turns \ cut' : Mine(t) => Mine(t)'
      /\ \A t \in UserTurns : Mine(t)' => Mine(t)
  <2>1. CASE RunnerReturns \/ CancelIsDelivered
    BY <1>1, <2>1
       DEF TurnTypeOK, TurnInv, PhasesFit, RunnerReturns, CancelIsDelivered, Leaves, Mine, Running, Ending
  <2>2. CASE WorkerSteps
    BY <1>1, <2>2, TurnFacts, TailElements
       DEF TurnTypeOK, TurnInv, PhasesFit, WorkerSteps, Taken, Mine, Running, Ending
  <2>3. CASE SinkIsCut
    BY <1>1, <2>3 DEF SinkIsCut, Mine, Running, Ending
  <2>4. CASE \E u \in UserTurns : Cancel(u)
    BY <1>1, <2>4 DEF TurnTypeOK, Cancel, CancelHandle, Mine, Running, Ending
  <2>5. CASE \E u \in Turns : Enqueue(u)
    BY <1>1, <2>5 DEF TurnTypeOK, Enqueue, Mine, Running, Ending
  <2>6. CASE UNCHANGED <<current, phase, sink>>
    BY <2>6 DEF Mine, Running, Ending
  <2> QED BY <1>1, <2>1, <2>2, <2>3, <2>4, <2>5, <2>6
          DEF BindRuntime, Subscriber, vars, Send, SubmitSystem, CancelReturns, SystemTurns
<1>4. \A t \in ToSet(hub') \ cut' : Mine(t)'
  <2>1. \A t \in ToSet(hub) : t \in Turns
    BY <1>1 DEF ToSet
  <2> QED BY <1>1, <1>3, <2>1 DEF TextInv, Mine
<1> QED BY <1>1, <1>2, <1>3, <1>4, TextQuiet

\* The runner is entered when no other turn can still have text in the hub, and
\* opens its turn at the client.
LEMMA BeginTexts ==
  ASSUME TurnInv, TextInv, RunnerBegins
  PROVE  TextInv'
<1>1. /\ TurnTypeOK /\ UserTurns \subseteq Turns /\ emitted \in Seq(Event)
      /\ current \in Turns /\ phase[current] = "created" /\ sink # "busy"
      /\ UNCHANGED <<hub, cut, current, sink>> /\ phase' = [phase EXCEPT ![current] = "running"]
  BY TurnFacts DEF TurnInv, PhasesFit, RunnerBegins
<1>2. \A t \in Turns : ~Mine(t) /\ (Mine(t)' => t = current)
  BY <1>1 DEF Mine, Running, Ending
<1>3. ToSet(hub) \ cut = {}
  <2>1. \A t \in ToSet(hub) : t \in Turns
    BY <1>1 DEF ToSet, TurnTypeOK
  <2> QED BY <1>2, <2>1 DEF TextInv, Mine
<1>4. CASE current \in ids
  <2>1. PICK x \in Event : x = Of("message.start", current)
    BY <1>1, EventTypes
  <2>2. emitted' = Append(emitted, x) /\ ~IsDelta(x)
    BY <1>1, <1>4, <2>1 DEF RunnerBegins, EmitAll, IsDelta, Of
  <2>3. \A i \in 1 .. Len(emitted') : Attributed(emitted', i, cut')
    BY <1>1, <2>2, AttributionGrows DEF TextInv
  <2>4. OpenBefore(emitted', current, Len(emitted') + 1)
    BY <1>1, <2>1, <2>2, OpenGrows
  <2> QED BY <1>1, <1>2, <1>3, <2>3, <2>4 DEF TextInv, Mine
<1>5. CASE current \notin ids
  <2>1. emitted' = emitted
    BY <1>1, <1>5 DEF RunnerBegins, EmitAll
  <2>2. current \notin UserTurns
    BY <1>1, <1>5 DEF TurnInv, ActiveIsReachable
  <2> QED BY <1>1, <1>2, <1>3, <2>1, <2>2 DEF TextInv, Mine, Attributed
<1> QED BY <1>4, <1>5

\* Text goes into the hub while its turn runs, and reaches the client while that
\* turn is open there.
LEMMA HubTexts ==
  ASSUME TurnInv, TextInv, RunnerWrites \/ HubDelivers
  PROVE  TextInv'
<1>1. /\ TurnTypeOK /\ UserTurns \subseteq Turns /\ emitted \in Seq(Event)
      /\ hub \in Seq(UserTurns) /\ UNCHANGED <<cut, current, phase, sink>>
      /\ \A t \in Turns : Mine(t)' <=> Mine(t)
  BY TurnFacts DEF TurnInv, TurnTypeOK, RunnerWrites, HubDelivers, Mine, Running, Ending
<1>2. CASE RunnerWrites
  <2>1. /\ UNCHANGED emitted /\ current \in UserTurns /\ Mine(current)
        /\ ToSet(hub') = ToSet(hub) \cup {current}
    BY <1>1, <1>2, AppendElements DEF RunnerWrites, Mine, Running
  <2>2. \A t \in ToSet(hub') \ cut' : Mine(t)'
    <3>1. \A t \in ToSet(hub) : t \in Turns
      BY <1>1 DEF ToSet
    <3> QED BY <1>1, <2>1, <3>1 DEF TextInv, Mine
  <2> QED BY <1>1, <2>1, <2>2, TextQuiet
<1>3. CASE HubDelivers
  <2>1. PICK h \in UserTurns : h = Head(hub)
    BY <1>1, <1>3 DEF HubDelivers
  <2>2. hub' = Tail(hub) /\ ToSet(hub) = ToSet(hub') \cup {h}
    BY <1>1, <1>3, <2>1, TailElements DEF HubDelivers
  <2>3. PICK x \in Event : x = Delta(h)
    BY <1>1, <2>1, EventTypes
  <2>4. emitted' = emitted \o <<x>> /\ x.type \notin Boundary
    BY <1>3, <2>1, <2>3 DEF HubDelivers, EmitAll, Delta, Boundary
  <2>5. \A t \in ToSet(x.text) \ cut : Open(t)
    <3>1. ToSet(x.text) = {h}
      BY <2>3 DEF Delta, ToSet
    <3>2. h \notin cut => Mine(h)
      BY <2>2 DEF TextInv, Mine
    <3> QED BY <2>1, <3>1, <3>2 DEF TextInv, Mine, Open
  <2>6. \A t \in ToSet(hub') \ cut' : Mine(t)'
    <3>1. \A t \in ToSet(hub) : t \in Turns
      BY <1>1 DEF ToSet
    <3> QED BY <1>1, <2>2, <3>1 DEF TextInv, Mine
  <2> QED BY <1>1, <2>4, <2>5, <2>6, TextQuiet
<1> QED BY <1>2, <1>3

\* The sink reports the end when the hub has no more text.
LEMMA ReportTexts ==
  ASSUME TurnInv, TextInv, SinkReports
  PROVE  TextInv'
<1>1. /\ UserTurns \subseteq Turns /\ emitted \in Seq(Event) /\ hub = <<>>
      /\ UNCHANGED <<hub, cut, current, phase>> /\ sink' = "returned" /\ sink = "busy"
      /\ current \in Turns /\ phase[current] = "closing" /\ runningRequest = current
      /\ outcome[current] \in {"ok", "failed", "cancelled"}
  BY TurnFacts DEF TurnInv, TurnTypeOK, PhasesFit, SinkReports, Rendered, Ending
<1>2. /\ \A t \in Turns : ~Mine(t)'
      /\ ToSet(hub') = {}
  BY <1>1, EmptyElements DEF Mine, Running, Ending
<1>3. \/ emitted' = emitted \o <<>>
      \/ emitted' = emitted \o <<Of("message.complete", current)>>
      \/ emitted' = emitted \o <<Of("error:internal", current)>>
  BY <1>1 DEF SinkReports, EmitAll, TerminalEvent
<1>4. \A i \in 1 .. Len(emitted') : Attributed(emitted', i, cut')
  <2>1. CASE emitted' = emitted \o <<>>
    BY <1>1, <2>1 DEF TextInv
  <2>2. ASSUME NEW x \in Event, emitted' = emitted \o <<x>>, ~IsDelta(x)
        PROVE  \A i \in 1 .. Len(emitted') : Attributed(emitted', i, cut')
    <3>1. emitted' = Append(emitted, x)
      BY <1>1, <2>2
    <3> QED BY <1>1, <2>2, <3>1, AttributionGrows DEF TextInv
  <2>3. /\ Of("message.complete", current) \in Event /\ Of("error:internal", current) \in Event
        /\ ~IsDelta(Of("message.complete", current)) /\ ~IsDelta(Of("error:internal", current))
    BY <1>1, EventTypes DEF IsDelta, Of
  <2> QED BY <1>3, <2>1, <2>2, <2>3
<1> QED BY <1>1, <1>2, <1>4 DEF TextInv, Mine

\* Without a scheduler there is no text.
LEMMA SendFailsTexts ==
  ASSUME TurnInv, TextInv, NEW u \in UserTurns, SendFails(u)
  PROVE  TextInv'
<1>1. /\ UserTurns \subseteq Turns /\ NoTurn \notin Turns /\ emitted \in Seq(Event)
      /\ hub' = <<>> /\ current' = NoTurn /\ UNCHANGED cut
      /\ emitted' = emitted \o <<Of("message.start", u), Of("error:internal", u)>>
  BY TurnFacts DEF TurnInv, RuntimeFits, SendFails, EmitAll
<1>2. PICK x \in Event : x = Of("message.start", u)
  BY <1>1, EventTypes
<1>3. PICK y \in Event : y = Of("error:internal", u)
  BY <1>1, EventTypes
<1>4. PICK q \in Seq(Event) : q = Append(emitted, x)
  BY <1>1, <1>2, AppendProperties
<1>5. emitted' = Append(q, y) /\ ~IsDelta(x) /\ ~IsDelta(y)
  BY <1>1, <1>2, <1>3, <1>4 DEF IsDelta, Of
<1>6. \A i \in 1 .. Len(q) : Attributed(q, i, cut)
  BY <1>1, <1>4, <1>5, AttributionGrows DEF TextInv
<1>7. \A i \in 1 .. Len(emitted') : Attributed(emitted', i, cut')
  BY <1>1, <1>5, <1>6, AttributionGrows
<1>8. ToSet(hub') = {} /\ \A t \in UserTurns : ~Mine(t)'
  BY <1>1, EmptyElements DEF Mine, Running, Ending
<1> QED BY <1>7, <1>8 DEF TextInv, Mine

LEMMA TextStep ==
  ASSUME TurnInv, TextInv, [Next]_vars
  PROVE  TextInv'
<1>1. CASE Client
  BY <1>1, StillTexts, SendFailsTexts DEF Client
<1>2. CASE Runner
  BY <1>2, StillTexts, BeginTexts, HubTexts DEF Runner
<1> QED BY <1>1, <1>2, StillTexts, HubTexts, ReportTexts DEF Next

\* Every piece of text reaches the client while the turn that wrote it is the one
\* started last and has not been reported to have ended, unless its sink was cut.
THEOREM TextStaysAttributable == Spec => []TextIsAttributable
<1>1. TextInv /\ TurnInv => TextIsAttributable
  <2> SUFFICES ASSUME TextInv, TurnInv, NEW i \in DOMAIN emitted, IsDelta(emitted[i]),
                      NEW t \in ToSet(emitted[i].text) \ cut
               PROVE  \E j \in 1 .. i - 1 :
                        /\ emitted[j] = Of("message.start", t)
                        /\ \A k \in j + 1 .. i - 1 :
                             ~ \E type \in {"message.start", "message.complete", "error:internal"} : At(k, type)
    BY DEF TextIsAttributable
  <2>1. i \in 1 .. Len(emitted)
    BY LenProperties DEF TurnInv
  <2>2. OpenBefore(emitted, t, i)
    BY <2>1 DEF TextInv, Attributed
  <2> QED BY <2>2 DEF OpenBefore, Boundary, At
<1>2. TurnInv /\ TextInv /\ [Next]_vars => TextInv'
  BY TextStep
<1> QED BY <1>1, <1>2, TextInit, TurnsFit, PTL DEF Spec

-----------------------------------------------------------------------------
(* The streams of the subscribers.  Merging and splitting are folds over a  *)
(* batch; what they do to every batch is shown by induction on its length.  *)

\* An event as it goes over the wire: a delta names no turn.
Wire == {e \in Event : IsDelta(e) => e.turn = NoTurn}

\* The pieces of one event.
Atoms(e) == IF IsDelta(e) THEN [i \in DOMAIN e.text |-> [e EXCEPT !.text = <<e.text[i]>>]]
                          ELSE <<e>>

\* The pieces of one event.
LEMMA AtomsTypes ==
  ASSUME NEW e \in Wire
  PROVE  Atoms(e) \in Seq(Wire)
<1>1. e \in Event /\ e.text \in Seq(Turns)
  BY DEF Wire, Event
<1>2. PICK n \in Nat : n = Len(e.text) /\ DOMAIN e.text = 1 .. n
  BY <1>1, LenProperties
<1>3. CASE ~IsDelta(e)
  BY <1>3 DEF Atoms
<1>4. CASE IsDelta(e)
  <2>1. ASSUME NEW i \in 1 .. n PROVE [e EXCEPT !.text = <<e.text[i]>>] \in Wire
    <3>1. e.text[i] \in Turns
      BY <1>1, <1>2, ElementOfSeq
    <3>2. <<e.text[i]>> \in Seq(Turns)
      BY <3>1
    <3> QED
      BY <1>1, <1>4, <3>2 DEF Wire, Event, IsDelta
  <2>2. Atoms(e) = [i \in 1 .. n |-> [e EXCEPT !.text = <<e.text[i]>>]]
    BY <1>2, <1>4 DEF Atoms
  <2>3. Atoms(e) \in [1 .. n -> Wire]
    BY <2>1, <2>2
  <2> QED
    BY <2>3
<1> QED
  BY <1>3, <1>4

\* Splitting adds the pieces of one event.
LEMMA SplitTypes ==
  ASSUME NEW out \in Seq(Wire), NEW e \in Wire
  PROVE  Split(out, e) = out \o Atoms(e) /\ Split(out, e) \in Seq(Wire)
<1>1. Split(out, e) = out \o Atoms(e)
  BY DEF Split, Atoms
<1>2. Atoms(e) \in Seq(Wire)
  BY AtomsTypes
<1> HIDE DEF Atoms
<1> QED
  BY <1>1, <1>2, ConcatProperties

\* What an event emitted is split into: itself.
LEMMA AtomsOfEmittable ==
  ASSUME NEW e \in Emittable
  PROVE  e \in Wire /\ Atoms(e) = <<e>>
<1>1. e \in Event /\ e \in Wire
  BY DEF Emittable, Wire
<1>2. CASE ~IsDelta(e)
  BY <1>1, <1>2 DEF Atoms
<1>3. CASE IsDelta(e)
  <2>1. PICK t \in Turns : e.text = <<t>>
    BY <1>3 DEF Emittable
  <2>2. DOMAIN e.text = 1 .. 1 /\ e.text[1] = t
    BY <2>1
  <2>3. [e EXCEPT !.text = <<t>>] = e
    BY <1>1, <2>1 DEF Event
  <2>4. Atoms(e) = [i \in 1 .. 1 |-> e]
    BY <1>3, <2>1, <2>2, <2>3 DEF Atoms
  <2>5. [i \in 1 .. 1 |-> e] = <<e>>
    OBVIOUS
  <2> QED
    BY <1>1, <2>4, <2>5
<1> QED
  BY <1>2, <1>3

\* The values of the fold that splits a stream.
LEMMA PiecesChain ==
  ASSUME NEW q \in Seq(Wire)
  PROVE  \E c \in [0 .. Len(q) -> Seq(Wire)] :
           /\ c[0] = <<>> /\ c[Len(q)] = Pieces(q)
           /\ \A k \in 1 .. Len(q) : c[k] = Split(c[k - 1], q[k])
<1>a. PICK V : V = Seq(Wire)
  OBVIOUS
<1>b. PICK E : E = Wire
  OBVIOUS
<1>c. <<>> \in V /\ q \in Seq(E) /\ \A a \in V, e \in E : Split(a, e) \in V
  BY <1>a, <1>b, SplitTypes
<1>1. DOMAIN q = 1 .. Len(q)
  BY LenProperties
<1>2. PICK n \in Nat : n = Len(q)
  BY LenProperties
<1> DEFINE Recursion(f) ==
      f = [s \in SUBSET (1 .. n) |->
             IF s = {} THEN <<>> ELSE Split(f[s \ {Max(s)}], q[Max(s)])]
<1>3. \E f : Recursion(f)
  <2> DEFINE o == [p \in V \X E |-> Split(p[1], p[2])]
  <2>1. o \in [V \X E -> V]
    BY <1>c
  <2>2. \A a \in V, e \in E : o[<<a, e>>] = Split(a, e)
    OBVIOUS
  <2> HIDE DEF o
  <2>3. PICK f \in [SUBSET (1 .. n) -> V] : FoldsOver(f, n, o, <<>>, q)
    BY <1>2, <1>c, <2>1, FoldExists
  <2>4. ASSUME NEW s \in SUBSET (1 .. n)
        PROVE  f[s] = IF s = {} THEN <<>> ELSE Split(f[s \ {Max(s)}], q[Max(s)])
    <3>1. CASE s = {}
      BY <2>3, <3>1 DEF FoldsOver
    <3>2. CASE s # {}
      <4>1. Max(s) \in 1 .. n
        BY <3>2, MaxInside
      <4>2. q[Max(s)] \in E /\ f[s \ {Max(s)}] \in V
        BY <1>2, <1>c, <4>1, ElementOfSeq
      <4> QED
        BY <2>2, <2>3, <3>2, <4>2 DEF FoldsOver
    <3> QED
      BY <3>1, <3>2
  <2> QED
    BY <2>4
<1>4. PICK f : f = CHOOSE g : Recursion(g)
  OBVIOUS
<1>5. Recursion(f)
  BY <1>3, <1>4
<1>6. f[1 .. n] = Pieces(q)
  BY <1>1, <1>2, <1>4 DEF FoldLeft, MapThenFoldSet, Pieces
<1> DEFINE c == [k \in 0 .. n |-> f[1 .. k]]
<1>7. c[0] = <<>>
  <2>1. 0 \in 0 .. n /\ 1 .. 0 = {} /\ {} \in SUBSET (1 .. n)
    OBVIOUS
  <2> QED
    BY <1>5, <2>1
<1>8. ASSUME NEW k \in 1 .. n
      PROVE  c[k] = Split(c[k - 1], q[k])
  <2>1. /\ 1 .. k \in SUBSET (1 .. n) /\ 1 .. k # {}
        /\ Max(1 .. k) = k /\ (1 .. k) \ {k} = 1 .. k - 1
    BY FoldChain
  <2>2. f[1 .. k] = Split(f[1 .. k - 1], q[k])
    BY <1>5, <2>1
  <2>3. k \in 0 .. n /\ k - 1 \in 0 .. n
    OBVIOUS
  <2> QED
    BY <2>2, <2>3
<1>9. c[n] = Pieces(q)
  BY <1>6
<1>10. \A k \in 0 .. n : c[k] \in V
  <2>1. ASSUME NEW k \in 1 .. n, c[k - 1] \in V PROVE c[k] \in V
    BY <1>2, <1>c, <1>8, <2>1, ElementOfSeq
  <2> HIDE DEF c
  <2> QED
    BY <1>7, <1>c, <2>1, ChainInduction
<1>11. c \in [0 .. n -> V]
  BY <1>10
<1> HIDE DEF c
<1> QED
  BY <1>2, <1>7, <1>8, <1>9, <1>11, <1>a

\* The pieces of a stream are those of its events, one after the other.
LEMMA PiecesAppended ==
  ASSUME NEW q \in Seq(Wire)
  PROVE  /\ Pieces(q) \in Seq(Wire)
         /\ \A e \in Wire : Pieces(Append(q, e)) = Pieces(q) \o Atoms(e)
<1>1. <<>> \in Seq(Wire)
  OBVIOUS
<1>2. \A a \in Seq(Wire), e \in Wire : Split(a, e) \in Seq(Wire)
  BY SplitTypes
<1>3. PICK n \in Nat : n = Len(q)
  OBVIOUS
<1>4. PICK c \in [0 .. n -> Seq(Wire)] :
        /\ c[0] = <<>> /\ c[n] = Pieces(q)
        /\ \A k \in 1 .. n : c[k] = Split(c[k - 1], q[k])
  <2>1. \E c \in [0 .. Len(q) -> Seq(Wire)] :
          /\ c[0] = <<>> /\ c[Len(q)] = Pieces(q)
          /\ \A k \in 1 .. Len(q) : c[k] = Split(c[k - 1], q[k])
    BY PiecesChain
  <2> QED
    BY <1>3, <2>1, Zenon
<1>5. Pieces(q) = c[n] /\ c[n] \in Seq(Wire)
  BY <1>4
<1>6. ASSUME NEW e \in Wire PROVE Pieces(Append(q, e)) = Pieces(q) \o Atoms(e)
  <2> DEFINE l == Append(q, e)
  <2>1. l \in Seq(Wire) /\ Len(l) = n + 1 /\ (\A i \in 1 .. n : l[i] = q[i]) /\ l[n + 1] = e
    BY <1>3, AppendProperties
  <2> HIDE DEF l
  <2>2. PICK d \in [0 .. n + 1 -> Seq(Wire)] :
          /\ d[0] = <<>> /\ d[n + 1] = Pieces(l)
          /\ \A k \in 1 .. n + 1 : d[k] = Split(d[k - 1], l[k])
    <3>1. \E d \in [0 .. Len(l) -> Seq(Wire)] :
            /\ d[0] = <<>> /\ d[Len(l)] = Pieces(l)
            /\ \A k \in 1 .. Len(l) : d[k] = Split(d[k - 1], l[k])
      BY <2>1, PiecesChain
    <3> QED
      BY <2>1, <3>1, Zenon
  <2> DEFINE S == {k \in Nat : k <= n => d[k] = c[k]}
  <2>3. 0 \in S
    BY <1>4, <2>2
  <2>4. ASSUME NEW k \in Nat, k \in S PROVE k + 1 \in S
    <3>1. SUFFICES ASSUME k + 1 <= n PROVE d[k + 1] = c[k + 1]
      OBVIOUS
    <3>2. k <= n /\ k + 1 \in 1 .. n /\ k + 1 \in 1 .. n + 1 /\ (k + 1) - 1 = k
      BY <3>1
    <3>3. d[k] = c[k] /\ l[k + 1] = q[k + 1]
      BY <2>1, <2>4, <3>2
    <3>4. d[k + 1] = Split(d[k], l[k + 1]) /\ c[k + 1] = Split(c[k], q[k + 1])
      BY <1>4, <2>2, <3>2
    <3> QED
      BY <3>3, <3>4
  <2> HIDE DEF S
  <2>5. n \in S
    BY <2>3, <2>4, SetInduction
  <2>6. d[n] = c[n]
    BY <2>5 DEF S
  <2>7. d[n + 1] = Split(d[n], e)
    <3>1. n + 1 \in 1 .. n + 1 /\ (n + 1) - 1 = n
      OBVIOUS
    <3> QED
      BY <2>1, <2>2, <3>1
  <2>8. Pieces(l) = d[n + 1]
    BY <2>2
  <2> QED
    BY <1>5, <2>6, <2>7, <2>8, SplitTypes DEF l
<1> QED
  BY <1>5, <1>6

\* A stream of nothing has no pieces.
LEMMA PiecesOfNone == Pieces(<<>>) = <<>>
<1>1. <<>> \in Seq(Wire) /\ Len(<<>>) = 0
  OBVIOUS
<1>2. PICK c \in [0 .. Len(<<>>) -> Seq(Wire)] : c[0] = <<>> /\ c[Len(<<>>)] = Pieces(<<>>)
  BY <1>1, PiecesChain, Zenon
<1> QED
  BY <1>1, <1>2

\* A beginning of the stream has the beginning of its pieces.
LEMMA PiecesOfStart ==
  ASSUME NEW q \in Seq(Wire), NEW n \in 0 .. Len(q)
  PROVE  IsPrefix(Pieces(SubSeq(q, 1, n)), Pieces(q))
<1>1. PICK a \in Nat : a = Len(q)
  OBVIOUS
<1> DEFINE P(k) == Pieces(SubSeq(q, 1, k))
<1>2. \A k \in 0 .. a : SubSeq(q, 1, k) \in Seq(Wire) /\ P(k) \in Seq(Wire)
  BY <1>1, StartEntries, PiecesAppended
<1>3. ASSUME NEW k \in Nat, k + 1 <= a
      PROVE  \E r \in Seq(Wire) : P(k + 1) = P(k) \o r
  <2>1. q[k + 1] \in Wire
    BY <1>1, <1>3, ElementOfSeq
  <2>2. SubSeq(q, 1, k + 1) = Append(SubSeq(q, 1, k), q[k + 1])
    BY <1>1, <1>3, StartGrows
  <2>3. SubSeq(q, 1, k) \in Seq(Wire)
    BY <1>2, <1>3
  <2>4. Pieces(Append(SubSeq(q, 1, k), q[k + 1])) = Pieces(SubSeq(q, 1, k)) \o Atoms(q[k + 1])
    BY <2>1, <2>3, PiecesAppended
  <2>5. P(k + 1) = P(k) \o Atoms(q[k + 1])
    BY <2>2, <2>4
  <2> QED
    BY <2>1, <2>5, AtomsTypes
<1> HIDE DEF P
<1> DEFINE S == {k \in Nat : n <= k /\ k <= a => IsPrefix(P(n), P(k))}
<1>4. ASSUME NEW k \in Nat, k \in S PROVE k + 1 \in S
  <2>1. SUFFICES ASSUME n <= k + 1, k + 1 <= a PROVE IsPrefix(P(n), P(k + 1))
    OBVIOUS
  <2>2. CASE n = k + 1
    BY <1>1, <1>2, <2>2, PrefixSame
  <2>3. CASE n # k + 1
    <3>1. n <= k /\ k <= a
      BY <2>1, <2>3
    <3>2. IsPrefix(P(n), P(k))
      BY <1>4, <3>1
    <3>3. PICK r \in Seq(Wire) : P(k + 1) = P(k) \o r
      BY <1>3, <2>1
    <3>4. P(n) \in Seq(Wire) /\ P(k) \in Seq(Wire)
      BY <1>1, <1>2, <3>1
    <3> QED
      BY <3>2, <3>3, <3>4, PrefixGrows
  <2> QED
    BY <2>2, <2>3
<1>5. 0 \in S
  <2>1. ASSUME n <= 0 PROVE IsPrefix(P(n), P(0))
    <3>1. n = 0
      BY <2>1
    <3> QED
      BY <1>1, <1>2, <3>1, PrefixSame
  <2> QED
    BY <2>1
<1> HIDE DEF S
<1>6. a \in S
  BY <1>4, <1>5, SetInduction
<1>7. n <= a
  BY <1>1
<1>8. IsPrefix(P(n), P(a))
  BY <1>6, <1>7 DEF S
<1> QED
  BY <1>1, <1>8, SubSeqFull DEF P

\* A delta that has taken the text of the next one.
LEMMA AtomsOfJoined ==
  ASSUME NEW d \in Wire, IsDelta(d), NEW e \in Emittable, IsDelta(e)
  PROVE  LET f == [d EXCEPT !.text = @ \o e.text] IN
         f \in Wire /\ Atoms(f) = Append(Atoms(d), e)
<1> DEFINE f == [d EXCEPT !.text = @ \o e.text]
<1>1. PICK t \in Turns : e.text = <<t>>
  BY DEF Emittable
<1>2. d \in Event /\ d.text \in Seq(Turns) /\ e \in Event
  BY DEF Wire, Event, Emittable
<1>3. PICK n \in Nat : n = Len(d.text)
  BY <1>2
<1> DEFINE l == d.text \o <<t>>
<1>4. /\ l \in Seq(Turns) /\ Len(l) = n + 1 /\ \A i \in 1 .. n : l[i] = d.text[i]
      /\ l[n + 1] = t
  <2>1. l = Append(d.text, t)
    BY <1>2, AppendIsConcat
  <2> QED
    BY <1>2, <1>3, <2>1, AppendProperties
<1>5. f = [d EXCEPT !.text = l]
  BY <1>1, <1>2 DEF Event
<1> HIDE DEF l
<1>6. f \in Wire /\ f.text = l /\ IsDelta(f)
  BY <1>2, <1>4, <1>5 DEF Wire, Event, IsDelta
<1>7. \A x : [f EXCEPT !.text = x] = [d EXCEPT !.text = x]
  BY <1>2, <1>5 DEF Event
<1>8. [d EXCEPT !.text = <<t>>] = e
  BY <1>1, <1>2 DEF Wire, Emittable, Event, IsDelta
<1> DEFINE a == Atoms(d)
           b == Atoms(f)
<1>9. Append(a, e) \in Seq(Wire) /\ a \in Seq(Wire) /\ b \in Seq(Wire)
  BY <1>6, AtomsTypes, AtomsOfEmittable, AppendProperties
<1> HIDE DEF f
<1>10. Len(a) = n /\ \A i \in 1 .. n : a[i] = [d EXCEPT !.text = <<d.text[i]>>]
  <2>1. DOMAIN d.text = 1 .. n
    BY <1>2, <1>3
  <2>2. a = [i \in 1 .. n |-> [d EXCEPT !.text = <<d.text[i]>>]]
    BY <2>1 DEF Atoms
  <2>3. DOMAIN a = 1 .. n
    BY <2>2
  <2>4. Len(a) = n
    BY <1>9, <2>3, LengthOfDomain
  <2> HIDE DEF a
  <2> QED
    BY <2>2, <2>4
<1>11. Len(b) = n + 1 /\ \A i \in 1 .. n + 1 : b[i] = [d EXCEPT !.text = <<l[i]>>]
  <2>1. DOMAIN l = 1 .. n + 1 /\ n + 1 \in Nat
    BY <1>4
  <2>2. b = [i \in 1 .. n + 1 |-> [f EXCEPT !.text = <<l[i]>>]]
    BY <1>6, <2>1 DEF Atoms
  <2>3. DOMAIN b = 1 .. n + 1
    BY <2>2
  <2>4. Len(b) = n + 1
    BY <1>9, <2>1, <2>3, LengthOfDomain
  <2> HIDE DEF b
  <2> QED
    BY <1>7, <2>2, <2>4
<1> HIDE DEF a, b
<1> DEFINE c == Append(a, e)
<1>12. Len(c) = n + 1 /\ (\A i \in 1 .. n : c[i] = a[i]) /\ c[n + 1] = e
  BY <1>9, <1>10, AtomsOfEmittable, AppendProperties
<1>13. c \in Seq(Wire)
  BY <1>9
<1> HIDE DEF c
<1>14. \A i \in 1 .. n + 1 : b[i] = c[i]
  <2>1. ASSUME NEW i \in 1 .. n PROVE b[i] = c[i]
    <3>1. i \in 1 .. n + 1
      OBVIOUS
    <3> QED
      BY <1>4, <1>10, <1>11, <1>12, <3>1
  <2>2. b[n + 1] = c[n + 1]
    <3>1. n + 1 \in 1 .. n + 1
      OBVIOUS
    <3> QED
      BY <1>4, <1>8, <1>11, <1>12, <3>1
  <2>3. \A i \in 1 .. n + 1 : i \in 1 .. n \/ i = n + 1
    OBVIOUS
  <2> QED
    BY <2>1, <2>2, <2>3
<1>15. b = c
  BY <1>9, <1>11, <1>12, <1>13, <1>14, SeqEqual
<1> QED
  BY <1>6, <1>15 DEF a, b, c, f

\* Joining an event to a batch adds it to the pieces.
LEMMA JoinedPieces ==
  ASSUME NEW out \in Seq(Wire), NEW e \in Emittable
  PROVE  Joined(out, e) \in Seq(Wire) /\ Pieces(Joined(out, e)) = Append(Pieces(out), e)
<1>1. e \in Wire /\ Atoms(e) = <<e>>
  BY AtomsOfEmittable
<1>2. Pieces(out) \in Seq(Wire)
  BY PiecesAppended
<1>3. CASE ~(out # <<>> /\ IsDelta(e) /\ IsDelta(Last(out)))
  <2>1. Joined(out, e) = Append(out, e)
    BY <1>3 DEF Joined
  <2>2. Pieces(Append(out, e)) = Pieces(out) \o <<e>>
    BY <1>1, PiecesAppended
  <2> QED
    BY <1>1, <1>2, <2>1, <2>2, AppendIsConcat, AppendProperties
<1>4. CASE out # <<>> /\ IsDelta(e) /\ IsDelta(Last(out))
  <2>1. PICK front \in Seq(Wire), d \in Wire : out = Append(front, d)
    BY <1>4, SequenceEmptyOrAppend
  <2>2. PICK n \in Nat : n = Len(front)
    OBVIOUS
  <2>3. /\ Len(out) = n + 1 /\ (\A i \in 1 .. n : out[i] = front[i]) /\ out[n + 1] = d
    BY <2>1, <2>2, AppendProperties
  <2>4. Last(out) = d
    BY <2>3 DEF Last
  <2> DEFINE f == [d EXCEPT !.text = @ \o e.text]
  <2>5. f \in Wire /\ Atoms(f) = Append(Atoms(d), e)
    BY <1>4, <2>4, AtomsOfJoined
  <2>6. Joined(out, e) = [out EXCEPT ![n + 1] = f]
    BY <1>4, <2>3 DEF Joined
  <2> HIDE DEF f
  <2> DEFINE j == [out EXCEPT ![n + 1] = f]
             g == Append(front, f)
  <2>7. /\ j \in Seq(Wire) /\ Len(j) = n + 1
        /\ \A i \in 1 .. n + 1 : j[i] = IF i = n + 1 THEN f ELSE out[i]
    <3>1. n + 1 \in 1 .. Len(out)
      BY <2>3
    <3> QED
      BY <2>3, <2>5, <3>1, ExceptSeq
  <2>8. /\ g \in Seq(Wire) /\ Len(g) = n + 1
        /\ (\A i \in 1 .. n : g[i] = front[i]) /\ g[n + 1] = f
    BY <2>2, <2>5, AppendProperties
  <2> HIDE DEF j, g
  <2>9. \A i \in 1 .. n + 1 : j[i] = g[i]
    <3>1. \A i \in 1 .. n + 1 : i \in 1 .. n \/ i = n + 1
      OBVIOUS
    <3>2. \A i \in 1 .. n : i # n + 1 /\ i \in 1 .. n + 1
      OBVIOUS
    <3>3. n + 1 \in 1 .. n + 1
      OBVIOUS
    <3> QED
      BY <2>3, <2>7, <2>8, <3>1, <3>2, <3>3
  <2>10. j = g
    BY <2>7, <2>8, <2>9, SeqEqual
  <2>11. Pieces(g) = Pieces(front) \o Append(Atoms(d), e)
    BY <2>5, PiecesAppended DEF g
  <2>12. Pieces(out) = Pieces(front) \o Atoms(d)
    BY <2>1, PiecesAppended
  <2>13. /\ Pieces(front) \in Seq(Wire) /\ Atoms(d) \in Seq(Wire) /\ <<e>> \in Seq(Wire)
    BY <1>1, PiecesAppended, AtomsTypes
  <2>14. Append(Atoms(d), e) = Atoms(d) \o <<e>>
    BY <1>1, <2>13, AppendIsConcat
  <2>15. Pieces(front) \o (Atoms(d) \o <<e>>) = (Pieces(front) \o Atoms(d)) \o <<e>>
    BY <2>13, ConcatAssociative
  <2>16. Append(Pieces(out), e) = Pieces(out) \o <<e>>
    BY <1>1, <1>2, AppendIsConcat
  <2> HIDE DEF g
  <2>17. Pieces(g) = Append(Pieces(out), e)
    BY <2>11, <2>12, <2>14, <2>15, <2>16
  <2> QED
    BY <2>6, <2>7, <2>10, <2>17 DEF j
<1> QED
  BY <1>3, <1>4

\* The values of the fold that merges a batch.
LEMMA MergeChain ==
  ASSUME NEW q \in Seq(Emittable)
  PROVE  \E c \in [0 .. Len(q) -> Seq(Wire)] :
           /\ c[0] = <<>> /\ c[Len(q)] = MergeConsecutive(q)
           /\ \A k \in 1 .. Len(q) : c[k] = Joined(c[k - 1], q[k])
<1>a. PICK V : V = Seq(Wire)
  OBVIOUS
<1>b. PICK E : E = Emittable
  OBVIOUS
<1>c. <<>> \in V /\ q \in Seq(E) /\ \A a \in V, e \in E : Joined(a, e) \in V
  BY <1>a, <1>b, JoinedPieces
<1>1. DOMAIN q = 1 .. Len(q)
  BY LenProperties
<1>2. PICK n \in Nat : n = Len(q)
  BY LenProperties
<1> DEFINE Recursion(f) ==
      f = [s \in SUBSET (1 .. n) |->
             IF s = {} THEN <<>> ELSE Joined(f[s \ {Max(s)}], q[Max(s)])]
<1>3. \E f : Recursion(f)
  <2> DEFINE o == [p \in V \X E |-> Joined(p[1], p[2])]
  <2>1. o \in [V \X E -> V]
    BY <1>c
  <2>2. \A a \in V, e \in E : o[<<a, e>>] = Joined(a, e)
    OBVIOUS
  <2> HIDE DEF o
  <2>3. PICK f \in [SUBSET (1 .. n) -> V] : FoldsOver(f, n, o, <<>>, q)
    BY <1>2, <1>c, <2>1, FoldExists
  <2>4. ASSUME NEW s \in SUBSET (1 .. n)
        PROVE  f[s] = IF s = {} THEN <<>> ELSE Joined(f[s \ {Max(s)}], q[Max(s)])
    <3>1. CASE s = {}
      BY <2>3, <3>1 DEF FoldsOver
    <3>2. CASE s # {}
      <4>1. Max(s) \in 1 .. n
        BY <3>2, MaxInside
      <4>2. q[Max(s)] \in E /\ f[s \ {Max(s)}] \in V
        BY <1>2, <1>c, <4>1, ElementOfSeq
      <4> QED
        BY <2>2, <2>3, <3>2, <4>2 DEF FoldsOver
    <3> QED
      BY <3>1, <3>2
  <2> QED
    BY <2>4
<1>4. PICK f : f = CHOOSE g : Recursion(g)
  OBVIOUS
<1>5. Recursion(f)
  BY <1>3, <1>4
<1>6. f[1 .. n] = MergeConsecutive(q)
  BY <1>1, <1>2, <1>4 DEF FoldLeft, MapThenFoldSet, MergeConsecutive
<1> DEFINE c == [k \in 0 .. n |-> f[1 .. k]]
<1>7. c[0] = <<>>
  <2>1. 0 \in 0 .. n /\ 1 .. 0 = {} /\ {} \in SUBSET (1 .. n)
    OBVIOUS
  <2> QED
    BY <1>5, <2>1
<1>8. ASSUME NEW k \in 1 .. n
      PROVE  c[k] = Joined(c[k - 1], q[k])
  <2>1. /\ 1 .. k \in SUBSET (1 .. n) /\ 1 .. k # {}
        /\ Max(1 .. k) = k /\ (1 .. k) \ {k} = 1 .. k - 1
    BY FoldChain
  <2>2. f[1 .. k] = Joined(f[1 .. k - 1], q[k])
    BY <1>5, <2>1
  <2>3. k \in 0 .. n /\ k - 1 \in 0 .. n
    OBVIOUS
  <2> QED
    BY <2>2, <2>3
<1>9. c[n] = MergeConsecutive(q)
  BY <1>6
<1>10. \A k \in 0 .. n : c[k] \in V
  <2>1. ASSUME NEW k \in 1 .. n, c[k - 1] \in V PROVE c[k] \in V
    BY <1>2, <1>c, <1>8, <2>1, ElementOfSeq
  <2> HIDE DEF c
  <2> QED
    BY <1>7, <1>c, <2>1, ChainInduction
<1>11. c \in [0 .. n -> V]
  BY <1>10
<1> HIDE DEF c
<1> QED
  BY <1>2, <1>7, <1>8, <1>9, <1>11, <1>a

\* Merging loses nothing: split again, the events are those of the batch.
LEMMA MergeKeepsPieces ==
  ASSUME NEW q \in Seq(Emittable)
  PROVE  MergeConsecutive(q) \in Seq(Wire) /\ Pieces(MergeConsecutive(q)) = q
<1>1. PICK n \in Nat : n = Len(q)
  OBVIOUS
<1>2. PICK c \in [0 .. n -> Seq(Wire)] :
        /\ c[0] = <<>> /\ c[n] = MergeConsecutive(q)
        /\ \A k \in 1 .. n : c[k] = Joined(c[k - 1], q[k])
  <2>1. \E c \in [0 .. Len(q) -> Seq(Wire)] :
          /\ c[0] = <<>> /\ c[Len(q)] = MergeConsecutive(q)
          /\ \A k \in 1 .. Len(q) : c[k] = Joined(c[k - 1], q[k])
    BY MergeChain
  <2> QED
    BY <1>1, <2>1, Zenon
<1> DEFINE S == {k \in Nat : k <= n => Pieces(c[k]) = SubSeq(q, 1, k)}
<1>3. 0 \in S
  <2>1. SubSeq(q, 1, 0) = <<>>
    BY SubSeqEmpty
  <2> QED
    BY <1>2, <2>1, PiecesOfNone
<1>4. ASSUME NEW k \in Nat, k \in S PROVE k + 1 \in S
  <2>1. SUFFICES ASSUME k + 1 <= n PROVE Pieces(c[k + 1]) = SubSeq(q, 1, k + 1)
    OBVIOUS
  <2>2. k <= n /\ k \in 0 .. n /\ k + 1 \in 1 .. n /\ (k + 1) - 1 = k
    BY <2>1
  <2>3. c[k] \in Seq(Wire) /\ q[k + 1] \in Emittable /\ c[k + 1] = Joined(c[k], q[k + 1])
    BY <1>1, <1>2, <2>2, ElementOfSeq
  <2>4. Pieces(c[k + 1]) = Append(Pieces(c[k]), q[k + 1])
    BY <2>3, JoinedPieces
  <2>5. Pieces(c[k]) = SubSeq(q, 1, k)
    BY <1>4, <2>2
  <2>6. SubSeq(q, 1, k + 1) = Append(SubSeq(q, 1, k), q[k + 1])
    BY <1>1, <2>1, StartGrows
  <2> QED
    BY <2>4, <2>5, <2>6
<1> HIDE DEF S
<1>5. n \in S
  BY <1>3, <1>4, SetInduction
<1>6. n \in 0 .. n /\ n <= n
  OBVIOUS
<1>7. Pieces(c[n]) = SubSeq(q, 1, n)
  BY <1>5, <1>6 DEF S
<1>8. SubSeq(q, 1, n) = q
  BY <1>1, SubSeqFull
<1> QED
  BY <1>2, <1>6, <1>7, <1>8

\* A subscription between two steps: what it is owed waits for it, the part that
\* the consumer holds first.
StreamFits(sub) ==
  /\ sub \in Subscription /\ Len(sub.queue) <= QueueCapacity
  /\ sub.first \in Seq(Emittable) /\ sub.queue \in Seq(Emittable)
  /\ sub.whole /\ (sub.consumer # "ended" => sub.first \o sub.queue = sub.owed)
  /\ sub.consumer = "waiting" => sub.first = <<>>

StreamInv == \A s \in Subs : StreamFits(subs[s])

Fitting == {sub \in Subscription : StreamFits(sub)}

\* emit, as it is for one subscription.
PutAll(sub, events) == FoldLeft(Put, sub, events)

\* What is emitted are events.
LEMMA EmittableEvents == Emittable \subseteq Event /\ Seq(Emittable) \subseteq Seq(Event)
<1>1. Emittable \subseteq Event
  BY DEF Emittable
<1> QED
  BY <1>1, SeqMonotonic

\* A subscription that is not registered is owed nothing.
LEMMA NotOpenFits == StreamFits(NotOpen)
<1>1. /\ <<>> \in Seq(Event) /\ <<>> \in Seq(Emittable) /\ Len(<<>>) = 0 /\ <<>> \o <<>> = <<>>
  BY ConcatEmptySeq
<1>2. 0 <= QueueCapacity
  BY SubscriptionsAssumption
<1> QED
  BY <1>1, <1>2 DEF StreamFits, NotOpen, Subscription

\* put, with room in the queue and without.
LEMMA PutFits ==
  ASSUME NEW sub, StreamFits(sub), NEW e \in Emittable
  PROVE  StreamFits(Put(sub, e))
<1>1. CASE ~sub.open
  BY <1>1 DEF Put
<1>2. CASE sub.open /\ ~Room([sub EXCEPT !.owed = IF sub.consumer = "ended" THEN @ ELSE Append(@, e)])
  <2>1. Put(sub, e) = NotOpen
    <3>1. ~Room(sub)
      BY <1>2 DEF Room, StreamFits, Subscription
    <3> QED
      BY <1>2, <3>1 DEF Put, Overflowed
  <2> QED
    BY <2>1, NotOpenFits
<1>3. CASE sub.open /\ Room([sub EXCEPT !.owed = IF sub.consumer = "ended" THEN @ ELSE Append(@, e)])
  <2>1. Room(sub)
    BY <1>3 DEF Room, StreamFits, Subscription
  <2>2. PICK q : q = sub.queue
    OBVIOUS
  <2>3. PICK f : f = sub.first
    OBVIOUS
  <2>4. PICK o : o = sub.owed
    OBVIOUS
  <2>5. /\ sub \in Subscription /\ q \in Seq(Emittable) /\ f \in Seq(Emittable) /\ o \in Seq(Event)
        /\ Len(q) < QueueCapacity /\ sub.whole
        /\ sub.consumer # "ended" => f \o q = o
        /\ sub.consumer = "waiting" => f = <<>>
        /\ f \in Seq(Event) /\ q \in Seq(Event) /\ e \in Event
    BY <2>1, <2>2, <2>3, <2>4, EmittableEvents DEF StreamFits, Room, Subscription
  <2> DEFINE more == Append(q, e)
             due  == IF sub.consumer = "ended" THEN o ELSE Append(o, e)
  <2>6. more \in Seq(Emittable) /\ more \in Seq(Event) /\ Len(more) = Len(q) + 1
    BY <2>5, AppendProperties
  <2>7. due \in Seq(Event)
    BY <2>5, AppendProperties
  <2>8. Len(more) <= QueueCapacity
    BY <2>5, <2>6, SubscriptionsAssumption
  <2>9. sub.consumer # "ended" => f \o more = due
    <3>1. SUFFICES ASSUME sub.consumer # "ended" PROVE f \o more = Append(o, e)
      OBVIOUS
    <3>2. more = q \o <<e>> /\ Append(o, e) = o \o <<e>> /\ <<e>> \in Seq(Event)
      BY <2>5, AppendIsConcat
    <3>3. f \o (q \o <<e>>) = (f \o q) \o <<e>>
      BY <2>5, <3>2, ConcatAssociative
    <3> QED
      BY <2>5, <3>1, <3>2, <3>3
  <2>10. Put(sub, e) = [sub EXCEPT !.owed = due, !.queue = more]
    BY <1>3, <2>1, <2>2, <2>4, <2>5 DEF Put, Subscription
  <2> HIDE DEF more, due
  <2>11. /\ [sub EXCEPT !.owed = due, !.queue = more] \in Subscription
         /\ [sub EXCEPT !.owed = due, !.queue = more].queue = more
         /\ [sub EXCEPT !.owed = due, !.queue = more].owed = due
         /\ [sub EXCEPT !.owed = due, !.queue = more].first = f
         /\ [sub EXCEPT !.owed = due, !.queue = more].whole = sub.whole
         /\ [sub EXCEPT !.owed = due, !.queue = more].consumer = sub.consumer
    BY <2>3, <2>5, <2>6, <2>7 DEF Subscription
  <2> QED
    BY <2>5, <2>6, <2>8, <2>9, <2>10, <2>11 DEF StreamFits
<1> QED
  BY <1>1, <1>2, <1>3

\* A subscription that fits is one of the set of those.
LEMMA FittingFits == \A sub : sub \in Fitting <=> StreamFits(sub)
BY DEF Fitting, StreamFits

\* The values of the fold that puts events.
LEMMA PutChain ==
  ASSUME NEW base \in Fitting, NEW q \in Seq(Emittable)
  PROVE  \E c \in [0 .. Len(q) -> Fitting] :
           /\ c[0] = base /\ c[Len(q)] = PutAll(base, q)
           /\ \A k \in 1 .. Len(q) : c[k] = Put(c[k - 1], q[k])
<1>a. PICK V : V = Fitting
  OBVIOUS
<1>b. PICK E : E = Emittable
  OBVIOUS
<1>c. base \in V /\ q \in Seq(E) /\ \A a \in V, e \in E : Put(a, e) \in V
  BY <1>a, <1>b, PutFits, FittingFits
<1>1. DOMAIN q = 1 .. Len(q)
  BY LenProperties
<1>2. PICK n \in Nat : n = Len(q)
  BY LenProperties
<1> DEFINE Recursion(f) ==
      f = [s \in SUBSET (1 .. n) |->
             IF s = {} THEN base ELSE Put(f[s \ {Max(s)}], q[Max(s)])]
<1>3. \E f : Recursion(f)
  <2> DEFINE o == [p \in V \X E |-> Put(p[1], p[2])]
  <2>1. o \in [V \X E -> V]
    BY <1>c
  <2>2. \A a \in V, e \in E : o[<<a, e>>] = Put(a, e)
    OBVIOUS
  <2> HIDE DEF o
  <2>3. PICK f \in [SUBSET (1 .. n) -> V] : FoldsOver(f, n, o, base, q)
    BY <1>2, <1>c, <2>1, FoldExists
  <2>4. ASSUME NEW s \in SUBSET (1 .. n)
        PROVE  f[s] = IF s = {} THEN base ELSE Put(f[s \ {Max(s)}], q[Max(s)])
    <3>1. CASE s = {}
      BY <2>3, <3>1 DEF FoldsOver
    <3>2. CASE s # {}
      <4>1. Max(s) \in 1 .. n
        BY <3>2, MaxInside
      <4>2. q[Max(s)] \in E /\ f[s \ {Max(s)}] \in V
        BY <1>2, <1>c, <4>1, ElementOfSeq
      <4> QED
        BY <2>2, <2>3, <3>2, <4>2 DEF FoldsOver
    <3> QED
      BY <3>1, <3>2
  <2> QED
    BY <2>4
<1>4. PICK f : f = CHOOSE g : Recursion(g)
  OBVIOUS
<1>5. Recursion(f)
  BY <1>3, <1>4
<1>6. f[1 .. n] = PutAll(base, q)
  BY <1>1, <1>2, <1>4 DEF FoldLeft, MapThenFoldSet, PutAll
<1> DEFINE c == [k \in 0 .. n |-> f[1 .. k]]
<1>7. c[0] = base
  <2>1. 0 \in 0 .. n /\ 1 .. 0 = {} /\ {} \in SUBSET (1 .. n)
    OBVIOUS
  <2> QED
    BY <1>5, <2>1
<1>8. ASSUME NEW k \in 1 .. n
      PROVE  c[k] = Put(c[k - 1], q[k])
  <2>1. /\ 1 .. k \in SUBSET (1 .. n) /\ 1 .. k # {}
        /\ Max(1 .. k) = k /\ (1 .. k) \ {k} = 1 .. k - 1
    BY FoldChain
  <2>2. f[1 .. k] = Put(f[1 .. k - 1], q[k])
    BY <1>5, <2>1
  <2>3. k \in 0 .. n /\ k - 1 \in 0 .. n
    OBVIOUS
  <2> QED
    BY <2>2, <2>3
<1>9. c[n] = PutAll(base, q)
  BY <1>6
<1>10. \A k \in 0 .. n : c[k] \in V
  <2>1. ASSUME NEW k \in 1 .. n, c[k - 1] \in V PROVE c[k] \in V
    BY <1>2, <1>c, <1>8, <2>1, ElementOfSeq
  <2> HIDE DEF c
  <2> QED
    BY <1>7, <1>c, <2>1, ChainInduction
<1>11. c \in [0 .. n -> V]
  BY <1>10
<1> HIDE DEF c
<1> QED
  BY <1>2, <1>7, <1>8, <1>9, <1>11, <1>a

\* emit, for every event it is given.
LEMMA EmitFits ==
  ASSUME NEW sub \in Fitting, NEW events \in Seq(Emittable)
  PROVE  PutAll(sub, events) \in Fitting
<1>1. PICK c \in [0 .. Len(events) -> Fitting] : c[Len(events)] = PutAll(sub, events)
  BY PutChain
<1>2. Len(events) \in 0 .. Len(events)
  BY LenProperties
<1> QED
  BY <1>1, <1>2

\* What is sent begins what is owed, and the rest stays owed.
LEMMA SentFits ==
  ASSUME NEW sub, StreamFits(sub), sub.consumer = "window",
         NEW n \in 0 .. Len(MergeConsecutive(sub.first \o sub.queue))
  PROVE  LET merged == MergeConsecutive(sub.first \o sub.queue)
             sent   == Sent(sub, SubSeq(merged, 1, n)) IN
         /\ sent \in Subscription /\ sent.whole /\ sent.first = <<>> /\ sent.queue = <<>>
         /\ n = Len(merged) => sent.owed = <<>> /\ SubSeq(merged, 1, n) = merged
<1>1. PICK b : b = sub.first \o sub.queue
  OBVIOUS
<1>2. b \in Seq(Emittable) /\ b = sub.owed /\ b \in Seq(Event) /\ sub \in Subscription
  <2>1. b \in Seq(Emittable)
    BY <1>1, ConcatProperties DEF StreamFits
  <2> QED
    BY <1>1, <2>1, EmittableEvents DEF StreamFits
<1>3. PICK m : m = MergeConsecutive(b)
  OBVIOUS
<1>4. m \in Seq(Wire) /\ Pieces(m) = b
  BY <1>2, <1>3, MergeKeepsPieces
<1>5. n \in 0 .. Len(m)
  BY <1>1, <1>3
<1>6. PICK p : p = Pieces(SubSeq(m, 1, n))
  OBVIOUS
<1>7. IsPrefix(p, b) /\ p \in Seq(Wire)
  BY <1>4, <1>5, <1>6, PiecesOfStart, StartEntries, PiecesAppended
<1>8. Len(p) + 1 \in 1 .. Len(b) + 1 /\ Len(b) \in 0 .. Len(b)
  <2>1. Len(p) <= Len(b) /\ Len(p) \in Nat /\ Len(b) \in Nat
    BY <1>2, <1>7 DEF IsPrefix
  <2> QED
    BY <2>1
<1>9. SubSeq(b, Len(p) + 1, Len(b)) \in Seq(Event)
  BY <1>2, <1>8, PartEntries
<1>10. n = Len(m) => SubSeq(m, 1, n) = m
  BY <1>4, SubSeqFull
<1>11. n = Len(m) => SubSeq(b, Len(p) + 1, Len(b)) = <<>>
  <2>1. SUFFICES ASSUME n = Len(m) PROVE SubSeq(b, Len(p) + 1, Len(b)) = <<>>
    OBVIOUS
  <2>2. p = b
    BY <1>4, <1>6, <1>10, <2>1
  <2>3. Len(b) + 1 \in Int /\ Len(b) \in Int /\ Len(b) < Len(b) + 1
    BY <1>2, LenProperties
  <2> QED
    BY <2>2, <2>3, SubSeqEmpty
<1>12. PICK rest : rest = SubSeq(b, Len(p) + 1, Len(b))
  OBVIOUS
<1>13. Sent(sub, SubSeq(m, 1, n)) =
         [sub EXCEPT !.first = <<>>, !.queue = <<>>, !.owed = rest, !.whole = TRUE]
  BY <1>2, <1>6, <1>7, <1>12 DEF Sent, Subscription
<1>14. <<>> \in Seq(Event)
  OBVIOUS
<1>15. /\ Sent(sub, SubSeq(m, 1, n)) \in Subscription
       /\ Sent(sub, SubSeq(m, 1, n)).whole
       /\ Sent(sub, SubSeq(m, 1, n)).first = <<>> /\ Sent(sub, SubSeq(m, 1, n)).queue = <<>>
       /\ Sent(sub, SubSeq(m, 1, n)).owed = rest
  BY <1>2, <1>9, <1>12, <1>13, <1>14 DEF Subscription
<1> QED
  BY <1>1, <1>3, <1>10, <1>11, <1>12, <1>15

\* What a subscriber, or its consumer task, does.
LEMMA SubscriberFits ==
  ASSUME StreamInv, subs \in [Subs -> Subscription], SubNext
  PROVE  StreamInv' /\ subs' \in [Subs -> Subscription]
<1>1. PICK s \in Subs : Register(s) \/ Unregister(s) \/ TakeFirst(s) \/ Flush(s)
  BY DEF SubNext
<1>2. StreamFits(subs[s]) /\ NotOpen.open = FALSE
  BY <1>1 DEF StreamInv, NotOpen
<1>3. SUFFICES \E sub : StreamFits(sub) /\ subs' = [subs EXCEPT ![s] = sub]
  <2>1. ASSUME NEW sub, StreamFits(sub), subs' = [subs EXCEPT ![s] = sub]
        PROVE  StreamInv' /\ subs' \in [Subs -> Subscription]
    <3>1. sub \in Subscription
      BY <2>1 DEF StreamFits
    <3>2. \A r \in Subs : subs'[r] = IF r = s THEN sub ELSE subs[r]
      BY <2>1
    <3> QED
      BY <2>1, <3>1, <3>2 DEF StreamInv
  <2> QED
    BY <2>1
<1>4. CASE Register(s)
  <2>1. subs' = [subs EXCEPT ![s] = [subs[s] EXCEPT !.open = TRUE]]
    BY <1>4 DEF Register
  <2>2. StreamFits([subs[s] EXCEPT !.open = TRUE])
    BY <1>2 DEF StreamFits, Subscription
  <2> QED
    BY <2>1, <2>2
<1>5. CASE Unregister(s)
  BY <1>5, NotOpenFits DEF Unregister
<1>6. CASE TakeFirst(s)
  <2>1. PICK q : q = subs[s].queue
    OBVIOUS
  <2> DEFINE sub == [subs[s] EXCEPT !.first = <<Head(q)>>, !.queue = Tail(q), !.consumer = "window"]
  <2>2. subs' = [subs EXCEPT ![s] = sub]
    BY <1>6, <2>1 DEF TakeFirst
  <2>3. q \in Seq(Emittable) /\ q # <<>> /\ Len(q) <= QueueCapacity
    BY <1>2, <1>6, <2>1 DEF StreamFits, TakeFirst
  <2>4. PICK h : h = <<Head(q)>>
    OBVIOUS
  <2>5. PICK r : r = Tail(q)
    OBVIOUS
  <2>6. h \in Seq(Emittable) /\ r \in Seq(Emittable) /\ Len(r) <= QueueCapacity
    BY <2>3, <2>4, <2>5, HeadTailProperties, LenProperties, SubscriptionsAssumption
  <2>7. h \o r = q
    BY <2>3, <2>4, <2>5
  <2>8. subs[s].owed = q
    BY <1>2, <1>6, <2>1, <2>3, ConcatEmptySeq DEF StreamFits, TakeFirst
  <2>9. h \in Seq(Event) /\ r \in Seq(Event)
    BY <2>6, EmittableEvents
  <2>10. sub = [subs[s] EXCEPT !.first = h, !.queue = r, !.consumer = "window"]
    BY <2>4, <2>5
  <2>11. StreamFits(sub)
    <3> HIDE DEF sub
    <3>1. /\ sub \in Subscription /\ sub.first = h /\ sub.queue = r /\ sub.owed = q
          /\ sub.consumer = "window" /\ sub.whole
      BY <1>2, <2>8, <2>9, <2>10 DEF StreamFits, Subscription
    <3> QED
      BY <2>6, <2>7, <3>1 DEF StreamFits
  <2> QED
    BY <2>2, <2>11
<1>7. CASE Flush(s)
  <2>1. PICK m : m = MergeConsecutive(subs[s].first \o subs[s].queue)
    OBVIOUS
  <2>2. m \in Seq(Wire)
    <3>1. subs[s].first \o subs[s].queue \in Seq(Emittable)
      BY <1>2, ConcatProperties DEF StreamFits
    <3> QED
      BY <2>1, <3>1, MergeKeepsPieces
  <2>3. 0 <= QueueCapacity /\ <<>> \in Seq(Emittable) /\ <<>> \in Seq(Event) /\ Len(<<>>) = 0
        /\ <<>> \o <<>> = <<>>
    BY SubscriptionsAssumption, ConcatEmptySeq
  <2>4. subs[s].consumer = "window"
    BY <1>7 DEF Flush
  <2>5. \/ subs' = [subs EXCEPT ![s] = [Sent(subs[s], m) EXCEPT !.consumer = "waiting"]]
        \/ \E n \in 0 .. Len(m) - 1 :
             subs' = [subs EXCEPT ![s] = [Sent(subs[s], SubSeq(m, 1, n))
                                            EXCEPT !.consumer = "ended", !.owed = <<>>]]
    BY <1>7, <2>1 DEF Flush
  <2>6. ASSUME subs' = [subs EXCEPT ![s] = [Sent(subs[s], m) EXCEPT !.consumer = "waiting"]]
        PROVE  \E sub : StreamFits(sub) /\ subs' = [subs EXCEPT ![s] = sub]
    <3>1. Len(m) \in 0 .. Len(m)
      BY <2>2, LenProperties
    <3>2. /\ Sent(subs[s], m) \in Subscription /\ Sent(subs[s], m).whole
          /\ Sent(subs[s], m).first = <<>> /\ Sent(subs[s], m).queue = <<>>
          /\ Sent(subs[s], m).owed = <<>>
      BY <1>2, <2>1, <2>4, <3>1, SentFits
    <3>3. PICK x : x = Sent(subs[s], m)
      OBVIOUS
    <3>4. StreamFits([x EXCEPT !.consumer = "waiting"])
      BY <2>3, <3>2, <3>3 DEF StreamFits, Subscription
    <3> QED
      BY <2>6, <3>3, <3>4
  <2>7. ASSUME NEW n \in 0 .. Len(m) - 1,
               subs' = [subs EXCEPT ![s] = [Sent(subs[s], SubSeq(m, 1, n))
                                              EXCEPT !.consumer = "ended", !.owed = <<>>]]
        PROVE  \E sub : StreamFits(sub) /\ subs' = [subs EXCEPT ![s] = sub]
    <3>1. n \in 0 .. Len(m)
      BY <2>2, LenProperties
    <3>2. PICK x : x = Sent(subs[s], SubSeq(m, 1, n))
      OBVIOUS
    <3>3. x \in Subscription /\ x.whole /\ x.first = <<>> /\ x.queue = <<>>
      BY <1>2, <2>1, <2>4, <3>1, <3>2, SentFits
    <3>4. StreamFits([x EXCEPT !.consumer = "ended", !.owed = <<>>])
      BY <2>3, <3>3 DEF StreamFits, Subscription
    <3> QED
      BY <2>7, <3>2, <3>4
  <2> QED
    BY <2>5, <2>6, <2>7
<1> QED
  BY <1>1, <1>4, <1>5, <1>6, <1>7

\* Every subscription fits: it has been sent a beginning of what it is owed, and
\* has the rest on its way.
LEMMA StreamStep ==
  ASSUME TurnInv, StreamInv, subs \in [Subs -> Subscription], [Next]_vars
  PROVE  StreamInv' /\ subs' \in [Subs -> Subscription]
<1>1. ASSUME NEW es \in Seq(Emittable), EmitAll(es)
      PROVE  StreamInv' /\ subs' \in [Subs -> Subscription]
  <2>1. subs' = [s \in Subs |-> PutAll(subs[s], es)]
    BY <1>1 DEF EmitAll, PutAll
  <2>2. ASSUME NEW s \in Subs
        PROVE  StreamFits(subs'[s]) /\ subs'[s] \in Subscription
    <3>1. PICK sub \in Fitting : sub = subs[s]
      BY FittingFits DEF StreamInv
    <3>2. PutAll(sub, es) \in Fitting
      BY EmitFits
    <3>3. subs'[s] = PutAll(sub, es)
      BY <2>1, <3>1
    <3> QED BY <3>2, <3>3 DEF Fitting
  <2>3. subs' \in [Subs -> Subscription]
    <3>1. DOMAIN subs' = Subs /\ subs' = [s \in Subs |-> subs'[s]]
      BY <2>1
    <3> QED BY <2>2, <3>1
  <2> QED BY <2>2, <2>3 DEF StreamInv
<1>2. CASE UNCHANGED subVars
  BY <1>2 DEF StreamInv
<1> QED BY <1>1, <1>2, EmitStep, SubscriberFits

\* No one is registered at first.
LEMMA StreamInit ==
  ASSUME Init
  PROVE  StreamInv /\ subs \in [Subs -> Subscription]
<1>1. NotOpen \in Subscription
  BY NotOpenFits DEF StreamFits
<1> QED BY <1>1, NotOpenFits DEF Init, SubInit, StreamInv

\* In every reachable state each subscription fits.
THEOREM StreamsFit == Spec => [](StreamInv /\ subs \in [Subs -> Subscription])
<1> DEFINE Inv == StreamInv /\ subs \in [Subs -> Subscription]
<1>1. Init => Inv
  BY StreamInit
<1>2. TurnInv /\ Inv /\ [Next]_vars => Inv'
  BY StreamStep
<1> HIDE DEF Inv
<1>3. Spec => []Inv
  BY <1>1, <1>2, TurnsFit, PTL DEF Spec
<1> QED BY <1>3 DEF Inv

\* StreamIsWhole: a subscriber is sent what was emitted since it registered, in
\* that order and without a gap, whatever the window, the merging of deltas and
\* the overflow of its queue do.
THEOREM StreamStaysWhole == Spec => []StreamIsWhole
<1>1. StreamInv => StreamIsWhole
  BY DEF StreamInv, StreamFits, StreamIsWhole
<1> QED BY <1>1, StreamsFit, PTL

\* Type correctness of the session and its subscriptions, the bound of the queues
\* included.
THEOREM TuiTypes == Spec => []TypeOK
<1>1. TurnInv /\ StreamInv /\ subs \in [Subs -> Subscription] => TypeOK
  BY DEF TurnInv, StreamInv, StreamFits, TypeOK, SubTypeOK
<1> QED BY <1>1, TurnsFit, StreamsFit, PTL
=============================================================================
