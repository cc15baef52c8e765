------------------------ MODULE SpineKeepingProofs ------------------------
(***************************************************************************)
(* For every set of turns, lanes, conversations and requests and every     *)
(* capacity, the scheduler's states are well typed, no accepted turn is    *)
(* lost, duplicated or settled by the wrong party, and no conversation     *)
(* runs two turns: the invariant KeepingInv is inductive and implies       *)
(* AcceptedIsKept, SoleResolver and OneTurnPerConversation.                *)
(***************************************************************************)
EXTENDS SpineScheduler, SequenceFacts, FiniteSetTheorems, TLAPS

USE DEF schedVars, queueVars, workerVars, taskVars, poolVars, turnVars

-----------------------------------------------------------------------------
(* Type correctness.                                                       *)

\* Settling handles keeps the futures typed.
LEMMA ResolveType ==
  ASSUME TypeOK, NEW S, NEW v \in {"ok", "none"}
  PROVE  Resolve(S, v) \in [Turns -> {"unsubmitted", "open", "ok", "none"}]
BY DEF TypeOK, Resolve

\* So does recording a lifecycle event.
LEMMA EmitType ==
  ASSUME TypeOK, NEW t, NEW e \in Lifecycle
  PROVE  Emit(t, e) \in [Turns -> Seq(Lifecycle)]
<1>1. CASE t \in Turns
  <2>1. Append(events[t], e) \in Seq(Lifecycle)
    BY <1>1, AppendProperties DEF TypeOK
  <2> QED BY <2>1 DEF TypeOK, Emit
<1>2. CASE t \notin Turns
  BY <1>2 DEF TypeOK, Emit
<1> QED BY <1>1, <1>2

\* Draining keeps the queues typed.
LEMMA DrainType ==
  ASSUME TypeOK, NEW L, Drain(L)
  PROVE  /\ pending' \in [Lanes -> Seq(Turns)]
         /\ mailbox' \in [Lanes -> Seq(Turns)]
         /\ result' \in [Turns -> {"unsubmitted", "open", "ok", "none"}]
<1>1. result' \in [Turns -> {"unsubmitted", "open", "ok", "none"}]
  BY ResolveType DEF Drain
<1>2. pending' \in [Lanes -> Seq(Turns)] /\ mailbox' \in [Lanes -> Seq(Turns)]
  BY DEF Drain, TypeOK
<1> QED BY <1>1, <1>2

\* So does taking the next turn.
LEMMA TakeType ==
  ASSUME TypeOK, NEW l \in Lanes, NEW q \in Seq(Turns), TakeNext(l, q)
  PROVE  /\ pending' \in [Lanes -> Seq(Turns)]
         /\ worker' \in [Lanes -> {"absent", "created", "awaiting"}]
         /\ idle' \in [Lanes -> BOOLEAN]
         /\ current' \in [Lanes -> Turns \cup {NoTurn}]
         /\ task' \in [Lanes -> TaskStates]
<1>1. CASE q = <<>>
  <2>1. /\ pending' = [pending EXCEPT ![l] = <<>>]
        /\ worker' = [worker EXCEPT ![l] = "absent"]
        /\ idle' = [idle EXCEPT ![l] = TRUE]
        /\ current' = [current EXCEPT ![l] = NoTurn]
        /\ task' = [task EXCEPT ![l] = "absent"]
    BY <1>1 DEF TakeNext
  <2>2. <<>> \in Seq(Turns)
    OBVIOUS
  <2>3. pending' \in [Lanes -> Seq(Turns)]
    BY <2>1, <2>2 DEF TypeOK
  <2> QED BY <2>1, <2>3 DEF TypeOK, TaskStates
<1>2. CASE q # <<>>
  <2>1. Head(q) \in Turns /\ Tail(q) \in Seq(Turns)
    BY <1>2, TailElements
  <2> DEFINE h == Head(q)
             r == Tail(q)
  <2>2. /\ pending' = [pending EXCEPT ![l] = r]
        /\ worker' = [worker EXCEPT ![l] = "awaiting"]
        /\ current' = [current EXCEPT ![l] = h]
        /\ task' = [task EXCEPT ![l] = "created"]
        /\ UNCHANGED idle
    BY <1>2 DEF TakeNext
  <2>3. h \in Turns /\ r \in Seq(Turns)
    BY <2>1
  <2> HIDE DEF h, r
  <2> QED BY <2>2, <2>3 DEF TypeOK, TaskStates
<1> QED BY <1>1, <1>2

\* Every client call preserves the types.
LEMMA ClientType == TypeOK /\ Client => TypeOK'
<1> SUFFICES ASSUME TypeOK, Client PROVE TypeOK'
  OBVIOUS
<1>1. ASSUME NEW t \in Turns, NEW req \in Requests, Submit(t, req) PROVE TypeOK'
  <2>1. PICK l \in Lanes :
          /\ registry' = [registry EXCEPT ![req.conversation] = l]
          /\ LaneSubmit(l, t, EffectiveBusy(req))
    BY <1>1 DEF Submit
  <2>2. registry' \in [Conversations -> Lanes \cup {NoLane}]
    BY <2>1 DEF TypeOK
  <2>3. /\ request' \in [Turns -> Requests \cup {NoRequest}]
        /\ result' \in [Turns -> {"unsubmitted", "open", "ok", "none"}]
        /\ stage' \in Stages /\ survivors' \subseteq Turns /\ reaper' \in BOOLEAN
        /\ events' \in [Turns -> Seq(Lifecycle)]
    BY <1>1 DEF Submit, TypeOK
  <2>4. /\ Append(pending[l], t) \in Seq(Turns) /\ <<t>> \o pending[l] \in Seq(Turns)
        /\ Append(mailbox[l], t) \in Seq(Turns)
    BY AppendProperties, ConcatProperties DEF TypeOK
  <2>5. /\ pending' \in [Lanes -> Seq(Turns)] /\ mailbox' \in [Lanes -> Seq(Turns)]
        /\ worker' \in [Lanes -> {"absent", "created", "awaiting"}]
        /\ cancelling' \in [Lanes -> BOOLEAN]
    <3>1. CASE LaneInterrupt(l, t)
      BY <2>4, <3>1 DEF LaneInterrupt, StartWorker, TypeOK
    <3>2. CASE LaneInject(l, t)
      BY <2>4, <3>2 DEF LaneInject, TypeOK
    <3>3. CASE LaneAppend(l, t)
      BY <2>4, <3>3 DEF LaneAppend, StartWorker, TypeOK
    <3> QED BY <2>1, <3>1, <3>2, <3>3 DEF LaneSubmit
  <2>6. /\ idle' \in [Lanes -> BOOLEAN]
        /\ UNCHANGED <<current, task, chained, outcome, free, waiters>>
    BY <2>1 DEF LaneSubmit, TypeOK
  <2> QED BY <2>2, <2>3, <2>5, <2>6 DEF TypeOK
<1>2. ASSUME NEW t \in Turns, CancelTurn(t) PROVE TypeOK'
  <2>1. \A l \in Lanes : /\ \A i \in DOMAIN pending[l] : RemoveAt(pending[l], i) \in Seq(Turns)
                         /\ \A i \in DOMAIN mailbox[l] : RemoveAt(mailbox[l], i) \in Seq(Turns)
    BY RemoveElements DEF TypeOK
  <2>2. /\ pending' \in [Lanes -> Seq(Turns)] /\ mailbox' \in [Lanes -> Seq(Turns)]
        /\ cancelling' \in [Lanes -> BOOLEAN]
        /\ result' \in [Turns -> {"unsubmitted", "open", "ok", "none"}]
    <3>1. Resolve({t}, "none") \in [Turns -> {"unsubmitted", "open", "ok", "none"}]
      BY ResolveType
    <3>2. CASE CancelPending(t)
      <4>1. PICK l \in Lanes : \E i \in DOMAIN pending[l] :
              /\ pending' = [pending EXCEPT ![l] = RemoveAt(@, i)]
              /\ result' = Resolve({t}, "none")
              /\ UNCHANGED <<mailbox, cancelling>>
        BY <3>2 DEF CancelPending
      <4>2. PICK i \in DOMAIN pending[l] : pending' = [pending EXCEPT ![l] = RemoveAt(@, i)]
        BY <4>1
      <4>3. RemoveAt(pending[l], i) \in Seq(Turns)
        BY <2>1
      <4> QED BY <3>1, <4>1, <4>2, <4>3 DEF TypeOK
    <3>3. CASE CancelInjected(t)
      <4>1. PICK l \in Lanes : \E i \in DOMAIN mailbox[l] :
              /\ mailbox' = [mailbox EXCEPT ![l] = RemoveAt(@, i)]
              /\ result' = Resolve({t}, "none")
              /\ UNCHANGED <<pending, cancelling>>
        BY <3>3 DEF CancelInjected
      <4>2. PICK i \in DOMAIN mailbox[l] : mailbox' = [mailbox EXCEPT ![l] = RemoveAt(@, i)]
        BY <4>1
      <4>3. RemoveAt(mailbox[l], i) \in Seq(Turns)
        BY <2>1
      <4> QED BY <3>1, <4>1, <4>2, <4>3 DEF TypeOK
    <3>4. CASE CancelCurrent(t)
      BY <3>4 DEF CancelCurrent, TypeOK
    <3> QED BY <1>2, <3>2, <3>3, <3>4 DEF CancelTurn
  <2> QED BY <1>2, <2>2 DEF CancelTurn, TypeOK
<1>3. ASSUME NEW c \in Conversations, Stop(c) PROVE TypeOK'
  <2>1. cancelling' \in [Lanes -> BOOLEAN]
    BY <1>3 DEF Stop, CancelRunning, TypeOK
  <2> QED BY <1>3, <2>1, DrainType DEF Stop, TypeOK
<1>4. CASE ShutdownSeals
  BY <1>4 DEF ShutdownSeals, TypeOK, Stages
<1> QED BY <1>1, <1>2, <1>3, <1>4 DEF Client

\* Every step of a lane's worker and payload task preserves the types.
LEMMA LaneType ==
  ASSUME TypeOK, NEW l \in Lanes, LoopStep(l) \/ RunnerStep(l) \/ RunnerDrains(l)
  PROVE  TypeOK'
<1>1. CASE WorkerBegins(l)
  <2>1. pending[l] \in Seq(Turns)
    BY DEF TypeOK
  <2> QED BY <1>1, <2>1, TakeType DEF WorkerBegins, TypeOK
<1>2. CASE WorkerResumes(l)
  <2>1. pending[l] \o mailbox[l] \in Seq(Turns)
    BY ConcatProperties DEF TypeOK
  <2>2. result' \in [Turns -> {"unsubmitted", "open", "ok", "none"}]
    BY <1>2, ResolveType DEF WorkerResumes, TypeOK
  <2>3. mailbox' \in [Lanes -> Seq(Turns)]
    BY <1>2 DEF WorkerResumes, TypeOK
  <2>4. TakeNext(l, pending[l] \o mailbox[l])
    BY <1>2 DEF WorkerResumes
  <2> QED BY <1>2, <2>1, <2>2, <2>3, <2>4, TakeType DEF WorkerResumes, TypeOK
<1> DEFINE p == PoolOf(current[l])
<1>p. p \in Pools
  BY DEF PoolOf, Pools
<1>d. ASSUME Dispatch(l, p), free[p] > 0
      PROVE  /\ free' \in [Pools -> Nat]
             /\ task' \in [Lanes -> TaskStates]
             /\ events' \in [Turns -> Seq(Lifecycle)]
  <2>1. "started" \in Lifecycle
    BY DEF Lifecycle
  <2>2. free[p] - 1 \in Nat
    BY <1>p, <1>d DEF TypeOK
  <2>3. events' \in [Turns -> Seq(Lifecycle)]
    BY <1>d, <2>1, EmitType DEF Dispatch
  <2> QED BY <1>d, <2>2, <2>3 DEF Dispatch, TypeOK, TaskStates
<1>v. ASSUME NEW e \in Lifecycle, NEW v \in {"ok", "none"}, LeavesPool(l, e, v)
      PROVE  /\ free' \in [Pools -> Nat]
             /\ task' \in [Lanes -> TaskStates]
             /\ outcome' \in [Lanes -> {"ok", "none"}]
             /\ events' \in [Turns -> Seq(Lifecycle)]
  <2>1. events' \in [Turns -> Seq(Lifecycle)]
    BY <1>v, EmitType DEF LeavesPool
  <2>2. free' \in [Pools -> Nat]
    BY <1>v, <1>p DEF LeavesPool, Releases, TypeOK
  <2> QED BY <1>v, <2>1, <2>2 DEF LeavesPool, TypeOK, TaskStates
<1>3. CASE TaskBegins(l)
  <2>1. Append(waiters[p], l) \in Seq(Lanes)
    BY <1>p, AppendProperties DEF TypeOK
  <2>2. CASE Dispatch(l, p) /\ free[p] > 0 /\ UNCHANGED waiters
    BY <1>3, <1>d, <2>2 DEF TaskBegins, TypeOK
  <2>3. CASE /\ waiters' = [waiters EXCEPT ![p] = Append(@, l)]
             /\ task' = [task EXCEPT ![l] = "queued"]
             /\ UNCHANGED <<free, events>>
    BY <1>3, <2>1, <2>3 DEF TaskBegins, TypeOK, TaskStates
  <2> QED BY <1>3, <2>2, <2>3 DEF TaskBegins
<1>4. CASE SlotGranted(l)
  <2>1. waiters' \in [Pools -> Seq(Lanes)]
    <3>1. /\ waiters[p] \in Seq(Lanes) /\ waiters[p] # <<>>
          /\ waiters' = [waiters EXCEPT ![p] = Tail(@)]
      BY <1>4, <1>p DEF SlotGranted, TypeOK
    <3>2. Tail(waiters[p]) \in Seq(Lanes)
      BY <3>1, TailElements
    <3> QED BY <3>1, <3>2 DEF TypeOK
  <2> QED BY <1>4, <1>d, <2>1 DEF SlotGranted, TypeOK
<1>5. CASE CancelledBeforeStart(l)
  <2>1. \A i \in DOMAIN waiters[p] : RemoveAt(waiters[p], i) \in Seq(Lanes)
    BY <1>p, RemoveElements DEF TypeOK
  <2>2. waiters' \in [Pools -> Seq(Lanes)]
    <3>1. CASE UNCHANGED waiters
      BY <3>1 DEF TypeOK
    <3>2. CASE \E i \in DOMAIN waiters[p] : waiters' = [waiters EXCEPT ![p] = RemoveAt(@, i)]
      BY <2>1, <3>2 DEF TypeOK
    <3> QED BY <1>5, <3>1, <3>2 DEF CancelledBeforeStart, LeavesQueue
  <2> QED BY <1>5, <2>2 DEF CancelledBeforeStart, TypeOK, TaskStates
<1>6. CASE CancelledAfterStart(l)
  BY <1>6, <1>v DEF CancelledAfterStart, TypeOK, Lifecycle
<1>7. CASE CancelSwallowed(l)
  BY <1>7 DEF CancelSwallowed, TypeOK
<1>8. CASE TerminalSent(l)
  <2>1. result' \in [Turns -> {"unsubmitted", "open", "ok", "none"}]
    BY <1>8, ResolveType DEF TerminalSent, TypeOK
  <2> QED BY <1>8, <2>1 DEF TerminalSent, TypeOK, TaskStates
<1>9. CASE RunnerBegins(l)
  BY <1>9 DEF RunnerBegins, TypeOK, TaskStates
<1>10. CASE RunnerReturns(l)
  <2>1. result' \in [Turns -> {"unsubmitted", "open", "ok", "none"}]
    BY <1>10, ResolveType DEF RunnerReturns
  <2> QED BY <1>10, <1>v, <2>1 DEF RunnerReturns, TypeOK, Lifecycle
<1>11. CASE RunnerRaises(l)
  BY <1>11, <1>v DEF RunnerRaises, TypeOK, Lifecycle
<1>12. CASE RunnerDrains(l)
  <2>1. ToSet(mailbox[l]) \subseteq Turns
    BY DEF ToSet, TypeOK
  <2> QED BY <1>12, <2>1 DEF RunnerDrains, TypeOK
<1> QED BY <1>1, <1>2, <1>3, <1>4, <1>5, <1>6, <1>7, <1>8, <1>9, <1>10, <1>11, <1>12
        DEF LoopStep, RunnerStep

\* The reaper and the shutdown task preserve the types.
LEMMA ServiceType == TypeOK /\ (Sweep \/ ShutdownStep) => TypeOK'
<1> SUFFICES ASSUME TypeOK, Sweep \/ ShutdownStep PROVE TypeOK'
  OBVIOUS
<1>1. CASE Sweep
  BY <1>1 DEF Sweep, TypeOK
<1>2. CASE ShutdownDrains
  BY <1>2, DrainType DEF ShutdownDrains, TypeOK, Stages
<1>3. CASE ShutdownWaits
  BY <1>3 DEF ShutdownWaits, TypeOK, Stages, Registered
<1>4. CASE ShutdownCascades
  BY <1>4 DEF ShutdownCascades, CancelRunning, TypeOK, Stages
<1>5. CASE ShutdownEnds
  BY <1>5 DEF ShutdownEnds, TypeOK, Stages
<1> QED BY <1>1, <1>2, <1>3, <1>4, <1>5 DEF ShutdownStep

\* The types are inductive by themselves.
LEMMA TypeStep == TypeOK /\ [Next]_vars => TypeOK'
<1> SUFFICES ASSUME TypeOK, [Next]_vars PROVE TypeOK'
  OBVIOUS
<1>1. CASE UNCHANGED vars
  BY <1>1 DEF vars, TypeOK
<1>2. CASE Next
  BY <1>2, ClientType, LaneType, ServiceType DEF Next
<1> QED BY <1>1, <1>2

\* The scheduler starts typed.
LEMMA TypeInit == Init => TypeOK
<1> SUFFICES ASSUME Init PROVE TypeOK
  OBVIOUS
<1>1. Capacity \in [Pools -> Nat]
  BY SchedulerAssumption
<1>2. <<>> \in Seq(Turns) /\ <<>> \in Seq(Lanes) /\ <<>> \in Seq(Lifecycle)
  BY EmptySeq
<1>3. /\ registry \in [Conversations -> Lanes \cup {NoLane}]
      /\ current \in [Lanes -> Turns \cup {NoTurn}]
      /\ request \in [Turns -> Requests \cup {NoRequest}]
      /\ task \in [Lanes -> TaskStates] /\ stage \in Stages
  BY DEF Init, TaskStates, Stages
<1> QED BY <1>1, <1>2, <1>3 DEF Init, TypeOK

\* Type correctness: every queue, handle and counter of the scheduler keeps its
\* type; in particular a semaphore is never taken below zero.
THEOREM TypeCorrect == Spec => []TypeOK
BY TypeInit, TypeStep, PTL DEF Spec

-----------------------------------------------------------------------------
(* Facts about the invariant.                                              *)

\* Everything a lane holds is a turn.
LEMMA HeldTurns ==
  ASSUME TypeOK, NEW l \in Lanes
  PROVE  /\ Held(l) \subseteq Turns
         /\ ToSet(pending[l]) \subseteq Turns /\ ToSet(mailbox[l]) \subseteq Turns
         /\ pending[l] \in Seq(Turns) /\ mailbox[l] \in Seq(Turns)
<1>1. pending[l] \in Seq(Turns) /\ mailbox[l] \in Seq(Turns)
  BY DEF TypeOK
<1>2. ToSet(pending[l]) \subseteq Turns /\ ToSet(mailbox[l]) \subseteq Turns
  BY <1>1, ElementOfSeq, LenProperties DEF ToSet
<1>3. chained[l] \subseteq Turns /\ current[l] \in Turns \cup {NoTurn}
  BY DEF TypeOK
<1> QED BY <1>1, <1>2, <1>3 DEF Held

\* No turn is held by two lanes.
LEMMA HeldOnce ==
  ASSUME KeepingInv, NEW l \in Lanes, NEW m \in Lanes, l # m
  PROVE  Held(l) \cap Held(m) = {}
BY HeldTurns DEF KeepingInv, HeldIsOpen

-----------------------------------------------------------------------------
(* The shape every step has: lanes give up turns, and those are settled.   *)

\* If the lanes hold what they held without S, and exactly the open turns of S
\* settle, then the lanes still hold the open turns.
LEMMA SettlingKeeps ==
  ASSUME KeepingInv, TypeOK', NEW S, NEW v \in {"ok", "none"},
         \A l \in Lanes : Held(l)' = Held(l) \ S,
         result' = Resolve(S, v), UNCHANGED <<registry, request>>,
         \A l \in Lanes : (PlacesApart(l) /\ LaneFits(l))'
  PROVE  KeepingInv'
<1>1. \A t \in Turns : result'[t] = IF t \in S /\ result[t] = "open" THEN v ELSE result[t]
  BY DEF Resolve
<1>2. HeldIsOpen'
  <2>1. SUFFICES ASSUME NEW l \in Lanes, NEW t \in Turns, t \in Held(l)'
                 PROVE  result'[t] = "open" /\ registry[request[t].conversation] = l
    BY DEF HeldIsOpen
  <2>2. t \in Held(l) /\ t \notin S
    BY <2>1
  <2> QED BY <1>1, <2>2 DEF KeepingInv, HeldIsOpen
<1>3. OpenIsHeld'
  <2>1. SUFFICES ASSUME NEW t \in Turns, result'[t] = "open"
                 PROVE  \E l \in Lanes : t \in Held(l)'
    BY DEF OpenIsHeld
  <2>2. result[t] = "open" /\ t \notin S
    BY <1>1, <2>1
  <2>3. PICK l \in Lanes : t \in Held(l)
    BY <2>2 DEF KeepingInv, OpenIsHeld
  <2> QED BY <2>2, <2>3
<1>4. SubmittedHasRequest'
  BY <1>1 DEF KeepingInv, SubmittedHasRequest
<1>5. OneConversationPerLane'
  BY DEF KeepingInv, OneConversationPerLane
<1> QED BY <1>2, <1>3, <1>4, <1>5 DEF KeepingInv

\* What a step leaves of a lane it does not touch.
Untouched(m) ==
  /\ pending'[m] = pending[m] /\ mailbox'[m] = mailbox[m] /\ chained'[m] = chained[m]
  /\ current'[m] = current[m] /\ task'[m] = task[m] /\ worker'[m] = worker[m]
  /\ idle'[m] = idle[m] /\ cancelling'[m] = cancelling[m]

\* An untouched lane keeps its part of the invariant.
LEMMA UntouchedKeeps ==
  ASSUME NEW m \in Lanes, Untouched(m), PlacesApart(m), LaneFits(m)
  PROVE  (PlacesApart(m) /\ LaneFits(m))' /\ Held(m)' = Held(m)
BY DEF Untouched, PlacesApart, LaneFits, Held, Live

\* A step of one lane that settles turns it held.
LEMMA LaneSettling ==
  ASSUME KeepingInv, TypeOK', NEW l \in Lanes, NEW S, S \subseteq Held(l),
         NEW v \in {"ok", "none"},
         Held(l)' = Held(l) \ S,
         result' = Resolve(S, v), UNCHANGED <<registry, request>>,
         (PlacesApart(l) /\ LaneFits(l))',
         \A m \in Lanes \ {l} : Untouched(m)
  PROVE  KeepingInv'
<1>1. ASSUME NEW m \in Lanes
      PROVE  Held(m)' = Held(m) \ S /\ (PlacesApart(m) /\ LaneFits(m))'
  <2>1. CASE m = l
    BY <2>1
  <2>2. CASE m # l
    <3>1. (PlacesApart(m) /\ LaneFits(m))' /\ Held(m)' = Held(m)
      BY <2>2, UntouchedKeeps DEF KeepingInv
    <3>2. Held(l) \cap Held(m) = {}
      BY <2>2, HeldOnce
    <3> QED BY <3>1, <3>2
  <2> QED BY <2>1, <2>2
<1> QED BY <1>1, SettlingKeeps

\* A step of one lane that settles nothing.
LEMMA LaneQuiet ==
  ASSUME KeepingInv, TypeOK', NEW l \in Lanes,
         Held(l)' = Held(l), UNCHANGED <<result, registry, request>>,
         (PlacesApart(l) /\ LaneFits(l))',
         \A m \in Lanes \ {l} : Untouched(m)
  PROVE  KeepingInv'
<1>1. result' = Resolve({}, "none")
  BY DEF KeepingInv, TypeOK, Resolve
<1> QED BY <1>1, LaneSettling

-----------------------------------------------------------------------------
(* The steps of the worker.                                                *)

\* Taking the next turn from a queue moves one turn from the queue to
\* execution, or retires the worker.
LEMMA TakeKeeps ==
  ASSUME TypeOK, NEW l \in Lanes, NEW q \in Seq(Turns), IsInjective(q), TakeNext(l, q),
         mailbox'[l] = <<>>, chained'[l] = {}, ~cancelling'[l]
  PROVE  /\ Held(l)' = ToSet(q)
         /\ q = <<>> \/ ~idle[l] => (PlacesApart(l) /\ LaneFits(l))'
<1>1. CASE q = <<>>
  <2>1. /\ pending'[l] = <<>> /\ worker'[l] = "absent" /\ idle'[l] = TRUE
        /\ current'[l] = NoTurn /\ task'[l] = "absent"
    BY <1>1 DEF TakeNext, TypeOK
  <2>2. Held(l)' = {}
    BY <2>1, EmptyElements DEF Held
  <2>3. PlacesApart(l)' /\ LaneFits(l)'
    BY <2>1, EmptyElements DEF PlacesApart, LaneFits, Live
  <2> QED BY <1>1, <2>2, <2>3, EmptyElements
<1>2. CASE q # <<>>
  <2> DEFINE h == Head(q)
             r == Tail(q)
  <2>1. /\ pending'[l] = r /\ worker'[l] = "awaiting" /\ idle'[l] = idle[l]
        /\ current'[l] = h /\ task'[l] = "created"
    BY <1>2 DEF TakeNext, TypeOK
  <2>2. /\ h \in Turns /\ ToSet(q) = ToSet(r) \cup {h}
        /\ IsInjective(r) /\ h \notin ToSet(r)
    BY <1>2, TailElements
  <2> HIDE DEF h, r
  <2>3. h # NoTurn
    BY <2>2, SchedulerAssumption
  <2>4. Held(l)' = ToSet(q)
    BY <2>1, <2>2, <2>3, EmptyElements DEF Held
  <2>5. ASSUME ~idle[l] PROVE PlacesApart(l)' /\ LaneFits(l)'
    BY <2>1, <2>2, <2>3, <2>5, EmptyElements DEF PlacesApart, LaneFits, Live
  <2> QED BY <1>2, <2>4, <2>5
<1> QED BY <1>1, <1>2

\* Taking a turn in one lane leaves the others alone.
LEMMA TakeUntouched ==
  ASSUME TypeOK, NEW l \in Lanes, NEW q, TakeNext(l, q), NEW m \in Lanes \ {l}
  PROVE  /\ pending'[m] = pending[m] /\ worker'[m] = worker[m] /\ idle'[m] = idle[m]
         /\ current'[m] = current[m] /\ task'[m] = task[m]
BY DEF TakeNext, TypeOK

\* A new worker starts on the queue.
LEMMA WorkerBeginsKeeps ==
  ASSUME KeepingInv, TypeOK', NEW l \in Lanes, WorkerBegins(l)
  PROVE  KeepingInv'
<1>1. /\ worker[l] = "created" /\ TakeNext(l, pending[l])
      /\ UNCHANGED <<registry, mailbox, cancelling, chained, request, result>>
  BY DEF WorkerBegins
<1>2. /\ task[l] = "absent" /\ current[l] = NoTurn /\ mailbox[l] = <<>>
      /\ chained[l] = {} /\ ~idle[l] /\ cancelling[l] = FALSE /\ IsInjective(pending[l])
  <2>1. LaneFits(l) /\ IsInjective(pending[l]) /\ cancelling[l] \in BOOLEAN
    BY DEF KeepingInv, PlacesApart, TypeOK
  <2>2. task[l] = "absent" /\ current[l] = NoTurn /\ mailbox[l] = <<>> /\ ~idle[l]
    BY <1>1, <2>1 DEF LaneFits
  <2> QED BY <2>1, <2>2 DEF LaneFits, Live
<1>3. pending[l] \in Seq(Turns)
  BY DEF KeepingInv, TypeOK
<1>4. Held(l) = ToSet(pending[l])
  BY <1>2, EmptyElements DEF Held
<1>5. Held(l)' = ToSet(pending[l]) /\ (PlacesApart(l) /\ LaneFits(l))'
  BY <1>1, <1>2, <1>3, TakeKeeps DEF KeepingInv
<1>6. \A m \in Lanes \ {l} : Untouched(m)
  BY <1>1, TakeUntouched DEF Untouched, KeepingInv, TypeOK
<1> QED BY <1>1, <1>4, <1>5, <1>6, LaneQuiet

\* The worker settles the turn that ran, puts the injects left over behind the
\* queue and takes the next turn.
LEMMA WorkerResumesKeeps ==
  ASSUME KeepingInv, TypeOK', NEW l \in Lanes, WorkerResumes(l)
  PROVE  KeepingInv'
<1> DEFINE q == pending[l] \o mailbox[l]
<1>1. /\ worker[l] = "awaiting" /\ task[l] = "done" /\ TakeNext(l, q)
      /\ result' = Resolve({current[l]}, outcome[l])
      /\ mailbox' = [mailbox EXCEPT ![l] = <<>>]
      /\ UNCHANGED <<registry, cancelling, chained, request>>
  BY DEF WorkerResumes
<1>2. /\ current[l] # NoTurn /\ chained[l] = {} /\ ~idle[l] /\ cancelling[l] = FALSE
      /\ PlacesApart(l)
  <2>1. LaneFits(l) /\ PlacesApart(l) /\ cancelling[l] \in BOOLEAN
    BY DEF KeepingInv, TypeOK
  <2>2. current[l] # NoTurn /\ ~idle[l]
    BY <1>1, <2>1 DEF LaneFits
  <2> QED BY <1>1, <2>1, <2>2 DEF LaneFits, Live
<1>3. outcome[l] \in {"ok", "none"} /\ mailbox \in [Lanes -> Seq(Turns)] /\ TypeOK
  BY DEF KeepingInv, TypeOK
<1>4. q \in Seq(Turns) /\ IsInjective(q) /\ ToSet(q) = ToSet(pending[l]) \cup ToSet(mailbox[l])
  BY <1>2, HeldTurns, ConcatElements DEF KeepingInv, PlacesApart
<1>5. Held(l) \ {current[l]} = ToSet(q) /\ current[l] \in Held(l)
  BY <1>2, <1>4 DEF Held, PlacesApart
<1> HIDE DEF q
<1>6. mailbox'[l] = <<>> /\ chained'[l] = {} /\ ~cancelling'[l]
  BY <1>1, <1>2, <1>3
<1>7. Held(l)' = ToSet(q) /\ (PlacesApart(l) /\ LaneFits(l))'
  BY <1>1, <1>2, <1>3, <1>4, <1>6, TakeKeeps
<1>8. \A m \in Lanes \ {l} : Untouched(m)
  BY <1>1, <1>3, TakeUntouched DEF Untouched
<1>9. Held(l)' = Held(l) \ {current[l]} /\ {current[l]} \subseteq Held(l)
  BY <1>5, <1>7
<1> QED BY <1>1, <1>3, <1>7, <1>8, <1>9, LaneSettling

-----------------------------------------------------------------------------
(* The steps of the payload task.                                          *)

\* A step that only moves a lane's task on to another state of its life.
LEMMA TaskKeeps ==
  ASSUME KeepingInv, TypeOK', NEW l \in Lanes, task[l] # "absent", task'[l] # "absent",
         chained[l] # {} => task'[l] \in {"running", "emitting"},
         cancelling'[l] => task'[l] # "done",
         \A m \in Lanes \ {l} : task'[m] = task[m] /\ cancelling'[m] = cancelling[m],
         UNCHANGED <<registry, queueVars, workerVars, chained, request, result>>
  PROVE  KeepingInv'
<1>1. PlacesApart(l) /\ LaneFits(l)
  BY DEF KeepingInv
<1>2. Held(l)' = Held(l) /\ PlacesApart(l)'
  BY <1>1 DEF Held, PlacesApart
<1>3. LaneFits(l)'
  BY <1>1 DEF LaneFits, Live
<1>4. \A m \in Lanes \ {l} : Untouched(m)
  BY DEF Untouched
<1> QED BY <1>2, <1>3, <1>4, LaneQuiet

\* The acquire of a slot, with or without waiting.
LEMMA AcquireKeeps ==
  ASSUME KeepingInv, TypeOK', NEW l \in Lanes, TaskBegins(l) \/ SlotGranted(l)
  PROVE  KeepingInv'
<1>1. /\ task[l] \in {"created", "queued"} /\ ~cancelling[l] /\ UNCHANGED cancelling
      /\ UNCHANGED <<registry, queueVars, workerVars, chained, request, result>>
      /\ \/ task' = [task EXCEPT ![l] = "starting"]
         \/ task' = [task EXCEPT ![l] = "queued"]
  BY DEF TaskBegins, SlotGranted, Dispatch
<1>2. chained[l] = {} /\ task \in [Lanes -> TaskStates]
  BY <1>1 DEF KeepingInv, LaneFits, TypeOK
<1>3. /\ task[l] # "absent" /\ task'[l] # "absent"
      /\ \A m \in Lanes \ {l} : task'[m] = task[m]
  BY <1>1, <1>2
<1> QED BY <1>1, <1>2, <1>3, TaskKeeps

\* The runner is entered, or the turn leaves its pool without a result.
LEMMA RunKeeps ==
  ASSUME KeepingInv, TypeOK', NEW l \in Lanes,
         RunnerBegins(l) \/ RunnerRaises(l) \/ CancelledAfterStart(l) \/ CancelSwallowed(l)
  PROVE  KeepingInv'
<1>1. /\ task[l] \in {"starting", "running", "emitting"} /\ ~cancelling'[l]
      /\ \A m \in Lanes \ {l} : cancelling'[m] = cancelling[m]
      /\ UNCHANGED <<registry, queueVars, workerVars, chained, request, result>>
      /\ \/ task' = [task EXCEPT ![l] = "running"]
         \/ task' = [task EXCEPT ![l] = "emitting"]
         \/ task[l] = "emitting" /\ UNCHANGED task
  BY DEF RunnerBegins, RunnerRaises, CancelledAfterStart, CancelSwallowed, LeavesPool,
         HoldsSlot, KeepingInv, TypeOK
<1>2. task \in [Lanes -> TaskStates]
  BY DEF KeepingInv, TypeOK
<1>3. /\ task[l] # "absent" /\ task'[l] \in {"running", "emitting"}
      /\ \A m \in Lanes \ {l} : task'[m] = task[m]
  BY <1>1, <1>2
<1> QED BY <1>1, <1>3, TaskKeeps

\* A cancel before the start ends the task at once.
LEMMA CancelledBeforeStartKeeps ==
  ASSUME KeepingInv, TypeOK', NEW l \in Lanes, CancelledBeforeStart(l)
  PROVE  KeepingInv'
<1>1. /\ task[l] \in {"created", "queued"} /\ task' = [task EXCEPT ![l] = "done"]
      /\ cancelling' = [cancelling EXCEPT ![l] = FALSE]
      /\ UNCHANGED <<registry, queueVars, workerVars, chained, request, result>>
  BY DEF CancelledBeforeStart
<1>2. /\ chained[l] = {} /\ task \in [Lanes -> TaskStates]
      /\ cancelling \in [Lanes -> BOOLEAN]
  BY <1>1 DEF KeepingInv, LaneFits, TypeOK
<1>3. /\ task[l] # "absent" /\ task'[l] # "absent" /\ ~cancelling'[l]
      /\ \A m \in Lanes \ {l} : task'[m] = task[m] /\ cancelling'[m] = cancelling[m]
  BY <1>1, <1>2
<1> QED BY <1>1, <1>2, <1>3, TaskKeeps

\* The end of the run, or of the terminal event, settles the merged injects.
LEMMA MergedSettleKeeps ==
  ASSUME KeepingInv, TypeOK', NEW l \in Lanes, RunnerReturns(l) \/ TerminalSent(l)
  PROVE  KeepingInv'
<1>1. PICK v \in {"ok", "none"} : result' = Resolve(chained[l], v)
  BY DEF RunnerReturns, TerminalSent, KeepingInv, TypeOK
<1>2. /\ task[l] \in {"running", "emitting"} /\ chained' = [chained EXCEPT ![l] = {}]
      /\ UNCHANGED <<registry, queueVars, workerVars, request>>
      /\ \/ task' = [task EXCEPT ![l] = "emitting"]
         \/ task' = [task EXCEPT ![l] = "done"]
      /\ ~cancelling'[l] /\ \A m \in Lanes \ {l} : cancelling'[m] = cancelling[m]
  BY DEF RunnerReturns, TerminalSent, LeavesPool, KeepingInv, TypeOK
<1>3. /\ task \in [Lanes -> TaskStates] /\ chained \in [Lanes -> SUBSET Turns]
      /\ PlacesApart(l) /\ LaneFits(l)
  BY DEF KeepingInv, TypeOK
<1>4. /\ chained'[l] = {} /\ task'[l] \in {"emitting", "done"}
      /\ \A m \in Lanes \ {l} : task'[m] = task[m] /\ chained'[m] = chained[m]
  BY <1>2, <1>3
<1>5. Held(l)' = Held(l) \ chained[l] /\ chained[l] \subseteq Held(l)
  BY <1>2, <1>3, <1>4 DEF Held, PlacesApart
<1>6. PlacesApart(l)' /\ LaneFits(l)'
  BY <1>2, <1>3, <1>4 DEF PlacesApart, LaneFits, Live
<1>7. \A m \in Lanes \ {l} : Untouched(m)
  BY <1>2, <1>4 DEF Untouched
<1> QED BY <1>1, <1>2, <1>5, <1>6, <1>7, LaneSettling

\* drain() moves the mailbox into the running turn.
LEMMA RunnerDrainsKeeps ==
  ASSUME KeepingInv, TypeOK', NEW l \in Lanes, RunnerDrains(l)
  PROVE  KeepingInv'
<1>1. /\ task[l] = "running"
      /\ chained' = [chained EXCEPT ![l] = @ \cup ToSet(mailbox[l])]
      /\ mailbox' = [mailbox EXCEPT ![l] = <<>>]
      /\ UNCHANGED <<registry, pending, workerVars, task, cancelling, request, result>>
  BY DEF RunnerDrains
<1>2. /\ mailbox \in [Lanes -> Seq(Turns)] /\ chained \in [Lanes -> SUBSET Turns]
      /\ PlacesApart(l) /\ LaneFits(l)
  BY DEF KeepingInv, TypeOK
<1>3. /\ chained'[l] = chained[l] \cup ToSet(mailbox[l]) /\ mailbox'[l] = <<>>
      /\ \A m \in Lanes \ {l} : mailbox'[m] = mailbox[m] /\ chained'[m] = chained[m]
  BY <1>1, <1>2
<1>4. Held(l)' = Held(l)
  BY <1>1, <1>3, EmptyElements DEF Held
<1>5. PlacesApart(l)'
  BY <1>1, <1>2, <1>3, EmptyElements DEF PlacesApart
<1>6. LaneFits(l)'
  BY <1>1, <1>2, <1>3 DEF LaneFits, Live
<1>7. \A m \in Lanes \ {l} : Untouched(m)
  BY <1>1, <1>3 DEF Untouched
<1> QED BY <1>1, <1>4, <1>5, <1>6, <1>7, LaneQuiet

-----------------------------------------------------------------------------
(* The calls of the clients.                                               *)

\* A turn cancelled before it runs leaves its queue and settles.
LEMMA CancelPendingKeeps ==
  ASSUME KeepingInv, TypeOK', NEW t \in Turns, CancelPending(t),
         UNCHANGED <<registry, workerVars, task, chained, request>>
  PROVE  KeepingInv'
<1>1. PICK l \in Lanes : \E i \in DOMAIN pending[l] :
        /\ pending[l][i] = t
        /\ pending' = [pending EXCEPT ![l] = RemoveAt(@, i)]
  BY DEF CancelPending
<1>2. PICK i \in DOMAIN pending[l] :
        pending[l][i] = t /\ pending' = [pending EXCEPT ![l] = RemoveAt(@, i)]
  BY <1>1
<1> DEFINE r == RemoveAt(pending[l], i)
<1>3. /\ pending[l] \in Seq(Turns) /\ pending \in [Lanes -> Seq(Turns)]
      /\ PlacesApart(l) /\ LaneFits(l)
  BY DEF KeepingInv, TypeOK
<1>4. ToSet(pending[l]) = ToSet(r) \cup {t} /\ IsInjective(r) /\ t \notin ToSet(r)
  BY <1>2, <1>3, RemoveElements DEF PlacesApart
<1>5. pending'[l] = r /\ \A m \in Lanes \ {l} : pending'[m] = pending[m]
  BY <1>2, <1>3
<1>6. result' = Resolve({t}, "none") /\ UNCHANGED <<mailbox, cancelling>>
  BY DEF CancelPending
<1>7. pending[l] # <<>>
  BY <1>4, EmptyElements
<1> HIDE DEF r
<1>8. Held(l)' = Held(l) \ {t} /\ {t} \subseteq Held(l)
  BY <1>3, <1>4, <1>5, <1>6 DEF Held, PlacesApart
<1>9. PlacesApart(l)' /\ LaneFits(l)'
  BY <1>3, <1>4, <1>5, <1>6, <1>7 DEF PlacesApart, LaneFits, Live
<1>10. \A m \in Lanes \ {l} : Untouched(m)
  BY <1>5, <1>6 DEF Untouched
<1> QED BY <1>6, <1>8, <1>9, <1>10, LaneSettling

\* So does an inject cancelled before it is drained.
LEMMA CancelInjectedKeeps ==
  ASSUME KeepingInv, TypeOK', NEW t \in Turns, CancelInjected(t),
         UNCHANGED <<registry, workerVars, task, chained, request>>
  PROVE  KeepingInv'
<1>1. PICK l \in Lanes : \E i \in DOMAIN mailbox[l] :
        /\ mailbox[l][i] = t
        /\ mailbox' = [mailbox EXCEPT ![l] = RemoveAt(@, i)]
  BY DEF CancelInjected
<1>2. PICK i \in DOMAIN mailbox[l] :
        mailbox[l][i] = t /\ mailbox' = [mailbox EXCEPT ![l] = RemoveAt(@, i)]
  BY <1>1
<1> DEFINE r == RemoveAt(mailbox[l], i)
<1>3. /\ mailbox[l] \in Seq(Turns) /\ mailbox \in [Lanes -> Seq(Turns)]
      /\ PlacesApart(l) /\ LaneFits(l)
  BY DEF KeepingInv, TypeOK
<1>4. ToSet(mailbox[l]) = ToSet(r) \cup {t} /\ IsInjective(r) /\ t \notin ToSet(r)
  BY <1>2, <1>3, RemoveElements DEF PlacesApart
<1>5. mailbox'[l] = r /\ \A m \in Lanes \ {l} : mailbox'[m] = mailbox[m]
  BY <1>2, <1>3
<1>6. result' = Resolve({t}, "none") /\ UNCHANGED <<pending, cancelling>>
  BY DEF CancelInjected
<1>7. mailbox[l] # <<>>
  BY <1>4, EmptyElements
<1> HIDE DEF r
<1>8. Held(l)' = Held(l) \ {t} /\ {t} \subseteq Held(l)
  BY <1>3, <1>4, <1>5, <1>6 DEF Held, PlacesApart
<1>9. PlacesApart(l)' /\ LaneFits(l)'
  BY <1>3, <1>4, <1>5, <1>6, <1>7 DEF PlacesApart, LaneFits, Live
<1>10. \A m \in Lanes \ {l} : Untouched(m)
  BY <1>5, <1>6 DEF Untouched
<1> QED BY <1>6, <1>8, <1>9, <1>10, LaneSettling

\* A cancel of the running turn only marks its task.
LEMMA CancelCurrentKeeps ==
  ASSUME KeepingInv, TypeOK', NEW t \in Turns, CancelCurrent(t),
         UNCHANGED <<registry, workerVars, task, chained, request>>
  PROVE  KeepingInv'
<1>1. PICK l \in Lanes : /\ Live(l) /\ cancelling' = [cancelling EXCEPT ![l] = TRUE]
                         /\ UNCHANGED <<queueVars, result>>
  BY DEF CancelCurrent
<1>2. PlacesApart(l) /\ LaneFits(l) /\ cancelling \in [Lanes -> BOOLEAN]
  BY DEF KeepingInv, TypeOK
<1>3. Held(l)' = Held(l) /\ PlacesApart(l)' /\ LaneFits(l)'
  BY <1>1, <1>2 DEF Held, PlacesApart, LaneFits, Live
<1>4. \A m \in Lanes \ {l} : Untouched(m)
  BY <1>1, <1>2 DEF Untouched
<1> QED BY <1>1, <1>3, <1>4, LaneQuiet

\* Draining some lanes, with or without marking their tasks, settles what
\* waits there.
LEMMA DrainKeeps ==
  ASSUME KeepingInv, TypeOK', NEW L \in SUBSET Lanes, Drain(L),
         CancelRunning(L) \/ UNCHANGED cancelling,
         UNCHANGED <<registry, workerVars, task, chained, request>>
  PROVE  KeepingInv'
<1> DEFINE Waiting(l) == ToSet(pending[l]) \cup ToSet(mailbox[l])
           S == UNION {Waiting(l) : l \in L}
<1>1. result' = Resolve(S, "none")
  BY DEF Drain
<1>2. ASSUME NEW l \in Lanes
      PROVE  Held(l)' = Held(l) \ S /\ (PlacesApart(l) /\ LaneFits(l))'
  <2>1. PlacesApart(l) /\ LaneFits(l)
    BY DEF KeepingInv
  <2>2. /\ pending'[l] = IF l \in L THEN <<>> ELSE pending[l]
        /\ mailbox'[l] = IF l \in L THEN <<>> ELSE mailbox[l]
    BY DEF Drain
  <2>3. cancelling'[l] => cancelling[l] \/ Live(l)
    BY DEF CancelRunning, KeepingInv, TypeOK
  <2>4. PlacesApart(l)' /\ LaneFits(l)'
    BY <2>1, <2>2, <2>3, EmptyElements DEF PlacesApart, LaneFits, Live
  <2>5. ASSUME NEW m \in L, m # l PROVE Waiting(m) \cap Held(l) = {}
    <3>1. Waiting(m) \subseteq Held(m)
      BY DEF Held
    <3> QED BY <2>5, <3>1, HeldOnce
  <2>6. CASE l \in L
    <3>1. Held(l)' = Held(l) \ Waiting(l)
      BY <2>1, <2>2, <2>6, EmptyElements DEF Held, PlacesApart
    <3>2. S \cap Held(l) = Waiting(l)
      <4>1. Waiting(l) \subseteq Held(l) /\ Waiting(l) \subseteq S
        BY <2>6 DEF Held
      <4> HIDE DEF Waiting
      <4> QED BY <2>5, <4>1
    <3> HIDE DEF S, Waiting
    <3> QED BY <2>4, <3>1, <3>2
  <2>7. CASE l \notin L
    <3>1. Held(l)' = Held(l)
      BY <2>2, <2>7 DEF Held
    <3>2. S \cap Held(l) = {}
      <4> HIDE DEF Waiting
      <4> QED BY <2>5, <2>7
    <3> HIDE DEF S
    <3> QED BY <2>4, <3>1, <3>2
  <2> QED BY <2>6, <2>7
<1> HIDE DEF S
<1> QED BY <1>1, <1>2, SettlingKeeps

\* A lane nobody refers to holds nothing.
LEMMA UnusedHoldsNothing ==
  ASSUME KeepingInv, NEW l \in Lanes, Unused(l)
  PROVE  Held(l) = {}
BY EmptyElements DEF Held, Unused, KeepingInv, LaneFits

\* Whichever way a lane takes a new turn, it then holds that turn as well.
LEMMA LaneSubmitKeeps ==
  ASSUME KeepingInv, NEW l \in Lanes, NEW t \in Turns, t \notin Held(l),
         NEW busy, LaneSubmit(l, t, busy)
  PROVE  /\ Held(l)' = Held(l) \cup {t}
         /\ (PlacesApart(l) /\ LaneFits(l))'
         /\ \A m \in Lanes \ {l} : Untouched(m)
<1>1. /\ PlacesApart(l) /\ LaneFits(l)
      /\ pending \in [Lanes -> Seq(Turns)] /\ mailbox \in [Lanes -> Seq(Turns)]
      /\ worker \in [Lanes -> {"absent", "created", "awaiting"}]
      /\ cancelling \in [Lanes -> BOOLEAN] /\ idle \in [Lanes -> BOOLEAN]
  BY DEF KeepingInv, TypeOK
<1>2. /\ idle'[l] = FALSE /\ \A m \in Lanes \ {l} : idle'[m] = idle[m]
      /\ UNCHANGED <<current, task, chained>>
  BY <1>1 DEF LaneSubmit
<1>3. t # NoTurn /\ t \notin ToSet(pending[l]) \cup ToSet(mailbox[l]) \cup chained[l]
      /\ t # current[l]
  BY SchedulerAssumption DEF Held
<1>4. CASE LaneInterrupt(l, t)
  <2> DEFINE q == <<t>> \o pending[l]
  <2>1. /\ Live(l) /\ cancelling'[l] = TRUE /\ pending'[l] = q /\ UNCHANGED mailbox
        /\ worker'[l] = (IF worker[l] = "absent" THEN "created" ELSE worker[l])
        /\ \A m \in Lanes \ {l} : /\ pending'[m] = pending[m] /\ worker'[m] = worker[m]
                                  /\ cancelling'[m] = cancelling[m]
    BY <1>1, <1>4 DEF LaneInterrupt, StartWorker
  <2>2. <<t>> \in Seq(Turns) /\ ToSet(<<t>>) = {t} /\ IsInjective(<<t>>)
    BY DEF ToSet, IsInjective
  <2>3. ToSet(q) = ToSet(pending[l]) \cup {t} /\ IsInjective(q)
    <3>1. pending[l] \in Seq(Turns)
      BY <1>1
    <3>2. /\ ToSet(q) = ToSet(<<t>>) \cup ToSet(pending[l])
          /\ IsInjective(<<t>>) /\ IsInjective(pending[l])
             /\ ToSet(<<t>>) \cap ToSet(pending[l]) = {} => IsInjective(q)
      <4> DEFINE s == <<t>>
      <4>1. s \in Seq(Turns)
        BY <2>2
      <4> HIDE DEF s
      <4>2. /\ ToSet(s \o pending[l]) = ToSet(s) \cup ToSet(pending[l])
            /\ IsInjective(s) /\ IsInjective(pending[l])
               /\ ToSet(s) \cap ToSet(pending[l]) = {} => IsInjective(s \o pending[l])
        BY <3>1, <4>1, ConcatElements
      <4> QED BY <4>2 DEF s
    <3> HIDE DEF q
    <3> QED BY <1>1, <1>3, <2>2, <3>2 DEF PlacesApart
  <2>4. q # <<>>
    BY <2>3, EmptyElements
  <2> HIDE DEF q
  <2>5. Held(l)' = Held(l) \cup {t} /\ PlacesApart(l)'
    BY <1>1, <1>2, <1>3, <2>1, <2>3 DEF Held, PlacesApart
  <2>6. LaneFits(l)'
    BY <1>1, <1>2, <2>1, <2>4 DEF LaneFits, Live
  <2> QED BY <1>2, <2>1, <2>5, <2>6 DEF Untouched
<1>5. CASE LaneInject(l, t)
  <2> DEFINE q == Append(mailbox[l], t)
  <2>1. /\ Live(l) /\ mailbox'[l] = q /\ UNCHANGED <<pending, worker, cancelling>>
        /\ \A m \in Lanes \ {l} : mailbox'[m] = mailbox[m]
    BY <1>1, <1>5 DEF LaneInject
  <2>2. ToSet(q) = ToSet(mailbox[l]) \cup {t} /\ IsInjective(q)
    BY <1>1, <1>3, AppendElements DEF PlacesApart
  <2> HIDE DEF q
  <2>3. Held(l)' = Held(l) \cup {t} /\ PlacesApart(l)'
    BY <1>1, <1>2, <1>3, <2>1, <2>2 DEF Held, PlacesApart
  <2>4. LaneFits(l)'
    BY <1>1, <1>2, <2>1 DEF LaneFits, Live
  <2> QED BY <1>2, <2>1, <2>3, <2>4 DEF Untouched
<1>6. CASE LaneAppend(l, t)
  <2> DEFINE q == Append(pending[l], t)
  <2>1. /\ pending'[l] = q /\ UNCHANGED <<mailbox, cancelling>>
        /\ worker'[l] = (IF worker[l] = "absent" THEN "created" ELSE worker[l])
        /\ \A m \in Lanes \ {l} : pending'[m] = pending[m] /\ worker'[m] = worker[m]
    BY <1>1, <1>6 DEF LaneAppend, StartWorker
  <2>2. ToSet(q) = ToSet(pending[l]) \cup {t} /\ IsInjective(q)
    BY <1>1, <1>3, AppendElements DEF PlacesApart
  <2>3. q # <<>>
    BY <2>2, EmptyElements
  <2> HIDE DEF q
  <2>4. Held(l)' = Held(l) \cup {t} /\ PlacesApart(l)'
    BY <1>1, <1>2, <1>3, <2>1, <2>2 DEF Held, PlacesApart
  <2>5. LaneFits(l)'
    BY <1>1, <1>2, <2>1, <2>3 DEF LaneFits, Live
  <2> QED BY <1>2, <2>1, <2>4, <2>5 DEF Untouched
<1> QED BY <1>4, <1>5, <1>6 DEF LaneSubmit

\* A submitted turn is held by the lane of its conversation, an old or a new one.
LEMMA SubmitKeeps ==
  ASSUME KeepingInv, TypeOK', NEW t \in Turns, NEW req \in Requests, Submit(t, req)
  PROVE  KeepingInv'
<1> DEFINE c == req.conversation
<1>1. c \in Conversations
  BY SchedulerAssumption
<1>2. PICK l \in Lanes :
        /\ registry[c] = l \/ (registry[c] = NoLane /\ Unused(l))
        /\ registry' = [registry EXCEPT ![c] = l]
        /\ LaneSubmit(l, t, EffectiveBusy(req))
  BY DEF Submit
<1>3. /\ result[t] = "unsubmitted"
      /\ request' = [request EXCEPT ![t] = req]
      /\ result' = [result EXCEPT ![t] = "open"]
  BY DEF Submit
<1>4. /\ result'[t] = "open" /\ request'[t] = req /\ registry'[c] = l
      /\ \A u \in Turns \ {t} : result'[u] = result[u] /\ request'[u] = request[u]
      /\ \A d \in Conversations \ {c} : registry'[d] = registry[d]
  BY <1>1, <1>2, <1>3 DEF KeepingInv, TypeOK
<1>5. \A m \in Lanes : t \notin Held(m)
  BY <1>3 DEF KeepingInv, HeldIsOpen
<1>6. /\ Held(l)' = Held(l) \cup {t} /\ (PlacesApart(l) /\ LaneFits(l))'
      /\ \A m \in Lanes \ {l} : Untouched(m)
  BY <1>2, <1>5, LaneSubmitKeeps
<1>7. \A m \in Lanes \ {l} : (PlacesApart(m) /\ LaneFits(m))' /\ Held(m)' = Held(m)
  BY <1>6, UntouchedKeeps DEF KeepingInv
<1>8. \A u \in Turns : result[u] # "unsubmitted" =>
        request[u].conversation \in Conversations
  BY SchedulerAssumption DEF KeepingInv, SubmittedHasRequest
<1>9. Held(l) = {} \/ registry[c] = l
  BY <1>2, UnusedHoldsNothing
<1>10. HeldIsOpen'
  <2>1. SUFFICES ASSUME NEW m \in Lanes, NEW u \in Turns, u \in Held(m)'
                 PROVE  result'[u] = "open" /\ registry'[request'[u].conversation] = m
    BY DEF HeldIsOpen
  <2>2. CASE u = t
    <3>1. m = l
      BY <1>5, <1>7, <2>1, <2>2
    <3> QED BY <1>4, <2>2, <3>1
  <2>3. CASE u # t
    <3>1. u \in Held(m)
      BY <1>6, <1>7, <2>1, <2>3
    <3>2. result[u] = "open" /\ registry[request[u].conversation] = m
      BY <3>1 DEF KeepingInv, HeldIsOpen
    <3>3. request[u].conversation = c => m = l
      BY <1>2, <1>9, <3>2, SchedulerAssumption
    <3>4. request[u].conversation \in Conversations
      BY <1>8, <3>2
    <3> QED BY <1>4, <2>3, <3>2, <3>3, <3>4
  <2> QED BY <2>2, <2>3
<1>11. OpenIsHeld'
  <2>1. SUFFICES ASSUME NEW u \in Turns, result'[u] = "open"
                 PROVE  \E m \in Lanes : u \in Held(m)'
    BY DEF OpenIsHeld
  <2>2. CASE u = t
    BY <1>6, <2>2
  <2>3. CASE u # t
    <3>1. PICK m \in Lanes : u \in Held(m)
      BY <1>4, <2>1, <2>3 DEF KeepingInv, OpenIsHeld
    <3> QED BY <1>6, <1>7, <3>1
  <2> QED BY <2>2, <2>3
<1>12. SubmittedHasRequest'
  BY <1>4 DEF KeepingInv, SubmittedHasRequest
<1>13. OneConversationPerLane'
  <2>1. \A d \in Conversations \ {c} : registry[d] # l
    BY <1>1, <1>2, SchedulerAssumption DEF KeepingInv, OneConversationPerLane, Unused, Registered
  <2> QED BY <1>1, <1>4, <2>1 DEF KeepingInv, OneConversationPerLane
<1> QED BY <1>6, <1>7, <1>10, <1>11, <1>12, <1>13 DEF KeepingInv

-----------------------------------------------------------------------------
(* The reaper and the shutdown task.                                       *)

\* The reaper takes only lanes out of the registry that hold nothing.
LEMMA SweepKeeps ==
  ASSUME KeepingInv, TypeOK', Sweep
  PROVE  KeepingInv'
<1>1. PICK C \in SUBSET {c \in Conversations : registry[c] # NoLane /\ idle[registry[c]]} :
        registry' = [c \in Conversations |-> IF c \in C THEN NoLane ELSE registry[c]]
  BY DEF Sweep
<1>2. UNCHANGED <<queueVars, workerVars, taskVars, turnVars>>
  BY DEF Sweep
<1>3. \A c \in C : /\ c \in Conversations /\ registry[c] \in Lanes /\ registry'[c] = NoLane
                   /\ Held(registry[c]) = {}
  <2>1. SUFFICES ASSUME NEW c \in C
                 PROVE  /\ c \in Conversations /\ registry[c] \in Lanes
                        /\ registry'[c] = NoLane /\ Held(registry[c]) = {}
    OBVIOUS
  <2>2. /\ c \in Conversations /\ registry[c] \in Lanes /\ registry'[c] = NoLane
        /\ idle[registry[c]]
    BY <1>1, <2>1 DEF KeepingInv, TypeOK
  <2>3. LaneFits(registry[c])
    BY <2>2 DEF KeepingInv
  <2> QED BY <2>2, <2>3, EmptyElements DEF LaneFits, Held
<1>4. \A l \in Lanes : (PlacesApart(l) /\ LaneFits(l))' /\ Held(l)' = Held(l)
  BY <1>2, UntouchedKeeps DEF KeepingInv, Untouched
<1>5. HeldIsOpen'
  <2>1. SUFFICES ASSUME NEW l \in Lanes, NEW t \in Turns, t \in Held(l)
                 PROVE  result[t] = "open" /\ registry'[request[t].conversation] = l
    BY <1>2, <1>4 DEF HeldIsOpen
  <2>2. result[t] = "open" /\ registry[request[t].conversation] = l
    BY <2>1 DEF KeepingInv, HeldIsOpen
  <2>3. request[t].conversation \in Conversations
    BY <2>2, SchedulerAssumption DEF KeepingInv, SubmittedHasRequest
  <2>4. request[t].conversation \notin C
    BY <1>3, <2>1, <2>2
  <2> QED BY <1>1, <2>2, <2>3, <2>4
<1>6. OpenIsHeld' /\ SubmittedHasRequest'
  BY <1>2, <1>4 DEF KeepingInv, OpenIsHeld, SubmittedHasRequest
<1>7. OneConversationPerLane'
  BY <1>1 DEF KeepingInv, OneConversationPerLane
<1> QED BY <1>4, <1>5, <1>6, <1>7 DEF KeepingInv

\* What shutdown does to lanes is draining and marking their tasks.
LEMMA ShutdownKeeps ==
  ASSUME KeepingInv, TypeOK', ShutdownSeals \/ ShutdownStep \/ UNCHANGED vars
  PROVE  KeepingInv'
<1>1. Registered \in SUBSET Lanes
  BY DEF Registered, KeepingInv, TypeOK
<1>2. CASE ShutdownDrains
  BY <1>1, <1>2, DrainKeeps DEF ShutdownDrains
<1>3. CASE ShutdownCascades
  <2>1. UNCHANGED <<registry, queueVars, workerVars, task, chained, request, result>>
        /\ \A l \in Lanes : cancelling'[l] => cancelling[l] \/ Live(l)
    BY <1>3 DEF ShutdownCascades, CancelRunning
  <2>2. \A l \in Lanes : Held(l)' = Held(l) /\ (PlacesApart(l) /\ LaneFits(l))'
    BY <2>1 DEF Held, PlacesApart, LaneFits, Live, KeepingInv
  <2>3. result' = Resolve({}, "none")
    BY <2>1 DEF Resolve, KeepingInv, TypeOK
  <2> QED BY <2>1, <2>2, <2>3, SettlingKeeps
<1>4. CASE ShutdownSeals \/ ShutdownWaits \/ ShutdownEnds \/ UNCHANGED vars
  <2>1. UNCHANGED <<registry, queueVars, workerVars, taskVars, request, result>>
    BY <1>4 DEF ShutdownSeals, ShutdownWaits, ShutdownEnds, vars
  <2>2. \A l \in Lanes : Held(l)' = Held(l) /\ (PlacesApart(l) /\ LaneFits(l))'
    BY <2>1, UntouchedKeeps DEF Untouched, KeepingInv
  <2>3. result' = Resolve({}, "none")
    BY <2>1 DEF Resolve, KeepingInv, TypeOK
  <2> QED BY <2>1, <2>2, <2>3, SettlingKeeps
<1> QED BY <1>2, <1>3, <1>4 DEF ShutdownStep

-----------------------------------------------------------------------------
(* The theorems.                                                           *)

\* The scheduler starts with empty lanes.
LEMMA KeepingInit == Init => KeepingInv
<1> SUFFICES ASSUME Init PROVE KeepingInv
  OBVIOUS
<1>1. TypeOK
  BY TypeInit
<1>2. \A l \in Lanes : PlacesApart(l) /\ LaneFits(l)
  BY EmptyElements, SchedulerAssumption DEF Init, PlacesApart, LaneFits
<1>3. \A l \in Lanes : Held(l) = {}
  BY EmptyElements DEF Init, Held
<1>4. HeldIsOpen /\ OpenIsHeld /\ SubmittedHasRequest /\ OneConversationPerLane
  BY <1>3 DEF Init, HeldIsOpen, OpenIsHeld, SubmittedHasRequest, OneConversationPerLane
<1> QED BY <1>1, <1>2, <1>4 DEF KeepingInv

\* Every step keeps what the scheduler has accepted.
LEMMA KeepingStep == KeepingInv /\ [Next]_vars => KeepingInv'
<1> SUFFICES ASSUME KeepingInv, [Next]_vars PROVE KeepingInv'
  OBVIOUS
<1>1. TypeOK'
  BY TypeStep DEF KeepingInv
<1>2. ASSUME NEW t \in Turns, NEW req \in Requests, Submit(t, req) PROVE KeepingInv'
  BY <1>1, <1>2, SubmitKeeps
<1>3. ASSUME NEW t \in Turns, CancelTurn(t) PROVE KeepingInv'
  BY <1>1, <1>3, CancelPendingKeeps, CancelInjectedKeeps, CancelCurrentKeeps
     DEF CancelTurn
<1>4. ASSUME NEW c \in Conversations, Stop(c) PROVE KeepingInv'
  <2>1. {registry[c]} \in SUBSET Lanes
    BY <1>4 DEF Stop, KeepingInv, TypeOK
  <2> QED BY <1>1, <1>4, <2>1, DrainKeeps DEF Stop
<1>5. ASSUME NEW l \in Lanes, LoopStep(l) \/ RunnerStep(l) \/ RunnerDrains(l)
      PROVE  KeepingInv'
  <2>1. CASE WorkerBegins(l) \/ WorkerResumes(l)
    BY <1>1, <2>1, WorkerBeginsKeeps, WorkerResumesKeeps
  <2>2. CASE TaskBegins(l) \/ SlotGranted(l)
    BY <1>1, <2>2, AcquireKeeps
  <2>3. CASE CancelledBeforeStart(l)
    BY <1>1, <2>3, CancelledBeforeStartKeeps
  <2>4. CASE \/ RunnerBegins(l) \/ RunnerRaises(l)
             \/ CancelledAfterStart(l) \/ CancelSwallowed(l)
    BY <1>1, <2>4, RunKeeps
  <2>5. CASE RunnerReturns(l) \/ TerminalSent(l)
    BY <1>1, <2>5, MergedSettleKeeps
  <2>6. CASE RunnerDrains(l)
    BY <1>1, <2>6, RunnerDrainsKeeps
  <2> QED BY <1>5, <2>1, <2>2, <2>3, <2>4, <2>5, <2>6 DEF LoopStep, RunnerStep
<1>6. CASE Sweep
  BY <1>1, <1>6, SweepKeeps
<1>7. CASE ShutdownSeals \/ ShutdownStep \/ UNCHANGED vars
  BY <1>1, <1>7, ShutdownKeeps
<1> QED BY <1>2, <1>3, <1>4, <1>5, <1>6, <1>7 DEF Next, Client

\* The inductive invariant holds in every reachable state, whatever clients
\* submit and cancel and however the tasks of the lanes interleave.
THEOREM Keeping == Spec => []KeepingInv
BY KeepingInit, KeepingStep, PTL DEF Spec

\* A handle is settled by the worker of its lane, or with its host's verdict,
\* and by nobody before: TurnHandle.cancel, /stop and shutdown leave a turn in
\* execution to its worker.
THEOREM OnlyResolver == Spec => []SoleResolver
<1>1. KeepingInv => SoleResolver
  <2> SUFFICES ASSUME KeepingInv PROVE SoleResolver
    OBVIOUS
  <2>1. \A l \in Lanes : /\ current[l] # NoTurn => current[l] \in Held(l)
                         /\ chained[l] \subseteq Held(l)
    BY DEF Held
  <2>2. \A l \in Lanes : Held(l) \subseteq Turns
    BY HeldTurns DEF KeepingInv
  <2> QED BY <2>1, <2>2 DEF KeepingInv, HeldIsOpen, SoleResolver
<1> QED BY <1>1, Keeping, PTL

\* Two lanes never run turns of one conversation, not even while the reaper
\* replaces a lane that a client has just fetched.
THEOREM OneAtATime == Spec => []OneTurnPerConversation
<1>1. KeepingInv => OneTurnPerConversation
  <2> SUFFICES ASSUME KeepingInv, NEW l1 \in Lanes, NEW l2 \in Lanes, l1 # l2,
                      current[l1] # NoTurn, current[l2] # NoTurn
               PROVE  request[current[l1]].conversation # request[current[l2]].conversation
    BY DEF OneTurnPerConversation
  <2>1. current[l1] \in Held(l1) /\ current[l2] \in Held(l2)
    BY DEF Held
  <2>2. current[l1] \in Turns /\ current[l2] \in Turns
    BY DEF KeepingInv, TypeOK
  <2> QED BY <2>1, <2>2 DEF KeepingInv, HeldIsOpen
<1> QED BY <1>1, Keeping, PTL

\* An accepted turn that has not settled is in exactly one place of exactly one
\* registered lane whose worker is alive: no handle is orphaned or duplicated.
THEOREM NothingLost == Spec => []AcceptedIsKept
<1>1. KeepingInv => AcceptedIsKept
  <2> SUFFICES ASSUME KeepingInv, NEW t \in Turns, result[t] = "open"
               PROVE  \E l \in Lanes, place \in Places :
                        /\ \A m \in Lanes, other \in Places :
                             t \in Kept(m)[other] <=> (m = l /\ other = place)
                        /\ IsInjective(pending[l]) /\ IsInjective(mailbox[l])
                        /\ registry[request[t].conversation] = l
                        /\ worker[l] # "absent" /\ ~idle[l]
    BY DEF AcceptedIsKept
  <2>1. PICK l \in Lanes : t \in Held(l)
    BY DEF KeepingInv, OpenIsHeld
  <2>2. t # NoTurn
    BY SchedulerAssumption
  <2>3. ASSUME NEW m \in Lanes
        PROVE  /\ Kept(m)["pending"] = ToSet(pending[m])
               /\ Kept(m)["mailbox"] = ToSet(mailbox[m])
               /\ Kept(m)["running"] = {current[m]}
               /\ Kept(m)["merged"] = chained[m]
               /\ \A place \in Places : t \in Kept(m)[place] => t \in Held(m)
    BY <2>2 DEF Kept, Places, Held
  <2>4. PlacesApart(l) /\ LaneFits(l)
    BY DEF KeepingInv
  <2>5. PICK place \in Places :
          \A other \in Places : t \in Kept(l)[other] <=> other = place
    BY <2>1, <2>3, <2>4 DEF Places, Held, PlacesApart
  <2>6. \A m \in Lanes \ {l} : t \notin Held(m)
    BY <2>1, HeldOnce
  <2>7. \A m \in Lanes, other \in Places :
          t \in Kept(m)[other] <=> (m = l /\ other = place)
    BY <2>3, <2>5, <2>6
  <2>8. registry[request[t].conversation] = l
    BY <2>1 DEF KeepingInv, HeldIsOpen
  <2>9. worker[l] # "absent" /\ ~idle[l]
    <3>1. worker[l] = "absent" => Held(l) = {}
      BY <2>4, EmptyElements DEF LaneFits, Held
    <3> QED BY <2>1, <2>4, <3>1 DEF LaneFits
  <2> QED BY <2>4, <2>7, <2>8, <2>9 DEF PlacesApart
<1> QED BY <1>1, Keeping, PTL

=============================================================================
