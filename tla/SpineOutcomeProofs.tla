------------------------- MODULE SpineOutcomeProofs -------------------------
(***************************************************************************)
(* What becomes of the turns the scheduler keeps: the slots of the pools   *)
(* are neither leaked nor returned twice (SlotsConserved), lifecycle       *)
(* events and handles tell the same story (LifecycleAgrees), shutdown()    *)
(* leaves nothing behind (ClosedIsQuiet), and the scheduler implements     *)
(* TurnLedger.                                                             *)
(***************************************************************************)
EXTENDS SpineKeepingProofs

USE DEF schedVars, queueVars, workerVars, taskVars, poolVars, turnVars

-----------------------------------------------------------------------------
(* The pools.                                                              *)

\* The lanes whose task waits for a slot of p, and those that hold one.
Queuers(p) == {l \in Lanes : task[l] = "queued" /\ PoolOf(current[l]) = p}
Holders(p) == {l \in Lanes : HoldsSlot(l) /\ PoolOf(current[l]) = p}

\* The queue of a pool is its queuers, and its slots are free or held.
PoolFits(p) ==
  /\ IsInjective(waiters[p]) /\ ToSet(waiters[p]) = Queuers(p)
  /\ free[p] + Cardinality(Holders(p)) = Capacity[p]

PoolInv == KeepingInv /\ \A p \in Pools : PoolFits(p)

\* The invariant says of each pool what the property says.
LEMMA PoolMeaning == PoolInv => SlotsConserved
BY DEF PoolInv, SlotsConserved, PoolFits, Holders

\* Lanes are finitely many, so are those that hold a slot.
LEMMA HoldersFinite ==
  ASSUME NEW p
  PROVE  IsFiniteSet(Holders(p)) /\ Cardinality(Holders(p)) \in Nat
<1>1. Holders(p) \subseteq Lanes
  BY DEF Holders
<1> QED BY <1>1, SchedulerAssumption, FS_Subset, FS_CardinalityType

\* A step after which the same lanes wait and hold changes nothing.
LEMMA PoolQuiet ==
  ASSUME PoolInv, KeepingInv', UNCHANGED poolVars,
         \A l \in Lanes :
           /\ task'[l] = "queued" <=> task[l] = "queued"
           /\ HoldsSlot(l)' <=> HoldsSlot(l)
           /\ task[l] = "queued" \/ HoldsSlot(l) => PoolOf(current[l])' = PoolOf(current[l])
  PROVE  PoolInv'
<1>1. ASSUME NEW p \in Pools PROVE PoolFits(p)'
  <2>1. Queuers(p)' = Queuers(p) /\ Holders(p)' = Holders(p)
    BY DEF Queuers, Holders
  <2> QED BY <2>1 DEF PoolInv, PoolFits
<1> QED BY <1>1 DEF PoolInv

\* A step that only moves the task of one lane on: what it does to the lanes
\* that wait and hold.
LEMMA TaskMoves ==
  ASSUME NEW l \in Lanes, \A m \in Lanes \ {l} : task'[m] = task[m],
         UNCHANGED <<current, request>>, NEW p
  PROVE  /\ p # PoolOf(current[l]) =>
              Queuers(p)' = Queuers(p) /\ Holders(p)' = Holders(p)
         /\ p = PoolOf(current[l]) =>
              /\ task'[l] = "queued" => Queuers(p)' = Queuers(p) \cup {l}
              /\ task'[l] # "queued" => Queuers(p)' = Queuers(p) \ {l}
              /\ HoldsSlot(l)' => Holders(p)' = Holders(p) \cup {l}
              /\ ~HoldsSlot(l)' => Holders(p)' = Holders(p) \ {l}
<1>1. \A m \in Lanes : PoolOf(current[m])' = PoolOf(current[m])
  BY DEF PoolOf
<1> QED BY <1>1 DEF Queuers, Holders, HoldsSlot

\* The acquire: a free slot is taken, or the lane goes to the end of the queue.
LEMMA AcquirePool ==
  ASSUME PoolInv, KeepingInv', NEW l \in Lanes, TaskBegins(l) \/ SlotGranted(l)
  PROVE  PoolInv'
<1>p. PICK p \in Pools : p = PoolOf(current[l])
  BY DEF PoolOf, Pools
<1>1. /\ p \in Pools /\ TypeOK /\ waiters[p] \in Seq(Lanes)
      /\ free[p] \in Nat /\ Capacity[p] \in Nat
      /\ \A q \in Pools : PoolFits(q)
  BY SchedulerAssumption DEF PoolInv, KeepingInv, TypeOK
<1>2. /\ UNCHANGED <<current, request>> /\ task[l] \in {"created", "queued"}
      /\ ~HoldsSlot(l)
  BY DEF TaskBegins, SlotGranted, HoldsSlot
<1>3. l \notin Holders(p)
  BY <1>2 DEF Holders
<1>4. ASSUME \A m \in Lanes \ {l} : task'[m] = task[m],
             \A q \in Pools \ {p} : waiters'[q] = waiters[q] /\ free'[q] = free[q],
             PoolFits(p)'
      PROVE  PoolInv'
  <2>1. ASSUME NEW q \in Pools \ {p} PROVE PoolFits(q)'
    <3>1. Queuers(q)' = Queuers(q) /\ Holders(q)' = Holders(q)
      BY <1>p, <1>2, <1>4, TaskMoves
    <3> QED BY <1>1, <1>4, <3>1 DEF PoolFits
  <2> QED BY <1>4, <2>1 DEF PoolInv
<1>5. ASSUME Dispatch(l, p), free[p] > 0
      PROVE  /\ \A m \in Lanes \ {l} : task'[m] = task[m]
             /\ \A q \in Pools \ {p} : free'[q] = free[q]
             /\ free'[p] + Cardinality(Holders(p)') = Capacity[p]
             /\ Queuers(p)' = Queuers(p) \ {l}
  <2>1. /\ task'[l] = "starting" /\ free'[p] = free[p] - 1
        /\ \A m \in Lanes \ {l} : task'[m] = task[m]
        /\ \A q \in Pools \ {p} : free'[q] = free[q]
    BY <1>1, <1>5 DEF Dispatch, TypeOK
  <2>2. Holders(p)' = Holders(p) \cup {l} /\ Queuers(p)' = Queuers(p) \ {l}
    BY <1>p, <1>2, <2>1, TaskMoves DEF HoldsSlot
  <2>3. Cardinality(Holders(p)') = Cardinality(Holders(p)) + 1
    BY <1>3, <2>2, HoldersFinite, FS_AddElement
  <2> QED BY <1>1, <2>1, <2>2, <2>3, HoldersFinite DEF PoolFits
<1>6. CASE TaskBegins(l) /\ Dispatch(l, p)
  <2>1. free[p] > 0 /\ UNCHANGED waiters /\ task[l] = "created"
    BY <1>p, <1>6, <1>1 DEF TaskBegins, Dispatch, TypeOK
  <2>2. l \notin Queuers(p)
    BY <2>1 DEF Queuers
  <2> QED BY <1>1, <1>4, <1>5, <1>6, <2>1, <2>2 DEF PoolFits
<1>7. CASE /\ TaskBegins(l) /\ task' = [task EXCEPT ![l] = "queued"]
           /\ waiters' = [waiters EXCEPT ![p] = Append(@, l)] /\ UNCHANGED free
  <2>1. /\ waiters'[p] = Append(waiters[p], l)
        /\ task'[l] = "queued" /\ \A m \in Lanes \ {l} : task'[m] = task[m]
        /\ \A q \in Pools \ {p} : waiters'[q] = waiters[q] /\ free'[q] = free[q]
    BY <1>1, <1>7 DEF TypeOK
  <2>2. Queuers(p)' = Queuers(p) \cup {l} /\ Holders(p)' = Holders(p)
    <3>1. ~HoldsSlot(l)'
      BY <2>1 DEF HoldsSlot
    <3>2. Queuers(p)' = Queuers(p) \cup {l} /\ Holders(p)' = Holders(p) \ {l}
      BY <1>p, <1>2, <2>1, <3>1, TaskMoves
    <3> QED BY <1>3, <3>2
  <2>3. l \notin ToSet(waiters[p])
    BY <1>1, <1>7 DEF PoolFits, Queuers, TaskBegins
  <2>4. IsInjective(waiters'[p]) /\ ToSet(waiters'[p]) = ToSet(waiters[p]) \cup {l}
    BY <1>1, <2>1, <2>3, AppendElements DEF PoolFits
  <2>5. PoolFits(p)'
    BY <1>1, <1>7, <2>2, <2>4 DEF PoolFits
  <2> QED BY <1>4, <1>7, <2>1, <2>5
<1>8. CASE SlotGranted(l)
  <2>1. /\ free[p] > 0 /\ waiters[p] # <<>> /\ Head(waiters[p]) = l /\ Dispatch(l, p)
        /\ waiters' = [waiters EXCEPT ![p] = Tail(@)]
    BY <1>p, <1>8 DEF SlotGranted
  <2>2. /\ waiters'[p] = Tail(waiters[p])
        /\ \A q \in Pools \ {p} : waiters'[q] = waiters[q]
    BY <1>1, <2>1 DEF TypeOK
  <2>3. IsInjective(waiters'[p]) /\ ToSet(waiters'[p]) = ToSet(waiters[p]) \ {l}
    BY <1>1, <2>1, <2>2, TailElements DEF PoolFits
  <2> QED BY <1>1, <1>4, <1>5, <2>1, <2>2, <2>3 DEF PoolFits
<1> QED BY <1>p, <1>6, <1>7, <1>8 DEF TaskBegins

\* A turn that leaves its pool gives its slot back.
LEMMA LeavingPool ==
  ASSUME PoolInv, KeepingInv', NEW l \in Lanes, NEW e, NEW v, LeavesPool(l, e, v),
         HoldsSlot(l), UNCHANGED <<current, request, waiters>>
  PROVE  PoolInv'
<1>p. PICK p \in Pools : p = PoolOf(current[l])
  BY DEF PoolOf, Pools
<1>1. /\ p \in Pools /\ TypeOK /\ free[p] \in Nat /\ Capacity[p] \in Nat
      /\ \A q \in Pools : PoolFits(q)
  BY SchedulerAssumption DEF PoolInv, KeepingInv, TypeOK
<1>2. /\ free'[p] = free[p] + 1 /\ task'[l] = "emitting"
      /\ \A m \in Lanes \ {l} : task'[m] = task[m]
      /\ \A q \in Pools \ {p} : free'[q] = free[q]
  BY <1>p, <1>1 DEF LeavesPool, Releases, TypeOK
<1>3. l \in Holders(p) /\ l \notin Queuers(p)
  BY <1>p DEF Holders, Queuers, HoldsSlot
<1>4. ASSUME NEW q \in Pools \ {p} PROVE PoolFits(q)'
  <2>1. Queuers(q)' = Queuers(q) /\ Holders(q)' = Holders(q)
    BY <1>p, <1>2, TaskMoves
  <2> QED BY <1>1, <1>2, <2>1 DEF PoolFits
<1>5. PoolFits(p)'
  <2>1. Queuers(p)' = Queuers(p) /\ Holders(p)' = Holders(p) \ {l}
    BY <1>p, <1>2, <1>3, TaskMoves DEF HoldsSlot
  <2>2. Cardinality(Holders(p)') = Cardinality(Holders(p)) - 1
    BY <1>3, <2>1, HoldersFinite, FS_RemoveElement
  <2> QED BY <1>1, <1>2, <2>1, <2>2, HoldersFinite DEF PoolFits
<1> QED BY <1>4, <1>5 DEF PoolInv

\* A turn cancelled before its start gives up its place in the queue.
LEMMA LeavingQueue ==
  ASSUME PoolInv, KeepingInv', NEW l \in Lanes, CancelledBeforeStart(l)
  PROVE  PoolInv'
<1>p. PICK p \in Pools : p = PoolOf(current[l])
  BY DEF PoolOf, Pools
<1>1. /\ p \in Pools /\ TypeOK /\ waiters[p] \in Seq(Lanes)
      /\ \A q \in Pools : PoolFits(q)
  BY SchedulerAssumption DEF PoolInv, KeepingInv, TypeOK
<1>2. /\ UNCHANGED <<current, request, free>> /\ task'[l] = "done"
      /\ \A m \in Lanes \ {l} : task'[m] = task[m]
      /\ task[l] \in {"created", "queued"}
  BY <1>1 DEF CancelledBeforeStart, TypeOK
<1>3. l \notin Holders(p)
  BY <1>2 DEF Holders, HoldsSlot
<1>4. ASSUME \A q \in Pools \ {p} : waiters'[q] = waiters[q],
             IsInjective(waiters'[p]), ToSet(waiters'[p]) = ToSet(waiters[p]) \ {l}
      PROVE  PoolInv'
  <2>1. ASSUME NEW q \in Pools \ {p} PROVE PoolFits(q)'
    <3>1. Queuers(q)' = Queuers(q) /\ Holders(q)' = Holders(q)
      BY <1>p, <1>2, TaskMoves
    <3> QED BY <1>1, <1>2, <1>4, <3>1 DEF PoolFits
  <2>2. Queuers(p)' = Queuers(p) \ {l} /\ Holders(p)' = Holders(p)
    BY <1>p, <1>2, <1>3, TaskMoves DEF HoldsSlot
  <2>3. PoolFits(p)'
    BY <1>1, <1>2, <1>4, <2>2 DEF PoolFits
  <2> QED BY <2>1, <2>3 DEF PoolInv
<1>5. CASE task[l] = "created" /\ UNCHANGED waiters
  <2>1. l \notin ToSet(waiters[p])
    BY <1>1, <1>5 DEF PoolFits, Queuers
  <2> QED BY <1>1, <1>4, <1>5, <2>1 DEF PoolFits
<1>6. CASE task[l] = "queued" /\ \E i \in DOMAIN waiters[p] :
             waiters[p][i] = l /\ waiters' = [waiters EXCEPT ![p] = RemoveAt(@, i)]
  <2>1. PICK i \in DOMAIN waiters[p] :
          waiters[p][i] = l /\ waiters' = [waiters EXCEPT ![p] = RemoveAt(@, i)]
    BY <1>6
  <2>2. /\ waiters'[p] = RemoveAt(waiters[p], i)
        /\ \A q \in Pools \ {p} : waiters'[q] = waiters[q]
    BY <1>1, <2>1 DEF TypeOK
  <2>3. IsInjective(waiters'[p]) /\ ToSet(waiters'[p]) = ToSet(waiters[p]) \ {l}
    BY <1>1, <2>1, <2>2, RemoveElements DEF PoolFits
  <2> QED BY <1>4, <2>2, <2>3
<1> QED BY <1>p, <1>5, <1>6 DEF CancelledBeforeStart, LeavesQueue

\* A lane's turn is open, so no client can submit it again.
LEMMA RunningIsOpen ==
  ASSUME KeepingInv, NEW l \in Lanes, current[l] # NoTurn
  PROVE  current[l] \in Turns /\ current[l] \in Held(l) /\ result[current[l]] = "open"
BY DEF KeepingInv, TypeOK, HeldIsOpen, Held

\* All other steps leave the pools alone.
LEMMA ElsewherePool ==
  ASSUME PoolInv, KeepingInv',
         \/ Client \/ Sweep \/ ShutdownStep \/ UNCHANGED vars
         \/ \E l \in Lanes : \/ WorkerBegins(l) \/ WorkerResumes(l) \/ RunnerBegins(l)
                            \/ CancelSwallowed(l) \/ TerminalSent(l) \/ RunnerDrains(l)
  PROVE  PoolInv'
<1>1. KeepingInv /\ TypeOK
  BY DEF PoolInv, KeepingInv
<1>2. CASE \E t \in Turns, req \in Requests : Submit(t, req)
  <2>1. PICK t \in Turns, req \in Requests : Submit(t, req)
    BY <1>2
  <2>2. /\ result[t] = "unsubmitted" /\ request' = [request EXCEPT ![t] = req]
        /\ UNCHANGED <<current, task, poolVars>>
    BY <2>1 DEF Submit, LaneSubmit
  <2>3. ASSUME NEW l \in Lanes, task[l] = "queued" \/ HoldsSlot(l)
        PROVE  PoolOf(current[l])' = PoolOf(current[l])
    <3>1. current[l] # NoTurn
      BY <1>1, <2>3 DEF KeepingInv, LaneFits, HoldsSlot
    <3>2. current[l] # t
      BY <1>1, <2>2, <3>1, RunningIsOpen
    <3> QED BY <1>1, <2>2, <3>2 DEF PoolOf, TypeOK
  <2> QED BY <2>2, <2>3, PoolQuiet DEF HoldsSlot
<1>3. CASE UNCHANGED <<task, current, request, poolVars>>
  BY <1>3, PoolQuiet DEF HoldsSlot, PoolOf
<1>4. ASSUME NEW l \in Lanes, WorkerBegins(l) \/ WorkerResumes(l)
      PROVE  PoolInv'
  <2>1. PICK q : TakeNext(l, q)
    BY <1>4 DEF WorkerBegins, WorkerResumes
  <2>2. UNCHANGED <<poolVars, request>>
    BY <1>4 DEF WorkerBegins, WorkerResumes
  <2>3. task[l] \in {"absent", "done"} /\ task'[l] \in {"absent", "created"}
    BY <1>1, <1>4, <2>1 DEF WorkerBegins, WorkerResumes, TakeNext, KeepingInv, LaneFits, TypeOK
  <2>4. \A m \in Lanes \ {l} : task'[m] = task[m] /\ current'[m] = current[m]
    BY <1>1, <2>1, TakeUntouched
  <2> QED BY <2>2, <2>3, <2>4, PoolQuiet DEF HoldsSlot, PoolOf
<1>5. ASSUME NEW l \in Lanes, RunnerBegins(l) \/ TerminalSent(l)
      PROVE  PoolInv'
  <2>1. /\ UNCHANGED <<current, request, poolVars>>
        /\ \/ task[l] = "starting" /\ task'[l] = "running"
           \/ task[l] = "emitting" /\ task'[l] = "done"
        /\ \A m \in Lanes \ {l} : task'[m] = task[m]
    BY <1>1, <1>5 DEF RunnerBegins, TerminalSent, TypeOK
  <2> QED BY <2>1, PoolQuiet DEF HoldsSlot, PoolOf
<1>6. ASSUME NEW l \in Lanes, CancelSwallowed(l) \/ RunnerDrains(l)
      PROVE  UNCHANGED <<task, current, request, poolVars>>
  BY <1>6 DEF CancelSwallowed, RunnerDrains
<1>7. ASSUME \/ \E t \in Turns : CancelTurn(t)
             \/ \E c \in Conversations : Stop(c)
             \/ ShutdownSeals \/ Sweep \/ ShutdownStep \/ UNCHANGED vars
      PROVE  UNCHANGED <<task, current, request, poolVars>>
  BY <1>7 DEF CancelTurn, Stop, ShutdownSeals, Sweep, ShutdownStep, ShutdownDrains,
              ShutdownWaits, ShutdownCascades, ShutdownEnds, vars
<1> QED BY <1>2, <1>3, <1>4, <1>5, <1>6, <1>7 DEF Client

\* The pools fit their queues and their capacity in every state.
LEMMA PoolStep == PoolInv /\ [Next]_vars => PoolInv'
<1> SUFFICES ASSUME PoolInv, [Next]_vars PROVE PoolInv'
  OBVIOUS
<1>1. KeepingInv'
  BY KeepingStep DEF PoolInv
<1>2. ASSUME NEW l \in Lanes, TaskBegins(l) \/ SlotGranted(l) PROVE PoolInv'
  BY <1>1, <1>2, AcquirePool
<1>3. ASSUME NEW l \in Lanes, CancelledBeforeStart(l) PROVE PoolInv'
  BY <1>1, <1>3, LeavingQueue
<1>4. ASSUME NEW l \in Lanes, CancelledAfterStart(l) PROVE PoolInv'
  BY <1>1, <1>4, LeavingPool DEF CancelledAfterStart
<1>5. ASSUME NEW l \in Lanes, RunnerReturns(l) \/ RunnerRaises(l) PROVE PoolInv'
  BY <1>1, <1>5, LeavingPool DEF RunnerReturns, RunnerRaises, HoldsSlot
<1>6. CASE \/ Client \/ Sweep \/ ShutdownStep \/ UNCHANGED vars
           \/ \E l \in Lanes : \/ WorkerBegins(l) \/ WorkerResumes(l) \/ RunnerBegins(l)
                              \/ CancelSwallowed(l) \/ TerminalSent(l) \/ RunnerDrains(l)
  BY <1>1, <1>6, ElsewherePool
<1> QED BY <1>2, <1>3, <1>4, <1>5, <1>6 DEF Next, LoopStep, RunnerStep

\* All slots are free at the start.
LEMMA PoolInit == Init => PoolInv
<1> SUFFICES ASSUME Init PROVE PoolInv
  OBVIOUS
<1>1. KeepingInv
  BY KeepingInit
<1>2. ASSUME NEW p \in Pools PROVE PoolFits(p)
  <2>1. Queuers(p) = {} /\ Holders(p) = {} /\ waiters[p] = <<>> /\ free[p] = Capacity[p]
    BY <1>2 DEF Init, Queuers, Holders, HoldsSlot
  <2>2. Capacity[p] \in Nat
    BY <1>2, SchedulerAssumption
  <2>3. Cardinality(Holders(p)) = 0
    BY <2>1, FS_EmptySet
  <2> QED BY <2>1, <2>2, <2>3, EmptyElements DEF PoolFits
<1> QED BY <1>1, <1>2 DEF PoolInv

\* The invariant of the pools holds in every reachable state.
THEOREM PoolsFit == Spec => []PoolInv
BY PoolInit, PoolStep, PTL DEF Spec

\* Every way out of a turn, and every cancel at every point of it, gives back
\* exactly the slot the turn took: a semaphore and the turns that hold one of
\* its slots always add up to the capacity of the pool.
THEOREM SlotsAreConserved == Spec => []SlotsConserved
BY PoolsFit, PoolMeaning, PTL

-----------------------------------------------------------------------------
(* Lifecycle events.                                                       *)

\* The events of a turn that ran to the verdict v.
Told(v) == IF v = "ok" THEN {<<"started", "ended">>}
           ELSE {<<"started", "failed">>, <<"started", "cancelled">>}

\* What was told of the turn that runs, by where its payload task is.
StoryFits(l) ==
  LET told == events[current[l]] IN
  /\ task[l] \in {"created", "queued"} => told = <<>>
  /\ HoldsSlot(l) => told = <<"started">>
  /\ task[l] = "emitting" => told \in Told(outcome[l])
  /\ task[l] = "done" => told \in Told(outcome[l]) \/ (told = <<>> /\ outcome[l] = "none")

\* Nothing is told of a turn before it runs, and nothing more once it is settled.
ToldFits(t) ==
  /\ result[t] \in {"unsubmitted", "open"} /\ (\A l \in Lanes : current[l] # t)
       => events[t] = <<>>
  /\ result[t] \in {"ok", "none"} => events[t] \in Told(result[t]) \cup {<<>>}

StoryInv ==
  /\ KeepingInv
  /\ \A l \in Lanes : current[l] # NoTurn => StoryFits(l)
  /\ \A t \in Turns : ToldFits(t)

\* The stories that fit are those LifecycleAgrees admits.
LEMMA StoryMeaning == StoryInv => LifecycleAgrees
<1> SUFFICES ASSUME StoryInv, NEW t \in Turns
             PROVE  /\ events[t] \in {<<>>, <<"started">>} \cup
                                    {<<"started", e>> : e \in {"ended", "failed", "cancelled"}}
                    /\ result[t] = "ok" => events[t] \in {<<>>, <<"started", "ended">>}
                    /\ result[t] = "none" => events[t] \notin {<<"started">>, <<"started", "ended">>}
  BY DEF LifecycleAgrees
<1>1. ToldFits(t) /\ result[t] \in {"unsubmitted", "open", "ok", "none"}
  BY DEF StoryInv, KeepingInv, TypeOK
<1>2. \A v \in {"ok", "none"} : Told(v) \subseteq
        {<<"started", e>> : e \in {"ended", "failed", "cancelled"}}
  BY DEF Told
<1>3. CASE \E l \in Lanes : current[l] = t
  <2>1. PICK l \in Lanes : current[l] = t
    BY <1>3
  <2>2. t # NoTurn
    BY SchedulerAssumption
  <2>3. /\ StoryFits(l) /\ result[t] = "open" /\ outcome[l] \in {"ok", "none"}
        /\ task[l] \in TaskStates \ {"absent"}
    BY <2>1, <2>2, RunningIsOpen DEF StoryInv, KeepingInv, LaneFits, TypeOK
  <2> QED BY <1>2, <2>1, <2>3 DEF StoryFits, HoldsSlot, TaskStates
<1>4. CASE ~ \E l \in Lanes : current[l] = t
  <2>1. <<>> # <<"started">> /\ <<>> # <<"started", "ended">>
    OBVIOUS
  <2>2. Told("none") \cap {<<"started">>, <<"started", "ended">>} = {}
    BY DEF Told
  <2>3. Told("ok") = {<<"started", "ended">>}
    BY DEF Told
  <2> QED BY <1>1, <1>2, <1>4, <2>1, <2>2, <2>3 DEF ToldFits
<1> QED BY <1>3, <1>4

\* A sequence of one element with one appended is the pair of the two.
LEMMA AppendToOne ==
  ASSUME NEW S, NEW s \in Seq(S), Len(s) = 1, NEW b \in S, NEW t \in Seq(S), Len(t) = 2,
         t[1] = s[1], t[2] = b
  PROVE  Append(s, b) = t
<1>1. Append(s, b) \in Seq(S)
  BY AppendProperties
<1>2. Len(Append(s, b)) = Len(s) + 1
  BY AppendProperties
<1>3. \A i \in 1 .. Len(s) : Append(s, b)[i] = s[i]
  BY AppendProperties
<1>4. Append(s, b)[Len(s) + 1] = b
  BY AppendProperties
<1>5. Append(s, b)[1] = s[1] /\ Append(s, b)[2] = b /\ Len(Append(s, b)) = 2
  BY <1>2, <1>3, <1>4
<1>6. \A i \in 1 .. Len(Append(s, b)) : Append(s, b)[i] = t[i]
  BY <1>5
<1> QED BY <1>1, <1>5, <1>6, SeqEqual

\* What has been told of a turn once its end follows its start.
LEMMA EndsOfStory ==
  ASSUME NEW e \in Lifecycle
  PROVE  Append(<<"started">>, e) = <<"started", e>>
<1> DEFINE s == <<"started">>
           t == <<"started", e>>
<1>1. "started" \in Lifecycle
  BY DEF Lifecycle
<1>2. s \in Seq(Lifecycle) /\ Len(s) = 1 /\ s[1] = "started"
  BY <1>1
<1>3. t \in Seq(Lifecycle) /\ Len(t) = 2 /\ t[1] = "started" /\ t[2] = e
  BY <1>1
<1> HIDE DEF s, t
<1>4. Append(s, e) = t
  BY <1>2, <1>3, AppendToOne
<1> QED BY <1>4 DEF s, t

\* How handles move: a settled one never again.
Moves == \A t \in Turns : result'[t] = result[t] \/ result[t] \in {"unsubmitted", "open"}

\* Settling handles moves them so.
LEMMA ResolveMoves ==
  ASSUME NEW S, NEW v, result' = Resolve(S, v)
  PROVE  Moves
BY DEF Moves, Resolve

\* A step that tells nothing of the turns that do not run, and leaves the lanes
\* their turns and the running turns a story that fits.
LEMMA StoryKeeps ==
  ASSUME StoryInv, KeepingInv', UNCHANGED current, Moves,
         \A t \in Turns : (\A l \in Lanes : current[l] # t) => events'[t] = events[t],
         \A l \in Lanes : current[l] # NoTurn => StoryFits(l)'
  PROVE  StoryInv'
<1>1. ASSUME NEW t \in Turns, \A l \in Lanes : current[l] # t PROVE ToldFits(t)'
  BY <1>1 DEF StoryInv, ToldFits, Moves
<1>2. ASSUME NEW t \in Turns, NEW l \in Lanes, current[l] = t PROVE ToldFits(t)'
  <2>1. (result[t] = "open")'
    <3>1. (KeepingInv /\ current[l] = t)' /\ t # NoTurn
      BY <1>2, SchedulerAssumption
    <3> QED BY <3>1 DEF KeepingInv, HeldIsOpen, Held
  <2>2. current'[l] = t
    BY <1>2
  <2> QED BY <2>1, <2>2 DEF ToldFits
<1> QED BY <1>1, <1>2 DEF StoryInv

\* A step of one lane that tells, at most, of the turn that runs there.
LEMMA LaneTells ==
  ASSUME StoryInv, KeepingInv', NEW l \in Lanes, UNCHANGED current, Moves,
         current[l] # NoTurn,
         \A t \in Turns \ {current[l]} : events'[t] = events[t],
         \A m \in Lanes \ {l} : task'[m] = task[m] /\ outcome'[m] = outcome[m],
         StoryFits(l)'
  PROVE  StoryInv'
<1>1. ASSUME NEW m \in Lanes, current[m] # NoTurn PROVE StoryFits(m)'
  <2>1. CASE m # l
    <3>1. current[m] \in Turns \ {current[l]}
      BY <1>1, <2>1, RunningIsOpen, HeldOnce DEF StoryInv
    <3> QED BY <1>1, <2>1, <3>1 DEF StoryInv, StoryFits, HoldsSlot
  <2> QED BY <2>1
<1> QED BY <1>1, StoryKeeps

\* The start of a turn is told once.
LEMMA DispatchTells ==
  ASSUME StoryInv, KeepingInv', NEW l \in Lanes, NEW p, Dispatch(l, p),
         task[l] \in {"created", "queued"}, UNCHANGED <<current, result, outcome>>
  PROVE  StoryInv'
<1>1. TypeOK /\ current[l] # NoTurn /\ StoryFits(l) /\ current[l] \in Turns
  BY RunningIsOpen DEF StoryInv, KeepingInv, LaneFits
<1>2. /\ events'[current[l]] = Append(<<>>, "started") /\ task'[l] = "starting"
      /\ \A t \in Turns \ {current[l]} : events'[t] = events[t]
      /\ \A m \in Lanes \ {l} : task'[m] = task[m]
  BY <1>1 DEF Dispatch, Emit, StoryFits, TypeOK
<1>3. StoryFits(l)'
  BY <1>2 DEF StoryFits, HoldsSlot
<1>4. Moves
  BY DEF Moves
<1> QED BY <1>1, <1>2, <1>3, <1>4, LaneTells

\* The end of a turn is told once, and agrees with what its handle will get.
LEMMA LeavingTells ==
  ASSUME StoryInv, KeepingInv', NEW l \in Lanes, NEW v \in {"ok", "none"},
         NEW e \in (IF v = "ok" THEN {"ended"} ELSE {"failed", "cancelled"}),
         LeavesPool(l, e, v), HoldsSlot(l), UNCHANGED current, Moves
  PROVE  StoryInv'
<1>1. TypeOK /\ current[l] # NoTurn /\ StoryFits(l) /\ current[l] \in Turns
  BY RunningIsOpen DEF StoryInv, KeepingInv, LaneFits, HoldsSlot
<1>2. /\ events'[current[l]] = Append(<<"started">>, e)
      /\ task'[l] = "emitting" /\ outcome'[l] = v
      /\ \A t \in Turns \ {current[l]} : events'[t] = events[t]
      /\ \A m \in Lanes \ {l} : task'[m] = task[m] /\ outcome'[m] = outcome[m]
  BY <1>1 DEF LeavesPool, Emit, StoryFits, TypeOK
<1>3. Append(<<"started">>, e) \in Told(v)
  <2>1. e \in Lifecycle
    BY DEF Lifecycle
  <2>2. <<"started", e>> \in Told(v)
    BY DEF Told
  <2> QED BY <2>1, <2>2, EndsOfStory
<1>4. StoryFits(l)'
  BY <1>2, <1>3 DEF StoryFits, HoldsSlot
<1> QED BY <1>1, <1>2, <1>4, LaneTells

\* Nothing is told of a turn that is cancelled before its start.
LEMMA SilentCancel ==
  ASSUME StoryInv, KeepingInv', NEW l \in Lanes, CancelledBeforeStart(l)
  PROVE  StoryInv'
<1>1. /\ TypeOK /\ current[l] # NoTurn /\ StoryFits(l)
      /\ task[l] \in {"created", "queued"} /\ UNCHANGED <<current, events, result>>
  BY DEF StoryInv, KeepingInv, LaneFits, CancelledBeforeStart
<1>2. /\ task'[l] = "done" /\ outcome'[l] = "none"
      /\ \A m \in Lanes \ {l} : task'[m] = task[m] /\ outcome'[m] = outcome[m]
  BY <1>1 DEF CancelledBeforeStart, TypeOK
<1>3. StoryFits(l)'
  BY <1>1, <1>2 DEF StoryFits, HoldsSlot
<1>4. Moves
  BY <1>1 DEF Moves
<1> QED BY <1>1, <1>2, <1>3, <1>4, LaneTells

\* The worker settles the turn with the verdict its events told, and takes one
\* of which nothing was told.
LEMMA WorkerTells ==
  ASSUME StoryInv, KeepingInv', NEW l \in Lanes, NEW q \in Seq(Turns), TakeNext(l, q),
         ToSet(q) \subseteq ToSet(pending[l]) \cup ToSet(mailbox[l]),
         UNCHANGED <<events, outcome>>,
         \A t \in Turns \ {current[l]} : result'[t] = result[t],
         current[l] # NoTurn => task[l] = "done" /\ result'[current[l]] = outcome[l]
  PROVE  StoryInv'
<1>1. KeepingInv /\ TypeOK /\ PlacesApart(l)
  BY DEF StoryInv, KeepingInv
<1>2. \A m \in Lanes \ {l} : task'[m] = task[m] /\ current'[m] = current[m]
  BY <1>1, TakeUntouched
<1>3. ASSUME NEW m \in Lanes \ {l}, current'[m] # NoTurn PROVE StoryFits(m)'
  BY <1>2, <1>3 DEF StoryInv, StoryFits, HoldsSlot
<1>4. ASSUME NEW t \in ToSet(q)
      PROVE  t \in Turns /\ events[t] = <<>> /\ \A m \in Lanes : current[m] # t
  <2>1. t \in Held(l) /\ t \in Turns /\ t # current[l] /\ t # NoTurn
    BY <1>1, <1>4, HeldTurns, SchedulerAssumption DEF Held, PlacesApart
  <2>2. \A m \in Lanes : current[m] # t
    BY <1>1, <2>1, HeldOnce DEF Held
  <2>3. result[t] = "open"
    BY <1>1, <2>1 DEF KeepingInv, HeldIsOpen
  <2> QED BY <2>1, <2>2, <2>3 DEF StoryInv, ToldFits
<1>5. \/ q = <<>> /\ current'[l] = NoTurn
      \/ q # <<>> /\ current'[l] = Head(q) /\ task'[l] = "created"
  BY <1>1 DEF TakeNext, TypeOK
<1>6. ASSUME current'[l] # NoTurn PROVE StoryFits(l)'
  <2>1. Head(q) \in ToSet(q)
    BY <1>5, <1>6, TailElements
  <2> QED BY <1>4, <1>5, <1>6, <2>1 DEF StoryFits, HoldsSlot
<1>7. ASSUME NEW t \in Turns PROVE ToldFits(t)'
  <2>1. ToldFits(t)
    BY DEF StoryInv
  <2>2. CASE t = current[l]
    <3>1. StoryFits(l) /\ task[l] = "done" /\ result'[t] = outcome[l] /\ outcome[l] \in {"ok", "none"}
      BY <1>1, <2>2, SchedulerAssumption DEF StoryInv, TypeOK
    <3> QED BY <2>2, <3>1 DEF StoryFits, ToldFits
  <2>3. CASE t # current[l]
    <3>1. result'[t] = result[t] /\ events'[t] = events[t]
      BY <2>3
    <3>2. (\A m \in Lanes : current'[m] # t) => (\A m \in Lanes : current[m] # t)
      BY <1>2, <2>3
    <3> QED BY <2>1, <3>1, <3>2 DEF ToldFits
  <2> QED BY <2>2, <2>3
<1> QED BY <1>3, <1>6, <1>7 DEF StoryInv

\* All other steps tell nothing and leave the tasks where their story fits.
LEMMA ElsewhereTold ==
  ASSUME StoryInv, KeepingInv',
         \/ Client \/ Sweep \/ ShutdownStep \/ UNCHANGED vars
         \/ \E l \in Lanes : \/ RunnerBegins(l) \/ CancelSwallowed(l) \/ TerminalSent(l)
                            \/ RunnerDrains(l)
  PROVE  StoryInv'
<1>1. TypeOK
  BY DEF StoryInv, KeepingInv
<1>2. ASSUME UNCHANGED <<current, task, outcome, events>>, Moves PROVE StoryInv'
  <2>1. \A l \in Lanes : current[l] # NoTurn => StoryFits(l)'
    BY <1>2 DEF StoryInv, StoryFits, HoldsSlot
  <2> QED BY <1>2, <2>1, StoryKeeps
<1>3. ASSUME NEW t \in Turns, NEW req \in Requests, Submit(t, req)
      PROVE  UNCHANGED <<current, task, outcome, events>> /\ Moves
  <2>1. result[t] = "unsubmitted" /\ result' = [result EXCEPT ![t] = "open"]
    BY <1>3 DEF Submit
  <2>2. Moves
    BY <1>1, <2>1 DEF Moves, TypeOK
  <2> QED BY <1>3, <2>2 DEF Submit, LaneSubmit
<1>4. ASSUME NEW t \in Turns, CancelTurn(t)
      PROVE  UNCHANGED <<current, task, outcome, events>> /\ Moves
  <2>1. result' = Resolve({t}, "none") \/ UNCHANGED result
    BY <1>4 DEF CancelTurn, CancelPending, CancelInjected, CancelCurrent
  <2>2. Moves
    BY <2>1, ResolveMoves DEF Moves
  <2> QED BY <1>4, <2>2 DEF CancelTurn
<1>5. ASSUME NEW L, Drain(L) PROVE Moves
  BY <1>5, ResolveMoves DEF Drain
<1>6. ASSUME NEW c \in Conversations, Stop(c)
      PROVE  UNCHANGED <<current, task, outcome, events>> /\ Moves
  <2>1. PICK L : Drain(L)
    BY <1>6 DEF Stop
  <2> QED BY <1>5, <1>6, <2>1 DEF Stop
<1>7. CASE ShutdownDrains
  <2>1. PICK L : Drain(L)
    BY <1>7 DEF ShutdownDrains
  <2> QED BY <1>2, <1>5, <1>7, <2>1 DEF ShutdownDrains
<1>8. CASE \/ Sweep \/ ShutdownSeals \/ ShutdownWaits \/ ShutdownCascades \/ ShutdownEnds
           \/ UNCHANGED vars
  <2>1. UNCHANGED <<current, task, outcome, events, result>>
    BY <1>8 DEF Sweep, ShutdownSeals, ShutdownWaits, ShutdownCascades, ShutdownEnds, vars
  <2> QED BY <1>2, <2>1 DEF Moves
<1>9. ASSUME NEW l \in Lanes, CancelSwallowed(l) \/ RunnerDrains(l)
      PROVE  UNCHANGED <<current, task, outcome, events>> /\ Moves
  BY <1>9 DEF CancelSwallowed, RunnerDrains, Moves
<1>10. ASSUME NEW l \in Lanes, RunnerBegins(l) \/ TerminalSent(l)
       PROVE  StoryInv'
  <2>1. Moves
    BY <1>10, ResolveMoves DEF RunnerBegins, TerminalSent, Moves
  <2>2. /\ UNCHANGED <<current, outcome, events>>
        /\ \/ task[l] = "starting" /\ task'[l] = "running"
           \/ task[l] = "emitting" /\ task'[l] = "done"
        /\ \A m \in Lanes \ {l} : task'[m] = task[m]
    BY <1>1, <1>10 DEF RunnerBegins, TerminalSent, TypeOK
  <2>3. current[l] # NoTurn /\ StoryFits(l)
    BY <2>2 DEF StoryInv, KeepingInv, LaneFits
  <2>4. StoryFits(l)'
    BY <2>2, <2>3 DEF StoryFits, HoldsSlot
  <2> QED BY <2>1, <2>2, <2>3, <2>4, LaneTells
<1> QED BY <1>2, <1>3, <1>4, <1>6, <1>7, <1>8, <1>9, <1>10 DEF Client, ShutdownStep

\* Every step keeps events and handles telling one story.
LEMMA StoryStep == StoryInv /\ [Next]_vars => StoryInv'
<1> SUFFICES ASSUME StoryInv, [Next]_vars PROVE StoryInv'
  OBVIOUS
<1>1. KeepingInv' /\ KeepingInv
  BY KeepingStep DEF StoryInv
<1>2. ASSUME NEW l \in Lanes, TaskBegins(l) \/ SlotGranted(l) PROVE StoryInv'
  <2>1. /\ task[l] \in {"created", "queued"} /\ UNCHANGED <<current, result, outcome>>
        /\ \/ \E p : Dispatch(l, p)
           \/ task' = [task EXCEPT ![l] = "queued"] /\ UNCHANGED events
    BY <1>2 DEF TaskBegins, SlotGranted
  <2>2. CASE task' = [task EXCEPT ![l] = "queued"] /\ UNCHANGED events
    <3>1. /\ task'[l] = "queued" /\ \A m \in Lanes \ {l} : task'[m] = task[m]
          /\ current[l] # NoTurn /\ StoryFits(l)
      BY <1>1, <2>1, <2>2 DEF StoryInv, KeepingInv, LaneFits, TypeOK
    <3>2. StoryFits(l)' /\ Moves
      BY <2>1, <2>2, <3>1 DEF StoryFits, HoldsSlot, Moves
    <3> QED BY <1>1, <2>1, <2>2, <3>1, <3>2, LaneTells
  <2> QED BY <1>1, <2>1, <2>2, DispatchTells
<1>3. ASSUME NEW l \in Lanes, CancelledBeforeStart(l) PROVE StoryInv'
  BY <1>1, <1>3, SilentCancel
<1>4. ASSUME NEW l \in Lanes, CancelledAfterStart(l) \/ RunnerRaises(l) PROVE StoryInv'
  <2>1. /\ HoldsSlot(l) /\ UNCHANGED <<current, result>>
        /\ \E e \in {"failed", "cancelled"} : LeavesPool(l, e, "none")
    BY <1>4 DEF CancelledAfterStart, RunnerRaises
  <2>2. Moves
    BY <2>1 DEF Moves
  <2> QED BY <1>1, <2>1, <2>2, LeavingTells
<1>5. ASSUME NEW l \in Lanes, RunnerReturns(l) PROVE StoryInv'
  <2>1. HoldsSlot(l) /\ UNCHANGED current /\ LeavesPool(l, "ended", "ok") /\ Moves
    BY <1>5, ResolveMoves DEF RunnerReturns, HoldsSlot
  <2> QED BY <1>1, <2>1, LeavingTells
<1>6. ASSUME NEW l \in Lanes, WorkerBegins(l) PROVE StoryInv'
  <2>1. /\ pending[l] \in Seq(Turns) /\ TakeNext(l, pending[l])
        /\ UNCHANGED <<events, outcome, result>>
    BY <1>1, <1>6 DEF WorkerBegins, KeepingInv, TypeOK
  <2>2. current[l] = NoTurn
    BY <1>1, <1>6 DEF WorkerBegins, KeepingInv, LaneFits
  <2> QED BY <1>1, <2>1, <2>2, WorkerTells
<1>7. ASSUME NEW l \in Lanes, WorkerResumes(l) PROVE StoryInv'
  <2> DEFINE q == pending[l] \o mailbox[l]
  <2>1. q \in Seq(Turns) /\ ToSet(q) = ToSet(pending[l]) \cup ToSet(mailbox[l])
    BY <1>1, HeldTurns, ConcatElements DEF KeepingInv
  <2>2. /\ task[l] = "done" /\ TakeNext(l, q) /\ UNCHANGED <<events, outcome>>
        /\ result' = Resolve({current[l]}, outcome[l])
    BY <1>7 DEF WorkerResumes
  <2>3. current[l] # NoTurn
    BY <1>1, <2>2 DEF KeepingInv, LaneFits
  <2>4. result[current[l]] = "open" /\ current[l] \in Turns
    BY <1>1, <2>3, RunningIsOpen
  <2>5. /\ result'[current[l]] = outcome[l]
        /\ \A t \in Turns \ {current[l]} : result'[t] = result[t]
    BY <2>2, <2>4 DEF Resolve
  <2> HIDE DEF q
  <2> QED BY <1>1, <2>1, <2>2, <2>5, WorkerTells
<1>8. CASE \/ Client \/ Sweep \/ ShutdownStep \/ UNCHANGED vars
           \/ \E l \in Lanes : \/ RunnerBegins(l) \/ CancelSwallowed(l) \/ TerminalSent(l)
                              \/ RunnerDrains(l)
  BY <1>1, <1>8, ElsewhereTold
<1> QED BY <1>2, <1>3, <1>4, <1>5, <1>6, <1>7, <1>8 DEF Next, LoopStep, RunnerStep

\* Nothing is told at the start.
LEMMA StoryInit == Init => StoryInv
<1> SUFFICES ASSUME Init PROVE StoryInv
  OBVIOUS
<1>1. \A l \in Lanes : current[l] = NoTurn
  BY DEF Init
<1>2. \A t \in Turns : ToldFits(t)
  BY DEF Init, ToldFits
<1> QED BY <1>1, <1>2, KeepingInit DEF StoryInv

\* The sink hears of every turn that started its start and one end, the one its
\* handle then shows, and of no other turn: not of a turn cancelled in the queue
\* of a pool, nor of an inject that was merged.
THEOREM LifecycleIsTrue == Spec => []LifecycleAgrees
<1>1. Spec => []StoryInv
  BY StoryInit, StoryStep, PTL DEF Spec
<1> QED BY <1>1, StoryMeaning, PTL

-----------------------------------------------------------------------------
(* Shutdown.                                                               *)

\* Once the lanes are drained nothing waits again; from the grace window on the
\* shutdown task watches every turn that runs, and it ends with the last of them.
NothingWaits ==
  stage \notin {"open", "sealed"} =>
    \A l \in Lanes : pending[l] = <<>> /\ mailbox[l] = <<>>

AllWatched ==
  stage \in {"grace", "cascaded", "closed"} =>
    \A l \in Lanes : current[l] # NoTurn => current[l] \in survivors

AllOver == stage = "closed" => \A t \in survivors : result[t] # "open"

QuietInv == PoolInv /\ NothingWaits /\ AllWatched /\ AllOver

\* A lane outside the registry holds nothing, so draining the registered ones
\* and watching what runs there is enough.
LEMMA HeldIsRegistered ==
  ASSUME KeepingInv, NEW l \in Lanes, Held(l) # {}
  PROVE  l \in Registered
<1>1. PICK t \in Held(l) : TRUE
  OBVIOUS
<1>2. t \in Turns
  BY <1>1, HeldTurns DEF KeepingInv
<1>3. result[t] = "open" /\ registry[request[t].conversation] = l
  BY <1>1, <1>2 DEF KeepingInv, HeldIsOpen
<1>4. request[t].conversation \in Conversations
  BY <1>2, <1>3, SchedulerAssumption DEF KeepingInv, SubmittedHasRequest
<1>5. l # NoLane
  BY SchedulerAssumption
<1> QED BY <1>3, <1>4, <1>5 DEF Registered

\* Closed, the scheduler runs nothing, keeps nothing and has all its slots.
LEMMA QuietMeaning == QuietInv => ClosedIsQuiet
<1> SUFFICES ASSUME QuietInv, stage = "closed"
             PROVE  /\ \A t \in Turns : result[t] # "open"
                    /\ \A l \in Lanes : task[l] = "absent" /\ worker[l] # "awaiting"
                    /\ free = Capacity
  BY DEF ClosedIsQuiet
<1>1. KeepingInv /\ TypeOK
  BY DEF QuietInv, PoolInv, KeepingInv
<1>2. ASSUME NEW l \in Lanes
      PROVE  current[l] = NoTurn /\ task[l] = "absent" /\ worker[l] # "awaiting" /\ Held(l) = {}
  <2>1. current[l] = NoTurn
    <3>1. SUFFICES ASSUME current[l] # NoTurn PROVE FALSE
      OBVIOUS
    <3>2. result[current[l]] = "open" /\ current[l] \in survivors
      BY <1>1, <3>1, RunningIsOpen DEF QuietInv, AllWatched
    <3> QED BY <3>2 DEF QuietInv, AllOver
  <2>2. task[l] = "absent" /\ worker[l] # "awaiting" /\ chained[l] = {}
    BY <1>1, <2>1 DEF KeepingInv, LaneFits
  <2>3. pending[l] = <<>> /\ mailbox[l] = <<>>
    BY DEF QuietInv, NothingWaits
  <2> QED BY <2>1, <2>2, <2>3, EmptyElements DEF Held
<1>3. \A t \in Turns : result[t] # "open"
  BY <1>1, <1>2 DEF KeepingInv, OpenIsHeld
<1>4. ASSUME NEW p \in Pools PROVE free[p] = Capacity[p]
  <2>1. Holders(p) = {}
    BY <1>2 DEF Holders, HoldsSlot
  <2>2. Cardinality(Holders(p)) = 0
    BY <2>1, FS_EmptySet
  <2>3. free[p] + Cardinality(Holders(p)) = Capacity[p] /\ free[p] \in Nat
    BY <1>1, <1>4 DEF QuietInv, PoolInv, PoolFits, TypeOK
  <2> QED BY <2>2, <2>3
<1>5. free = Capacity
  BY <1>1, <1>4, SchedulerAssumption DEF TypeOK
<1> QED BY <1>2, <1>3, <1>5

\* A step that offers no turn, brings no turn to a lane and reopens no handle.
LEMMA QuietKeeps ==
  ASSUME QuietInv, PoolInv', UNCHANGED <<stage, survivors>>,
         stage # "open" => Moves /\ \A t \in Turns : result'[t] = "open" => result[t] = "open",
         stage \notin {"open", "sealed"} =>
           \A l \in Lanes : /\ pending'[l] = <<>> /\ mailbox'[l] = <<>>
                            /\ current'[l] # NoTurn => current'[l] = current[l]
  PROVE  QuietInv'
<1>1. survivors \subseteq Turns
  BY DEF QuietInv, PoolInv, KeepingInv, TypeOK
<1>2. NothingWaits' /\ AllWatched'
  BY DEF QuietInv, NothingWaits, AllWatched
<1>3. AllOver'
  BY <1>1 DEF QuietInv, AllOver
<1> QED BY <1>2, <1>3 DEF QuietInv

\* An empty queue leaves its worker nothing to take.
LEMMA TakesNothing ==
  ASSUME TypeOK, NEW l \in Lanes, NEW q, q = <<>>, TakeNext(l, q)
  PROVE  pending'[l] = <<>> /\ current'[l] = NoTurn
BY DEF TakeNext, TypeOK

\* Once the scheduler is sealed no call and no step of a lane brings a turn.
LEMMA LanesStayQuiet ==
  ASSUME QuietInv, PoolInv',
         Client \/ Sweep \/ UNCHANGED vars
           \/ \E l \in Lanes : LoopStep(l) \/ RunnerStep(l) \/ RunnerDrains(l)
  PROVE  QuietInv' \/ ShutdownSeals
<1>1. KeepingInv /\ TypeOK
  BY DEF QuietInv, PoolInv, KeepingInv
<1>2. ASSUME NEW S, NEW v \in {"ok", "none"}, result' = Resolve(S, v) \/ UNCHANGED result
      PROVE  Moves /\ \A t \in Turns : result'[t] = "open" => result[t] = "open"
  BY <1>2 DEF Moves, Resolve
<1>3. ASSUME NEW t \in Turns, NEW req \in Requests, Submit(t, req) PROVE QuietInv'
  <2>1. stage = "open" /\ UNCHANGED <<stage, survivors>>
    BY <1>3 DEF Submit
  <2> QED BY <2>1, QuietKeeps
<1>4. ASSUME NEW t \in Turns, CancelTurn(t) PROVE QuietInv'
  <2>1. /\ UNCHANGED <<stage, survivors, current>>
        /\ result' = Resolve({t}, "none") \/ UNCHANGED result
    BY <1>4 DEF CancelTurn, CancelPending, CancelInjected, CancelCurrent
  <2>2. ASSUME \A l \in Lanes : pending[l] = <<>> /\ mailbox[l] = <<>>
        PROVE  UNCHANGED <<pending, mailbox>>
    <3>1. \A l \in Lanes : DOMAIN pending[l] = {} /\ DOMAIN mailbox[l] = {}
      BY <2>2
    <3>2. ~CancelPending(t) /\ ~CancelInjected(t)
      BY <3>1 DEF CancelPending, CancelInjected
    <3> QED BY <1>4, <3>2 DEF CancelTurn, CancelCurrent
  <2> QED BY <1>2, <2>1, <2>2, QuietKeeps DEF QuietInv, NothingWaits
<1>5. ASSUME NEW c \in Conversations, Stop(c) PROVE QuietInv'
  <2>1. PICK L : Drain(L)
    BY <1>5 DEF Stop
  <2>2. /\ UNCHANGED <<stage, survivors, current>>
        /\ \A l \in Lanes : /\ pending[l] = <<>> => pending'[l] = <<>>
                            /\ mailbox[l] = <<>> => mailbox'[l] = <<>>
    BY <1>5, <2>1 DEF Stop, Drain
  <2>3. Moves /\ \A t \in Turns : result'[t] = "open" => result[t] = "open"
    BY <2>1, <1>2 DEF Drain
  <2> QED BY <2>2, <2>3, QuietKeeps DEF QuietInv, NothingWaits
<1>6. CASE Sweep \/ UNCHANGED vars
  <2>1. UNCHANGED <<stage, survivors, pending, mailbox, current, result>>
    BY <1>6 DEF Sweep, vars
  <2> QED BY <1>2, <2>1, QuietKeeps DEF QuietInv, NothingWaits
<1>7. ASSUME NEW l \in Lanes, WorkerBegins(l) \/ WorkerResumes(l) PROVE QuietInv'
  <2>1. UNCHANGED <<stage, survivors>>
    BY <1>7 DEF WorkerBegins, WorkerResumes
  <2>2. Moves /\ \A t \in Turns : result'[t] = "open" => result[t] = "open"
    BY <1>1, <1>2, <1>7 DEF WorkerBegins, WorkerResumes, TypeOK
  <2>3. ASSUME \A m \in Lanes : pending[m] = <<>> /\ mailbox[m] = <<>>
        PROVE  \A m \in Lanes : /\ pending'[m] = <<>> /\ mailbox'[m] = <<>>
                                /\ current'[m] # NoTurn => current'[m] = current[m]
    <3>1. pending[l] \o mailbox[l] = <<>>
      BY <2>3
    <3>2. PICK q : TakeNext(l, q) /\ q = <<>>
      BY <1>7, <2>3, <3>1 DEF WorkerBegins, WorkerResumes
    <3>3. pending'[l] = <<>> /\ current'[l] = NoTurn
      BY <1>1, <3>2, TakesNothing
    <3>4. \A m \in Lanes \ {l} : pending'[m] = pending[m] /\ current'[m] = current[m]
      BY <1>1, <3>2, TakeUntouched
    <3>5. \A m \in Lanes : mailbox'[m] = <<>>
      BY <1>1, <1>7, <2>3 DEF WorkerBegins, WorkerResumes, TypeOK
    <3> QED BY <2>3, <3>3, <3>4, <3>5
  <2> QED BY <2>1, <2>2, <2>3, QuietKeeps DEF QuietInv, NothingWaits
<1>8. ASSUME NEW l \in Lanes,
             \/ TaskBegins(l) \/ SlotGranted(l) \/ CancelledBeforeStart(l)
             \/ CancelledAfterStart(l) \/ CancelSwallowed(l) \/ TerminalSent(l)
             \/ RunnerStep(l) \/ RunnerDrains(l)
      PROVE  QuietInv'
  <2>1. UNCHANGED <<stage, survivors, pending, current>>
    BY <1>8 DEF TaskBegins, SlotGranted, CancelledBeforeStart, CancelledAfterStart,
                CancelSwallowed, TerminalSent, RunnerStep, RunnerBegins, RunnerReturns,
                RunnerRaises, RunnerDrains
  <2>2. \A m \in Lanes : mailbox[m] = <<>> => mailbox'[m] = <<>>
    BY <1>1, <1>8 DEF TaskBegins, SlotGranted, CancelledBeforeStart, CancelledAfterStart,
                CancelSwallowed, TerminalSent, RunnerStep, RunnerBegins, RunnerReturns,
                RunnerRaises, RunnerDrains, TypeOK
  <2>3. \E v \in {"ok", "none"} : result' = Resolve(chained[l], v) \/ UNCHANGED result
    BY <1>1, <1>8 DEF TaskBegins, SlotGranted, CancelledBeforeStart, CancelledAfterStart,
                CancelSwallowed, TerminalSent, RunnerStep, RunnerBegins, RunnerReturns,
                RunnerRaises, RunnerDrains, TypeOK
  <2>4. Moves /\ \A t \in Turns : result'[t] = "open" => result[t] = "open"
    BY <1>2, <2>3
  <2> QED BY <2>1, <2>2, <2>4, QuietKeeps DEF QuietInv, NothingWaits
<1> QED BY <1>3, <1>4, <1>5, <1>6, <1>7, <1>8 DEF Client, LoopStep, RunnerStep

\* Shutdown drains every lane that holds a turn, watches every turn that runs
\* and ends when each of them has settled.
LEMMA ShutdownQuiets ==
  ASSUME QuietInv, PoolInv', ShutdownSeals \/ ShutdownStep
  PROVE  QuietInv'
<1>1. KeepingInv /\ TypeOK
  BY DEF QuietInv, PoolInv, KeepingInv
<1>2. CASE ShutdownSeals
  BY <1>2 DEF ShutdownSeals, QuietInv, NothingWaits, AllWatched, AllOver
<1>3. CASE ShutdownDrains
  <2>1. stage' = "drained" /\ Drain(Registered)
    BY <1>3 DEF ShutdownDrains
  <2>2. ASSUME NEW l \in Lanes PROVE pending'[l] = <<>> /\ mailbox'[l] = <<>>
    <3>1. CASE l \in Registered
      BY <2>1, <3>1 DEF Drain
    <3>2. CASE l \notin Registered
      <4>1. Held(l) = {}
        BY <1>1, <3>2, HeldIsRegistered
      <4>2. pending[l] = <<>> /\ mailbox[l] = <<>>
        BY <1>1, <4>1, HeldTurns, NoElements DEF Held
      <4> QED BY <2>1, <3>2, <4>2 DEF Drain
    <3> QED BY <3>1, <3>2
  <2> QED BY <2>1, <2>2 DEF QuietInv, NothingWaits, AllWatched, AllOver
<1>4. CASE ShutdownWaits
  <2>1. /\ stage = "drained" /\ stage' = "grace" /\ UNCHANGED <<pending, mailbox, current>>
        /\ survivors' = {current[l] : l \in Registered} \ {NoTurn}
    BY <1>4 DEF ShutdownWaits
  <2>2. \A l \in Lanes : current[l] # NoTurn => l \in Registered
    BY <1>1, HeldIsRegistered DEF Held
  <2> QED BY <2>1, <2>2 DEF QuietInv, NothingWaits, AllWatched, AllOver
<1>5. CASE ShutdownCascades
  <2>1. /\ stage = "grace" /\ stage' = "cascaded" /\ UNCHANGED <<pending, mailbox, current>>
        /\ survivors' = {t \in survivors : result[t] = "open"}
    BY <1>5 DEF ShutdownCascades
  <2>2. \A l \in Lanes : current[l] # NoTurn => result[current[l]] = "open"
    BY <1>1, RunningIsOpen
  <2> QED BY <2>1, <2>2 DEF QuietInv, NothingWaits, AllWatched, AllOver
<1>6. CASE ShutdownEnds
  BY <1>6 DEF ShutdownEnds, QuietInv, NothingWaits, AllWatched, AllOver
<1> QED BY <1>2, <1>3, <1>4, <1>5, <1>6 DEF ShutdownStep

\* Once shutdown() returns, every handle has settled, no task of a lane is left
\* and every slot is back, whatever was cancelled or submitted while it ran.
THEOREM ShutdownLeavesNothing == Spec => []ClosedIsQuiet
<1>1. Init => QuietInv
  <2> SUFFICES ASSUME Init PROVE QuietInv
    OBVIOUS
  <2>1. PoolInv
    BY PoolInit
  <2> QED BY <2>1 DEF Init, QuietInv, NothingWaits, AllWatched, AllOver
<1>2. QuietInv /\ [Next]_vars => QuietInv'
  <2> SUFFICES ASSUME QuietInv, [Next]_vars PROVE QuietInv'
    OBVIOUS
  <2>1. PoolInv'
    BY PoolStep DEF QuietInv
  <2>2. CASE ShutdownSeals \/ ShutdownStep
    BY <2>1, <2>2, ShutdownQuiets
  <2>3. CASE Client \/ Sweep \/ UNCHANGED vars
               \/ \E l \in Lanes : LoopStep(l) \/ RunnerStep(l) \/ RunnerDrains(l)
    BY <2>1, <2>2, <2>3, LanesStayQuiet
  <2> QED BY <2>2, <2>3 DEF Next
<1>3. Spec => []QuietInv
  BY <1>1, <1>2, PTL DEF Spec
<1> QED BY <1>3, QuietMeaning, PTL

-----------------------------------------------------------------------------
(* The refinement of TurnLedger.                                           *)

\* What the ledger shows of a turn, apart from its conversation.
At(t, status, host, verdict) ==
  LedgerStatus(t) = status /\ LedgerHost(t) = host /\ LedgerVerdict(t) = verdict

Queued(l) == ToSet(pending[l]) \cup ToSet(mailbox[l])

VerdictOf(l) == IF Decided(l) THEN outcome[l] ELSE "undecided"

\* The place where the scheduler keeps a turn determines what the ledger shows.
LedgerReads ==
  /\ \A l \in Lanes, t \in Turns :
       /\ t = current[l] => At(t, "running", NoTurn, VerdictOf(l))
       /\ t \in chained[l] => At(t, "merged", current[l], "undecided")
       /\ t \in Queued(l) => At(t, "waiting", NoTurn, "undecided")
  /\ \A t \in Turns : result[t] # "open" => At(t, result[t], NoTurn, "undecided")

LEMMA Reading == KeepingInv => LedgerReads
<1> SUFFICES ASSUME KeepingInv PROVE LedgerReads
  OBVIOUS
<1>1. ASSUME NEW l \in Lanes, NEW t \in Turns, t \in Held(l)
      PROVE  /\ result[t] = "open" /\ t # NoTurn
             /\ \A m \in Lanes : (t = current[m] \/ t \in chained[m]) => m = l
  <2>1. t # NoTurn
    BY SchedulerAssumption
  <2>2. \A m \in Lanes : (t = current[m] \/ t \in chained[m]) => t \in Held(m)
    BY <2>1 DEF Held
  <2> QED BY <1>1, <2>1, <2>2, HeldOnce DEF KeepingInv, HeldIsOpen
<1>2. ASSUME NEW l \in Lanes, NEW t \in Turns, t = current[l]
      PROVE  At(t, "running", NoTurn, VerdictOf(l))
  <2>1. t \in Held(l) /\ t \notin chained[l]
    BY <1>2, SchedulerAssumption DEF Held, KeepingInv, PlacesApart
  <2>2. /\ result[t] = "open" /\ \A m \in Lanes : t \notin chained[m]
        /\ \A m \in Lanes : t = current[m] => m = l
    BY <1>1, <2>1
  <2>3. LedgerStatus(t) = "running" /\ LedgerHost(t) = NoTurn
    BY <1>2, <2>2 DEF LedgerStatus, LedgerHost
  <2>4. LedgerVerdict(t) = VerdictOf(l)
    <3>1. CASE Decided(l)
      <4>1. l = CHOOSE m \in Lanes : current[m] = t /\ Decided(m)
        BY <1>2, <2>2, <3>1
      <4> QED BY <1>2, <3>1, <4>1 DEF LedgerVerdict, VerdictOf
    <3>2. CASE ~Decided(l)
      BY <2>2, <3>2 DEF LedgerVerdict, VerdictOf
    <3> QED BY <3>1, <3>2
  <2> QED BY <2>3, <2>4 DEF At
<1>3. ASSUME NEW l \in Lanes, NEW t \in Turns, t \in chained[l]
      PROVE  At(t, "merged", current[l], "undecided")
  <2>1. t \in Held(l) /\ t # current[l]
    BY <1>3 DEF Held, KeepingInv, PlacesApart
  <2>2. /\ result[t] = "open" /\ \A m \in Lanes : t # current[m]
        /\ \A m \in Lanes : t \in chained[m] => m = l
    BY <1>1, <2>1
  <2>3. l = CHOOSE m \in Lanes : t \in chained[m]
    BY <1>3, <2>2
  <2> QED BY <1>3, <2>2, <2>3 DEF At, LedgerStatus, LedgerHost, LedgerVerdict
<1>4. ASSUME NEW l \in Lanes, NEW t \in Turns, t \in Queued(l)
      PROVE  At(t, "waiting", NoTurn, "undecided")
  <2>1. t \in Held(l) /\ t # current[l] /\ t \notin chained[l]
    BY <1>4 DEF Queued, Held, KeepingInv, PlacesApart
  <2>2. result[t] = "open" /\ \A m \in Lanes : t # current[m] /\ t \notin chained[m]
    BY <1>1, <2>1
  <2> QED BY <2>2 DEF At, LedgerStatus, LedgerHost, LedgerVerdict
<1>5. ASSUME NEW t \in Turns, result[t] # "open"
      PROVE  At(t, result[t], NoTurn, "undecided")
  <2>1. \A m \in Lanes : t # current[m] /\ t \notin chained[m]
    BY <1>1, <1>5, SchedulerAssumption DEF Held
  <2> QED BY <1>5, <2>1 DEF At, LedgerStatus, LedgerHost, LedgerVerdict
<1> QED BY <1>2, <1>3, <1>4, <1>5 DEF LedgerReads

\* The same of the next state.
LEMMA ReadingNext == KeepingInv' => LedgerReads'
BY Reading, PTL

\* A step whose effect the ledger shows in two states.
Step == KeepingInv /\ LedgerReads /\ KeepingInv' /\ LedgerReads'

Same(t) == /\ LedgerStatus(t)' = LedgerStatus(t) /\ LedgerHost(t)' = LedgerHost(t)
           /\ LedgerVerdict(t)' = LedgerVerdict(t)

\* A turn that stays in its place looks the same.
LEMMA StaysInPlace ==
  ASSUME Step, NEW t \in Turns, result'[t] = result[t],
         \A l \in Lanes :
           /\ t \in Queued(l) => t \in Queued(l)'
           /\ t \in chained[l] => t \in chained'[l] /\ current'[l] = current[l]
           /\ t = current[l] => current'[l] = current[l] /\ VerdictOf(l)' = VerdictOf(l)
  PROVE  Same(t)
<1>1. CASE result[t] # "open"
  BY <1>1 DEF Step, LedgerReads, At, Same
<1>2. CASE result[t] = "open"
  <2>1. PICK l \in Lanes : t \in Held(l)
    BY <1>2 DEF Step, KeepingInv, OpenIsHeld
  <2>2. CASE t \in Queued(l)
    BY <2>2 DEF Step, LedgerReads, At, Same
  <2>3. CASE t \in chained[l]
    BY <2>3 DEF Step, LedgerReads, At, Same
  <2>4. CASE t = current[l]
    BY <2>4 DEF Step, LedgerReads, At, Same
  <2> QED BY <2>1, <2>2, <2>3, <2>4 DEF Held, Queued
<1> QED BY <1>1, <1>2


\* Only a submit gives a turn its conversation: handles that settle were open.
LEMMA SettlingConversation ==
  ASSUME NEW S, NEW v \in {"ok", "none"}, result' = Resolve(S, v) \/ UNCHANGED result,
         UNCHANGED request, NEW t \in Turns
  PROVE  LedgerConversation(t)' = LedgerConversation(t)
BY DEF LedgerConversation, Resolve

\* In the conversation of a turn a lane holds runs at most the lane's own turn.
LEMMA RunsInConversation ==
  ASSUME KeepingInv, NEW l \in Lanes, NEW t \in Held(l), NEW u \in Turns,
         LedgerStatus(u) = "running", LedgerConversation(u) = LedgerConversation(t)
  PROVE  u = current[l]
<1>1. t \in Turns /\ result[t] = "open" /\ registry[request[t].conversation] = l
  BY HeldTurns DEF KeepingInv, HeldIsOpen
<1>2. result[u] = "open" /\ \E m \in Lanes : current[m] = u
  BY DEF LedgerStatus, KeepingInv, TypeOK
<1>3. PICK m \in Lanes : current[m] = u
  BY <1>2
<1>4. u \in Held(m)
  BY <1>3, SchedulerAssumption DEF Held
<1>5. registry[request[u].conversation] = m
  BY <1>4 DEF KeepingInv, HeldIsOpen
<1>6. m = l
  BY <1>1, <1>2, <1>5 DEF LedgerConversation
<1> QED BY <1>3, <1>6

\* All turns a lane holds are of one conversation.
LEMMA HeldTogether ==
  ASSUME KeepingInv, NEW l \in Lanes, NEW t \in Held(l), NEW u \in Held(l)
  PROVE  LedgerConversation(u) = LedgerConversation(t)
<1>1. t \in Turns /\ u \in Turns
  BY HeldTurns DEF KeepingInv
<1>2. /\ result[t] = "open" /\ registry[request[t].conversation] = l
      /\ result[u] = "open" /\ registry[request[u].conversation] = l
  BY <1>1 DEF KeepingInv, HeldIsOpen
<1>3. request[t].conversation \in Conversations /\ request[u].conversation \in Conversations
  BY <1>1, <1>2, SchedulerAssumption DEF KeepingInv, SubmittedHasRequest
<1>4. l # NoLane
  BY SchedulerAssumption
<1> QED BY <1>1, <1>2, <1>3, <1>4 DEF LedgerConversation, KeepingInv, OneConversationPerLane

\* The guests of a turn that runs are the injects merged in its lane.
LEMMA GuestsAreMerged ==
  ASSUME KeepingInv, LedgerReads, NEW l \in Lanes, current[l] # NoTurn
  PROVE  Ledger!Guests(current[l]) = chained[l]
<1>1. chained[l] \subseteq Turns /\ current[l] \in Held(l)
  BY DEF KeepingInv, TypeOK, Held
<1>2. \A t \in chained[l] : LedgerHost(t) = current[l]
  BY <1>1 DEF LedgerReads, At
<1>3. ASSUME NEW t \in Turns, LedgerHost(t) = current[l] PROVE t \in chained[l]
  <2>1. PICK m \in Lanes : t \in chained[m]
    BY <1>3 DEF LedgerHost
  <2>2. current[m] = current[l]
    BY <1>3, <2>1 DEF LedgerReads, At
  <2>3. current[m] \in Held(m)
    BY <2>2 DEF Held
  <2>4. m = l
    BY <1>1, <2>2, <2>3, HeldOnce
  <2> QED BY <2>1, <2>4
<1> QED BY <1>1, <1>2, <1>3 DEF Ledger!Guests

\* The ledger's view of a step in which nothing it shows changes.
LEMMA Stutters ==
  ASSUME Step, UNCHANGED <<result, request>>,
         \A l \in Lanes : /\ Queued(l)' = Queued(l) /\ chained'[l] = chained[l]
                          /\ current'[l] = current[l] /\ VerdictOf(l)' = VerdictOf(l)
  PROVE  UNCHANGED Ledger!ledger
<1>1. \A t \in Turns : Same(t)
  BY StaysInPlace
<1>2. \A t \in Turns : LedgerConversation(t)' = LedgerConversation(t)
  BY DEF LedgerConversation
<1> QED BY <1>1, <1>2 DEF Same, Ledger!ledger

\* submit accepts a turn.
LEMMA SubmitAccepts ==
  ASSUME Step, NEW t \in Turns, NEW req \in Requests, Submit(t, req)
  PROVE  Ledger!Next
<1>1. /\ result[t] = "unsubmitted" /\ request' = [request EXCEPT ![t] = req]
      /\ result' = [result EXCEPT ![t] = "open"]
      /\ UNCHANGED <<current, chained, task, outcome>>
  BY DEF Submit, LaneSubmit
<1>2. /\ result'[t] = "open" /\ request'[t] = req
      /\ \A u \in Turns \ {t} : result'[u] = result[u] /\ request'[u] = request[u]
  BY <1>1 DEF Step, KeepingInv, TypeOK
<1>3. PICK l \in Lanes : LaneSubmit(l, t, EffectiveBusy(req))
  BY DEF Submit
<1>4. t \notin Held(l)
  BY <1>1 DEF Step, KeepingInv, HeldIsOpen
<1>5. Held(l)' = Held(l) \cup {t} /\ \A m \in Lanes \ {l} : Untouched(m)
  BY <1>3, <1>4, LaneSubmitKeeps DEF Step
<1>6. Queued(l)' = Queued(l) \cup {t}
  <2>1. /\ (PlacesApart(l))' /\ PlacesApart(l)
    BY DEF Step, KeepingInv
  <2> QED BY <1>1, <1>4, <1>5, <2>1 DEF Held, Queued, PlacesApart
<1>7. ASSUME NEW u \in Turns \ {t}
      PROVE  Same(u) /\ LedgerConversation(u)' = LedgerConversation(u)
  <2>1. ASSUME NEW m \in Lanes
        PROVE  /\ u \in Queued(m) => u \in Queued(m)'
               /\ u \in chained[m] => u \in chained'[m] /\ current'[m] = current[m]
               /\ u = current[m] => current'[m] = current[m] /\ VerdictOf(m)' = VerdictOf(m)
    BY <1>1, <1>5, <1>6 DEF Untouched, Queued, VerdictOf, Decided
  <2>2. Same(u)
    BY <1>2, <2>1, StaysInPlace
  <2> QED BY <1>2, <2>2 DEF LedgerConversation
<1>8. /\ At(t, "unsubmitted", NoTurn, "undecided")
      /\ At(t, "waiting", NoTurn, "undecided")'
  BY <1>1, <1>6 DEF Step, LedgerReads
<1>9. LedgerConversation(t)' = req.conversation /\ req.conversation \in Conversations
  BY <1>2, SchedulerAssumption DEF LedgerConversation
<1>10. Ledger!Accept(t, req.conversation)
  BY <1>7, <1>8, <1>9 DEF At, Same, Ledger!Accept
<1> QED BY <1>9, <1>10 DEF Ledger!Next

\* Whoever settles turns that wait, as they leave their queues, withdraws them.
LEMMA SettlingWithdraws ==
  ASSUME Step, NEW S \in SUBSET Turns, result' = Resolve(S, "none"),
         \A t \in S : \E l \in Lanes : t \in Queued(l),
         \A l \in Lanes : Queued(l) \ S \subseteq Queued(l)',
         UNCHANGED <<request, current, chained, task, outcome>>
  PROVE  Ledger!Next
<1>1. ASSUME NEW t \in S
      PROVE  At(t, "waiting", NoTurn, "undecided") /\ At(t, "none", NoTurn, "undecided")'
  <2>1. PICK l \in Lanes : t \in Queued(l)
    OBVIOUS
  <2>2. t \in Held(l) /\ t \in Turns
    BY <2>1 DEF Held, Queued
  <2>3. result[t] = "open"
    BY <2>2 DEF Step, KeepingInv, HeldIsOpen
  <2>4. result'[t] = "none"
    BY <2>2, <2>3 DEF Resolve
  <2> QED BY <2>1, <2>2, <2>4 DEF Step, LedgerReads
<1>2. ASSUME NEW t \in Turns \ S PROVE Same(t)
  <2>1. result'[t] = result[t]
    BY DEF Resolve
  <2>2. \A l \in Lanes : VerdictOf(l)' = VerdictOf(l)
    BY DEF VerdictOf, Decided
  <2> QED BY <2>1, <2>2, StaysInPlace
<1>3. \A t \in Turns : LedgerConversation(t)' = LedgerConversation(t)
  BY SettlingConversation
<1>4. Ledger!Withdraw(S)
  BY <1>1, <1>2, <1>3 DEF At, Same, Ledger!Withdraw
<1> QED BY <1>4 DEF Ledger!Next

\* TurnHandle.cancel withdraws a turn that waits, and only marks one that runs.
LEMMA CancelRefines ==
  ASSUME Step, NEW t \in Turns, CancelTurn(t)
  PROVE  Ledger!Next \/ UNCHANGED Ledger!ledger
<1>1. UNCHANGED <<request, current, chained, task, outcome>>
  BY DEF CancelTurn
<1>2. TypeOK
  BY DEF Step, KeepingInv
<1>3. CASE CancelPending(t)
  <2>1. PICK l \in Lanes : \E i \in DOMAIN pending[l] :
          pending[l][i] = t /\ pending' = [pending EXCEPT ![l] = RemoveAt(@, i)]
    BY <1>3 DEF CancelPending
  <2>2. PICK i \in DOMAIN pending[l] :
          pending[l][i] = t /\ pending' = [pending EXCEPT ![l] = RemoveAt(@, i)]
    BY <2>1
  <2>3. UNCHANGED mailbox /\ result' = Resolve({t}, "none")
    BY <1>3 DEF CancelPending
  <2>4. /\ pending'[l] = RemoveAt(pending[l], i)
        /\ \A m \in Lanes \ {l} : pending'[m] = pending[m]
    BY <1>2, <2>2 DEF TypeOK
  <2>5. ToSet(pending[l]) = ToSet(pending'[l]) \cup {t}
    BY <1>2, <2>2, <2>4, HeldTurns, RemoveElements
  <2>6. t \in Queued(l) /\ \A m \in Lanes : Queued(m) \ {t} \subseteq Queued(m)'
    BY <2>3, <2>4, <2>5 DEF Queued
  <2> QED BY <1>1, <2>3, <2>6, SettlingWithdraws
<1>4. CASE CancelInjected(t)
  <2>1. PICK l \in Lanes : \E i \in DOMAIN mailbox[l] :
          mailbox[l][i] = t /\ mailbox' = [mailbox EXCEPT ![l] = RemoveAt(@, i)]
    BY <1>4 DEF CancelInjected
  <2>2. PICK i \in DOMAIN mailbox[l] :
          mailbox[l][i] = t /\ mailbox' = [mailbox EXCEPT ![l] = RemoveAt(@, i)]
    BY <2>1
  <2>3. UNCHANGED pending /\ result' = Resolve({t}, "none")
    BY <1>4 DEF CancelInjected
  <2>4. /\ mailbox'[l] = RemoveAt(mailbox[l], i)
        /\ \A m \in Lanes \ {l} : mailbox'[m] = mailbox[m]
    BY <1>2, <2>2 DEF TypeOK
  <2>5. ToSet(mailbox[l]) = ToSet(mailbox'[l]) \cup {t}
    BY <1>2, <2>2, <2>4, HeldTurns, RemoveElements
  <2>6. t \in Queued(l) /\ \A m \in Lanes : Queued(m) \ {t} \subseteq Queued(m)'
    BY <2>3, <2>4, <2>5 DEF Queued
  <2> QED BY <1>1, <2>3, <2>6, SettlingWithdraws
<1>5. CASE CancelCurrent(t)
  <2>1. UNCHANGED <<pending, mailbox, result>>
    BY <1>5 DEF CancelCurrent
  <2> QED BY <1>1, <2>1, Stutters DEF Queued, VerdictOf, Decided
<1> QED BY <1>3, <1>4, <1>5 DEF CancelTurn

\* /stop and the drain of shutdown withdraw what waits in the lanes they drain.
LEMMA DrainRefines ==
  ASSUME Step, NEW L \in SUBSET Lanes, Drain(L),
         UNCHANGED <<request, current, chained, task, outcome>>
  PROVE  Ledger!Next
<1> DEFINE S == UNION {Queued(l) : l \in L}
<1>1. result' = Resolve(S, "none")
  BY DEF Drain, Queued
<1>2. S \in SUBSET Turns
  <2>1. \A l \in Lanes : Queued(l) \subseteq Turns
    BY HeldTurns DEF Step, KeepingInv, Queued
  <2> QED BY <2>1
<1>3. \A l \in Lanes : Queued(l) \ S \subseteq Queued(l)'
  <2>1. SUFFICES ASSUME NEW l \in Lanes PROVE Queued(l) \ S \subseteq Queued(l)'
    OBVIOUS
  <2>2. CASE l \in L
    BY <2>2
  <2>3. CASE l \notin L
    BY <2>3 DEF Drain, Queued
  <2> QED BY <2>2, <2>3
<1>4. \A t \in S : \E l \in Lanes : t \in Queued(l)
  OBVIOUS
<1> HIDE DEF S
<1> QED BY <1>1, <1>2, <1>3, <1>4, SettlingWithdraws

\* What the worker takes from a queue starts; what it leaves behind waits on.
LEMMA TakeShows ==
  ASSUME Step, NEW l \in Lanes, NEW q \in Seq(Turns), TakeNext(l, q), chained[l] = {},
         ToSet(q) = Queued(l), mailbox'[l] = <<>>,
         \A m \in Lanes \ {l} : mailbox'[m] = mailbox[m],
         UNCHANGED <<chained, outcome>>, NEW u \in Turns, u # current[l],
         result'[u] = result[u], q # <<>> => u # Head(q)
  PROVE  Same(u)
<1>1. TypeOK
  BY DEF Step, KeepingInv
<1>2. \A m \in Lanes \ {l} : /\ pending'[m] = pending[m] /\ current'[m] = current[m]
                             /\ task'[m] = task[m]
  BY <1>1, TakeUntouched
<1>3. u \in Queued(l) => u \in Queued(l)'
  <2>1. SUFFICES ASSUME u \in Queued(l) PROVE u \in ToSet(pending'[l])
    BY DEF Queued
  <2>2. q # <<>>
    BY <2>1, EmptyElements
  <2>3. u \in ToSet(Tail(q))
    BY <2>1, <2>2, TailElements
  <2>4. pending'[l] = Tail(q)
    BY <1>1, <2>2 DEF TakeNext, TypeOK
  <2> QED BY <2>3, <2>4
<1>4. ASSUME NEW m \in Lanes
      PROVE  /\ u \in Queued(m) => u \in Queued(m)'
             /\ u \in chained[m] => u \in chained'[m] /\ current'[m] = current[m]
             /\ u = current[m] => current'[m] = current[m] /\ VerdictOf(m)' = VerdictOf(m)
  <2>1. CASE m = l
    BY <1>3, <2>1
  <2>2. CASE m # l
    BY <1>2, <2>2 DEF Queued, VerdictOf, Decided
  <2> QED BY <2>1, <2>2
<1> QED BY <1>4, StaysInPlace

\* The turn taken waited, runs now, and nobody has decided on it yet.
LEMMA TakenStarts ==
  ASSUME Step, NEW l \in Lanes, NEW q \in Seq(Turns), TakeNext(l, q),
         ToSet(q) = Queued(l), q # <<>>
  PROVE  /\ Head(q) \in Turns /\ Head(q) \in Queued(l) /\ Head(q) \in Held(l)
         /\ At(Head(q), "waiting", NoTurn, "undecided")
         /\ LedgerStatus(Head(q))' = "running" /\ LedgerHost(Head(q))' = NoTurn
         /\ LedgerVerdict(Head(q))' = "undecided"
<1> DEFINE h == Head(q)
<1>1. /\ Head(q) \in Turns /\ Head(q) \in Queued(l) /\ Head(q) \in Held(l)
      /\ At(Head(q), "waiting", NoTurn, "undecided")
  BY TailElements DEF Queued, Held, Step, LedgerReads
<1>2. current'[l] = Head(q) /\ task'[l] = "created"
  BY DEF TakeNext, Step, KeepingInv, TypeOK
<1>3. PICK t \in Turns : t = Head(q)
  BY <1>1
<1>4. VerdictOf(l)' = "undecided"
  BY <1>2 DEF VerdictOf, Decided
<1>5. At(t, "running", NoTurn, VerdictOf(l))'
  BY <1>2, <1>3 DEF Step, LedgerReads
<1> QED BY <1>1, <1>3, <1>4, <1>5 DEF At

\* A new worker starts the turn at the head of its queue, if one is left.
LEMMA BeginsRefines ==
  ASSUME Step, NEW l \in Lanes, WorkerBegins(l)
  PROVE  Ledger!Next \/ UNCHANGED Ledger!ledger
<1>1. /\ TypeOK /\ current[l] = NoTurn /\ mailbox[l] = <<>> /\ chained[l] = {}
      /\ TakeNext(l, pending[l]) /\ pending[l] \in Seq(Turns)
      /\ UNCHANGED <<mailbox, chained, outcome, request, result>>
  BY DEF Step, KeepingInv, LaneFits, WorkerBegins, TypeOK
<1>2. PICK q \in Seq(Turns) : q = pending[l]
  BY <1>1
<1>3. TakeNext(l, q) /\ ToSet(q) = Queued(l)
  BY <1>1, <1>2, EmptyElements DEF Queued
<1>4. ASSUME NEW u \in Turns, q # <<>> => u # Head(q) PROVE Same(u)
  <2>1. u # current[l]
    BY <1>1, SchedulerAssumption
  <2> QED BY <1>1, <1>3, <1>4, <2>1, TakeShows
<1>5. \A u \in Turns : LedgerConversation(u)' = LedgerConversation(u)
  BY <1>1 DEF LedgerConversation
<1>6. CASE q = <<>>
  BY <1>4, <1>5, <1>6 DEF Same, Ledger!ledger
<1>7. CASE q # <<>>
  <2>1. PICK h \in Turns : h = Head(q)
    BY <1>7, TailElements
  <2>2. /\ h \in Held(l) /\ At(h, "waiting", NoTurn, "undecided")
        /\ LedgerStatus(h)' = "running" /\ LedgerHost(h)' = NoTurn
        /\ LedgerVerdict(h)' = "undecided"
    BY <1>3, <1>7, <2>1, TakenStarts
  <2>3. Ledger!Running(LedgerConversation(h)) = {}
    <3>1. SUFFICES ASSUME NEW u \in Turns, LedgerStatus(u) = "running",
                          LedgerConversation(u) = LedgerConversation(h)
                   PROVE  FALSE
      BY DEF Ledger!Running
    <3>2. u = current[l]
      BY <2>2, <3>1, RunsInConversation DEF Step
    <3> QED BY <1>1, <3>2, SchedulerAssumption
  <2>4. \A u \in Turns \ {h} : Same(u)
    BY <1>4, <2>1
  <2>5. Ledger!Start(h)
    BY <1>5, <2>2, <2>3, <2>4 DEF At, Same, Ledger!Start
  <2> QED BY <2>5 DEF Ledger!Next
<1> QED BY <1>6, <1>7

\* The worker settles the turn that ran, its guests gone, and starts the next.
LEMMA ResumesRefines ==
  ASSUME Step, NEW l \in Lanes, WorkerResumes(l)
  PROVE  Ledger!Next
<1>1. /\ TypeOK /\ current[l] # NoTurn /\ chained[l] = {} /\ task[l] = "done"
      /\ TakeNext(l, pending[l] \o mailbox[l])
      /\ result' = Resolve({current[l]}, outcome[l])
      /\ mailbox' = [mailbox EXCEPT ![l] = <<>>]
      /\ UNCHANGED <<chained, outcome, request>>
  BY DEF Step, KeepingInv, LaneFits, WorkerResumes
<1>2. pending[l] \o mailbox[l] \in Seq(Turns)
      /\ ToSet(pending[l] \o mailbox[l]) = Queued(l)
  BY <1>1, HeldTurns, ConcatElements DEF Queued
<1>3. PICK q \in Seq(Turns) : q = pending[l] \o mailbox[l]
  BY <1>2
<1>4. /\ TakeNext(l, q) /\ ToSet(q) = Queued(l) /\ mailbox'[l] = <<>>
      /\ \A m \in Lanes \ {l} : mailbox'[m] = mailbox[m]
  BY <1>1, <1>2, <1>3 DEF TypeOK
<1>5. PICK h \in Turns, v \in {"ok", "none"} : h = current[l] /\ v = outcome[l]
  BY <1>1 DEF TypeOK
<1>6. /\ h \in Held(l) /\ result[h] = "open" /\ At(h, "running", NoTurn, v)
  <2>1. VerdictOf(l) = v
    BY <1>1, <1>5 DEF VerdictOf, Decided
  <2> QED BY <1>1, <1>5, <2>1, RunningIsOpen DEF Step, LedgerReads
<1>7. /\ result'[h] = v /\ \A u \in Turns \ {h} : result'[u] = result[u]
  BY <1>1, <1>5, <1>6 DEF Resolve
<1>8. At(h, v, NoTurn, "undecided")'
  <2>1. At(h, result[h], NoTurn, "undecided")'
    BY <1>7 DEF Step, LedgerReads
  <2> QED BY <1>7, <2>1 DEF At
<1>9. ASSUME NEW u \in Turns \ {h}, q # <<>> => u # Head(q) PROVE Same(u)
  BY <1>1, <1>4, <1>5, <1>7, <1>9, TakeShows
<1>10. \A u \in Turns : LedgerConversation(u)' = LedgerConversation(u)
  BY <1>1, <1>5, SettlingConversation
<1>11. Ledger!Guests(h) = {}
  BY <1>1, <1>5, GuestsAreMerged DEF Step
<1>12. CASE q = <<>>
  <2>1. Ledger!Settle(h, NoTurn)
    BY <1>6, <1>8, <1>9, <1>10, <1>11, <1>12, SchedulerAssumption
       DEF At, Same, Ledger!Settle
  <2> QED BY <2>1 DEF Ledger!Next
<1>13. CASE q # <<>>
  <2>1. PICK next \in Turns : next = Head(q)
    BY <1>13, TailElements
  <2>2. /\ next \in Held(l) /\ At(next, "waiting", NoTurn, "undecided")
        /\ LedgerStatus(next)' = "running" /\ LedgerHost(next)' = NoTurn
        /\ LedgerVerdict(next)' = "undecided"
    BY <1>4, <1>13, <2>1, TakenStarts
  <2>3. next # h
    BY <1>6, <2>2 DEF At
  <2>4. next \in Ledger!Waiting(LedgerConversation(h))
    <3>1. LedgerConversation(next) = LedgerConversation(h)
      BY <1>6, <2>2, HeldTogether DEF Step
    <3> QED BY <2>2, <3>1 DEF At, Ledger!Waiting
  <2>5. \A u \in Turns \ {h, next} : Same(u)
    BY <1>9, <2>1
  <2>6. Ledger!Settle(h, next)
    BY <1>6, <1>8, <1>10, <1>11, <2>2, <2>3, <2>4, <2>5 DEF At, Same, Ledger!Settle
  <2> QED BY <2>6 DEF Ledger!Next
<1> QED BY <1>12, <1>13

\* drain() merges what the mailbox held into the turn that runs.
LEMMA DrainsRefines ==
  ASSUME Step, NEW l \in Lanes, RunnerDrains(l)
  PROVE  Ledger!Next
<1>1. /\ TypeOK /\ current[l] # NoTurn /\ task[l] = "running"
      /\ chained' = [chained EXCEPT ![l] = @ \cup ToSet(mailbox[l])]
      /\ mailbox' = [mailbox EXCEPT ![l] = <<>>]
      /\ UNCHANGED <<pending, current, task, outcome, request, result>>
  BY DEF Step, KeepingInv, LaneFits, RunnerDrains
<1>2. /\ chained'[l] = chained[l] \cup ToSet(mailbox[l])
      /\ \A m \in Lanes \ {l} : mailbox'[m] = mailbox[m] /\ chained'[m] = chained[m]
  BY <1>1 DEF TypeOK
<1>3. PICK S \in SUBSET Turns : S = ToSet(mailbox[l])
  BY <1>1, HeldTurns
<1>4. PICK h \in Turns : h = current[l]
  BY <1>1 DEF TypeOK
<1>5. h \in Held(l) /\ At(h, "running", NoTurn, "undecided")
  <2>1. VerdictOf(l) = "undecided"
    BY <1>1 DEF VerdictOf, Decided
  <2> QED BY <1>1, <1>4, <2>1 DEF Held, Step, LedgerReads
<1>6. ASSUME NEW t \in S
      PROVE  /\ At(t, "waiting", NoTurn, "undecided") /\ At(t, "merged", h, "undecided")'
             /\ LedgerConversation(t) = LedgerConversation(h)
  <2>1. t \in Turns /\ t \in Queued(l) /\ t \in Held(l) /\ t \in chained'[l]
    BY <1>2, <1>3 DEF Queued, Held
  <2>2. current'[l] = h
    BY <1>1, <1>4
  <2>3. At(t, "waiting", NoTurn, "undecided")
    BY <2>1 DEF Step, LedgerReads
  <2>4. At(t, "merged", h, "undecided")'
    <3>1. At(t, "merged", current[l], "undecided")'
      BY <2>1 DEF Step, LedgerReads
    <3> QED BY <2>2, <3>1 DEF At
  <2>5. LedgerConversation(t) = LedgerConversation(h)
    BY <1>5, <2>1, HeldTogether DEF Step
  <2> QED BY <2>3, <2>4, <2>5
<1>7. ASSUME NEW t \in Turns \ S PROVE Same(t)
  <2>1. \A m \in Lanes : t \in Queued(m) => t \in Queued(m)'
    BY <1>1, <1>2, <1>3 DEF Queued
  <2>2. \A m \in Lanes : t \in chained[m] => t \in chained'[m]
    BY <1>2
  <2>3. \A m \in Lanes : VerdictOf(m)' = VerdictOf(m) /\ current'[m] = current[m]
    BY <1>1 DEF VerdictOf, Decided
  <2> QED BY <1>1, <2>1, <2>2, <2>3, StaysInPlace
<1>8. \A t \in Turns : LedgerConversation(t)' = LedgerConversation(t)
  BY <1>1 DEF LedgerConversation
<1>9. S \subseteq Ledger!Waiting(LedgerConversation(h))
  BY <1>6 DEF At, Ledger!Waiting
<1>10. Ledger!Merge(S, h)
  BY <1>5, <1>6, <1>7, <1>8, <1>9 DEF At, Same, Ledger!Merge
<1> QED BY <1>10 DEF Ledger!Next

\* A payload task that fixes what its turn will return, and settles nobody.
LEMMA DecidingNone ==
  ASSUME Step, NEW l \in Lanes, current[l] # NoTurn, ~Decided(l), Decided(l)',
         outcome'[l] = "none",
         \A m \in Lanes \ {l} : task'[m] = task[m] /\ outcome'[m] = outcome[m],
         UNCHANGED <<pending, mailbox, chained, current, request, result>>
  PROVE  Ledger!Next
<1>1. PICK h \in Turns : h = current[l]
  BY DEF Step, KeepingInv, TypeOK
<1>2. At(h, "running", NoTurn, "undecided") /\ At(h, "running", NoTurn, "none")'
  <2>1. VerdictOf(l) = "undecided" /\ VerdictOf(l)' = "none"
    BY DEF VerdictOf
  <2>2. At(h, "running", NoTurn, VerdictOf(l)) /\ At(h, "running", NoTurn, VerdictOf(l))'
    BY <1>1 DEF Step, LedgerReads
  <2> QED BY <2>1, <2>2 DEF At
<1>3. ASSUME NEW u \in Turns \ {h} PROVE Same(u)
  <2>1. \A m \in Lanes : Queued(m)' = Queued(m)
    BY DEF Queued
  <2>2. \A m \in Lanes \ {l} : VerdictOf(m)' = VerdictOf(m)
    BY DEF VerdictOf, Decided
  <2> QED BY <1>1, <2>1, <2>2, StaysInPlace
<1>4. \A u \in Turns : LedgerConversation(u)' = LedgerConversation(u)
  BY DEF LedgerConversation
<1>5. Ledger!Decide(h, "none")
  BY <1>2, <1>3, <1>4 DEF At, Same, Ledger!Decide
<1> QED BY <1>5 DEF Ledger!Next

\* What the settling of a lane's merged injects looks like.
LEMMA GuestsSettle ==
  ASSUME Step, NEW l \in Lanes, NEW v \in {"ok", "none"}, result' = Resolve(chained[l], v),
         \A m \in Lanes \ {l} : /\ chained'[m] = chained[m] /\ task'[m] = task[m]
                                /\ outcome'[m] = outcome[m],
         UNCHANGED <<pending, mailbox, current, request>>
  PROVE  /\ \A g \in chained[l] : LedgerStatus(g)' = v /\ LedgerHost(g)' = NoTurn
                                  /\ LedgerVerdict(g)' = LedgerVerdict(g)
         /\ \A u \in Turns \ chained[l] : u # current[l] => Same(u)
         /\ \A u \in Turns : LedgerConversation(u)' = LedgerConversation(u)
<1>1. chained[l] \subseteq Turns
  BY DEF Step, KeepingInv, TypeOK
<1>2. ASSUME NEW g \in chained[l]
      PROVE  LedgerStatus(g)' = v /\ LedgerHost(g)' = NoTurn
             /\ LedgerVerdict(g)' = LedgerVerdict(g)
  <2>1. g \in Turns /\ result[g] = "open"
    BY <1>1 DEF Step, KeepingInv, HeldIsOpen, Held
  <2>2. result'[g] = v
    BY <2>1 DEF Resolve
  <2>3. At(g, result[g], NoTurn, "undecided")'
    BY <2>1, <2>2 DEF Step, LedgerReads
  <2>4. At(g, "merged", current[l], "undecided")
    BY <2>1 DEF Step, LedgerReads
  <2> QED BY <2>2, <2>3, <2>4 DEF At
<1>3. ASSUME NEW u \in Turns \ chained[l], u # current[l] PROVE Same(u)
  <2>1. result'[u] = result[u]
    BY DEF Resolve
  <2>2. \A m \in Lanes : Queued(m)' = Queued(m)
    BY DEF Queued
  <2>3. \A m \in Lanes \ {l} : VerdictOf(m)' = VerdictOf(m)
    BY DEF VerdictOf, Decided
  <2> QED BY <1>3, <2>1, <2>2, <2>3, StaysInPlace
<1>4. \A u \in Turns : LedgerConversation(u)' = LedgerConversation(u)
  BY SettlingConversation
<1> QED BY <1>2, <1>3, <1>4

\* A runner that returns decides its turn and settles the merged injects.
LEMMA ReturnsRefines ==
  ASSUME Step, NEW l \in Lanes, RunnerReturns(l)
  PROVE  Ledger!Next
<1>1. /\ TypeOK /\ current[l] # NoTurn /\ task[l] = "running"
      /\ task'[l] = "emitting" /\ outcome'[l] = "ok"
      /\ result' = Resolve(chained[l], "ok")
      /\ \A m \in Lanes \ {l} : /\ chained'[m] = chained[m] /\ task'[m] = task[m]
                                /\ outcome'[m] = outcome[m]
      /\ UNCHANGED <<pending, mailbox, current, request>>
  BY DEF Step, KeepingInv, LaneFits, RunnerReturns, LeavesPool, TypeOK
<1>2. PICK h \in Turns : h = current[l]
  BY <1>1 DEF TypeOK
<1>3. At(h, "running", NoTurn, "undecided") /\ At(h, "running", NoTurn, "ok")'
  <2>1. VerdictOf(l) = "undecided" /\ VerdictOf(l)' = "ok"
    BY <1>1 DEF VerdictOf, Decided
  <2>2. At(h, "running", NoTurn, VerdictOf(l)) /\ At(h, "running", NoTurn, VerdictOf(l))'
    BY <1>1, <1>2 DEF Step, LedgerReads
  <2> QED BY <2>1, <2>2 DEF At
<1>4. PICK G \in SUBSET Turns : G = chained[l]
  BY <1>1 DEF TypeOK
<1>5. Ledger!Guests(h) = G
  BY <1>1, <1>2, <1>4, GuestsAreMerged DEF Step
<1>6. /\ \A g \in G : LedgerStatus(g)' = "ok" /\ LedgerHost(g)' = NoTurn
                      /\ LedgerVerdict(g)' = LedgerVerdict(g)
      /\ \A u \in Turns \ G : u # h => Same(u)
      /\ \A u \in Turns : LedgerConversation(u)' = LedgerConversation(u)
  BY <1>1, <1>2, <1>4, GuestsSettle
<1>7. h \notin G
  BY <1>2, <1>4 DEF Step, KeepingInv, PlacesApart
<1>8. Ledger!SettleGuests(h, "ok")
  BY <1>3, <1>5, <1>6, <1>7 DEF At, Same, Ledger!SettleGuests
<1>9. Ledger!Decide(h, "ok")
  BY <1>3, <1>6, <1>7, <1>8 DEF At, Same, Ledger!Decide
<1> QED BY <1>9 DEF Ledger!Next

\* After the terminal event the injects still merged get the turn's verdict.
LEMMA TerminalRefines ==
  ASSUME Step, NEW l \in Lanes, TerminalSent(l)
  PROVE  Ledger!Next
<1>1. /\ TypeOK /\ current[l] # NoTurn /\ task[l] = "emitting" /\ task'[l] = "done"
      /\ result' = Resolve(chained[l], outcome[l])
      /\ \A m \in Lanes \ {l} : chained'[m] = chained[m] /\ task'[m] = task[m]
      /\ UNCHANGED <<outcome, pending, mailbox, current, request>>
  BY DEF Step, KeepingInv, LaneFits, TerminalSent, TypeOK
<1>2. PICK h \in Turns, v \in {"ok", "none"} : h = current[l] /\ v = outcome[l]
  BY <1>1 DEF TypeOK
<1>3. At(h, "running", NoTurn, v) /\ At(h, "running", NoTurn, v)'
  <2>1. VerdictOf(l) = v /\ VerdictOf(l)' = v
    BY <1>1, <1>2 DEF VerdictOf, Decided
  <2>2. At(h, "running", NoTurn, VerdictOf(l)) /\ At(h, "running", NoTurn, VerdictOf(l))'
    BY <1>1, <1>2 DEF Step, LedgerReads
  <2> QED BY <2>1, <2>2 DEF At
<1>4. PICK G \in SUBSET Turns : G = chained[l]
  BY <1>1 DEF TypeOK
<1>5. Ledger!Guests(h) = G
  BY <1>1, <1>2, <1>4, GuestsAreMerged DEF Step
<1>6. /\ \A g \in G : LedgerStatus(g)' = v /\ LedgerHost(g)' = NoTurn
                      /\ LedgerVerdict(g)' = LedgerVerdict(g)
      /\ \A u \in Turns \ G : u # h => Same(u)
      /\ \A u \in Turns : LedgerConversation(u)' = LedgerConversation(u)
  BY <1>1, <1>2, <1>4, GuestsSettle
<1>7. h \notin G
  BY <1>2, <1>4 DEF Step, KeepingInv, PlacesApart
<1>8. Ledger!SettleGuests(h, v)
  BY <1>3, <1>5, <1>6, <1>7 DEF At, Same, Ledger!SettleGuests
<1>9. Ledger!ReleaseGuests(h)
  BY <1>3, <1>6, <1>7, <1>8 DEF At, Same, Ledger!ReleaseGuests
<1> QED BY <1>9 DEF Ledger!Next

\* Steps of the pools, of the sink and of the services the ledger does not show.
LEMMA HiddenSteps ==
  ASSUME Step,
         \/ ShutdownSeals \/ Sweep \/ ShutdownWaits \/ ShutdownCascades \/ ShutdownEnds
         \/ UNCHANGED vars
         \/ \E l \in Lanes : \/ TaskBegins(l) \/ SlotGranted(l) \/ RunnerBegins(l)
                            \/ CancelSwallowed(l)
  PROVE  UNCHANGED Ledger!ledger
<1>1. UNCHANGED <<pending, mailbox, chained, current, outcome, request, result>>
  BY DEF ShutdownSeals, Sweep, ShutdownWaits, ShutdownCascades, ShutdownEnds, vars,
         TaskBegins, SlotGranted, RunnerBegins, CancelSwallowed
<1>2. \A l \in Lanes : VerdictOf(l)' = VerdictOf(l)
  <2>1. CASE UNCHANGED task
    BY <1>1, <2>1 DEF VerdictOf, Decided
  <2>2. CASE \E l \in Lanes : \/ TaskBegins(l) \/ SlotGranted(l) \/ RunnerBegins(l)
    <3>1. PICK l \in Lanes : TaskBegins(l) \/ SlotGranted(l) \/ RunnerBegins(l)
      BY <2>2
    <3>2. /\ task[l] \in {"created", "queued", "starting"}
          /\ \/ task' = [task EXCEPT ![l] = "queued"]
             \/ task' = [task EXCEPT ![l] = "starting"]
             \/ task' = [task EXCEPT ![l] = "running"]
      BY <3>1 DEF TaskBegins, SlotGranted, RunnerBegins, Dispatch
    <3>3. task \in [Lanes -> TaskStates]
      BY DEF Step, KeepingInv, TypeOK
    <3>4. /\ task'[l] \in {"queued", "starting", "running"}
          /\ \A m \in Lanes \ {l} : task'[m] = task[m]
      BY <3>1, <3>2, <3>3
    <3>5. ~Decided(l) /\ ~Decided(l)'
      BY <3>2, <3>4 DEF Decided
    <3> QED BY <1>1, <3>4, <3>5 DEF VerdictOf, Decided
  <2> QED BY <2>1, <2>2 DEF ShutdownSeals, Sweep, ShutdownWaits, ShutdownCascades,
             ShutdownEnds, vars, CancelSwallowed
<1> QED BY <1>1, <1>2, Stutters DEF Queued

\* Every step of the scheduler is one of the ledger or leaves it alone.
LEMMA StepRefines ==
  ASSUME Step, [Next]_vars
  PROVE  [Ledger!Next]_(Ledger!ledger)
<1>1. ASSUME NEW t \in Turns, NEW req \in Requests, Submit(t, req) PROVE Ledger!Next
  BY <1>1, SubmitAccepts
<1>2. ASSUME NEW t \in Turns, CancelTurn(t) PROVE Ledger!Next \/ UNCHANGED Ledger!ledger
  BY <1>2, CancelRefines
<1>3. ASSUME NEW c \in Conversations, Stop(c) PROVE Ledger!Next
  <2>1. {registry[c]} \in SUBSET Lanes
    BY <1>3 DEF Stop, Step, KeepingInv, TypeOK
  <2> QED BY <1>3, <2>1, DrainRefines DEF Stop
<1>4. ASSUME ShutdownDrains PROVE Ledger!Next
  <2>1. Registered \in SUBSET Lanes
    BY DEF Registered, Step, KeepingInv, TypeOK
  <2> QED BY <1>4, <2>1, DrainRefines DEF ShutdownDrains
<1>5. ASSUME NEW l \in Lanes, WorkerBegins(l) PROVE Ledger!Next \/ UNCHANGED Ledger!ledger
  BY <1>5, BeginsRefines
<1>6. ASSUME NEW l \in Lanes, WorkerResumes(l) PROVE Ledger!Next
  BY <1>6, ResumesRefines
<1>7. ASSUME NEW l \in Lanes,
             CancelledBeforeStart(l) \/ CancelledAfterStart(l) \/ RunnerRaises(l)
      PROVE  Ledger!Next
  <2>1. /\ task[l] \in {"created", "queued", "starting", "running"}
        /\ task'[l] \in {"done", "emitting"} /\ outcome'[l] = "none"
        /\ \A m \in Lanes \ {l} : task'[m] = task[m] /\ outcome'[m] = outcome[m]
        /\ UNCHANGED <<pending, mailbox, chained, current, request, result>>
    BY <1>7 DEF CancelledBeforeStart, CancelledAfterStart, RunnerRaises, LeavesPool,
                HoldsSlot, Step, KeepingInv, TypeOK
  <2>2. current[l] # NoTurn /\ ~Decided(l) /\ Decided(l)'
    BY <2>1 DEF Decided, Step, KeepingInv, LaneFits
  <2> QED BY <2>1, <2>2, DecidingNone
<1>8. ASSUME NEW l \in Lanes, RunnerReturns(l) PROVE Ledger!Next
  BY <1>8, ReturnsRefines
<1>9. ASSUME NEW l \in Lanes, TerminalSent(l) PROVE Ledger!Next
  BY <1>9, TerminalRefines
<1>10. ASSUME NEW l \in Lanes, RunnerDrains(l) PROVE Ledger!Next
  BY <1>10, DrainsRefines
<1>11. CASE \/ ShutdownSeals \/ Sweep \/ ShutdownWaits \/ ShutdownCascades \/ ShutdownEnds
            \/ UNCHANGED vars
            \/ \E l \in Lanes : \/ TaskBegins(l) \/ SlotGranted(l) \/ RunnerBegins(l)
                               \/ CancelSwallowed(l)
  BY <1>11, HiddenSteps
<1> QED BY <1>1, <1>2, <1>3, <1>4, <1>5, <1>6, <1>7, <1>8, <1>9, <1>10, <1>11
        DEF Next, Client, LoopStep, RunnerStep, ShutdownStep

\* An empty scheduler shows an empty ledger.
LEMMA InitRefines == Init => Ledger!Init
<1> SUFFICES ASSUME Init PROVE Ledger!Init
  OBVIOUS
<1>1. ASSUME NEW t \in Turns
      PROVE  /\ LedgerStatus(t) = "unsubmitted" /\ LedgerConversation(t) = NoTurn
             /\ LedgerHost(t) = NoTurn /\ LedgerVerdict(t) = "undecided"
  BY SchedulerAssumption
     DEF Init, LedgerStatus, LedgerConversation, LedgerHost, LedgerVerdict
<1> QED BY <1>1 DEF Ledger!Init

\* The scheduler implements the ledger: lanes, pools, reaper and shutdown only
\* ever accept a turn, withdraw one that waits, start one in a conversation where
\* none runs, merge, decide and settle; every handle settles once, with the
\* verdict of its run or of its host's.
THEOREM LedgerIsKept == Spec => LedgerSpec
<1>1. KeepingInv /\ KeepingInv' /\ [Next]_vars => [Ledger!Next]_(Ledger!ledger)
  BY Reading, ReadingNext, StepRefines DEF Step
<1> QED BY <1>1, InitRefines, Keeping, PTL DEF LedgerSpec, Ledger!Spec, Spec

=============================================================================
