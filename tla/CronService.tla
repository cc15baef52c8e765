---------------------------- MODULE CronService ----------------------------
(***************************************************************************)
(* Scheduled jobs (rincode/proactive_engine/schedulers/cron/service.py):   *)
(* processes that share one jobs.json.  Every change of the file is one    *)
(* section under the file lock that reads it, changes it and replaces it,  *)
(* hence one step; only start reads and writes without the lock, in two.   *)
(* A process claims due jobs in the file under its pid and the time, runs  *)
(* their callbacks one after the other outside the lock and records each   *)
(* result if the claim is still its own.  A batch of claimed jobs lives in *)
(* one asyncio task, the timer task of a host or the one call of a CLI     *)
(* command: a host may start a second batch while the first, cancelled by  *)
(* the timer that replaced it, is still unwinding.                         *)
(*                                                                         *)
(* Times are milliseconds as naturals from 1; the code treats 0 as "none". *)
(* "ok" and "error" differ in no later decision and are both "done".  The  *)
(* order of a batch is the file's, which the model leaves open: the job    *)
(* that runs is picked when its callback ends.  A pid names one process,   *)
(* so a restart is another member of Processes.  Tasks bounds how many     *)
(* batches of a process may unwind at a time; a task whose batch is over   *)
(* is used again.                                                          *)
(***************************************************************************)
EXTENDS Naturals, FiniteSets

CONSTANTS
  Processes, Jobs,
  Tasks, Pid,  (* the tasks a batch may run in, and the process of each     *)
  Hosts,       (* processes that start the service; others are CLI commands *)
  Mortal,      (* processes that may be stopped or crash                    *)
  Allowed,     (* the jobs a process may claim (allowed_channels)           *)
  Topics,      (* topic_tags                                                *)
  DeleteAfterRun,  (* jobs created with delete_after_run                    *)
  Asked,       (* schedules a job may be asked for                          *)
  Stored,      (* schedule and topic of the jobs jobs.json begins with      *)
  Interval,    (* of a recurring schedule                                   *)
  TTL,         (* _CLAIM_TTL_MS                                             *)
  Window,      (* the 15 minutes within which two jobs are one              *)
  MaxClock, MaxCalls,  (* bounds: the clock, tool calls in the hosts           *)
  Nobody, NoTopic, Missing

None  == 0     \* next_run_at_ms of a job that will not fire
Every == 0     \* the schedule of a recurring job; a one-shot's is its at_ms
Tags  == Topics \cup {NoTopic}

ASSUME CronAssumption ==
  /\ Hosts \subseteq Processes /\ Mortal \subseteq Processes
  /\ Pid \in [Tasks -> Processes]
  /\ Allowed \in [Processes -> SUBSET Jobs]
  /\ DeleteAfterRun \subseteq Jobs /\ Asked \in [Jobs -> SUBSET Nat]
  /\ DOMAIN Stored \subseteq Jobs
  /\ \A j \in DOMAIN Stored : Stored[j].schedule \in Nat /\ Stored[j].topic \in Tags
  /\ Interval \in Nat \ {0} /\ TTL \in Nat \ {0} /\ Window \in Nat
  /\ MaxClock \in Nat /\ MaxCalls \in Nat
  /\ Nobody \notin Processes

Record ==                 \* a claim has an owner and a time, or neither
  {r \in [schedule : Nat, topic : Tags, enabled : BOOLEAN, next : Nat,
          status : {"new", "done", "cancelled", "expired"},
          by : Processes \cup {Nobody}, since : Nat] : r.by = Nobody <=> r.since = 0}

ASSUME MissingAssumption == Missing \notin Record

VARIABLES
  now,         (* the wall clock                                            *)
  store,       (* jobs.json                                                 *)
  life,        (* how far each process has come                             *)
  loaded,      (* what start has read and not yet written back              *)
  claimed,     (* my_jobs of a task: claimed and not finished               *)
  since,       (* the time under which it claimed them                      *)
  copy,        (* its objects of these jobs, as they were when claimed      *)
  cancelling,  (* the task has been cancelled, its callback not yet unwound *)
  calls,       (* tool calls so far                                         *)
  settled,     (* removed jobs, one-shots that ran, not asked again (history) *)
  overwritten  (* jobs whose record a start has put back (history)          *)

runVars == <<claimed, since, copy>>
vars == <<now, store, life, loaded, runVars, cancelling, calls, settled, overwritten>>

File  == [Jobs -> Record \cup {Missing}]
Empty == [j \in Jobs |-> Missing]

TypeOK ==
  /\ now \in Nat \ {0} /\ calls \in Nat
  /\ store \in File
  /\ life \in [Processes -> {"new", "loading", "running", "stopped", "dead"}]
  /\ loaded \in [Processes -> File] /\ copy \in [Tasks -> File]
  /\ claimed \in [Tasks -> SUBSET Jobs]
  /\ since \in [Tasks -> Nat]
  /\ cancelling \in [Tasks -> BOOLEAN]
  /\ settled \subseteq Jobs /\ overwritten \subseteq Jobs

-----------------------------------------------------------------------------
Present == {j \in Jobs : store[j] # Missing}
Enabled == {j \in Present : store[j].enabled}

NextRun(schedule) ==      \* _compute_next_run at the present time
  IF schedule = Every THEN now + Interval
  ELSE IF schedule > now THEN schedule ELSE None

NewRecord(schedule, tag) ==
  [schedule |-> schedule, topic |-> tag, enabled |-> TRUE, next |-> NextRun(schedule),
   status |-> "new", by |-> Nobody, since |-> 0]

Init ==
  /\ now = 1 /\ calls = 0
  /\ store = [j \in Jobs |-> IF j \in DOMAIN Stored
                             THEN NewRecord(Stored[j].schedule, Stored[j].topic) ELSE Missing]
  /\ life = [s \in Processes |-> "new"]
  /\ loaded = [s \in Processes |-> Empty] /\ copy = [w \in Tasks |-> Empty]
  /\ claimed = [w \in Tasks |-> {}]
  /\ since = [w \in Tasks |-> 0]
  /\ cancelling = [w \in Tasks |-> FALSE]
  /\ settled = {} /\ overwritten = {}
-----------------------------------------------------------------------------
\* Fault: a job is claimed whoever holds it.
NoClaimCheck(r) == r.by = Nobody \/ now >= r.since
\* Fault: a claim never expires.
ClaimForEver(r) == r.by = Nobody

Claimable(r) == r.by = Nobody \/ now >= r.since + TTL

Due(j) == j \in Enabled /\ store[j].next \in 1 .. now

\* Fault: the time of the claim is cleared, its owner is not.
OwnerStays(r) == [r EXCEPT !.since = 0]

Unclaimed(r) == [r EXCEPT !.by = Nobody, !.since = 0]

Claim(w, J) ==
  LET mine == [j \in Jobs |-> IF j \in J THEN [store[j] EXCEPT !.by = Pid[w], !.since = now]
                                         ELSE store[j]]
  IN /\ store'   = mine
     /\ claimed' = [claimed EXCEPT ![w] = J]
     /\ since'   = [since EXCEPT ![w] = now]
     /\ copy'    = [copy EXCEPT ![w] = [j \in Jobs |-> IF j \in J THEN mine[j] ELSE Missing]]

TasksOf(s)  == {w \in Tasks : Pid[w] = s}
Working(s)  == {w \in TasksOf(s) : claimed[w] # {}}

FreeTask(s) == CHOOSE w \in TasksOf(s) : claimed[w] = {}   \* free tasks are alike

RunDue(w) ==              \* in the timer task, and only when the one before is cancelled
  /\ Pid[w] \in Hosts /\ life[Pid[w]] = "running"
  /\ claimed[w] = {} /\ w = FreeTask(Pid[w])
  /\ \A v \in Working(Pid[w]) : cancelling[v]
  /\ LET due == {j \in Allowed[Pid[w]] : Due(j) /\ Claimable(store[j])}
     IN due # {} /\ Claim(w, due)
  /\ UNCHANGED <<now, life, loaded, cancelling, calls, settled, overwritten>>

Calls(s) ==               \* a tool call in a host, or the one call of a CLI command
  /\ IF s \in Hosts
     THEN life[s] = "running" /\ calls < MaxCalls /\ calls' = calls + 1 /\ UNCHANGED life
     ELSE life[s] = "new" /\ life' = [life EXCEPT ![s] = "running"] /\ UNCHANGED calls
  /\ UNCHANGED <<now, loaded, overwritten>>

RunJob(w, j, force) ==
  /\ Calls(Pid[w]) /\ Pid[w] \notin Hosts
  /\ j \in Present /\ (force \/ j \in Enabled)
  /\ store[j].status # "expired" /\ Claimable(store[j])
  /\ Claim(w, {j})
  /\ UNCHANGED <<cancelling, settled>>

\* What _execute_job leaves in the object of a job whose callback has come back.
AfterRun(r, j) ==
  [r EXCEPT !.status = "done",
            !.enabled = r.enabled /\ (r.schedule = Every \/ j \in DeleteAfterRun),
            !.next = IF r.schedule = Every /\ r.enabled THEN NextRun(Every) ELSE None]

Owns(w, j) ==
  store[j] # Missing /\ store[j].by = Pid[w] /\ store[j].since = since[w]

Recorded(j, r) ==         \* the persisted record after a run that left r
  [Unclaimed(store[j]) EXCEPT !.status = r.status, !.next = r.next, !.enabled = r.enabled]

Forget(W, J) ==           \* the tasks W are done with the jobs J of their batches
  /\ claimed' = [w \in Tasks |-> IF w \in W THEN claimed[w] \ J ELSE claimed[w]]
  /\ copy'    = [w \in Tasks |-> IF w \notin W THEN copy[w]
                                ELSE [j \in Jobs |-> IF j \in J THEN Missing ELSE copy[w][j]]]
  /\ since'   = [w \in Tasks |-> IF w \in W /\ claimed[w] \subseteq J THEN 0 ELSE since[w]]

CallbackReturns(w, j) ==
  /\ j \in claimed[w] /\ ~cancelling[w]
  /\ LET old == copy[w][j]  oneShot == old.schedule # Every
     IN IF Owns(w, j)
        THEN /\ store' = [store EXCEPT ![j] =
                            IF oneShot /\ j \in DeleteAfterRun THEN Missing
                            ELSE Recorded(j, AfterRun(old, j))]
             /\ settled' = IF oneShot THEN settled \cup {j} ELSE settled
        ELSE UNCHANGED <<store, settled>>
  /\ Forget({w}, {j})
  /\ UNCHANGED <<now, life, loaded, cancelling, calls, overwritten>>

\* Fault: only the claim of the job that ran is given back.
KeepsRest(w, j) ==
  [k \in Jobs |-> IF k = j /\ Owns(w, k) THEN Recorded(k, [copy[w][k] EXCEPT !.status = "cancelled"])
                  ELSE store[k]]

\* The store after the batch of w was cancelled while j ran: the result of j,
\* and with _release_claims what was not run yet.
CancelledBatch(w, j) ==
  [k \in Jobs |-> IF k \notin claimed[w] \/ ~Owns(w, k) THEN store[k]
                  ELSE IF k = j THEN Recorded(k, [copy[w][k] EXCEPT !.status = "cancelled"])
                  ELSE Unclaimed(store[k])]

\* _arm_timer of a running host: a new timer task, and the one before is cancelled
\* with the batch that may be running in it.
Replaced(s) == {w \in Working(s) : life[s] = "running"}

ArmTimer(s) == cancelling' = [w \in Tasks |-> cancelling[w] \/ w \in Replaced(s)]

\* The end of a cancelled batch arms the timer too, so that a batch which started
\* meanwhile is cancelled in its turn.
CallbackCancelled(w, j) ==
  /\ j \in claimed[w] /\ cancelling[w]
  /\ store' = CancelledBatch(w, j)
  /\ cancelling' = [v \in Tasks |-> v # w /\ (cancelling[v] \/ v \in Replaced(Pid[w]))]
  /\ Forget({w}, claimed[w])
  /\ UNCHANGED <<now, life, loaded, calls, settled, overwritten>>
-----------------------------------------------------------------------------
(* add_job.  All jobs of the model have one channel and recipient; messages  *)
(* are not kept, so that any job may turn out to have the one given.         *)

SameTopic(tag) == {i \in Enabled : tag # NoTopic /\ store[i].topic = tag}
Upcoming == {i \in Enabled : store[i].next > now}   \* may have the message of the new one
Near(t) == {i \in Enabled : store[i].next # None
                            /\ store[i].next <= t + Window /\ t <= store[i].next + Window}
SameSchedule(schedule) == {i \in Enabled : store[i].schedule = schedule}

AddJob(s, j, schedule, tag) ==
  /\ Calls(s)
  /\ j \notin Present \cup settled \cup overwritten   \* its id is a new one
  /\ schedule \in Asked[j] /\ NextRun(schedule) # None
  /\ LET near == Near(NextRun(schedule))  same == SameSchedule(schedule)
     IN \/ \E i \in SameTopic(tag) :
             store' = [store EXCEPT ![i].schedule = schedule, ![i].next = NextRun(schedule)]
        \/ SameTopic(tag) = {} /\ near \cup Upcoming # {} /\ UNCHANGED store
        \/ /\ SameTopic(tag) \cup near = {}
           /\ \E i \in same : store' = IF store[i].next # None THEN store
                                      ELSE [store EXCEPT ![i].next = NextRun(schedule)]
        \/ /\ SameTopic(tag) \cup near \cup same = {}
           /\ store' = [store EXCEPT ![j] = NewRecord(schedule, tag)]
  /\ ArmTimer(s)
  /\ UNCHANGED <<runVars, settled>>

RemoveJob(s, j) ==
  /\ Calls(s) /\ j \in Present
  /\ store' = [store EXCEPT ![j] = Missing]
  /\ settled' = settled \cup {j}
  /\ ArmTimer(s)
  /\ UNCHANGED runVars

EnableJob(s, j) ==
  /\ Calls(s) /\ s \notin Hosts /\ j \in Present
  /\ LET r == store[j]  next == NextRun(r.schedule)
     IN store' = [store EXCEPT ![j] = [r EXCEPT
           !.enabled = next # None, !.next = next,
           !.status = IF next = None THEN "expired" ELSE r.status]]
  /\ settled' = settled \ {j}
  /\ ArmTimer(s)
  /\ UNCHANGED runVars

Disabled(j) == [store EXCEPT ![j].enabled = FALSE, ![j].next = None]

DisableJob(s, j) ==
  /\ Calls(s) /\ s \notin Hosts /\ j \in Present
  /\ store' = Disabled(j)
  /\ ArmTimer(s)
  /\ UNCHANGED <<runVars, settled>>
-----------------------------------------------------------------------------
(* The life of a process.                                                   *)

StartLoads(s) ==
  /\ s \in Hosts /\ life[s] = "new"
  /\ life'   = [life EXCEPT ![s] = "loading"]
  /\ loaded' = [loaded EXCEPT ![s] = store]
  /\ UNCHANGED <<now, store, runVars, cancelling, calls, settled, overwritten>>

\* Fault: one-shots that ran are armed again.
RearmsDone(r) ==
  IF r.schedule # Every THEN [r EXCEPT !.next = r.schedule, !.enabled = TRUE]
  ELSE IF r.next = None THEN [r EXCEPT !.next = NextRun(Every)] ELSE r

Recomputed(r) ==          \* _recompute_next_runs, of one job
  IF ~r.enabled THEN r
  ELSE IF r.schedule # Every
  THEN IF r.status \in {"done", "expired"} THEN [r EXCEPT !.enabled = FALSE, !.next = None]
       ELSE [r EXCEPT !.next = r.schedule]
  ELSE IF r.next = None THEN [r EXCEPT !.next = NextRun(Every)] ELSE r

StartSaves(s) ==
  /\ life[s] = "loading"
  /\ life'   = [life EXCEPT ![s] = "running"]
  /\ store'  = [j \in Jobs |-> IF loaded[s][j] = Missing THEN Missing
                               ELSE Recomputed(loaded[s][j])]
  /\ loaded' = [loaded EXCEPT ![s] = Empty]
  /\ overwritten' = overwritten \cup {j \in Jobs : store[j] # loaded[s][j]}
  /\ UNCHANGED <<now, runVars, cancelling, calls, settled>>

Stop(s) ==                \* cancels the timer task too, and arms none
  /\ s \in Mortal \cap Hosts /\ life[s] = "running"
  /\ life' = [life EXCEPT ![s] = "stopped"]
  /\ ArmTimer(s)
  /\ UNCHANGED <<now, store, loaded, runVars, calls, settled, overwritten>>

Crash(s) ==
  /\ s \in Mortal /\ life[s] # "dead"
  /\ life' = [life EXCEPT ![s] = "dead"]
  /\ loaded' = [loaded EXCEPT ![s] = Empty]
  /\ cancelling' = [w \in Tasks |-> cancelling[w] /\ Pid[w] # s]
  /\ Forget(TasksOf(s), Jobs)
  /\ UNCHANGED <<now, store, calls, settled, overwritten>>

Tick ==
  /\ now < MaxClock /\ now' = now + 1
  /\ UNCHANGED <<store, life, loaded, runVars, cancelling, calls, settled, overwritten>>

Runs(w) == RunDue(w) \/ \E j \in Jobs : CallbackReturns(w, j) \/ CallbackCancelled(w, j)

Start(s) == StartLoads(s) \/ StartSaves(s)

Public(s) == \E j \in Jobs :
  \/ \E schedule \in Asked[j], tag \in Tags : AddJob(s, j, schedule, tag)
  \/ RemoveJob(s, j) \/ EnableJob(s, j) \/ DisableJob(s, j)
  \/ \E w \in TasksOf(s), force \in BOOLEAN : RunJob(w, j, force)

Next ==
  \/ Tick
  \/ \E w \in Tasks : Runs(w)
  \/ \E s \in Processes : Public(s) \/ Start(s) \/ Stop(s) \/ Crash(s)

Spec == Init /\ [][Next]_vars
-----------------------------------------------------------------------------
(* Two batches, of one process or two, run one job at a time only if the    *)
(* claim of the first was out of date when the second took it (run_due,     *)
(* run_job: the claim check), or a start put an old record of the job back  *)
(* into the file.                                                           *)
ExclusiveClaims ==
  \A w, v \in Tasks : \A j \in (claimed[w] \cap claimed[v]) \ overwritten :
    w = v \/ since[w] >= since[v] + TTL \/ since[v] >= since[w] + TTL

(* No claim is left behind: a claim in the file belongs to a process that   *)
(* is working on the job under it, or that crashed (the finally blocks of   *)
(* run_due and run_job), or was put back by a start.                        *)
ClaimsAreHeld ==
  \A j \in Present \ overwritten : LET s == store[j].by IN
    \/ s = Nobody
    \/ life[s] = "dead"
    \/ \E w \in TasksOf(s) : j \in claimed[w] /\ store[j].since = since[w]

(* A job that was removed, or a one-shot whose run was recorded, fires no   *)
(* more unless it is enabled again: no late result, expired claim or        *)
(* restart brings it back (only a start that had read the file before).     *)
SettledStaysSettled == settled \cap Enabled \subseteq overwritten

(* A due job does not wait for ever while a process that may claim it stays *)
(* up, even when the one that held it crashed or hangs (TTL of the claim).  *)
(* Claims so late that they cannot expire before MaxClock are set aside.    *)
DueIsServed ==
  \A j \in Jobs : Due(j) ~> (~Due(j) \/ store[j].since + TTL > MaxClock)

(* The docstring of remove_job (933-935): removing a job does not cancel a  *)
(* callback that is running.  It does: _arm_timer cancels the timer task in *)
(* which run_due awaits the callback.                                       *)
RemovalSparesCallback ==
  [][(\E j \in Present : store'[j] = Missing) => UNCHANGED cancelling]_vars
-----------------------------------------------------------------------------
(* The inductive invariant behind the three safety properties.              *)

NoFutureClaims == \A w \in Tasks : since[w] <= now

IdleBeforeStart == \A w \in Tasks : life[Pid[w]] \in {"new", "loading"} => claimed[w] = {}

CopiesAtHand == \A w \in Tasks : \A j \in claimed[w] : copy[w][j] # Missing

\* A batch's claim is in the file, or too old, or the job was removed.
ClaimsAreKnown ==
  \A w \in Tasks : \A j \in claimed[w] \ overwritten :
    \/ store[j] = Missing /\ j \in settled
    \/ Owns(w, j)
    \/ now >= since[w] + TTL

\* A settled job that is run again by hand is disabled in the batch's copy.
SettledCopies ==
  \A w \in Tasks : \A j \in (claimed[w] \cap settled) \ overwritten :
    Owns(w, j) => ~copy[w][j].enabled

CronInv ==
  /\ TypeOK /\ NoFutureClaims /\ IdleBeforeStart /\ CopiesAtHand
  /\ ClaimsAreKnown /\ ExclusiveClaims /\ ClaimsAreHeld
  /\ SettledCopies /\ SettledStaysSettled
=============================================================================
