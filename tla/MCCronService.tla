--------------------------- MODULE MCCronService ---------------------------
(* Instances of CronService for TLC: a gateway that stays up, with room for *)
(* two batches, a TUI that may crash and a command of the CLI.              *)
EXTENDS CronService, TLC

CONSTANTS gateway, tui, cli, g1, g2, t1, c1, daily, again

TaskPids    == g1 :> gateway @@ g2 :> gateway @@ t1 :> tui @@ c1 :> cli
AllowedJobs == [s \in {gateway, tui, cli} |-> {daily, again}]

\* A recurring job is in the file; a second one, asked for as a one-shot or as a
\* recurring job, may repeat its topic or its schedule.
Schedules  == daily :> {} @@ again :> {3, Every}
StoredJobs == daily :> [schedule |-> Every, topic |-> "pills"]

\* Time passes, and the gateway starts, wakes up in time and gets its answers.
\* Nothing is assumed of the other processes.
FairSpec == Spec /\ WF_vars(Tick) /\ WF_vars(Start(gateway))
                 /\ WF_vars(\E w \in TasksOf(gateway) : Runs(w))
=============================================================================
