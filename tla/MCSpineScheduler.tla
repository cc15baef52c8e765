-------------------------- MODULE MCSpineScheduler --------------------------
(* Instances of SpineScheduler for TLC.                                    *)
EXTENDS SpineScheduler, TLC

Ask(c, o, b) == [conversation |-> c, origin |-> o, busy |-> b]

\* One conversation and every policy; the runtime's interrupt is demoted.
ChatRequests ==
  {Ask("chat", "user", b) : b \in BusyPolicies} \cup {Ask("chat", "cron", "interrupt")}

\* Every policy of a user, over two conversations that compete for one slot, and
\* the runtime's interrupt.
CrossRequests ==
  {Ask("chat", "user", "inject"), Ask("chat", "user", "interrupt"),
   Ask("room", "user", "append"), Ask("chat", "cron", "interrupt")}

\* A user's conversation and a runtime one that share no pool.
MixedRequests ==
  {Ask("chat", "user", b) : b \in BusyPolicies} \cup {Ask("room", "user", "append"), Ask("job", "cron", "append")}

OneSlotEach == [p \in Pools |-> 1]

Symmetry == Permutations(Turns) \cup Permutations(Lanes)

\* Runners and sinks of users' turns come back; a runtime turn may run forever.
UserFairSpec == Spec /\ LoopFairness /\ RunnerFairness({"user"})
=============================================================================
