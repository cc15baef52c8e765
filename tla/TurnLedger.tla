----------------------------- MODULE TurnLedger -----------------------------
(***************************************************************************)
(* What the scheduler promises to whoever submits a turn, without lanes,   *)
(* queues, pools or tasks.  An accepted turn waits, may be withdrawn, runs *)
(* alone in its conversation or is merged into the turn that runs there,   *)
(* and its handle settles exactly once: a turn that ran with the verdict   *)
(* of its run, a merged one with the verdict of its host and never after   *)
(* the host's own handle, a withdrawn one with "none" (TurnHandle.result). *)
(***************************************************************************)
CONSTANTS Turns, Conversations, Nobody

VARIABLES
  status,        (* per turn *)
  conversation,  (* of an accepted turn, else Nobody *)
  host,          (* the turn a merged turn was merged into, else Nobody *)
  verdict        (* of a running turn, once it is decided *)

ledger == <<status, conversation, host, verdict>>

TypeOK ==
  /\ status \in [Turns -> {"unsubmitted", "waiting", "running", "merged", "ok", "none"}]
  /\ conversation \in [Turns -> Conversations \cup {Nobody}]
  /\ host \in [Turns -> Turns \cup {Nobody}]
  /\ verdict \in [Turns -> {"undecided", "ok", "none"}]

Init ==
  /\ status = [t \in Turns |-> "unsubmitted"]
  /\ conversation = [t \in Turns |-> Nobody]
  /\ host = [t \in Turns |-> Nobody]
  /\ verdict = [t \in Turns |-> "undecided"]

Running(c) == {t \in Turns : conversation[t] = c /\ status[t] = "running"}
Waiting(c) == {t \in Turns : conversation[t] = c /\ status[t] = "waiting"}
Guests(h)  == {t \in Turns : host[t] = h}

Accept(t, c) ==
  /\ status[t] = "unsubmitted"
  /\ status' = [status EXCEPT ![t] = "waiting"]
  /\ conversation' = [conversation EXCEPT ![t] = c]
  /\ UNCHANGED <<host, verdict>>

\* Turns that never ran are given up: cancelled, stopped, or drained at shutdown.
Withdraw(S) ==
  /\ \A t \in S : status[t] = "waiting"
  /\ status' = [t \in Turns |-> IF t \in S THEN "none" ELSE status[t]]
  /\ UNCHANGED <<conversation, host, verdict>>

\* A turn may start only in a conversation where none runs.
Start(t) ==
  /\ status[t] = "waiting"
  /\ Running(conversation[t]) = {}
  /\ status' = [status EXCEPT ![t] = "running"]
  /\ UNCHANGED <<conversation, host, verdict>>

Merge(S, h) ==
  /\ status[h] = "running" /\ verdict[h] = "undecided"
  /\ S \subseteq Waiting(conversation[h])
  /\ status' = [t \in Turns |-> IF t \in S THEN "merged" ELSE status[t]]
  /\ host' = [t \in Turns |-> IF t \in S THEN h ELSE host[t]]
  /\ UNCHANGED <<conversation, verdict>>

SettleGuests(h, v) ==
  /\ status' = [t \in Turns |-> IF t \in Guests(h) THEN v ELSE status[t]]
  /\ host' = [t \in Turns |-> IF t \in Guests(h) THEN Nobody ELSE host[t]]

\* The verdict of a run is fixed once; a success settles the guests at once.
Decide(h, v) ==
  /\ status[h] = "running" /\ verdict[h] = "undecided"
  /\ verdict' = [verdict EXCEPT ![h] = v]
  /\ IF v = "ok" THEN SettleGuests(h, v) ELSE UNCHANGED <<status, host>>
  /\ UNCHANGED conversation

ReleaseGuests(h) ==
  /\ status[h] = "running" /\ verdict[h] # "undecided"
  /\ SettleGuests(h, verdict[h])
  /\ UNCHANGED <<conversation, verdict>>

\* The handle settles, after those of its guests, and in the same step another
\* turn of the conversation may start.
Settle(h, next) ==
  /\ status[h] = "running" /\ verdict[h] # "undecided" /\ Guests(h) = {}
  /\ next \in Waiting(conversation[h]) \cup {Nobody}
  /\ status' = [t \in Turns |-> IF t = h THEN verdict[h]
                                ELSE IF t = next THEN "running" ELSE status[t]]
  /\ verdict' = [verdict EXCEPT ![h] = "undecided"]
  /\ UNCHANGED <<conversation, host>>

Next ==
  \/ \E t \in Turns, c \in Conversations : Accept(t, c)
  \/ \E S \in SUBSET Turns : Withdraw(S)
  \/ \E t \in Turns : Start(t)
  \/ \E h \in Turns, S \in SUBSET Turns : Merge(S, h)
  \/ \E h \in Turns, v \in {"ok", "none"} : Decide(h, v)
  \/ \E h \in Turns : ReleaseGuests(h)
  \/ \E h \in Turns, next \in Turns \cup {Nobody} : Settle(h, next)

Spec == Init /\ [][Next]_ledger
=============================================================================
