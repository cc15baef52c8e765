------------------------------ MODULE AskUser ------------------------------
(***************************************************************************)
(* Questions to the user: QuestionBroker and ConfirmBroker                 *)
(* (rincode/tui_rpc), the RPC answers and the gateway's inbound messages.  *)
(*                                                                         *)
(* A request stands for its coroutine, its future and its request id.  A   *)
(* confirmation has no conversation and is reached by its request id only. *)
(* Sending a question may suspend (the gateway sends through the hub) and  *)
(* is outside the timeout.  The timeout and the cancellation of the task   *)
(* both cancel the future it waits for; when that is done already, the     *)
(* task has yet to resume and still gets the CancelledError.               *)
(***************************************************************************)
CONSTANTS
  Requests, Conversations,
  Conversation,    (* the conversation of each request, or NoConversation   *)
  NoConversation, NoRequest

ASSUME AskUserAssumption ==
  /\ NoConversation \notin Conversations /\ NoRequest \notin Requests
  /\ Conversation \in [Requests -> Conversations \cup {NoConversation}]

VARIABLES
  step,            (* where the coroutine is                                *)
  future,          (* its future                                            *)
  interrupt,       (* what ended the wait from outside, delivered or not    *)
  got,             (* what the coroutine returned                           *)
  pending,         (* QuestionBroker._pending: the request of a conversation *)
  byRequest,       (* keys of _by_request and of ConfirmBroker._pending     *)
  accepted         (* requests an accepted answer was meant for (history)   *)

vars == <<step, future, interrupt, got, pending, byRequest, accepted>>

Questions == {q \in Requests : Conversation[q] # NoConversation}

TypeOK ==
  /\ step \in [Requests -> {"new", "sending", "waiting", "returned"}]
  /\ future \in [Requests -> {"open", "answer", "default", "cancelled"}]
  /\ interrupt \in [Requests -> {"none", "unsent", "timeout", "cancel"}]
  /\ got \in [Requests -> {"nothing", "answer", "default", "cancelled"}]
  /\ pending \in [Conversations -> Requests \cup {NoRequest}]
  /\ \A c \in Conversations :
       pending[c] \in {q \in Questions : Conversation[q] = c /\ step[q] # "returned"}
                        \cup {NoRequest}
  /\ byRequest \subseteq {q \in Requests : step[q] \in {"sending", "waiting"}}
  /\ accepted \subseteq Requests

Init ==
  /\ step = [q \in Requests |-> "new"] /\ future = [q \in Requests |-> "open"]
  /\ interrupt = [q \in Requests |-> "none"] /\ got = [q \in Requests |-> "nothing"]
  /\ pending = [c \in Conversations |-> NoRequest] /\ byRequest = {} /\ accepted = {}

\* set_result under "if not done()".
Resolve(S, value) ==
  future' = [q \in Requests |-> IF q \in S /\ future[q] = "open" THEN value ELSE future[q]]
-----------------------------------------------------------------------------
\* Fault: the id of a replaced question still leads to its conversation.
KeepsStale(q) == byRequest \cup {q}

\* A question replaces the one its conversation still has.
Replaces(q) ==
  (byRequest \ {pending[c] : c \in Conversations \cap {Conversation[q]}}) \cup {q}

Ask(q) ==
  LET c == Conversation[q] IN
  /\ step[q] = "new"
  /\ step' = [step EXCEPT ![q] = "sending"]
  /\ byRequest' = Replaces(q)
  /\ IF q \in Questions
     THEN Resolve({pending[c]}, "default") /\ pending' = [pending EXCEPT ![c] = q]
     ELSE UNCHANGED <<future, pending>>
  /\ UNCHANGED <<interrupt, got, accepted>>

\* Fault: the record stays until the next question.
WithdrawNothing(q) == UNCHANGED pending

\* Fault: the record of the conversation goes, whose ever it is.
WithdrawAny(q) ==
  pending' = [c \in Conversations |-> IF c = Conversation[q] THEN NoRequest ELSE pending[c]]

\* The finally block withdraws what is the request's own.
Withdraw(q) ==
  pending' = [c \in Conversations |-> IF pending[c] = q THEN NoRequest ELSE pending[c]]

Returns(q, value) ==
  /\ step' = [step EXCEPT ![q] = "returned"]
  /\ got' = [got EXCEPT ![q] = value]
  /\ Withdraw(q)
  /\ byRequest' = byRequest \ {q}

\* send_frame returns; a future that is done meanwhile is not waited for.
Sent(q) ==
  /\ step[q] = "sending"
  /\ IF future[q] = "open"
     THEN /\ step' = [step EXCEPT ![q] = "waiting"]
          /\ UNCHANGED <<got, pending, byRequest>>
     ELSE Returns(q, future[q])
  /\ UNCHANGED <<future, interrupt, accepted>>

\* send_frame raises, or is cancelled with the task.
SendFails(q) ==
  /\ step[q] = "sending"
  /\ interrupt' = [interrupt EXCEPT ![q] = "unsent"]
  /\ \E value \in {"default", "cancelled"} : Returns(q, value)
  /\ UNCHANGED <<future, accepted>>

TimesOut(q) ==
  /\ step[q] = "waiting" /\ interrupt[q] = "none"
  /\ interrupt' = [interrupt EXCEPT ![q] = "timeout"]
  /\ Resolve({q}, "cancelled")
  /\ UNCHANGED <<step, got, pending, byRequest, accepted>>

CancelTask(q) ==
  /\ step[q] = "waiting" /\ interrupt[q] # "cancel"
  /\ interrupt' = [interrupt EXCEPT ![q] = "cancel"]
  /\ Resolve({q}, "cancelled")
  /\ UNCHANGED <<step, got, pending, byRequest, accepted>>

Resumes(q) ==
  /\ step[q] = "waiting" /\ future[q] # "open"
  /\ Returns(q, CASE interrupt[q] = "none" -> future[q]
                  [] interrupt[q] = "timeout" -> "default"
                  [] OTHER -> "cancelled")
  /\ UNCHANGED <<future, interrupt, accepted>>
-----------------------------------------------------------------------------
\* An answer is accepted for the request it was meant for, and settles target.
Accept(q, target) ==
  /\ target # NoRequest /\ future[target] = "open"
  /\ Resolve({target}, "answer")
  /\ accepted' = accepted \cup {q}
  /\ UNCHANGED <<step, interrupt, got, pending, byRequest>>

\* clarify.respond with a request id: to the question its conversation has now.
\* confirm.respond: to the confirmation.
ReplyByRequest(q) ==
  /\ q \in byRequest
  /\ Accept(q, IF q \in Questions THEN pending[Conversation[q]] ELSE q)

\* clarify.respond with the conversation, or an inbound message of a channel.
ReplyByConversation(c) == Accept(pending[c], pending[c])

CancelAll ==
  /\ Resolve({pending[c] : c \in Conversations} \cup (byRequest \ Questions), "default")
  /\ UNCHANGED <<step, interrupt, got, pending, byRequest, accepted>>

Next ==
  \/ \E q \in Requests :
       \/ Ask(q) \/ Sent(q) \/ SendFails(q) \/ TimesOut(q) \/ CancelTask(q) \/ Resumes(q)
       \/ ReplyByRequest(q)
  \/ \E c \in Conversations : ReplyByConversation(c)
  \/ CancelAll

Spec == Init /\ [][Next]_vars
-----------------------------------------------------------------------------
(* A question that nobody has answered and that waits is the one its request   *)
(* id and its conversation lead to: no other coroutine withdraws or replaces   *)
(* its record without settling it, so the user can still answer.               *)
WaitingIsReachable ==
  \A q \in Requests : step[q] \in {"sending", "waiting"} /\ future[q] = "open" =>
    q \in byRequest /\ (q \in Questions => pending[Conversation[q]] = q)

(* An accepted answer settles the question it was meant for and no other, and  *)
(* the question returns it, unless its sending failed or its timeout or a      *)
(* cancellation came before it resumed.                                        *)
AnswerReachesAsked ==
  \A q \in Requests :
    /\ q \in accepted <=> future[q] = "answer"
    /\ got[q] = "answer" => q \in accepted
    /\ step[q] = "returned" /\ q \in accepted => got[q] = "answer" \/ interrupt[q] # "none"

-----------------------------------------------------------------------------
\* A request id in the registry leads to its own request.
OwnRecord == \A q \in byRequest \cap Questions : pending[Conversation[q]] = q

\* The inductive invariant behind the two properties.
AskUserInv == TypeOK /\ OwnRecord /\ WaitingIsReachable /\ AnswerReachesAsked
=============================================================================
