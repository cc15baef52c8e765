--------------------------- MODULE AskUserProofs ---------------------------
(* Questions to the user for any number of requests and conversations: one  *)
(* inductive invariant, and the two properties it implies.                  *)
EXTENDS AskUser, TLAPS

LEMMA InitAskUserInv == Init => AskUserInv
BY DEF Init, AskUserInv, TypeOK, OwnRecord, WaitingIsReachable, AnswerReachesAsked

\* The request a conversation has is a question of that conversation, at work.
LEMMA PendingIsAtWork ==
  ASSUME TypeOK, NEW c \in Conversations, pending[c] # NoRequest
  PROVE  /\ pending[c] \in Questions /\ Conversation[pending[c]] = c
         /\ step[pending[c]] # "returned"
BY DEF TypeOK

\* Asking settles what the conversation had, and takes its place.
LEMMA AskKeeps ==
  ASSUME AskUserInv, NEW q \in Requests, Ask(q)
  PROVE  AskUserInv'
<1> DEFINE c == Conversation[q]
<1>1. TypeOK /\ OwnRecord /\ WaitingIsReachable /\ AnswerReachesAsked
  BY DEF AskUserInv
<1>2. /\ step[q] = "new" /\ step' = [step EXCEPT ![q] = "sending"]
      /\ byRequest' = Replaces(q) /\ UNCHANGED <<interrupt, got, accepted>>
  BY DEF Ask
<1>3. CASE q \notin Questions
  <2>1. c \notin Conversations /\ UNCHANGED <<future, pending>>
    BY <1>3, AskUserAssumption DEF Ask, Questions
  <2>2. byRequest' = byRequest \cup {q}
    BY <1>2, <2>1 DEF Replaces
  <2>3. TypeOK'
    BY <1>1, <1>2, <2>1, <2>2 DEF TypeOK, Questions
  <2>4. OwnRecord'
    BY <1>1, <1>3, <2>1, <2>2 DEF OwnRecord, Questions
  <2>5. WaitingIsReachable'
    BY <1>1, <1>2, <1>3, <2>1, <2>2 DEF WaitingIsReachable, TypeOK, Questions
  <2>6. AnswerReachesAsked'
    BY <1>1, <1>2, <2>1 DEF AnswerReachesAsked, TypeOK
  <2> QED
    BY <2>3, <2>4, <2>5, <2>6 DEF AskUserInv
<1>4. CASE q \in Questions
  <2>1. c \in Conversations
    BY <1>4, AskUserAssumption DEF Questions
  <2>2. pending' = [pending EXCEPT ![c] = q] /\ Resolve({pending[c]}, "default")
    BY <1>4 DEF Ask
  <2>3. byRequest' = (byRequest \ {pending[c]}) \cup {q}
    BY <1>2, <2>1 DEF Replaces
  <2>4. \A r \in Requests :
          future'[r] = IF r = pending[c] /\ future[r] = "open" THEN "default" ELSE future[r]
    BY <2>2 DEF Resolve
  <2>5. TypeOK'
    <3>1. future' \in [Requests -> {"open", "answer", "default", "cancelled"}]
      BY <1>1, <2>2 DEF TypeOK, Resolve
    <3>2. pending' \in [Conversations -> Requests \cup {NoRequest}]
      BY <1>1, <2>1, <2>2 DEF TypeOK
    <3>3. \A d \in Conversations :
            pending'[d] \in {r \in Questions : Conversation[r] = d /\ step'[r] # "returned"}
                              \cup {NoRequest}
      BY <1>1, <1>2, <1>4, <2>1, <2>2 DEF TypeOK, Questions
    <3>4. byRequest' \subseteq {r \in Requests : step'[r] \in {"sending", "waiting"}}
      BY <1>1, <1>2, <2>3 DEF TypeOK
    <3> QED
      BY <1>1, <1>2, <3>1, <3>2, <3>3, <3>4 DEF TypeOK, Questions
  <2>6. OwnRecord'
    <3> SUFFICES ASSUME NEW r \in byRequest' \cap Questions
                 PROVE  pending'[Conversation[r]] = r
      BY DEF OwnRecord, Questions
    <3>1. CASE r = q
      BY <1>1, <2>1, <2>2, <3>1 DEF TypeOK
    <3>2. CASE r # q
      <4>1. r \in byRequest /\ r # pending[c] /\ pending[Conversation[r]] = r
        BY <1>1, <2>3, <3>2 DEF OwnRecord
      <4>2. Conversation[r] # c
        BY <4>1
      <4> QED
        BY <1>1, <2>2, <4>1, <4>2, AskUserAssumption DEF TypeOK, Questions
    <3> QED
      BY <3>1, <3>2
  <2>7. WaitingIsReachable'
    <3> SUFFICES ASSUME NEW r \in Requests, step'[r] \in {"sending", "waiting"},
                        future'[r] = "open"
                 PROVE  /\ r \in byRequest'
                        /\ r \in Questions => pending'[Conversation[r]] = r
      BY DEF WaitingIsReachable, Questions
    <3>1. CASE r = q
      BY <1>1, <2>1, <2>2, <2>3, <3>1 DEF TypeOK
    <3>2. CASE r # q
      <4>1. step[r] \in {"sending", "waiting"} /\ future[r] = "open" /\ r # pending[c]
        BY <1>1, <1>2, <2>4, <3>2 DEF TypeOK
      <4>2. r \in byRequest /\ (r \in Questions => pending[Conversation[r]] = r)
        BY <1>1, <4>1 DEF WaitingIsReachable
      <4>3. r \in Questions => Conversation[r] # c
        BY <4>1, <4>2
      <4> QED
        BY <1>1, <2>2, <2>3, <3>2, <4>1, <4>2, <4>3, AskUserAssumption DEF TypeOK, Questions
    <3> QED
      BY <3>1, <3>2
  <2>8. AnswerReachesAsked'
    BY <1>1, <1>2, <2>4 DEF AnswerReachesAsked, TypeOK
  <2> QED
    BY <2>5, <2>6, <2>7, <2>8 DEF AskUserInv
<1> QED
  BY <1>3, <1>4

\* A coroutine that ends leaves the registry; its answer, if it got one, is returned.
LEMMA ReturnsKeeps ==
  ASSUME AskUserInv, NEW q \in Requests, NEW value,
         value \in {"answer", "default", "cancelled"},
         step[q] \in {"sending", "waiting"}, Returns(q, value),
         UNCHANGED <<future, accepted>>,
         interrupt' \in [Requests -> {"none", "unsent", "timeout", "cancel"}],
         \A r \in Requests \ {q} : interrupt'[r] = interrupt[r],
         interrupt'[q] = "none" => value = future[q],
         value = "answer" => future[q] = "answer"
  PROVE  AskUserInv'
<1>1. TypeOK /\ OwnRecord /\ WaitingIsReachable /\ AnswerReachesAsked
  BY DEF AskUserInv
<1>2. /\ step' = [step EXCEPT ![q] = "returned"] /\ got' = [got EXCEPT ![q] = value]
      /\ pending' = [c \in Conversations |-> IF pending[c] = q THEN NoRequest ELSE pending[c]]
      /\ byRequest' = byRequest \ {q}
  BY DEF Returns, Withdraw
<1>3. TypeOK'
  BY <1>1, <1>2 DEF TypeOK, Questions
<1>4. OwnRecord'
  BY <1>1, <1>2, AskUserAssumption DEF OwnRecord, Questions
<1>5. WaitingIsReachable'
  <2> SUFFICES ASSUME NEW r \in Requests, step'[r] \in {"sending", "waiting"}, future'[r] = "open"
               PROVE  r \in byRequest' /\ (r \in Questions => pending'[Conversation[r]] = r)
    BY DEF WaitingIsReachable, Questions
  <2>1. r # q /\ step[r] \in {"sending", "waiting"} /\ future[r] = "open"
    BY <1>1, <1>2 DEF TypeOK
  <2>2. r \in byRequest /\ (r \in Questions => pending[Conversation[r]] = r)
    BY <1>1, <2>1 DEF WaitingIsReachable
  <2> QED
    BY <1>2, <2>1, <2>2, AskUserAssumption DEF Questions
<1>6. AnswerReachesAsked'
  BY <1>1, <1>2 DEF AnswerReachesAsked, TypeOK
<1> QED
  BY <1>3, <1>4, <1>5, <1>6 DEF AskUserInv

LEMMA SentKeeps ==
  ASSUME AskUserInv, NEW q \in Requests, Sent(q)
  PROVE  AskUserInv'
<1>1. CASE future[q] = "open"
  BY <1>1 DEF Sent, AskUserInv, TypeOK, OwnRecord, WaitingIsReachable, AnswerReachesAsked, Questions
<1>2. CASE future[q] # "open"
  BY <1>2, ReturnsKeeps DEF Sent, AskUserInv, TypeOK
<1> QED
  BY <1>1, <1>2

LEMMA SendFailsKeeps ==
  ASSUME AskUserInv, NEW q \in Requests, SendFails(q)
  PROVE  AskUserInv'
BY ReturnsKeeps DEF SendFails, AskUserInv, TypeOK

LEMMA ResumesKeeps ==
  ASSUME AskUserInv, NEW q \in Requests, Resumes(q)
  PROVE  AskUserInv'
<1>1. future[q] \in {"answer", "default", "cancelled"}
  BY DEF Resumes, AskUserInv, TypeOK
<1>2. step[q] = "waiting" /\ interrupt \in [Requests -> {"none", "unsent", "timeout", "cancel"}]
  BY DEF Resumes, AskUserInv, TypeOK
<1>3. UNCHANGED <<future, interrupt, accepted>>
  BY DEF Resumes
<1>4. CASE interrupt[q] = "none"
  BY <1>1, <1>2, <1>3, <1>4, ReturnsKeeps DEF Resumes
<1>5. CASE interrupt[q] = "timeout"
  BY <1>2, <1>3, <1>5, ReturnsKeeps DEF Resumes
<1>6. CASE interrupt[q] \notin {"none", "timeout"}
  BY <1>2, <1>3, <1>6, ReturnsKeeps DEF Resumes
<1> QED
  BY <1>4, <1>5, <1>6

LEMMA InterruptKeeps ==
  ASSUME AskUserInv, NEW q \in Requests, TimesOut(q) \/ CancelTask(q)
  PROVE  AskUserInv'
BY AskUserAssumption DEF AskUserInv, TypeOK, OwnRecord, WaitingIsReachable, AnswerReachesAsked,
  TimesOut, CancelTask, Resolve, Questions

LEMMA ReplyKeeps ==
  ASSUME AskUserInv,
         \/ \E q \in Requests : ReplyByRequest(q)
         \/ \E c \in Conversations : ReplyByConversation(c)
  PROVE  AskUserInv'
BY AskUserAssumption DEF AskUserInv, TypeOK, OwnRecord, WaitingIsReachable, AnswerReachesAsked,
  ReplyByRequest, ReplyByConversation, Accept, Resolve, Questions

LEMMA CancelAllKeeps == AskUserInv /\ CancelAll => AskUserInv'
BY AskUserAssumption DEF AskUserInv, TypeOK, OwnRecord, WaitingIsReachable, AnswerReachesAsked,
  CancelAll, Resolve, Questions

LEMMA NextAskUserInv == AskUserInv /\ [Next]_vars => AskUserInv'
<1> SUFFICES ASSUME AskUserInv, [Next]_vars
             PROVE  AskUserInv'
  OBVIOUS
<1>1. CASE UNCHANGED vars
  BY <1>1 DEF vars, AskUserInv, TypeOK, OwnRecord, WaitingIsReachable, AnswerReachesAsked, Questions
<1>2. CASE Next
  BY <1>2, AskKeeps, SentKeeps, SendFailsKeeps, ResumesKeeps, InterruptKeeps, ReplyKeeps,
     CancelAllKeeps DEF Next
<1> QED
  BY <1>1, <1>2

LEMMA AskUserInvHolds == Spec => []AskUserInv
BY InitAskUserInv, NextAskUserInv, PTL DEF Spec

(* The registries of the brokers hold what TypeOK says, however many questions *)
(* overlap, time out or are cancelled.                                         *)
THEOREM AskUserTypes == Spec => []TypeOK
<1>1. AskUserInv => TypeOK
  BY DEF AskUserInv
<1> QED
  BY <1>1, AskUserInvHolds, PTL

(* Every question that waits unanswered can be answered (QuestionBroker.reply, *)
(* the finally block of await_question).                                       *)
THEOREM WaitingStaysReachable == Spec => []WaitingIsReachable
<1>1. AskUserInv => WaitingIsReachable
  BY DEF AskUserInv
<1> QED
  BY <1>1, AskUserInvHolds, PTL

(* An accepted answer reaches the question it was meant for, and no other.     *)
THEOREM AnswersReachAsked == Spec => []AnswerReachesAsked
<1>1. AskUserInv => AnswerReachesAsked
  BY DEF AskUserInv
<1> QED
  BY <1>1, AskUserInvHolds, PTL
=============================================================================
