\* Questions of one conversation that overlap, and a confirmation.
SPECIFICATION Spec
CONSTANTS
  q1 = q1  q2 = q2  q3 = q3  confirm = confirm  chat = chat
  NoRequest = NoRequest  NoConversation = NoConversation
  Requests = {q1, q2, q3, confirm}
  Conversations = {chat}
  Conversation <- Asked
INVARIANTS TypeOK WaitingIsReachable AnswerReachesAsked
CHECK_DEADLOCK FALSE
