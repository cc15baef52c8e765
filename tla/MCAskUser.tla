----------------------------- MODULE MCAskUser -----------------------------
(* Instances of AskUser for TLC.                                            *)
EXTENDS AskUser

CONSTANTS q1, q2, q3, confirm, chat

\* Three questions of one conversation, and a confirmation.
Asked == [q \in {q1, q2, q3, confirm} |-> IF q = confirm THEN NoConversation ELSE chat]
=============================================================================
