--------------------------- MODULE GenerationLog ---------------------------
(* What the session store promises of one key, whoever writes and whatever  *)
(* crashes: a history in generations.  Within a generation the history only *)
(* grows; a new generation may drop the end of it, and what was dropped     *)
(* once is in no later history.                                             *)
EXTENDS Naturals, Sequences, SequencesExt

VARIABLES generation, log, gone

Init == generation = 0 /\ log = <<>> /\ gone = {}

Extend ==
  /\ IsPrefix(log, log')
  /\ UNCHANGED <<generation, gone>>

\* A beginning of old is the beginning of new, and nothing else of old is in new.
Continues(old, new) ==
  \E n \in 0 .. Len(old) :
    /\ IsPrefix(SubSeq(old, 1, n), new)
    /\ ToSet(SubSeq(new, n + 1, Len(new))) \cap ToSet(old) = {}

\* What is kept is the beginning of the history; new turns stand after it.
NextGeneration ==
  /\ generation' = generation + 1
  /\ gone' = gone \cup (ToSet(log) \ ToSet(log'))
  /\ Continues(log, log')

Next == (Extend \/ NextGeneration) /\ ToSet(log') \cap gone' = {}

Spec == Init /\ [][Next]_<<generation, log, gone>>
=============================================================================
