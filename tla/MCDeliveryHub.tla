--------------------------- MODULE MCDeliveryHub ---------------------------
(* Instances of DeliveryHub for TLC.                                       *)
EXTENDS DeliveryHub, TLC

CONSTANTS d1, d2, k1, x1, x2, b1

Offers(kind, c) == [kind |-> kind, conversation |-> c]

\* Two conversations on one channel; one streams a reply, closes it and begins
\* the next.
StreamCall ==
  d1 :> Offers("delta", "chat") @@ d2 :> Offers("delta", "chat") @@
  k1 :> Offers("close", "chat") @@ x1 :> Offers("text", "room")

\* A second channel, whose outlet may hang.
CrossCall ==
  d1 :> Offers("delta", "chat") @@ k1 :> Offers("close", "chat") @@
  x1 :> Offers("text", "room") @@ x2 :> Offers("text", "mail")

OnTui     == [c \in {"chat", "room"} |-> "tui"]
CrossHome == OnTui @@ ("mail" :> "smtp")
BarrierTui == [b \in {b1} |-> "tui"]

\* Only the outlet of the first channel is known to come back.
FairSpec == Spec /\ LoopFairness /\ OutletFairness({"tui"})
=============================================================================
