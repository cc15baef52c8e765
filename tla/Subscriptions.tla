---------------------------- MODULE Subscriptions ----------------------------
(***************************************************************************)
(* The event subscriptions of one session in the terminal interface        *)
(* (rincode/tui_rpc/subscriptions.py): each has a bounded queue and a      *)
(* consumer task that takes an event, waits for the coalesce window, takes *)
(* what else has come, merges neighbouring token deltas and sends.         *)
(*                                                                         *)
(* RpcServer.send_frame never suspends, so a flush and the handling of an  *)
(* overflow are one step; it may raise, on an event that cannot be encoded *)
(* or once the transport is gone.  A token delta carries no turn id on the *)
(* wire; its text says here which turn wrote it.                           *)
(***************************************************************************)
EXTENDS Naturals, Sequences, SequencesExt

CONSTANTS
  Turns, NoTurn,
  Subs,            (* subscription ids                                      *)
  QueueCapacity    (* QUEUE_CAPACITY                                        *)

ASSUME SubscriptionsAssumption == NoTurn \notin Turns /\ QueueCapacity \in Nat \ {0}

VARIABLES
  subs,            (* Subscription objects                                  *)
  emitted          (* every event emitted for the session (history)         *)

subVars == <<subs, emitted>>

\* An error is written with its reason.
Event == [type : {"message.start", "token.delta", "message.complete", "error:internal",
                  "error:cancelled_by_client", "subagent.delivered"},
          turn : Turns \cup {NoTurn}, text : Seq(Turns)]

Subscription == [open : BOOLEAN, consumer : {"waiting", "window", "ended"},
                 queue : Seq(Event), first : Seq(Event),
                 owed : Seq(Event), whole : BOOLEAN]
  \* history: emitted since it registered and not sent; all that was sent was owed

SubTypeOK ==
  /\ subs \in [Subs -> Subscription] /\ emitted \in Seq(Event)
  /\ \A s \in Subs : Len(subs[s].queue) <= QueueCapacity

\* Not registered; the id of a closed subscription stands for a new one.
NotOpen == [open |-> FALSE, consumer |-> "waiting", queue |-> <<>>, first |-> <<>>,
            owed |-> <<>>, whole |-> TRUE]

SubInit == subs = [s \in Subs |-> NotOpen] /\ emitted = <<>>

Register(s) ==
  /\ ~subs[s].open
  /\ subs' = [subs EXCEPT ![s].open = TRUE]
  /\ UNCHANGED emitted

Unregister(s) ==
  /\ subs[s].open
  /\ subs' = [subs EXCEPT ![s] = NotOpen]
  /\ UNCHANGED emitted
-----------------------------------------------------------------------------
\* Fault: a full queue drops the event and stays open.
Dropped(sub) == sub

\* _close_overflow: told so or not, the subscriber is out.
Overflowed(sub) == NotOpen

\* Fault: the queue has no bound.
NoBound(sub) == TRUE

Room(sub) == Len(sub.queue) < QueueCapacity

Put(sub, event) ==
  IF ~sub.open THEN sub
  ELSE LET due == [sub EXCEPT !.owed = IF sub.consumer = "ended" THEN @ ELSE Append(@, event)]
       IN IF Room(sub) THEN [due EXCEPT !.queue = Append(@, event)]
          ELSE Overflowed(due)

\* emit, for each of these events in turn.
EmitAll(events) ==
  /\ subs' = [s \in Subs |-> FoldLeft(Put, subs[s], events)]
  /\ emitted' = emitted \o events

IsDelta(e) == e.type = "token.delta"

\* A delta joins the delta before it.
Joined(out, e) ==
  IF out # <<>> /\ IsDelta(e) /\ IsDelta(Last(out))
  THEN [out EXCEPT ![Len(out)].text = @ \o e.text] ELSE Append(out, e)

MergeConsecutive(batch) == FoldLeft(Joined, <<>>, batch)

\* The events of a stream, one delta for each piece of text.
Split(out, e) ==
  out \o IF IsDelta(e) THEN [i \in DOMAIN e.text |-> [e EXCEPT !.text = <<e.text[i]>>]]
                       ELSE <<e>>

Pieces(stream) == FoldLeft(Split, <<>>, stream)

TakeFirst(s) ==
  /\ subs[s].open /\ subs[s].consumer = "waiting" /\ subs[s].queue # <<>>
  /\ subs' = [subs EXCEPT ![s].first = <<Head(subs[s].queue)>>, ![s].queue = Tail(@),
                          ![s].consumer = "window"]
  /\ UNCHANGED emitted

\* What is left to send to sub after these frames.
Sent(sub, frames) ==
  LET pieces == Pieces(frames) IN
  [sub EXCEPT !.first = <<>>, !.queue = <<>>,
              !.owed = SubSeq(@, Len(pieces) + 1, Len(@)), !.whole = IsPrefix(pieces, sub.owed)]

\* The window is over: all is sent, or a frame raises and that ends the consumer.
Flush(s) ==
  LET merged == MergeConsecutive(subs[s].first \o subs[s].queue)
  IN /\ subs[s].open /\ subs[s].consumer = "window"
     /\ \/ subs' = [subs EXCEPT ![s] = [Sent(@, merged) EXCEPT !.consumer = "waiting"]]
        \/ \E n \in 0 .. Len(merged) - 1 :
             subs' = [subs EXCEPT ![s] = [Sent(@, SubSeq(merged, 1, n))
                                            EXCEPT !.consumer = "ended", !.owed = <<>>]]
     /\ UNCHANGED emitted

SubNext == \E s \in Subs : Register(s) \/ Unregister(s) \/ TakeFirst(s) \/ Flush(s)
-----------------------------------------------------------------------------
(* A subscriber is sent what was emitted since it registered, in that order    *)
(* and without a gap; while the subscription is open and its consumer lives,   *)
(* what it is owed is on its way.  The window, the merging of deltas and an    *)
(* overflow change nothing in it.                                              *)
StreamIsWhole ==
  \A s \in Subs :
    LET sub == subs[s] IN
    sub.open => sub.whole /\ (sub.consumer # "ended" => sub.first \o sub.queue = sub.owed)
=============================================================================
