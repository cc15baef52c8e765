---------------------------- MODULE DeliveryHub ----------------------------
(***************************************************************************)
(* The delivery side of the spine (rincode/spine/delivery.py): per channel *)
(* one bounded asyncio.Queue and one resident worker that hands events to  *)
(* the channel's outlet one after the other, the life of a reply stream,   *)
(* the wait_idle barrier and the close of the hub.                         *)
(*                                                                         *)
(* As in SpineScheduler an action is what runs between two suspension      *)
(* points.  A call of dispatch, post or close_stream is identified by the  *)
(* one item it offers.  The events of one conversation are offered one at  *)
(* a time, as a turn's runner and then its terminal sink do, and all go to *)
(* one channel.  Outlets are registered before the first call.             *)
(* Operators marked "Fault:" are not used by the specification: they are   *)
(* wrong variants of the operator that follows, for the mutation checks.   *)
(***************************************************************************)
EXTENDS Naturals, Sequences, SequencesExt

CONSTANTS
  Channels, Conversations,
  Calls,       (* the calls that may be made, each once                     *)
  Call,        (* kind and conversation of a call                           *)
  Home,        (* the channel of a conversation                             *)
  Outlets,     (* channels with a registered outlet                         *)
  Streaming,   (* those whose outlet takes stream chunks                    *)
  Fatal,       (* calls whose delivery kills the worker (BaseException)     *)
  Barriers,    (* calls of wait_idle                                        *)
  BarrierOn,   (* the channel each of them waits for                        *)
  QueueSize,   (* _OUTLET_QUEUE_MAXSIZE                                     *)
  MaxRetries,  (* send_max_retries                                          *)
  NoCall       (* no item in hand                                           *)

ASSUME HubAssumption ==
  /\ Call \in [Calls -> [kind : {"delta", "text", "close"},
                         conversation : Conversations]]
  /\ Home \in [Conversations -> Channels]
  /\ Streaming \subseteq Outlets /\ Outlets \subseteq Channels
  /\ Fatal \subseteq Calls
  /\ BarrierOn \in [Barriers -> Channels]
  /\ QueueSize \in Nat \ {0} /\ MaxRetries \in Nat
  /\ NoCall \notin Calls

VARIABLES
  stage,        (* how far aclose has come                                  *)
  status,       (* what became of each call and its item                    *)
  routed,       (* conversations in _stream_channel                         *)
  openStreams,  (* conversations in _open_streams                           *)
  queue,        (* the items of each channel's queue                        *)
  putters,      (* calls that wait for room, in order                       *)
  unfinished,   (* the queue's count of unfinished items                    *)
  worker, item, (* the channel's worker, and the item it has in hand        *)
  attempt,      (* deliveries of that item that failed                      *)
  cancelling,   (* a cancel of the worker not delivered yet                 *)
  barrier,      (* progress of each wait_idle                               *)
  covered,      (* what was in the channel when wait_idle began (history)   *)
  accepted,     (* items in the order the queue took them (history)         *)
  received      (* items in the order the outlet took them (history)        *)

streamVars  == <<routed, openStreams>>
queueVars   == <<queue, putters, unfinished>>
workerVars  == <<worker, item, attempt, cancelling>>
historyVars == <<covered, accepted, received>>
vars == <<stage, status, streamVars, queueVars, workerVars, barrier, historyVars>>

Stages   == {"open", "sealed", "cancelled", "closed"}
Statuses == {"new", "waiting", "woken", "queued", "handling", "handled", "failed",
             "dropped", "rejected", "withdrawn", "void"}
WorkerStates == {"absent", "created", "looping", "getting", "sending", "backoff",
                 "reporting", "skipping", "done"}

TypeOK ==
  /\ stage \in Stages
  /\ status \in [Calls -> Statuses]
  /\ routed \subseteq Conversations /\ openStreams \subseteq Conversations
  /\ queue \in [Channels -> Seq(Calls)] /\ putters \in [Channels -> Seq(Calls)]
  /\ unfinished \in [Channels -> Nat]
  /\ worker \in [Channels -> WorkerStates]
  /\ item \in [Channels -> Calls \cup {NoCall}]
  /\ attempt \in [Channels -> 0 .. MaxRetries]
  /\ cancelling \in [Channels -> BOOLEAN]
  /\ barrier \in [Barriers -> {"idle", "waiting", "returned"}]
  /\ covered \in [Barriers -> SUBSET Calls]
  /\ accepted \in [Channels -> Seq(Calls)] /\ received \in [Channels -> Seq(Calls)]

Init ==
  /\ stage = "open"
  /\ status = [i \in Calls |-> "new"]
  /\ routed = {} /\ openStreams = {}
  /\ queue = [ch \in Channels |-> <<>>] /\ putters = [ch \in Channels |-> <<>>]
  /\ unfinished = [ch \in Channels |-> 0]
  /\ worker = [ch \in Channels |-> "absent"]
  /\ item = [ch \in Channels |-> NoCall]
  /\ attempt = [ch \in Channels |-> 0]
  /\ cancelling = [ch \in Channels |-> FALSE]
  /\ barrier = [b \in Barriers |-> "idle"]
  /\ covered = [b \in Barriers |-> {}]
  /\ accepted = [ch \in Channels |-> <<>>] /\ received = [ch \in Channels |-> <<>>]

-----------------------------------------------------------------------------
(* Vocabulary.                                                             *)

Kind(i)         == Call[i].kind
Conversation(i) == Call[i].conversation
ChannelOf(i)    == Home[Conversation(i)]

Full(ch)  == Len(queue[ch]) >= QueueSize
Alive(ch) == worker[ch] \notin {"absent", "done"}

\* The previous call for the conversation has returned.
InTurn(i) == \A j \in Calls : Conversation(j) = Conversation(i) =>
               status[j] \notin {"waiting", "woken"}

\* Queue.join returns when the count reaches zero.
BarriersNotice ==
  barrier' = [b \in Barriers |->
                IF barrier[b] = "waiting" /\ unfinished'[BarrierOn[b]] = 0
                THEN "returned" ELSE barrier[b]]

\* Each of n gets wakes the putter at the head.
Woken(ch, n) == {putters[ch][k] : k \in {k \in DOMAIN putters[ch] : k <= n}}
Asleep(ch, n) == SubSeq(putters[ch], n + 1, Len(putters[ch]))

-----------------------------------------------------------------------------
(* Offering an item.  A call that found the queue full waits to be woken,  *)
(* and may find it full again.                                             *)

Enters(i, ch) ==
  /\ queue' = [queue EXCEPT ![ch] = Append(@, i)]
  /\ unfinished' = [unfinished EXCEPT ![ch] = @ + 1]
  /\ accepted' = [accepted EXCEPT ![ch] = Append(@, i)]
  /\ status' = [status EXCEPT ![i] = "queued"]

Waits(i, ch) ==
  /\ putters' = [putters EXCEPT ![ch] = Append(@, i)]
  /\ status' = [status EXCEPT ![i] = "waiting"]

\* The beginning of _put, up to its first suspension.
Put(i, ch) ==
  \/ ~Full(ch) /\ Enters(i, ch) /\ UNCHANGED putters
  \/ Full(ch) /\ Waits(i, ch) /\ UNCHANGED <<queue, unfinished, accepted>>

\* A closed hub refuses, and a channel without an outlet swallows.
Refuse(i) ==
  /\ status[i] = "new" /\ InTurn(i)
  /\ \/ stage # "open" /\ status' = [status EXCEPT ![i] = "rejected"]
     \/ /\ stage = "open" /\ Kind(i) # "close" /\ ChannelOf(i) \notin Outlets
        /\ status' = [status EXCEPT ![i] = "void"]
  /\ UNCHANGED <<stage, streamVars, queueVars, workerVars, barrier, historyVars>>

\* dispatch and post: the stream is noted before the item is in the queue, and
\* a missing or dead worker is replaced.
Dispatch(i) ==
  LET ch == ChannelOf(i) IN
  /\ status[i] = "new" /\ InTurn(i)
  /\ stage = "open" /\ Kind(i) # "close" /\ ch \in Outlets
  /\ routed' = routed \cup (IF Kind(i) = "delta" THEN {Conversation(i)} ELSE {})
  /\ worker' = [worker EXCEPT ![ch] = IF Alive(ch) THEN @ ELSE "created"]
  /\ Put(i, ch)
  /\ UNCHANGED <<stage, openStreams, item, attempt, cancelling, barrier,
                 covered, received>>

\* close_stream: the route is given up before the marker is in the queue.
CloseStream(i) ==
  /\ status[i] = "new" /\ InTurn(i)
  /\ stage = "open" /\ Kind(i) = "close"
  /\ \/ /\ Conversation(i) \in routed
        /\ routed' = routed \ {Conversation(i)}
        /\ Put(i, ChannelOf(i))
     \/ /\ Conversation(i) \notin routed
        /\ status' = [status EXCEPT ![i] = "void"]
        /\ UNCHANGED <<routed, queueVars, accepted>>
  /\ UNCHANGED <<stage, openStreams, workerVars, barrier, covered, received>>

\* drain, with the statuses it starts from: every item is taken out and reported
\* done; each get, those of the extra items "got" included, wakes a putter.
Taken(got) ==
  [items |-> UNION {ToSet(queue[ch]) : ch \in Channels},
   woken |-> UNION {Woken(ch, Len(queue[ch]) + got[ch]) : ch \in Channels}]

DrainKeepingCount(got, from) ==
  LET taken == Taken(got) IN
  /\ queue' = [ch \in Channels |-> <<>>]
  /\ putters' = [ch \in Channels |-> Asleep(ch, Len(queue[ch]) + got[ch])]
  /\ status' = [j \in Calls |-> IF j \in taken.items THEN "dropped"
                                ELSE IF j \in taken.woken THEN "woken" ELSE from[j]]

\* Fault: what drain takes out is not reported done.
DrainUncounted(got, from) ==
  /\ DrainKeepingCount(got, from)
  /\ UNCHANGED <<unfinished, barrier>>

Drain(got, from) ==
  /\ DrainKeepingCount(got, from)
  /\ unfinished' = [ch \in Channels |-> unfinished[ch] - Len(queue[ch])]
  /\ BarriersNotice

\* Fault: a putter that lost to aclose leaves its item in the queue.
PutterResumesUnaware(i) ==
  LET ch == ChannelOf(i) IN
  /\ status[i] = "woken"
  /\ \/ Full(ch) /\ Waits(i, ch) /\ UNCHANGED <<queue, unfinished, accepted, barrier>>
     \/ ~Full(ch) /\ Enters(i, ch) /\ UNCHANGED <<putters, barrier>>
  /\ UNCHANGED <<stage, streamVars, workerVars, covered, received>>

\* The rest of _put.  If the hub was closed meanwhile the queues are drained,
\* the caller's item first or last, and the call raises.
PutterResumes(i) ==
  LET ch == ChannelOf(i) IN
  /\ status[i] = "woken"
  /\ \/ Full(ch) /\ Waits(i, ch) /\ UNCHANGED <<queue, unfinished, accepted, barrier>>
     \/ /\ ~Full(ch) /\ stage = "open"
        /\ Enters(i, ch) /\ UNCHANGED <<putters, barrier>>
     \/ /\ ~Full(ch) /\ stage # "open"
        /\ Drain([c \in Channels |-> IF c = ch THEN 1 ELSE 0],
                 [status EXCEPT ![i] = "rejected"])
        /\ UNCHANGED accepted
  /\ UNCHANGED <<stage, streamVars, workerVars, covered, received>>

\* The caller is cancelled while it waits; one that was woken already wakes the
\* next (Queue.put).
GivesUp(i) ==
  LET ch   == ChannelOf(i)
      wake == IF status[i] = "woken" /\ ~Full(ch) THEN 1 ELSE 0 IN
  /\ \/ /\ status[i] = "waiting"
        /\ \E k \in DOMAIN putters[ch] :
             /\ putters[ch][k] = i
             /\ putters' = [putters EXCEPT ![ch] = RemoveAt(@, k)]
     \/ /\ status[i] = "woken"
        /\ putters' = [putters EXCEPT ![ch] = Asleep(ch, wake)]
  /\ status' = [j \in Calls |-> IF j = i THEN "withdrawn"
                                ELSE IF j \in Woken(ch, wake) THEN "woken" ELSE status[j]]
  /\ UNCHANGED <<stage, openStreams, queue, unfinished, workerVars, barrier, historyVars>>

\* Fault: a close_stream that is cancelled forgets the stream.
WithdrawsForgetting(i) == GivesUp(i) /\ UNCHANGED routed

\* close_stream puts the route back, unless the hub is closed.
Withdraws(i) ==
  /\ GivesUp(i)
  /\ routed' = routed \cup (IF Kind(i) = "close" /\ stage = "open"
                            THEN {Conversation(i)} ELSE {})

\* Fault: an empty queue is taken for an idle channel.
WaitIdlePolling(b) ==
  LET ch == BarrierOn[b] IN
  /\ barrier[b] = "idle"
  /\ barrier' = [barrier EXCEPT ![b] = IF queue[ch] = <<>> THEN "returned" ELSE "waiting"]
  /\ covered' = [covered EXCEPT ![b] =
                   {i \in ToSet(accepted[ch]) : status[i] \in {"queued", "handling"}}]
  /\ UNCHANGED <<stage, status, streamVars, queueVars, workerVars, accepted, received>>

\* wait_idle, from its call to the return of Queue.join.
WaitIdle(b) ==
  LET ch == BarrierOn[b] IN
  /\ barrier[b] = "idle"
  /\ barrier' = [barrier EXCEPT ![b] = IF unfinished[ch] = 0 THEN "returned" ELSE "waiting"]
  /\ covered' = [covered EXCEPT ![b] =
                   {i \in ToSet(accepted[ch]) : status[i] \in {"queued", "handling"}}]
  /\ UNCHANGED <<stage, status, streamVars, queueVars, workerVars, accepted, received>>

-----------------------------------------------------------------------------
(* The worker of a channel.  The model lets other tasks run between two    *)
(* iterations of its loop, which the code does only when the queue is      *)
(* empty.                                                                  *)

\* Taking the head item out wakes a putter; a close marker forgets the stream
\* before it is sent, a delta opens it before it is sent.
Takes(ch) ==
  LET i == Head(queue[ch])
      c == Conversation(i)
      sent == \/ Kind(i) = "text"
              \/ Kind(i) = "delta" /\ ch \in Streaming
              \/ Kind(i) = "close" /\ ch \in Streaming /\ c \in openStreams IN
  /\ queue[ch] # <<>>
  /\ queue' = [queue EXCEPT ![ch] = Tail(@)]
  /\ putters' = [putters EXCEPT ![ch] = Asleep(ch, 1)]
  /\ status' = [j \in Calls |-> IF j = i THEN "handling"
                                ELSE IF j \in Woken(ch, 1) THEN "woken" ELSE status[j]]
  /\ openStreams' = CASE Kind(i) = "delta" /\ ch \in Streaming -> openStreams \cup {c}
                      [] Kind(i) = "close" -> openStreams \ {c}
                      [] OTHER -> openStreams
  /\ item' = [item EXCEPT ![ch] = i]
  /\ attempt' = [attempt EXCEPT ![ch] = 0]
  /\ worker' = [worker EXCEPT ![ch] = IF sent THEN "sending" ELSE "skipping"]

WorkerLoops(ch) ==
  /\ worker[ch] \in {"created", "looping", "getting"} /\ ~cancelling[ch]
  /\ \/ /\ worker[ch] # "getting" /\ stage # "open"
        /\ worker' = [worker EXCEPT ![ch] = "done"]
        /\ UNCHANGED <<status, openStreams, queue, putters, item, attempt>>
     \/ /\ worker[ch] = "getting" \/ stage = "open"
        /\ Takes(ch)
     \/ /\ worker[ch] # "getting" /\ stage = "open" /\ queue[ch] = <<>>
        /\ worker' = [worker EXCEPT ![ch] = "getting"]
        /\ UNCHANGED <<status, openStreams, queue, putters, item, attempt>>
  /\ UNCHANGED <<stage, routed, unfinished, cancelling, barrier, historyVars>>

\* The item in hand is done with: task_done in the finally clause.
Finishes(ch, end, next) ==
  /\ status' = [status EXCEPT ![item[ch]] = end]
  /\ item' = [item EXCEPT ![ch] = NoCall]
  /\ worker' = [worker EXCEPT ![ch] = next]
  /\ unfinished' = [unfinished EXCEPT ![ch] = @ - 1]
  /\ BarriersNotice

\* A close marker without an open stream, or an outlet that takes no chunks.
Skips(ch) ==
  /\ worker[ch] = "skipping"
  /\ Finishes(ch, "handled", "looping")
  /\ UNCHANGED <<stage, streamVars, queue, putters, attempt, cancelling, historyVars>>

SendSucceeds(ch) ==
  /\ worker[ch] = "sending" /\ ~cancelling[ch]
  /\ Finishes(ch, "handled", "looping")
  /\ received' = [received EXCEPT ![ch] = Append(@, item[ch])]
  /\ UNCHANGED <<stage, streamVars, queue, putters, attempt, cancelling, covered, accepted>>

\* Fault: one retry too many.
RetriesLeftOverrun(ch) == attempt[ch] <= MaxRetries

RetriesLeft(ch) == attempt[ch] < MaxRetries

\* Fault: a failed chunk kills the resident worker.
ChunkFailsFatally(ch) ==
  Kind(item[ch]) # "text" /\ Finishes(ch, "failed", "done") /\ UNCHANGED attempt

ChunkFails(ch) ==
  Kind(item[ch]) # "text" /\ Finishes(ch, "failed", "looping") /\ UNCHANGED attempt

\* A chunk that fails is lost; an event is tried again after a pause, unless
\* the failure is terminal or the retries are used up.
SendFails(ch) ==
  /\ worker[ch] = "sending" /\ ~cancelling[ch]
  /\ \/ ChunkFails(ch)
     \/ /\ Kind(item[ch]) = "text" /\ RetriesLeft(ch)
        /\ attempt' = [attempt EXCEPT ![ch] = @ + 1]
        /\ worker' = [worker EXCEPT ![ch] = "backoff"]
        /\ UNCHANGED <<status, item, unfinished, barrier>>
     \/ /\ Kind(item[ch]) = "text"
        /\ worker' = [worker EXCEPT ![ch] = "reporting"]
        /\ UNCHANGED <<status, item, unfinished, attempt, barrier>>
  /\ UNCHANGED <<stage, streamVars, queue, putters, cancelling, historyVars>>

\* Fault: a failed event goes to the end of the queue to be tried again.
RetriesAtTheEnd(ch) ==
  /\ worker[ch] = "backoff" /\ ~cancelling[ch]
  /\ worker' = [worker EXCEPT ![ch] = "looping"]
  /\ queue' = [queue EXCEPT ![ch] = Append(@, item[ch])]
  /\ status' = [status EXCEPT ![item[ch]] = "queued"]
  /\ item' = [item EXCEPT ![ch] = NoCall]
  /\ UNCHANGED <<stage, streamVars, putters, unfinished, attempt, cancelling, barrier,
                 historyVars>>

\* The pause before a retry ends.
Retries(ch) ==
  /\ worker[ch] = "backoff" /\ ~cancelling[ch]
  /\ worker' = [worker EXCEPT ![ch] = "sending"]
  /\ UNCHANGED <<stage, status, streamVars, queueVars, item, attempt, cancelling,
                 barrier, historyVars>>

\* The out-of-band failure sink returns or raises.
Reports(ch) ==
  /\ worker[ch] = "reporting" /\ ~cancelling[ch]
  /\ Finishes(ch, "failed", "looping")
  /\ UNCHANGED <<stage, streamVars, queue, putters, attempt, cancelling, historyVars>>

\* The worker dies with the item it has in hand, if any.
Dies(ch) ==
  /\ \/ item[ch] # NoCall /\ Finishes(ch, "dropped", "done")
     \/ /\ item[ch] = NoCall
        /\ worker' = [worker EXCEPT ![ch] = "done"]
        /\ UNCHANGED <<status, item, unfinished, barrier>>
  /\ UNCHANGED <<stage, streamVars, queue, putters, attempt, historyVars>>

\* Fault: a worker that is cancelled does not report its item done.
WorkerCancelledUncounted(ch) ==
  /\ cancelling[ch] /\ worker[ch] # "skipping"
  /\ worker' = [worker EXCEPT ![ch] = "done"]
  /\ item' = [item EXCEPT ![ch] = NoCall]
  /\ status' = [j \in Calls |-> IF j = item[ch] THEN "dropped" ELSE status[j]]
  /\ cancelling' = [cancelling EXCEPT ![ch] = FALSE]
  /\ UNCHANGED <<stage, streamVars, queueVars, attempt, barrier, historyVars>>

WorkerCancelled(ch) ==
  /\ cancelling[ch] /\ worker[ch] # "skipping"
  /\ Dies(ch)
  /\ cancelling' = [cancelling EXCEPT ![ch] = FALSE]

\* The outlet raises what "except Exception" does not catch.
SendKills(ch) ==
  /\ worker[ch] = "sending" /\ ~cancelling[ch] /\ item[ch] \in Fatal
  /\ Dies(ch)
  /\ UNCHANGED cancelling

-----------------------------------------------------------------------------
(* aclose and the task it starts.                                          *)

Seals ==
  /\ stage = "open" /\ stage' = "sealed"
  /\ UNCHANGED <<status, streamVars, queueVars, workerVars, barrier, historyVars>>

\* Fault: only the workers that have an item in hand are cancelled.
CloseCancelsBusy ==
  /\ stage = "sealed" /\ stage' = "cancelled"
  /\ cancelling' = [ch \in Channels |-> item[ch] # NoCall]
  /\ UNCHANGED <<status, streamVars, queueVars, worker, item, attempt, barrier, historyVars>>

CloseCancels ==
  /\ stage = "sealed" /\ stage' = "cancelled"
  /\ cancelling' = [ch \in Channels |-> Alive(ch)]
  /\ UNCHANGED <<status, streamVars, queueVars, worker, item, attempt, barrier, historyVars>>

CloseEnds ==
  /\ stage = "cancelled" /\ stage' = "closed"
  /\ \A ch \in Channels : ~Alive(ch)
  /\ worker' = [ch \in Channels |-> "absent"]
  /\ Drain([ch \in Channels |-> 0], status)
  /\ routed' = {} /\ openStreams' = {}
  /\ UNCHANGED <<item, attempt, cancelling, historyVars>>

-----------------------------------------------------------------------------
Caller ==
  \/ \E i \in Calls : Refuse(i) \/ Dispatch(i) \/ CloseStream(i) \/ Withdraws(i)
  \/ \E b \in Barriers : WaitIdle(b)
  \/ Seals

WorkerStep(ch) ==
  WorkerLoops(ch) \/ Skips(ch) \/ Retries(ch) \/ WorkerCancelled(ch)

OutletStep(ch) == SendSucceeds(ch) \/ SendFails(ch) \/ Reports(ch)

CloseStep == CloseCancels \/ CloseEnds

Next ==
  \/ Caller
  \/ \E i \in Calls : PutterResumes(i)
  \/ \E ch \in Channels : WorkerStep(ch) \/ OutletStep(ch) \/ SendKills(ch)
  \/ CloseStep

Spec == Init /\ [][Next]_vars

\* The loop runs its ready tasks and timers.
LoopFairness ==
  /\ \A i \in Calls : WF_vars(PutterResumes(i))
  /\ \A ch \in Channels : WF_vars(WorkerStep(ch))
  /\ WF_vars(CloseStep)

\* The outlets of these channels come back from every send.
OutletFairness(channels) == \A ch \in channels : WF_vars(OutletStep(ch))

-----------------------------------------------------------------------------
(* Properties.                                                             *)

(* The queue's count is what is queued plus what the worker has in hand, on     *)
(* every path: success, swallowed or failed sends, a worker that is cancelled   *)
(* or dies, drain.  A count too high blocks wait_idle for ever, a count too low *)
(* makes task_done raise in the worker.                                         *)
WorkCounted ==
  \A ch \in Channels :
    unfinished[ch] = Len(queue[ch]) + (IF item[ch] = NoCall THEN 0 ELSE 1)

(* The outlet takes the items of a channel in the order in which the queue took *)
(* them, and none twice, across retries, failures and replaced workers.         *)
DeliveredInOrder ==
  \A ch \in Channels :
    \A a, b \in DOMAIN received[ch] : a < b =>
      \E x, y \in DOMAIN accepted[ch] :
        x < y /\ accepted[ch][x] = received[ch][a] /\ accepted[ch][y] = received[ch][b]

(* As long as the hub is open, a stream that was opened at the outlet can still *)
(* be closed: its route is noted, or its close marker is on the way.  A         *)
(* close_stream cancelled under back pressure must not lose the stream.         *)
OpenIsClosable ==
  stage = "open" =>
    \A c \in openStreams :
      \/ c \in routed
      \/ \E i \in Calls : /\ Kind(i) = "close" /\ Conversation(i) = c
                          /\ status[i] \in {"waiting", "woken", "queued"}

(* When wait_idle returns, nothing that was in the channel when it was called   *)
(* is still queued or being sent.                                               *)
BarrierCovers ==
  \A b \in Barriers : barrier[b] = "returned" =>
    \A i \in covered[b] : status[i] \notin {"queued", "handling"}

(* After aclose nothing is left in a queue or in hand and no barrier waits, not *)
(* even through a caller that was blocked on a full queue when the hub closed;  *)
(* a caller still blocked then has a woken one before it.                       *)
ClosedIsEmpty ==
  stage = "closed" =>
    /\ \A ch \in Channels : queue[ch] = <<>> /\ item[ch] = NoCall /\ ~Alive(ch)
    /\ \A b \in Barriers : barrier[b] # "waiting"
    /\ \A i \in Calls : status[i] = "waiting" =>
         \E j \in Calls : status[j] = "woken" /\ ChannelOf(j) = ChannelOf(i)

(* Every wait_idle returns, if the outlets do.                                  *)
BarrierReturns == \A b \in Barriers : barrier[b] = "waiting" ~> barrier[b] = "returned"

(* A caller blocked on a full queue gets an answer, if the outlet of its own    *)
(* channel comes back: another channel that hangs does not matter.              *)
BlockedCallReturns ==
  \A i \in Calls : status[i] = "waiting" ~> status[i] \notin {"waiting", "woken"}

(* aclose returns even if no outlet ever comes back.                            *)
CloseReturns == stage = "sealed" ~> stage = "closed"

=============================================================================
