------------------------ MODULE DeliveryHubProofs ------------------------
(***************************************************************************)
(* Proofs about DeliveryHub, for every set of channels, conversations and  *)
(* calls, every queue size and any number of retries: the queues count     *)
(* their work, deliver in order and never lose the close of a stream,      *)
(* wait_idle covers what it found, and a closed hub is empty.              *)
(***************************************************************************)
EXTENDS DeliveryHub, SequenceFacts

Early == {"new", "waiting", "woken"}
Over  == {"handled", "failed", "dropped", "rejected", "withdrawn", "void"}
Busy  == {"sending", "backoff", "reporting", "skipping"}

At(ch, s) == {i \in Calls : ChannelOf(i) = ch /\ status[i] = s}

\* The statuses of the calls say where their items are; no putter sleeps with
\* nothing in the queue and nobody awake to call the next one.
LineFits(ch) ==
  /\ IsInjective(queue[ch]) /\ ToSet(queue[ch]) = At(ch, "queued")
  /\ IsInjective(putters[ch]) /\ ToSet(putters[ch]) = At(ch, "waiting")
  /\ item[ch] = NoCall => At(ch, "handling") = {} /\ unfinished[ch] = Len(queue[ch])
  /\ item[ch] # NoCall => /\ At(ch, "handling") = {item[ch]}
                          /\ unfinished[ch] = Len(queue[ch]) + 1
  /\ putters[ch] # <<>> => queue[ch] # <<>> \/ At(ch, "woken") # {}

\* The worker has an item in hand exactly while it works on one.
HandFits(ch) ==
  /\ item[ch] # NoCall <=> worker[ch] \in Busy
  /\ cancelling[ch] => Alive(ch)

\* A closed hub is empty and has no workers.
StageFits(ch) ==
  stage = "closed" => queue[ch] = <<>> /\ item[ch] = NoCall /\ ~Alive(ch)

LineInv ==
  /\ TypeOK
  /\ \A ch \in Channels : LineFits(ch) /\ HandFits(ch) /\ StageFits(ch)

\* What wait_idle found in the channel was in its queue or in hand.
BarrierFits(b) ==
  /\ barrier[b] = "waiting" => unfinished[BarrierOn[b]] # 0
  /\ \A i \in covered[b] : ChannelOf(i) = BarrierOn[b] /\ status[i] \notin Early
  /\ barrier[b] = "returned" => \A i \in covered[b] : status[i] \in Over

AcceptedFits(ch) ==
  \A i \in ToSet(accepted[ch]) : ChannelOf(i) = ch /\ status[i] \notin Early

BarrierInv ==
  /\ \A b \in Barriers : BarrierFits(b)
  /\ \A ch \in Channels : AcceptedFits(ch)

\* The queue is the end of what it took, after the first n; the items that were
\* received, and then the one in hand, are among those, in order.
Ends(a, q, n) == Len(a) = n + Len(q) /\ \A k \in 1 .. Len(q) : q[k] = a[n + k]
Went(a, n, r, i) ==
  /\ \A s \in 1 .. Len(r) : \E x \in 1 .. n : a[x] = r[s]
  /\ i # NoCall =>
       \E y \in 1 .. n : /\ a[y] = i
                        /\ \A s \in 1 .. Len(r) : \E x \in 1 .. n : x < y /\ a[x] = r[s]
  /\ \A s, t \in 1 .. Len(r) : s < t =>
       \E x, y \in 1 .. n : x < y /\ a[x] = r[s] /\ a[y] = r[t]
Ordered(a, q, r, i) == \E n \in 0 .. Len(a) : Ends(a, q, n) /\ Went(a, n, r, i)

OrderFits(ch) == Ordered(accepted[ch], queue[ch], received[ch], item[ch])
OrderInv == \A ch \in Channels : OrderFits(ch)

\* At most one call of a conversation is on its way into the queue.  A stream
\* that is open at the outlet or has deltas in the queue is noted, or about to be
\* closed, or its close marker comes after them.
Offered(c)     == {i \in Calls : Conversation(i) = c /\ status[i] \in {"waiting", "woken"}}
Is(i, kind, c) == Kind(i) = kind /\ Conversation(i) = c
Held(c)        == c \in routed \/ \E i \in Offered(c) : Is(i, "close", c)
Later(q, x, c) == \E y \in 1 .. Len(q) : x < y /\ Is(q[y], "close", c)
Guarded(q, c)  == \A x \in 1 .. Len(q) : Is(q[x], "delta", c) => Later(q, x, c)
StreamFits(c) ==
  /\ \A i, j \in Offered(c) : i = j
  /\ \A i \in Offered(c) : Is(i, "delta", c) => c \in routed
  /\ Held(c) \/ Guarded(queue[Home[c]], c)
  /\ c \in openStreams => Held(c) \/ Later(queue[Home[c]], 0, c)

StreamInv == stage = "open" => \A c \in Conversations : StreamFits(c)

-----------------------------------------------------------------------------
(* Type correctness and the place of every call.                           *)

LEMMA CallTypes ==
  ASSUME NEW i \in Calls
  PROVE  /\ Kind(i) \in {"delta", "text", "close"}
         /\ Conversation(i) \in Conversations /\ ChannelOf(i) \in Channels
         /\ i # NoCall
BY HubAssumption DEF Kind, Conversation, ChannelOf

\* Who is woken and who sleeps on when n are called.
LEMMA WakingSplits ==
  ASSUME TypeOK, NEW ch \in Channels, NEW n \in Nat
  PROVE  /\ Asleep(ch, n) \in Seq(Calls)
         /\ ToSet(putters[ch]) = Woken(ch, n) \cup ToSet(Asleep(ch, n))
         /\ IsInjective(putters[ch]) =>
              IsInjective(Asleep(ch, n)) /\ Woken(ch, n) \cap ToSet(Asleep(ch, n)) = {}
         /\ n = 0 => Woken(ch, n) = {}
         /\ n # 0 /\ Asleep(ch, n) # <<>> => Woken(ch, n) # {}
<1>1. PICK q \in Seq(Calls) : q = putters[ch]
  BY DEF TypeOK
<1>2. PICK gone : gone = {q[k] : k \in {k \in DOMAIN q : k <= n}}
  OBVIOUS
<1>3. PICK rest : rest = SubSeq(q, n + 1, Len(q))
  OBVIOUS
<1>4. rest \in Seq(Calls) /\ Splits(q, n, gone, rest)
  BY <1>2, <1>3, RestOfQueue
<1>5. /\ ToSet(q) = gone \cup ToSet(rest)
      /\ IsInjective(q) => IsInjective(rest) /\ gone \cap ToSet(rest) = {}
      /\ n = 0 => gone = {}
      /\ n # 0 /\ rest # <<>> => gone # {}
  BY <1>4, SplitElements
<1>6. gone = Woken(ch, n) /\ rest = Asleep(ch, n)
  BY <1>1, <1>2, <1>3 DEF Woken, Asleep
<1> QED BY <1>1, <1>4, <1>5, <1>6

\* A full queue is not empty.
LEMMA FullIsNotEmpty ==
  ASSUME NEW ch \in Channels, Full(ch)
  PROVE  queue[ch] # <<>>
<1>1. ASSUME queue[ch] = <<>> PROVE FALSE
  <2>1. Len(queue[ch]) = 0
    BY <1>1
  <2> QED BY <2>1, HubAssumption DEF Full
<1> QED BY <1>1

\* The line of a channel that a step leaves alone.
Untouched(ch) ==
  /\ queue'[ch] = queue[ch] /\ putters'[ch] = putters[ch]
  /\ item'[ch] = item[ch] /\ unfinished'[ch] = unfinished[ch]
  /\ \A i \in Calls : ChannelOf(i) = ch =>
       \/ status'[i] = status[i]
       \/ status[i] = "new" /\ status'[i] \in {"void", "rejected"}

LEMMA UntouchedFits ==
  ASSUME NEW ch \in Channels, LineFits(ch), Untouched(ch)
  PROVE  LineFits(ch)'
<1>1. \A s \in {"queued", "waiting", "handling", "woken"} : At(ch, s)' = At(ch, s)
  BY DEF Untouched, At
<1>2. /\ At(ch, "queued")' = At(ch, "queued") /\ At(ch, "waiting")' = At(ch, "waiting")
      /\ At(ch, "handling")' = At(ch, "handling") /\ At(ch, "woken")' = At(ch, "woken")
  BY <1>1
<1> QED BY <1>2 DEF Untouched, LineFits

\* An item enters the queue.
LEMMA EntersFits ==
  ASSUME LineInv, NEW i \in Calls, NEW ch \in Channels, ch = ChannelOf(i),
         status[i] \in {"new", "woken"},
         Enters(i, ch), UNCHANGED <<putters, item>>
  PROVE  \A d \in Channels : LineFits(d)'
<1>1. ASSUME NEW d \in Channels \ {ch} PROVE LineFits(d)'
  <2>1. Untouched(d)
    BY <1>1 DEF LineInv, TypeOK, Enters, Untouched
  <2> QED BY <2>1, UntouchedFits DEF LineInv
<1>2. LineFits(ch)
  BY DEF LineInv
<1>3. PICK q \in Seq(Calls) : q = queue[ch]
  BY DEF LineInv, TypeOK
<1>4. queue'[ch] = Append(q, i) /\ unfinished'[ch] = unfinished[ch] + 1
  BY <1>3 DEF LineInv, TypeOK, Enters
<1>5. /\ At(ch, "queued")' = At(ch, "queued") \cup {i}
      /\ At(ch, "waiting")' = At(ch, "waiting")
      /\ At(ch, "handling")' = At(ch, "handling")
  BY DEF LineInv, TypeOK, Enters, At
<1>6. i \notin ToSet(q)
  BY <1>2, <1>3 DEF LineFits, At
<1>7. /\ ToSet(Append(q, i)) = ToSet(q) \cup {i} /\ IsInjective(Append(q, i))
      /\ Append(q, i) # <<>> /\ Len(Append(q, i)) = Len(q) + 1 /\ Len(q) \in Nat
  <2>1. ToSet(Append(q, i)) = ToSet(q) \cup {i} /\ IsInjective(Append(q, i))
    BY <1>2, <1>3, <1>6, AppendElements DEF LineFits
  <2>2. Len(Append(q, i)) = Len(q) + 1 /\ Len(q) \in Nat
    BY AppendProperties, LenProperties
  <2>3. Append(q, i) # <<>>
    BY <2>1 DEF ToSet
  <2> QED BY <2>1, <2>2, <2>3
<1>8. LineFits(ch)'
  <2>1. putters'[ch] = putters[ch] /\ item'[ch] = item[ch]
    OBVIOUS
  <2>2. /\ IsInjective(queue'[ch]) /\ ToSet(queue'[ch]) = At(ch, "queued")'
        /\ queue'[ch] # <<>>
    BY <1>2, <1>3, <1>4, <1>5, <1>7 DEF LineFits
  <2>3. Len(queue'[ch]) = Len(queue[ch]) + 1 /\ Len(queue[ch]) \in Nat
    BY <1>3, <1>4, <1>7
  <2> QED BY <1>2, <1>4, <1>5, <2>1, <2>2, <2>3 DEF LineFits
<1> QED BY <1>1, <1>8

\* A call joins the putters of a full queue.
LEMMA WaitsFits ==
  ASSUME LineInv, NEW i \in Calls, NEW ch \in Channels, ch = ChannelOf(i),
         status[i] \in {"new", "woken"},
         Full(ch), Waits(i, ch), UNCHANGED <<queue, unfinished, item>>
  PROVE  \A d \in Channels : LineFits(d)'
<1>1. ASSUME NEW d \in Channels \ {ch} PROVE LineFits(d)'
  <2>1. Untouched(d)
    BY <1>1 DEF LineInv, TypeOK, Waits, Untouched
  <2> QED BY <2>1, UntouchedFits DEF LineInv
<1>2. LineFits(ch) /\ queue[ch] # <<>>
  BY FullIsNotEmpty DEF LineInv
<1>3. PICK q \in Seq(Calls) : q = putters[ch]
  BY DEF LineInv, TypeOK
<1>4. putters'[ch] = Append(q, i)
  BY <1>3 DEF LineInv, TypeOK, Waits
<1>5. /\ At(ch, "waiting")' = At(ch, "waiting") \cup {i}
      /\ At(ch, "queued")' = At(ch, "queued")
      /\ At(ch, "handling")' = At(ch, "handling")
  BY DEF LineInv, TypeOK, Waits, At
<1>6. i \notin ToSet(q)
  BY <1>2, <1>3 DEF LineFits, At
<1>7. ToSet(Append(q, i)) = ToSet(q) \cup {i} /\ IsInjective(Append(q, i))
  BY <1>2, <1>3, <1>6, AppendElements DEF LineFits
<1>8. LineFits(ch)'
  <2>1. queue'[ch] = queue[ch] /\ item'[ch] = item[ch] /\ unfinished'[ch] = unfinished[ch]
    OBVIOUS
  <2>2. IsInjective(putters'[ch]) /\ ToSet(putters'[ch]) = At(ch, "waiting")'
    BY <1>2, <1>3, <1>4, <1>5, <1>7 DEF LineFits
  <2> QED BY <1>2, <1>5, <2>1, <2>2 DEF LineFits
<1> QED BY <1>1, <1>8

\* The worker takes the head of the queue and a putter is woken.
LEMMA TakesFits ==
  ASSUME LineInv, NEW ch \in Channels, item[ch] = NoCall, Takes(ch), UNCHANGED unfinished
  PROVE  \A d \in Channels : LineFits(d)'
<1>1. PICK q \in Seq(Calls) : q = queue[ch]
  BY DEF LineInv, TypeOK
<1>2. PICK i \in Calls : i = Head(q)
  BY <1>1, TailElements DEF Takes
<1>3. /\ LineFits(ch) /\ q # <<>> /\ status[i] = "queued" /\ ChannelOf(i) = ch
      /\ i \notin Woken(ch, 1) /\ ToSet(q) = ToSet(Tail(q)) \cup {i}
      /\ i \notin ToSet(Tail(q)) /\ IsInjective(Tail(q))
  <2>1. LineFits(ch) /\ q # <<>> /\ IsInjective(q)
    BY <1>1 DEF LineInv, LineFits, Takes
  <2>2. /\ ToSet(q) = ToSet(Tail(q)) \cup {i} /\ i \notin ToSet(Tail(q))
        /\ IsInjective(Tail(q))
    BY <1>2, <2>1, TailElements
  <2>3. status[i] = "queued" /\ ChannelOf(i) = ch
    BY <1>1, <2>1, <2>2 DEF LineFits, At
  <2>4. Woken(ch, 1) \subseteq At(ch, "waiting")
    BY <2>1, WakingSplits DEF LineInv, LineFits
  <2> QED BY <2>1, <2>2, <2>3, <2>4 DEF At
<1>4. /\ queue'[ch] = Tail(q) /\ putters'[ch] = Asleep(ch, 1) /\ item'[ch] = i
      /\ \A d \in Channels \ {ch} : /\ queue'[d] = queue[d] /\ putters'[d] = putters[d]
                                    /\ item'[d] = item[d]
  BY <1>1, <1>2 DEF LineInv, TypeOK, Takes
<1>5. /\ status'[i] = "handling"
      /\ \A j \in Woken(ch, 1) : j \in Calls => status'[j] = "woken"
      /\ \A j \in Calls : j # i /\ j \notin Woken(ch, 1) => status'[j] = status[j]
  BY <1>1, <1>2, <1>3 DEF Takes
<1>6. /\ ToSet(putters[ch]) = Woken(ch, 1) \cup ToSet(Asleep(ch, 1))
      /\ IsInjective(Asleep(ch, 1)) /\ Woken(ch, 1) \cap ToSet(Asleep(ch, 1)) = {}
      /\ Asleep(ch, 1) # <<>> => Woken(ch, 1) # {}
      /\ Woken(ch, 1) \subseteq At(ch, "waiting")
  BY <1>3, WakingSplits DEF LineInv, LineFits
<1>7. ASSUME NEW d \in Channels \ {ch} PROVE LineFits(d)'
  <2>1. Untouched(d)
    BY <1>3, <1>4, <1>5, <1>6 DEF Untouched, At
  <2> QED BY <2>1, UntouchedFits DEF LineInv
<1>8. /\ At(ch, "queued")' = At(ch, "queued") \ {i}
      /\ At(ch, "waiting")' = At(ch, "waiting") \ Woken(ch, 1)
      /\ At(ch, "handling")' = At(ch, "handling") \cup {i}
      /\ Woken(ch, 1) \subseteq At(ch, "woken")'
  BY <1>3, <1>5, <1>6 DEF At
<1>9. Len(Tail(q)) + 1 = Len(q) /\ Len(q) \in Nat /\ Len(Tail(q)) \in Nat
  BY <1>3, HeadTailProperties, LenProperties
<1>10. LineFits(ch)'
  <2>1. IsInjective(queue'[ch]) /\ ToSet(queue'[ch]) = At(ch, "queued")'
    <3>1. ToSet(q) = At(ch, "queued")
      BY <1>1, <1>3 DEF LineFits
    <3>2. ToSet(Tail(q)) = ToSet(q) \ {i}
      BY <1>3
    <3> QED BY <1>3, <1>4, <1>8, <3>1, <3>2
  <2>2. IsInjective(putters'[ch]) /\ ToSet(putters'[ch]) = At(ch, "waiting")'
    <3>1. ToSet(putters[ch]) = At(ch, "waiting")
      BY <1>3 DEF LineFits
    <3>2. ToSet(Asleep(ch, 1)) = ToSet(putters[ch]) \ Woken(ch, 1)
      BY <1>6
    <3> QED BY <1>4, <1>6, <1>8, <3>1, <3>2
  <2>3. At(ch, "handling")' = {item'[ch]} /\ item'[ch] # NoCall
    BY <1>3, <1>4, <1>8, CallTypes DEF LineFits
  <2>4. unfinished'[ch] = Len(queue'[ch]) + 1
    BY <1>1, <1>3, <1>4, <1>9 DEF LineFits
  <2>5. putters'[ch] # <<>> => At(ch, "woken")' # {}
    BY <1>4, <1>6, <1>8
  <2> QED BY <2>1, <2>2, <2>3, <2>4, <2>5 DEF LineFits
<1> QED BY <1>7, <1>10

\* The worker is done with its item.
LEMMA FinishesFits ==
  ASSUME LineInv, NEW ch \in Channels, item[ch] # NoCall,
         NEW end \in Over, NEW next \in WorkerStates,
         Finishes(ch, end, next), UNCHANGED <<queue, putters>>
  PROVE  \A d \in Channels : LineFits(d)'
<1>1. PICK i \in Calls : i = item[ch]
  BY DEF LineInv, TypeOK
<1>2. LineFits(ch) /\ At(ch, "handling") = {i} /\ unfinished[ch] = Len(queue[ch]) + 1
  BY <1>1 DEF LineInv, LineFits
<1>3. /\ status[i] = "handling" /\ ChannelOf(i) = ch /\ status'[i] = end
      /\ \A j \in Calls \ {i} : status'[j] = status[j]
  BY <1>1, <1>2 DEF LineInv, TypeOK, Finishes, At
<1>4. /\ item'[ch] = NoCall /\ unfinished'[ch] = unfinished[ch] - 1
      /\ \A d \in Channels \ {ch} : item'[d] = item[d] /\ unfinished'[d] = unfinished[d]
  BY DEF LineInv, TypeOK, Finishes
<1>5. ASSUME NEW d \in Channels \ {ch} PROVE LineFits(d)'
  <2>1. Untouched(d)
    BY <1>3, <1>4 DEF Untouched
  <2> QED BY <2>1, UntouchedFits DEF LineInv
<1>6. /\ At(ch, "queued")' = At(ch, "queued") /\ At(ch, "waiting")' = At(ch, "waiting")
      /\ At(ch, "handling")' = {} /\ At(ch, "woken")' = At(ch, "woken")
  BY <1>2, <1>3 DEF At, Over
<1>7. unfinished'[ch] = Len(queue[ch])
  <2>1. Len(queue[ch]) \in Nat
    BY LenProperties DEF LineInv, TypeOK
  <2> QED BY <1>2, <1>4, <2>1
<1>8. LineFits(ch)'
  BY <1>2, <1>4, <1>6, <1>7 DEF LineFits
<1> QED BY <1>5, <1>8

\* Every queue is drained, "got" extra items with it; a line that does not move
\* keeps a caller awake that was.
LEMMA DrainFits ==
  ASSUME LineInv, NEW got \in [Channels -> Nat], NEW from \in [Calls -> Statuses],
         DrainKeepingCount(got, from),
         unfinished' = [ch \in Channels |-> unfinished[ch] - Len(queue[ch])],
         UNCHANGED item,
         \A i \in Calls : \/ from[i] = status[i]
                          \/ /\ status[i] = "woken" /\ from[i] = "rejected"
                             /\ got[ChannelOf(i)] # 0
  PROVE  \A ch \in Channels : LineFits(ch)'
<1>1. SUFFICES ASSUME NEW ch \in Channels PROVE LineFits(ch)'
  OBVIOUS
<1>2. PICK n \in Nat : n = Len(queue[ch]) + got[ch]
  BY LenProperties DEF LineInv, TypeOK
<1>3. queue'[ch] = <<>> /\ putters'[ch] = Asleep(ch, n) /\ item'[ch] = item[ch]
  BY <1>2 DEF DrainKeepingCount
<1>4. \A d \in Channels : /\ ToSet(queue[d]) = At(d, "queued")
                          /\ ToSet(putters[d]) = At(d, "waiting")
  BY DEF LineInv, LineFits
<1>5. \A d \in Channels : Woken(d, Len(queue[d]) + got[d]) \subseteq At(d, "waiting")
  <2>1. SUFFICES ASSUME NEW d \in Channels
                 PROVE  Woken(d, Len(queue[d]) + got[d]) \subseteq At(d, "waiting")
    OBVIOUS
  <2>2. PICK m \in Nat : m = Len(queue[d]) + got[d]
    BY LenProperties DEF LineInv, TypeOK
  <2>3. ToSet(putters[d]) = Woken(d, m) \cup ToSet(Asleep(d, m))
    BY WakingSplits DEF LineInv
  <2> QED BY <1>4, <2>2, <2>3
<1>6. ASSUME NEW j \in Calls, ChannelOf(j) = ch
      PROVE  /\ status[j] = "queued" => status'[j] = "dropped"
             /\ j \in Woken(ch, n) => status'[j] = "woken"
             /\ status[j] # "queued" /\ j \notin Woken(ch, n) => status'[j] = from[j]
  <2>1. j \in Taken(got).items <=> status[j] = "queued"
    BY <1>4, <1>6 DEF Taken, At
  <2>2. j \in Taken(got).woken <=> j \in Woken(ch, n)
    BY <1>2, <1>5, <1>6 DEF Taken, At
  <2>3. j \in Woken(ch, n) => status[j] = "waiting"
    BY <1>2, <1>5 DEF At
  <2> QED BY <2>1, <2>2, <2>3 DEF DrainKeepingCount
<1>7. /\ ToSet(putters[ch]) = Woken(ch, n) \cup ToSet(Asleep(ch, n))
      /\ IsInjective(Asleep(ch, n)) /\ Woken(ch, n) \cap ToSet(Asleep(ch, n)) = {}
      /\ n # 0 /\ Asleep(ch, n) # <<>> => Woken(ch, n) # {}
      /\ Woken(ch, n) \subseteq At(ch, "waiting")
  BY <1>2, <1>5, WakingSplits DEF LineInv, LineFits
<1>8. /\ At(ch, "queued")' = {} /\ At(ch, "handling")' = At(ch, "handling")
      /\ At(ch, "waiting")' = At(ch, "waiting") \ Woken(ch, n)
      /\ Woken(ch, n) \subseteq At(ch, "woken")'
  BY <1>6, <1>7 DEF At
<1>9. putters'[ch] # <<>> => At(ch, "woken")' # {}
  <2>1. CASE n # 0
    BY <1>3, <1>7, <1>8, <2>1
  <2>2. CASE n = 0
    <3>1. Len(queue[ch]) = 0 /\ got[ch] = 0
      BY <1>2, <2>2, LenProperties DEF LineInv, TypeOK
    <3>2. queue[ch] = <<>> /\ Woken(ch, n) = {}
      BY <2>2, <3>1, EmptySeq, WakingSplits DEF LineInv, TypeOK
    <3>3. At(ch, "woken") \subseteq At(ch, "woken")'
      BY <1>6, <3>1, <3>2 DEF At
    <3>4. putters'[ch] # <<>> => putters[ch] # <<>>
      <4>1. Asleep(ch, n) \in Seq(Calls)
        BY WakingSplits DEF LineInv
      <4>2. putters[ch] = <<>> => Asleep(ch, n) = <<>>
        BY <1>7, <4>1, NoElements, EmptyElements
      <4> QED BY <1>3, <4>2
    <3> QED BY <3>2, <3>3, <3>4 DEF LineInv, LineFits
  <2> QED BY <2>1, <2>2
<1>10. /\ IsInjective(queue'[ch]) /\ ToSet(queue'[ch]) = {} /\ Len(queue'[ch]) = 0
  BY <1>3 DEF IsInjective, ToSet
<1>11. /\ item[ch] = NoCall => unfinished'[ch] = 0
       /\ item[ch] # NoCall => unfinished'[ch] = 1
  <2>1. Len(queue[ch]) \in Nat
    BY LenProperties DEF LineInv, TypeOK
  <2>2. unfinished'[ch] = unfinished[ch] - Len(queue[ch])
    OBVIOUS
  <2> QED BY <2>1, <2>2 DEF LineInv, LineFits
<1>12. LineFits(ch)
  BY DEF LineInv
<1> QED BY <1>3, <1>4, <1>7, <1>8, <1>9, <1>10, <1>11, <1>12 DEF LineFits

\* A caller gives up.
LEMMA GivesUpFits ==
  ASSUME LineInv, NEW i \in Calls, GivesUp(i)
  PROVE  \A d \in Channels : LineFits(d)'
<1>1. PICK ch \in Channels : ch = ChannelOf(i)
  BY CallTypes
<1>2. PICK n \in Nat : n = IF status[i] = "woken" /\ ~Full(ch) THEN 1 ELSE 0
  OBVIOUS
<1>3. /\ ToSet(putters[ch]) = Woken(ch, n) \cup ToSet(Asleep(ch, n))
      /\ IsInjective(Asleep(ch, n)) /\ Woken(ch, n) \cap ToSet(Asleep(ch, n)) = {}
      /\ n = 0 => Woken(ch, n) = {}
      /\ n # 0 /\ Asleep(ch, n) # <<>> => Woken(ch, n) # {}
      /\ Woken(ch, n) \subseteq At(ch, "waiting")
  BY WakingSplits DEF LineInv, LineFits
<1>4. /\ status'[i] = "withdrawn"
      /\ \A j \in Woken(ch, n) : j \in Calls /\ j # i => status'[j] = "woken"
      /\ \A j \in Calls : j # i /\ j \notin Woken(ch, n) => status'[j] = status[j]
  BY <1>1, <1>2 DEF GivesUp
<1>5. /\ UNCHANGED <<queue, item, unfinished>>
      /\ \A d \in Channels \ {ch} : putters'[d] = putters[d]
  BY <1>1 DEF GivesUp, LineInv, TypeOK, workerVars
<1>6. ASSUME NEW d \in Channels \ {ch} PROVE LineFits(d)'
  <2>1. Untouched(d)
    BY <1>1, <1>3, <1>4, <1>5 DEF Untouched, At
  <2> QED BY <2>1, UntouchedFits DEF LineInv
<1>7. LineFits(ch)
  BY DEF LineInv
<1>8. CASE status[i] = "waiting"
  <2>1. PICK q \in Seq(Calls) : q = putters[ch]
    BY DEF LineInv, TypeOK
  <2>2. PICK k \in DOMAIN q : q[k] = i /\ putters'[ch] = RemoveAt(q, k)
    BY <1>1, <1>8, <2>1 DEF GivesUp, LineInv, TypeOK
  <2>3. /\ ToSet(q) = ToSet(RemoveAt(q, k)) \cup {i} /\ i \notin ToSet(RemoveAt(q, k))
        /\ IsInjective(RemoveAt(q, k))
    BY <1>7, <2>1, <2>2, RemoveElements DEF LineFits
  <2>4. Woken(ch, n) = {}
    BY <1>2, <1>3, <1>8
  <2>5. /\ At(ch, "queued")' = At(ch, "queued") /\ At(ch, "handling")' = At(ch, "handling")
        /\ At(ch, "waiting")' = At(ch, "waiting") \ {i}
        /\ At(ch, "woken")' = At(ch, "woken")
    BY <1>1, <1>4, <1>8, <2>4 DEF At
  <2>6. putters[ch] # <<>>
    BY <2>1, <2>2
  <2>7. IsInjective(putters'[ch]) /\ ToSet(putters'[ch]) = At(ch, "waiting")'
    <3>1. ToSet(q) = At(ch, "waiting")
      BY <1>7, <2>1 DEF LineFits
    <3>2. ToSet(RemoveAt(q, k)) = ToSet(q) \ {i}
      BY <2>3
    <3> QED BY <2>2, <2>3, <2>5, <3>1, <3>2
  <2>8. queue'[ch] = queue[ch] /\ item'[ch] = item[ch] /\ unfinished'[ch] = unfinished[ch]
    BY <1>5
  <2>9. LineFits(ch)'
    BY <1>7, <2>5, <2>6, <2>7, <2>8 DEF LineFits
  <2> QED BY <1>6, <2>9
<1>9. CASE status[i] = "woken"
  <2>1. putters'[ch] = Asleep(ch, n)
    BY <1>1, <1>2, <1>9 DEF GivesUp, LineInv, TypeOK
  <2>2. /\ At(ch, "queued")' = At(ch, "queued") /\ At(ch, "handling")' = At(ch, "handling")
        /\ At(ch, "waiting")' = At(ch, "waiting") \ Woken(ch, n)
        /\ Woken(ch, n) \subseteq At(ch, "woken")'
    BY <1>1, <1>3, <1>4, <1>9 DEF At
  <2>3. queue'[ch] # <<>> \/ (putters'[ch] # <<>> => At(ch, "woken")' # {})
    <3>1. CASE Full(ch)
      BY <1>5, <3>1, FullIsNotEmpty
    <3>2. CASE ~Full(ch)
      BY <1>2, <1>3, <1>9, <2>1, <2>2, <3>2
    <3> QED BY <3>1, <3>2
  <2>4. IsInjective(putters'[ch]) /\ ToSet(putters'[ch]) = At(ch, "waiting")'
    <3>1. ToSet(putters[ch]) = At(ch, "waiting")
      BY <1>7 DEF LineFits
    <3>2. ToSet(Asleep(ch, n)) = ToSet(putters[ch]) \ Woken(ch, n)
      BY <1>3
    <3> QED BY <1>3, <2>1, <2>2, <3>1, <3>2
  <2>5. queue'[ch] = queue[ch] /\ item'[ch] = item[ch] /\ unfinished'[ch] = unfinished[ch]
    BY <1>5
  <2>6. LineFits(ch)'
    BY <1>7, <2>2, <2>3, <2>4, <2>5 DEF LineFits
  <2> QED BY <1>6, <2>6
<1> QED BY <1>6, <1>8, <1>9 DEF GivesUp

\* Putting an item in, or waiting for room, keeps every line.
LEMMA PutFits ==
  ASSUME LineInv, NEW i \in Calls, status[i] \in {"new", "woken"},
         Put(i, ChannelOf(i)), UNCHANGED item
  PROVE  \A d \in Channels : LineFits(d)'
<1>1. PICK ch \in Channels : ch = ChannelOf(i)
  BY CallTypes
<1>2. CASE Enters(i, ch) /\ UNCHANGED putters
  BY <1>1, <1>2, EntersFits
<1>3. CASE Full(ch) /\ Waits(i, ch) /\ UNCHANGED <<queue, unfinished, accepted>>
  BY <1>1, <1>3, WaitsFits
<1> QED BY <1>1, <1>2, <1>3 DEF Put

LEMMA ResumesFits ==
  ASSUME LineInv, NEW i \in Calls, PutterResumes(i)
  PROVE  \A d \in Channels : LineFits(d)'
<1>1. status[i] = "woken" /\ UNCHANGED item
  BY DEF PutterResumes, workerVars
<1>2. CASE Put(i, ChannelOf(i))
  BY <1>1, <1>2, PutFits
<1>3. PICK got \in [Channels -> Nat] :
        got = [c \in Channels |-> IF c = ChannelOf(i) THEN 1 ELSE 0]
  OBVIOUS
<1>4. PICK from \in [Calls -> Statuses] : from = [status EXCEPT ![i] = "rejected"]
  BY DEF LineInv, TypeOK, Statuses
<1>5. CASE Drain(got, from)
  <2>1. \A j \in Calls : \/ from[j] = status[j]
                         \/ /\ status[j] = "woken" /\ from[j] = "rejected"
                            /\ got[ChannelOf(j)] # 0
    BY <1>1, <1>3, <1>4, CallTypes DEF LineInv, TypeOK
  <2> QED BY <1>1, <1>5, <2>1, DrainFits DEF Drain
<1> QED BY <1>2, <1>3, <1>4, <1>5 DEF PutterResumes, Put

LEMMA CloseEndsFits ==
  ASSUME LineInv, CloseEnds
  PROVE  \A d \in Channels : LineFits(d)'
<1>1. PICK got \in [Channels -> Nat] : got = [c \in Channels |-> 0]
  OBVIOUS
<1>2. PICK from \in [Calls -> Statuses] : from = status
  BY DEF LineInv, TypeOK
<1>3. Drain(got, from) /\ UNCHANGED item
  BY <1>1, <1>2 DEF CloseEnds
<1> QED BY <1>2, <1>3, DrainFits DEF Drain

\* What the steps of a worker do to its line.
LEMMA WorkerFits ==
  ASSUME LineInv, NEW ch \in Channels, WorkerStep(ch) \/ OutletStep(ch) \/ SendKills(ch)
  PROVE  \A d \in Channels : LineFits(d)'
<1>1. HandFits(ch) /\ \A d \in Channels : LineFits(d)
  BY DEF LineInv
<1>2. CASE UNCHANGED <<status, queue, putters, item, unfinished>>
  BY <1>1, <1>2, UntouchedFits DEF Untouched
<1>3. CASE \E end \in Over, next \in {"looping", "done"} :
             item[ch] # NoCall /\ Finishes(ch, end, next) /\ UNCHANGED <<queue, putters>>
  BY <1>3, FinishesFits DEF WorkerStates
<1>4. CASE WorkerLoops(ch)
  <2>1. CASE Takes(ch) /\ UNCHANGED unfinished
    <3>1. item[ch] = NoCall
      BY <1>1, <1>4 DEF WorkerLoops, HandFits, Busy
    <3> QED BY <2>1, <3>1, TakesFits
  <2> QED BY <1>2, <1>4, <2>1 DEF WorkerLoops
<1>5. CASE Skips(ch) \/ SendSucceeds(ch) \/ Reports(ch)
  <2>1. item[ch] # NoCall
    BY <1>1, <1>5 DEF Skips, SendSucceeds, Reports, HandFits, Busy
  <2> QED BY <1>3, <1>5, <2>1 DEF Skips, SendSucceeds, Reports, Over
<1>6. CASE SendFails(ch)
  <2>1. item[ch] # NoCall
    BY <1>1, <1>6 DEF SendFails, HandFits, Busy
  <2> QED BY <1>2, <1>3, <1>6, <2>1 DEF SendFails, ChunkFails, Over
<1>7. CASE Retries(ch)
  BY <1>2, <1>7 DEF Retries, queueVars
<1>8. CASE Dies(ch)
  BY <1>2, <1>3, <1>8 DEF Dies, Over
<1> QED BY <1>4, <1>5, <1>6, <1>7, <1>8 DEF WorkerStep, OutletStep, WorkerCancelled, SendKills

LEMMA LineStep ==
  ASSUME LineInv, [Next]_vars
  PROVE  \A d \in Channels : LineFits(d)'
<1>1. CASE UNCHANGED <<status, queueVars, item>>
  BY <1>1, UntouchedFits DEF Untouched, queueVars, LineInv
<1>2. ASSUME NEW i \in Calls, Refuse(i) PROVE \A d \in Channels : LineFits(d)'
  <2>1. \A d \in Channels : Untouched(d)
    BY <1>2 DEF Refuse, Untouched, queueVars, workerVars, LineInv, TypeOK
  <2> QED BY <2>1, UntouchedFits DEF LineInv
<1>3. ASSUME NEW i \in Calls, Dispatch(i) PROVE \A d \in Channels : LineFits(d)'
  BY <1>3, PutFits DEF Dispatch
<1>4. ASSUME NEW i \in Calls, CloseStream(i) PROVE \A d \in Channels : LineFits(d)'
  <2>1. CASE status' = [status EXCEPT ![i] = "void"] /\ UNCHANGED queueVars
    <3>1. \A d \in Channels : Untouched(d)
      BY <1>4, <2>1 DEF CloseStream, Untouched, queueVars, workerVars, LineInv, TypeOK
    <3> QED BY <3>1, UntouchedFits DEF LineInv
  <2>2. CASE Put(i, ChannelOf(i))
    BY <1>4, <2>2, PutFits DEF CloseStream, workerVars
  <2> QED BY <1>4, <2>1, <2>2 DEF CloseStream
<1>5. ASSUME NEW i \in Calls, Withdraws(i) PROVE \A d \in Channels : LineFits(d)'
  BY <1>5, GivesUpFits DEF Withdraws
<1>6. ASSUME NEW i \in Calls, PutterResumes(i) PROVE \A d \in Channels : LineFits(d)'
  BY <1>6, ResumesFits
<1>7. ASSUME NEW b \in Barriers, WaitIdle(b) PROVE \A d \in Channels : LineFits(d)'
  BY <1>1, <1>7 DEF WaitIdle, workerVars
<1>8. ASSUME NEW ch \in Channels, WorkerStep(ch) \/ OutletStep(ch) \/ SendKills(ch)
      PROVE  \A d \in Channels : LineFits(d)'
  BY <1>8, WorkerFits
<1>9. CASE Seals \/ CloseCancels
  BY <1>1, <1>9 DEF Seals, CloseCancels, workerVars
<1>10. CASE UNCHANGED vars
  BY <1>1, <1>10 DEF vars, workerVars
<1> QED BY <1>2, <1>3, <1>4, <1>5, <1>6, <1>7, <1>8, <1>9, <1>10, CloseEndsFits
        DEF Next, Caller, CloseStep

\* The worker and the item it has in hand change together.
LEMMA HandStep ==
  ASSUME LineInv, [Next]_vars
  PROVE  \A d \in Channels : HandFits(d)'
<1>1. \A d \in Channels : HandFits(d)
  BY DEF LineInv
<1>2. CASE UNCHANGED <<worker, item, cancelling>>
  BY <1>1, <1>2 DEF HandFits, Alive
<1>3. ASSUME NEW i \in Calls, Dispatch(i) PROVE \A d \in Channels : HandFits(d)'
  BY <1>1, <1>3 DEF Dispatch, HandFits, Alive, Busy, LineInv, TypeOK
<1>4. ASSUME NEW ch \in Channels, WorkerLoops(ch) PROVE \A d \in Channels : HandFits(d)'
  <2>1. CASE Takes(ch)
    <3>1. Head(queue[ch]) # NoCall
      <4>1. PICK q \in Seq(Calls) : q = queue[ch]
        BY DEF LineInv, TypeOK
      <4> QED BY <2>1, <4>1, TailElements, CallTypes DEF Takes
    <3> QED BY <1>1, <1>4, <2>1, <3>1
            DEF WorkerLoops, Takes, HandFits, Alive, Busy, LineInv, TypeOK
  <2> QED BY <1>1, <1>4, <2>1 DEF WorkerLoops, HandFits, Alive, Busy, LineInv, TypeOK
<1>5. ASSUME NEW ch \in Channels,
             \E end \in Over, next \in {"looping", "done"} :
               /\ Finishes(ch, end, next)
               /\ cancelling'[ch] => next = "looping" /\ Alive(ch),
             \A d \in Channels : d # ch => cancelling'[d] = cancelling[d]
      PROVE  \A d \in Channels : HandFits(d)'
  BY <1>1, <1>5 DEF Finishes, HandFits, Alive, Busy, LineInv, TypeOK
<1>6. ASSUME NEW ch \in Channels, Skips(ch) \/ SendSucceeds(ch) \/ Reports(ch)
      PROVE  \A d \in Channels : HandFits(d)'
  BY <1>5, <1>6 DEF Skips, SendSucceeds, Reports, Over, Alive
<1>7. ASSUME NEW ch \in Channels, SendFails(ch) PROVE \A d \in Channels : HandFits(d)'
  <2>1. CASE ChunkFails(ch)
    BY <1>5, <1>7, <2>1 DEF SendFails, ChunkFails, Over, Alive
  <2> QED BY <1>1, <1>7, <2>1 DEF SendFails, HandFits, Alive, Busy, LineInv, TypeOK
<1>8. ASSUME NEW ch \in Channels, Retries(ch) PROVE \A d \in Channels : HandFits(d)'
  BY <1>1, <1>8 DEF Retries, HandFits, Alive, Busy, LineInv, TypeOK
<1>9. ASSUME NEW ch \in Channels, Dies(ch), ~cancelling'[ch],
             \A d \in Channels : d # ch => cancelling'[d] = cancelling[d]
      PROVE  \A d \in Channels : HandFits(d)'
  <2>1. CASE Finishes(ch, "dropped", "done")
    BY <1>5, <1>9, <2>1 DEF Over
  <2> QED BY <1>1, <1>9, <2>1 DEF Dies, HandFits, Alive, Busy, LineInv, TypeOK
<1>10. ASSUME NEW ch \in Channels, WorkerCancelled(ch) \/ SendKills(ch)
       PROVE  \A d \in Channels : HandFits(d)'
  BY <1>9, <1>10 DEF WorkerCancelled, SendKills, LineInv, TypeOK
<1>11. CASE CloseCancels
  BY <1>1, <1>11 DEF CloseCancels, HandFits, Alive, workerVars, LineInv, TypeOK
<1>12. CASE CloseEnds
  BY <1>1, <1>12 DEF CloseEnds, HandFits, Alive, Busy, LineInv, TypeOK
<1> QED BY <1>2, <1>3, <1>4, <1>6, <1>7, <1>8, <1>10, <1>11, <1>12
        DEF Next, Caller, CloseStep, WorkerStep, OutletStep, Refuse, CloseStream, Withdraws,
            GivesUp, PutterResumes, WaitIdle, Seals, vars, workerVars

\* What a closed hub still does leaves it empty.
LEMMA StageStep ==
  ASSUME LineInv, [Next]_vars
  PROVE  \A d \in Channels : StageFits(d)'
<1>1. \A d \in Channels : StageFits(d) /\ HandFits(d)
  BY DEF LineInv
<1>2. CASE CloseEnds
  BY <1>1, <1>2 DEF CloseEnds, Drain, DrainKeepingCount, StageFits, HandFits, Alive, Busy
<1>3. CASE stage' # "closed"
  BY <1>3 DEF StageFits
<1>4. CASE stage = "closed" /\ stage' = "closed"
  <2>1. \A d \in Channels : queue[d] = <<>> /\ item[d] = NoCall /\ ~Alive(d) /\ ~Full(d)
    <3>1. \A d \in Channels : queue[d] = <<>> /\ item[d] = NoCall /\ ~Alive(d)
      BY <1>1, <1>4 DEF StageFits
    <3> QED BY <3>1, FullIsNotEmpty
  <2>2. CASE UNCHANGED <<queue, item, worker>>
    BY <2>1, <2>2 DEF StageFits, Alive
  <2>3. ASSUME NEW i \in Calls, PutterResumes(i) PROVE \A d \in Channels : StageFits(d)'
    <3>1. UNCHANGED <<item, worker>> /\ \A d \in Channels : queue'[d] = <<>>
      BY <1>4, <2>1, <2>3, CallTypes
         DEF PutterResumes, Drain, DrainKeepingCount, workerVars
    <3> QED BY <2>1, <3>1 DEF StageFits, Alive
  <2>4. ASSUME NEW ch \in Channels, WorkerStep(ch) \/ OutletStep(ch) \/ SendKills(ch)
        PROVE FALSE
    <3>1. ~Alive(ch) /\ HandFits(ch)
      BY <1>1, <2>1
    <3> QED BY <2>4, <3>1
            DEF WorkerStep, WorkerLoops, Skips, Retries, WorkerCancelled, OutletStep,
                SendSucceeds, SendFails, Reports, SendKills, HandFits, Alive
  <2> QED BY <1>4, <2>2, <2>3, <2>4
          DEF Next, Caller, CloseStep, Refuse, Dispatch, CloseStream, Withdraws, GivesUp,
              WaitIdle, Seals, CloseCancels, CloseEnds, vars, workerVars, queueVars
<1>5. stage' = "closed" => stage = "closed" \/ CloseEnds
  BY DEF Next, Caller, CloseStep, Refuse, Dispatch, CloseStream, Withdraws, GivesUp,
         WaitIdle, Seals, PutterResumes, WorkerStep, WorkerLoops, Skips, Retries,
         WorkerCancelled, OutletStep, SendSucceeds, SendFails, Reports, SendKills, Dies,
         CloseCancels, CloseEnds, vars
<1> QED BY <1>2, <1>3, <1>4, <1>5

\* The types of what callers and worker share; the rest changes only in values.
ItemTypes ==
  /\ status \in [Calls -> Statuses]
  /\ queue \in [Channels -> Seq(Calls)] /\ putters \in [Channels -> Seq(Calls)]
  /\ unfinished \in [Channels -> Nat]
  /\ accepted \in [Channels -> Seq(Calls)]

LEMMA PutTypes ==
  ASSUME TypeOK, NEW i \in Calls, Put(i, ChannelOf(i))
  PROVE  ItemTypes'
<1>1. PICK ch \in Channels : ch = ChannelOf(i)
  BY CallTypes
<1>2. CASE Enters(i, ch) /\ UNCHANGED putters
  <2>1. PICK q \in Seq(Calls) : q = queue[ch]
    BY DEF TypeOK
  <2>2. PICK a \in Seq(Calls) : a = accepted[ch]
    BY DEF TypeOK
  <2>3. Append(q, i) \in Seq(Calls) /\ Append(a, i) \in Seq(Calls)
    BY AppendElements
  <2>4. /\ queue' = [queue EXCEPT ![ch] = Append(q, i)]
        /\ accepted' = [accepted EXCEPT ![ch] = Append(a, i)]
    BY <1>2, <2>1, <2>2 DEF Enters
  <2> QED BY <1>2, <2>3, <2>4 DEF Enters, TypeOK, ItemTypes, Statuses
<1>3. CASE Waits(i, ch) /\ UNCHANGED <<queue, unfinished, accepted>>
  <2>1. PICK q \in Seq(Calls) : q = putters[ch]
    BY DEF TypeOK
  <2>2. Append(q, i) \in Seq(Calls) /\ putters' = [putters EXCEPT ![ch] = Append(q, i)]
    BY <1>3, <2>1, AppendElements DEF Waits
  <2> QED BY <1>3, <2>2 DEF Waits, TypeOK, ItemTypes, Statuses
<1> QED BY <1>1, <1>2, <1>3 DEF Put

LEMMA DrainTypes ==
  ASSUME LineInv, NEW got \in [Channels -> Nat], NEW from \in [Calls -> Statuses],
         Drain(got, from), UNCHANGED accepted
  PROVE  ItemTypes'
<1>1. \A ch \in Channels : unfinished[ch] - Len(queue[ch]) \in Nat
  <2>1. SUFFICES ASSUME NEW ch \in Channels PROVE unfinished[ch] - Len(queue[ch]) \in Nat
    OBVIOUS
  <2>2. Len(queue[ch]) \in Nat
    BY LenProperties DEF LineInv, TypeOK
  <2>3. unfinished[ch] = Len(queue[ch]) \/ unfinished[ch] = Len(queue[ch]) + 1
    BY DEF LineInv, LineFits
  <2> QED BY <2>2, <2>3
<1>2. \A ch \in Channels : Asleep(ch, Len(queue[ch]) + got[ch]) \in Seq(Calls)
  <2>1. SUFFICES ASSUME NEW ch \in Channels
                 PROVE  Asleep(ch, Len(queue[ch]) + got[ch]) \in Seq(Calls)
    OBVIOUS
  <2>2. PICK n \in Nat : n = Len(queue[ch]) + got[ch]
    BY LenProperties DEF LineInv, TypeOK
  <2> QED BY <2>2, WakingSplits DEF LineInv
<1>3. \A ch \in Channels : <<>> \in Seq(Calls)
  BY EmptySeq
<1> QED BY <1>1, <1>2, <1>3 DEF Drain, DrainKeepingCount, LineInv, TypeOK, ItemTypes, Statuses

LEMMA GivesUpTypes ==
  ASSUME TypeOK, NEW i \in Calls, GivesUp(i)
  PROVE  ItemTypes'
<1>1. PICK ch \in Channels : ch = ChannelOf(i)
  BY CallTypes
<1>2. PICK n \in Nat : n = IF status[i] = "woken" /\ ~Full(ch) THEN 1 ELSE 0
  OBVIOUS
<1>3. PICK q \in Seq(Calls) : q = putters[ch]
  BY DEF TypeOK
<1>4. Asleep(ch, n) \in Seq(Calls) /\ \A k \in DOMAIN q : RemoveAt(q, k) \in Seq(Calls)
  BY WakingSplits, RemoveElements
<1>5. putters' \in [Channels -> Seq(Calls)]
  <2>1. CASE putters' = [putters EXCEPT ![ch] = Asleep(ch, n)]
    BY <1>4, <2>1 DEF TypeOK
  <2>2. CASE \E k \in DOMAIN q : putters' = [putters EXCEPT ![ch] = RemoveAt(q, k)]
    BY <1>4, <2>2 DEF TypeOK
  <2> QED BY <1>1, <1>2, <1>3, <2>1, <2>2 DEF GivesUp
<1>6. status' \in [Calls -> Statuses]
  BY DEF GivesUp, TypeOK, Statuses
<1> QED BY <1>5, <1>6 DEF GivesUp, TypeOK, ItemTypes, historyVars

LEMMA TakesTypes ==
  ASSUME TypeOK, NEW ch \in Channels, Takes(ch)
  PROVE  /\ status' \in [Calls -> Statuses] /\ openStreams' \subseteq Conversations
         /\ queue' \in [Channels -> Seq(Calls)] /\ putters' \in [Channels -> Seq(Calls)]
         /\ worker' \in [Channels -> WorkerStates]
         /\ item' \in [Channels -> Calls \cup {NoCall}]
         /\ attempt' \in [Channels -> 0 .. MaxRetries]
<1>1. PICK q \in Seq(Calls) : q = queue[ch]
  BY DEF TypeOK
<1>2. Head(q) \in Calls /\ Tail(q) \in Seq(Calls)
  BY <1>1, TailElements DEF Takes
<1>3. PICK i \in Calls : i = Head(q)
  BY <1>2
<1>4. Conversation(i) \in Conversations
  BY CallTypes
<1>5. 0 \in 0 .. MaxRetries /\ Asleep(ch, 1) \in Seq(Calls)
  BY HubAssumption, WakingSplits
<1>6. status' \in [Calls -> Statuses] /\ worker' \in [Channels -> WorkerStates]
  BY DEF Takes, TypeOK, Statuses, WorkerStates
<1>7. openStreams' \subseteq Conversations
  BY <1>1, <1>3, <1>4 DEF Takes, TypeOK
<1>8. queue' \in [Channels -> Seq(Calls)] /\ item' \in [Channels -> Calls \cup {NoCall}]
  BY <1>1, <1>2 DEF Takes, TypeOK
<1>9. /\ putters' \in [Channels -> Seq(Calls)]
      /\ attempt' \in [Channels -> 0 .. MaxRetries]
  BY <1>5 DEF Takes, TypeOK
<1> QED BY <1>6, <1>7, <1>8, <1>9

LEMMA FinishesTypes ==
  ASSUME LineInv, NEW ch \in Channels, item[ch] # NoCall, NEW end \in Over,
         NEW next \in WorkerStates, Finishes(ch, end, next)
  PROVE  /\ status' \in [Calls -> Statuses] /\ worker' \in [Channels -> WorkerStates]
         /\ item' \in [Channels -> Calls \cup {NoCall}] /\ unfinished' \in [Channels -> Nat]
         /\ barrier' \in [Barriers -> {"idle", "waiting", "returned"}]
<1>1. unfinished[ch] - 1 \in Nat
  <2>1. Len(queue[ch]) \in Nat
    BY LenProperties DEF LineInv, TypeOK
  <2>2. unfinished[ch] = Len(queue[ch]) + 1
    BY DEF LineInv, LineFits
  <2> QED BY <2>1, <2>2
<1> QED BY <1>1 DEF Finishes, BarriersNotice, LineInv, TypeOK, Statuses, WorkerStates, Over

LEMMA TypeStep ==
  ASSUME LineInv, [Next]_vars
  PROVE  TypeOK'
<1> USE DEF streamVars, queueVars, workerVars, historyVars
<1>1. TypeOK /\ \A d \in Channels : HandFits(d)
  BY DEF LineInv
<1>2. CASE UNCHANGED vars
  BY <1>1, <1>2 DEF TypeOK, vars
<1>3. ASSUME NEW i \in Calls, Refuse(i) PROVE TypeOK'
  BY <1>1, <1>3 DEF Refuse, TypeOK, Statuses
<1>4. ASSUME NEW i \in Calls, Dispatch(i) PROVE TypeOK'
  <2>1. ItemTypes' /\ Conversation(i) \in Conversations
    BY <1>1, <1>4, PutTypes, CallTypes DEF Dispatch
  <2> QED BY <1>1, <1>4, <2>1 DEF Dispatch, TypeOK, ItemTypes, WorkerStates
<1>5. ASSUME NEW i \in Calls, CloseStream(i) PROVE TypeOK'
  <2>1. CASE Put(i, ChannelOf(i))
    <3>1. ItemTypes'
      BY <1>1, <2>1, PutTypes
    <3> QED BY <1>1, <1>5, <3>1 DEF CloseStream, TypeOK, ItemTypes
  <2> QED BY <1>1, <1>5, <2>1 DEF CloseStream, TypeOK, Statuses
<1>6. ASSUME NEW i \in Calls, Withdraws(i) PROVE TypeOK'
  <2>1. ItemTypes' /\ Conversation(i) \in Conversations
    BY <1>1, <1>6, GivesUpTypes, CallTypes DEF Withdraws
  <2> QED BY <1>1, <1>6, <2>1 DEF Withdraws, GivesUp, TypeOK, ItemTypes
<1>7. ASSUME NEW i \in Calls, PutterResumes(i) PROVE TypeOK'
  <2>1. CASE Put(i, ChannelOf(i)) /\ UNCHANGED barrier
    <3>1. ItemTypes'
      BY <1>1, <2>1, PutTypes
    <3> QED BY <1>1, <1>7, <2>1, <3>1 DEF PutterResumes, TypeOK, ItemTypes
  <2>2. PICK got \in [Channels -> Nat] :
          got = [c \in Channels |-> IF c = ChannelOf(i) THEN 1 ELSE 0]
    OBVIOUS
  <2>3. PICK from \in [Calls -> Statuses] : from = [status EXCEPT ![i] = "rejected"]
    BY <1>1 DEF TypeOK, Statuses
  <2>4. CASE Drain(got, from) /\ UNCHANGED accepted
    <3>1. ItemTypes'
      BY <2>4, DrainTypes
    <3>2. barrier' \in [Barriers -> {"idle", "waiting", "returned"}]
      BY <1>1, <2>4 DEF Drain, BarriersNotice, TypeOK
    <3> QED BY <1>1, <1>7, <3>1, <3>2 DEF PutterResumes, TypeOK, ItemTypes
  <2> QED BY <1>7, <2>1, <2>2, <2>3, <2>4 DEF PutterResumes, Put
<1>8. ASSUME NEW b \in Barriers, WaitIdle(b) PROVE TypeOK'
  <2>1. PICK a \in Seq(Calls) : a = accepted[BarrierOn[b]]
    BY <1>1, HubAssumption DEF TypeOK
  <2>2. ToSet(a) \subseteq Calls
    BY ElementOfSeq, LenProperties DEF ToSet
  <2> QED BY <1>1, <1>8, <2>1, <2>2 DEF WaitIdle, TypeOK
<1>9. CASE Seals \/ CloseCancels
  BY <1>1, <1>9 DEF Seals, CloseCancels, TypeOK, Stages, Alive
<1>10. ASSUME NEW ch \in Channels, WorkerLoops(ch) PROVE TypeOK'
  <2>1. CASE Takes(ch)
    BY <1>1, <1>10, <2>1, TakesTypes DEF WorkerLoops, TypeOK
  <2> QED BY <1>1, <1>10, <2>1 DEF WorkerLoops, TypeOK, WorkerStates
<1>11. ASSUME NEW ch \in Channels, Skips(ch) \/ Reports(ch) PROVE TypeOK'
  <2>1. item[ch] # NoCall
    BY <1>1, <1>11 DEF Skips, Reports, HandFits, Busy
  <2>2. \E end \in Over, next \in WorkerStates : Finishes(ch, end, next)
    BY <1>11 DEF Skips, Reports, Over, WorkerStates
  <2> QED BY <1>1, <1>11, <2>1, <2>2, FinishesTypes DEF Skips, Reports, TypeOK
<1>12. ASSUME NEW ch \in Channels, SendSucceeds(ch) PROVE TypeOK'
  <2>1. item[ch] # NoCall
    BY <1>1, <1>12 DEF SendSucceeds, HandFits, Busy
  <2>2. \E end \in Over, next \in WorkerStates : Finishes(ch, end, next)
    BY <1>12 DEF SendSucceeds, Over, WorkerStates
  <2>3. received' \in [Channels -> Seq(Calls)]
    <3>1. PICK r \in Seq(Calls) : r = received[ch]
      BY <1>1 DEF TypeOK
    <3>2. PICK i \in Calls : i = item[ch]
      BY <1>1, <2>1 DEF TypeOK
    <3>3. Append(r, i) \in Seq(Calls) /\ received' = [received EXCEPT ![ch] = Append(r, i)]
      BY <1>12, <3>1, <3>2, AppendElements DEF SendSucceeds
    <3> QED BY <1>1, <3>3 DEF TypeOK
  <2> QED BY <1>1, <1>12, <2>1, <2>2, <2>3, FinishesTypes DEF SendSucceeds, TypeOK
<1>13. ASSUME NEW ch \in Channels, SendFails(ch) PROVE TypeOK'
  <2>1. item[ch] # NoCall
    BY <1>1, <1>13 DEF SendFails, HandFits, Busy
  <2>2. CASE ChunkFails(ch)
    <3>1. \E end \in Over, next \in WorkerStates : Finishes(ch, end, next)
      BY <2>2 DEF ChunkFails, Over, WorkerStates
    <3> QED BY <1>1, <1>13, <2>1, <2>2, <3>1, FinishesTypes DEF SendFails, ChunkFails, TypeOK
  <2>3. CASE RetriesLeft(ch) /\ attempt' = [attempt EXCEPT ![ch] = @ + 1]
    <3>1. attempt[ch] + 1 \in 0 .. MaxRetries
      BY <1>1, <2>3, HubAssumption DEF TypeOK, RetriesLeft
    <3>2. attempt' \in [Channels -> 0 .. MaxRetries]
      BY <1>1, <2>3, <3>1 DEF TypeOK
    <3>3. UNCHANGED <<status, item, unfinished, barrier>> \/ ChunkFails(ch)
      BY <1>13 DEF SendFails
    <3> QED BY <1>1, <1>13, <2>2, <3>2, <3>3 DEF SendFails, TypeOK, WorkerStates
  <2> QED BY <1>1, <1>13, <2>2, <2>3 DEF SendFails, TypeOK, WorkerStates
<1>14. ASSUME NEW ch \in Channels, Retries(ch) PROVE TypeOK'
  BY <1>1, <1>14 DEF Retries, TypeOK, WorkerStates
<1>15. ASSUME NEW ch \in Channels, WorkerCancelled(ch) \/ SendKills(ch) PROVE TypeOK'
  <2>1. Dies(ch) /\ cancelling' \in [Channels -> BOOLEAN]
    BY <1>1, <1>15 DEF WorkerCancelled, SendKills, TypeOK
  <2>2. CASE item[ch] # NoCall /\ Finishes(ch, "dropped", "done")
    BY <1>1, <2>1, <2>2, FinishesTypes DEF Dies, TypeOK, Over, WorkerStates
  <2> QED BY <1>1, <1>15, <2>1, <2>2 DEF WorkerCancelled, SendKills, Dies, TypeOK, WorkerStates
<1>16. CASE CloseEnds
  <2>1. PICK got \in [Channels -> Nat] : got = [c \in Channels |-> 0]
    OBVIOUS
  <2>2. PICK from \in [Calls -> Statuses] : from = status
    BY <1>1 DEF TypeOK
  <2>3. Drain(got, from)
    BY <1>16, <2>1, <2>2 DEF CloseEnds
  <2>4. ItemTypes'
    BY <1>16, <2>3, DrainTypes DEF CloseEnds
  <2>5. barrier' \in [Barriers -> {"idle", "waiting", "returned"}]
    BY <1>1, <2>3 DEF Drain, BarriersNotice, TypeOK
  <2> QED BY <1>1, <1>16, <2>4, <2>5 DEF CloseEnds, TypeOK, ItemTypes, Stages, WorkerStates
<1> QED BY <1>2, <1>3, <1>4, <1>5, <1>6, <1>7, <1>8, <1>9, <1>10, <1>11, <1>12, <1>13,
           <1>14, <1>15, <1>16
        DEF Next, Caller, CloseStep, WorkerStep, OutletStep

LEMMA LineInit == Init => LineInv
<1> SUFFICES ASSUME Init PROVE LineInv
  OBVIOUS
<1>1. TypeOK
  BY HubAssumption, EmptySeq
     DEF Init, TypeOK, Stages, Statuses, WorkerStates
<1>2. ASSUME NEW ch \in Channels PROVE LineFits(ch) /\ HandFits(ch) /\ StageFits(ch)
  <2>1. /\ queue[ch] = <<>> /\ putters[ch] = <<>> /\ item[ch] = NoCall /\ unfinished[ch] = 0
        /\ \A s \in {"queued", "waiting", "handling"} : At(ch, s) = {}
    BY DEF Init, At
  <2>2. LineFits(ch)
    BY <2>1, EmptyElements DEF LineFits
  <2>3. HandFits(ch) /\ StageFits(ch)
    BY DEF Init, HandFits, StageFits, Busy, Alive
  <2> QED BY <2>2, <2>3
<1> QED BY <1>1, <1>2 DEF LineInv

\* Places, workers and counts agree in every reachable state.
THEOREM LinesFit == Spec => []LineInv
<1>1. LineInv /\ [Next]_vars => LineInv'
  BY TypeStep, LineStep, HandStep, StageStep DEF LineInv
<1> QED BY <1>1, LineInit, PTL DEF Spec

\* Every variable of the hub stays within its type; in particular no item is
\* delivered more often than the retries allow.
THEOREM HubTypes == Spec => []TypeOK
BY LinesFit, PTL DEF LineInv

\* On every path of success, failure, cancellation and close, the count of each
\* queue is what it holds plus what its worker has in hand: task_done is called
\* once for every item that was put.
THEOREM WorkIsCounted == Spec => []WorkCounted
<1>1. LineInv => WorkCounted
  <2>1. ASSUME LineInv, NEW ch \in Channels
        PROVE  unfinished[ch] = Len(queue[ch]) + (IF item[ch] = NoCall THEN 0 ELSE 1)
    <3>1. Len(queue[ch]) \in Nat
      BY <2>1, LenProperties DEF LineInv, TypeOK
    <3>2. /\ item[ch] = NoCall => unfinished[ch] = Len(queue[ch])
          /\ item[ch] # NoCall => unfinished[ch] = Len(queue[ch]) + 1
      BY <2>1 DEF LineInv, LineFits
    <3>3. CASE item[ch] = NoCall
      <4>1. (IF item[ch] = NoCall THEN 0 ELSE 1) = 0
        BY <3>3
      <4> QED BY <3>1, <3>2, <3>3, <4>1
    <3>4. CASE item[ch] # NoCall
      <4>1. (IF item[ch] = NoCall THEN 0 ELSE 1) = 1
        BY <3>4
      <4> QED BY <3>2, <3>4, <4>1
    <3> QED BY <3>3, <3>4
  <2> QED BY <2>1 DEF WorkCounted
<1> QED BY <1>1, LinesFit, PTL

-----------------------------------------------------------------------------
(* The barrier and the close.                                              *)

\* A call never comes back from where it has got to: from its caller into the
\* queue, and out of it for good.
MovesOn(i) ==
  /\ status[i] \notin Early => status'[i] \notin Early
  /\ status[i] \in Over => status'[i] \in Over

LEMMA WokenSlept ==
  ASSUME LineInv, NEW ch \in Channels, NEW n \in Nat
  PROVE  Woken(ch, n) \subseteq At(ch, "waiting")
BY WakingSplits DEF LineInv, LineFits

\* What a drain does to each call.
LEMMA DrainMoves ==
  ASSUME LineInv, NEW got \in [Channels -> Nat], NEW from \in [Calls -> Statuses],
         DrainKeepingCount(got, from), NEW j \in Calls
  PROVE  /\ status[j] = "queued" => status'[j] = "dropped"
         /\ status[j] = "waiting" => status'[j] \in {"woken", from[j]}
         /\ status[j] \notin {"queued", "waiting"} => status'[j] = from[j]
<1>1. ASSUME j \in Taken(got).items PROVE status[j] = "queued"
  BY <1>1 DEF Taken, LineInv, LineFits, At
<1>2. ASSUME status[j] = "queued" PROVE j \in Taken(got).items
  BY <1>2, CallTypes DEF Taken, LineInv, LineFits, At
<1>3. ASSUME j \in Taken(got).woken PROVE status[j] = "waiting"
  <2>1. PICK d \in Channels : j \in Woken(d, Len(queue[d]) + got[d])
    BY <1>3 DEF Taken
  <2>2. PICK m \in Nat : m = Len(queue[d]) + got[d]
    BY LenProperties DEF LineInv, TypeOK
  <2> QED BY <2>1, <2>2, WokenSlept DEF At
<1> QED BY <1>1, <1>2, <1>3 DEF DrainKeepingCount

LEMMA MovesOnStep ==
  ASSUME LineInv, [Next]_vars, NEW j \in Calls
  PROVE  MovesOn(j)
<1>1. TypeOK /\ \A d \in Channels : LineFits(d) /\ HandFits(d)
  BY DEF LineInv
<1>2. CASE status' = status
  BY <1>2 DEF MovesOn
<1>3. ASSUME NEW i \in Calls, NEW s \in Statuses, status' = [status EXCEPT ![i] = s],
             \/ status[i] \in Early
             \/ status[i] = "handling" /\ s \in Over
      PROVE  MovesOn(j)
  BY <1>1, <1>3 DEF MovesOn, TypeOK, Early, Over
<1>4. ASSUME NEW i \in Calls, status[i] \in {"new", "woken"}, Put(i, ChannelOf(i))
      PROVE  MovesOn(j)
  BY <1>3, <1>4 DEF Put, Enters, Waits, Early, Statuses
<1>5. ASSUME NEW i \in Calls, Refuse(i) \/ Dispatch(i) \/ CloseStream(i) PROVE MovesOn(j)
  BY <1>3, <1>4, <1>5 DEF Refuse, Dispatch, CloseStream, Early, Statuses
<1>6. ASSUME NEW i \in Calls, Withdraws(i) PROVE MovesOn(j)
  <2>1. PICK n \in Nat : n = IF status[i] = "woken" /\ ~Full(ChannelOf(i)) THEN 1 ELSE 0
    OBVIOUS
  <2>2. Woken(ChannelOf(i), n) \subseteq At(ChannelOf(i), "waiting")
    BY CallTypes, WokenSlept
  <2> QED BY <1>6, <2>1, <2>2 DEF Withdraws, GivesUp, At, MovesOn, Early, Over
<1>7. ASSUME NEW i \in Calls, PutterResumes(i) PROVE MovesOn(j)
  <2>1. CASE Put(i, ChannelOf(i))
    BY <1>4, <1>7, <2>1 DEF PutterResumes
  <2>2. PICK got \in [Channels -> Nat] :
          got = [c \in Channels |-> IF c = ChannelOf(i) THEN 1 ELSE 0]
    OBVIOUS
  <2>3. PICK from \in [Calls -> Statuses] : from = [status EXCEPT ![i] = "rejected"]
    BY <1>1 DEF TypeOK, Statuses
  <2>4. CASE DrainKeepingCount(got, from)
    <3>1. from[j] = status[j] \/ status[j] = "woken"
      BY <1>1, <1>7, <2>3 DEF PutterResumes, TypeOK
    <3>2. status[j] = "waiting" => status'[j] \in {"woken", from[j]}
      BY <2>4, DrainMoves
    <3>3. /\ status[j] = "queued" => status'[j] = "dropped"
          /\ status[j] \notin {"queued", "waiting"} => status'[j] = from[j]
      BY <2>4, DrainMoves
    <3> QED BY <3>1, <3>2, <3>3 DEF MovesOn, Early, Over
  <2> QED BY <1>7, <2>1, <2>2, <2>3, <2>4 DEF PutterResumes, Put, Drain
<1>8. ASSUME NEW ch \in Channels, Takes(ch) PROVE MovesOn(j)
  <2>1. PICK q \in Seq(Calls) : q = queue[ch]
    BY <1>1 DEF TypeOK
  <2>2. Head(q) \in Calls /\ status[Head(q)] = "queued"
    BY <1>1, <1>8, <2>1, TailElements DEF Takes, LineFits, At
  <2>3. Woken(ch, 1) \subseteq At(ch, "waiting")
    BY WokenSlept
  <2> QED BY <1>8, <2>1, <2>2, <2>3 DEF Takes, At, MovesOn, Early, Over
<1>9. ASSUME NEW ch \in Channels, item[ch] # NoCall, NEW end \in Over, NEW next,
             Finishes(ch, end, next)
      PROVE  MovesOn(j)
  <2>1. item[ch] \in Calls /\ status[item[ch]] = "handling"
    BY <1>1, <1>9 DEF TypeOK, LineFits, At
  <2> QED BY <1>3, <1>9, <2>1 DEF Finishes, Over, Statuses
<1>10. ASSUME NEW ch \in Channels, WorkerStep(ch) \/ OutletStep(ch) \/ SendKills(ch)
       PROVE  MovesOn(j)
  <2>1. worker[ch] \in Busy => item[ch] # NoCall
    BY <1>1 DEF HandFits
  <2>2. CASE WorkerLoops(ch)
    BY <1>2, <1>8, <2>2 DEF WorkerLoops
  <2>3. CASE Skips(ch) \/ SendSucceeds(ch) \/ Reports(ch)
    BY <1>9, <2>1, <2>3 DEF Skips, SendSucceeds, Reports, Busy, Over
  <2>4. CASE SendFails(ch)
    BY <1>2, <1>9, <2>1, <2>4 DEF SendFails, ChunkFails, Busy, Over
  <2>5. CASE Retries(ch)
    BY <1>2, <2>5 DEF Retries
  <2>6. CASE Dies(ch)
    BY <1>2, <1>9, <2>6 DEF Dies, Over
  <2> QED BY <1>10, <2>2, <2>3, <2>4, <2>5, <2>6
          DEF WorkerStep, OutletStep, WorkerCancelled, SendKills
<1>11. CASE CloseEnds
  <2>1. PICK got \in [Channels -> Nat] : got = [c \in Channels |-> 0]
    OBVIOUS
  <2>2. PICK from \in [Calls -> Statuses] : from = status
    BY <1>1 DEF TypeOK
  <2>3. DrainKeepingCount(got, from)
    BY <1>11, <2>1, <2>2 DEF CloseEnds, Drain
  <2>4. status[j] = "waiting" => status'[j] \in {"woken", from[j]}
    BY <2>3, DrainMoves
  <2>5. /\ status[j] = "queued" => status'[j] = "dropped"
        /\ status[j] \notin {"queued", "waiting"} => status'[j] = from[j]
    BY <2>3, DrainMoves
  <2> QED BY <2>2, <2>4, <2>5 DEF MovesOn, Early, Over
<1> QED BY <1>2, <1>5, <1>6, <1>7, <1>10, <1>11
        DEF Next, Caller, CloseStep, WaitIdle, Seals, CloseCancels, vars

\* A channel with no unfinished item has none in its queue or in hand.
LEMMA NothingUnfinished ==
  ASSUME LineInv, NEW ch \in Channels, unfinished[ch] = 0, NEW i \in Calls, ChannelOf(i) = ch
  PROVE  status[i] \notin {"queued", "handling"}
<1>1. LineFits(ch) /\ Len(queue[ch]) \in Nat
  BY LenProperties DEF LineInv, TypeOK
<1>2. item[ch] = NoCall /\ Len(queue[ch]) = 0
  BY <1>1 DEF LineFits
<1>3. queue[ch] = <<>>
  BY <1>2, EmptySeq DEF LineInv, TypeOK
<1> QED BY <1>1, <1>2, <1>3, EmptyElements DEF LineFits, At

LEMMA NothingUnfinishedNext ==
  (LineInv => \A ch \in Channels, i \in Calls :
                unfinished[ch] = 0 /\ ChannelOf(i) = ch => status[i] \notin {"queued", "handling"})'
<1>1. LineInv => \A ch \in Channels, i \in Calls :
                   unfinished[ch] = 0 /\ ChannelOf(i) = ch
                     => status[i] \notin {"queued", "handling"}
  BY NothingUnfinished
<1> QED BY <1>1, PTL

\* The barrier whose covered items stay as they are.
LEMMA BarrierKept ==
  ASSUME LineInv, LineInv', NEW b \in Barriers, BarrierFits(b), covered'[b] = covered[b],
         \A i \in Calls : MovesOn(i),
         \/ BarriersNotice
         \/ /\ barrier'[b] = barrier[b]
            /\ \A ch \in Channels : unfinished[ch] # 0 => unfinished'[ch] # 0
  PROVE  BarrierFits(b)'
<1>1. BarrierOn[b] \in Channels /\ covered[b] \subseteq Calls
  BY HubAssumption DEF LineInv, TypeOK
<1>2. barrier'[b] = "waiting" => unfinished'[BarrierOn[b]] # 0
  BY <1>1 DEF BarriersNotice, BarrierFits
<1>3. \A i \in covered[b] : ChannelOf(i) = BarrierOn[b] /\ status'[i] \notin Early
  BY <1>1 DEF BarrierFits, MovesOn
<1>4. ASSUME barrier'[b] = "returned", NEW i \in covered[b] PROVE status'[i] \in Over
  <2>1. CASE barrier[b] = "returned"
    BY <1>1, <2>1 DEF BarrierFits, MovesOn
  <2>2. CASE unfinished'[BarrierOn[b]] = 0
    <3>1. status'[i] \notin {"queued", "handling"}
      BY <1>1, <1>3, <2>2, NothingUnfinishedNext
    <3>2. status'[i] \in Statuses
      BY <1>1 DEF LineInv, TypeOK
    <3> QED BY <1>3, <3>1, <3>2 DEF Statuses, Early, Over
  <2> QED BY <1>4, <2>1, <2>2 DEF BarriersNotice
<1> QED BY <1>2, <1>3, <1>4 DEF BarrierFits

LEMMA WaitIdleBarrier ==
  ASSUME LineInv, BarrierInv, NEW b \in Barriers, WaitIdle(b), NEW a \in Barriers
  PROVE  BarrierFits(a)'
<1>1. CASE a # b
  <2>1. barrier'[a] = barrier[a] /\ covered'[a] = covered[a] /\ UNCHANGED <<status, unfinished>>
    BY <1>1 DEF WaitIdle, queueVars, LineInv, TypeOK
  <2> QED BY <2>1 DEF BarrierInv, BarrierFits
<1>2. CASE a = b
  <2>1. PICK ch \in Channels : ch = BarrierOn[b]
    BY HubAssumption
  <2>2. /\ barrier'[b] = IF unfinished[ch] = 0 THEN "returned" ELSE "waiting"
        /\ covered'[b] = {i \in ToSet(accepted[ch]) : status[i] \in {"queued", "handling"}}
        /\ UNCHANGED <<status, unfinished>>
    BY <2>1 DEF WaitIdle, queueVars, LineInv, TypeOK
  <2>3. \A i \in ToSet(accepted[ch]) : i \in Calls /\ ChannelOf(i) = ch
    <3>1. PICK s \in Seq(Calls) : s = accepted[ch]
      BY DEF LineInv, TypeOK
    <3>2. ToSet(s) \subseteq Calls
      BY ElementOfSeq, LenProperties DEF ToSet
    <3> QED BY <3>1, <3>2 DEF BarrierInv, AcceptedFits
  <2>4. unfinished[ch] = 0 => covered'[b] = {}
    BY <2>2, <2>3, NothingUnfinished
  <2> QED BY <1>2, <2>1, <2>2, <2>3, <2>4 DEF BarrierFits, Early
<1> QED BY <1>1, <1>2

\* Putting an item in makes no channel idle.
LEMMA PutIsWork ==
  ASSUME LineInv, NEW i \in Calls, Put(i, ChannelOf(i))
  PROVE  \A ch \in Channels : unfinished[ch] # 0 => unfinished'[ch] # 0
BY DEF Put, Enters, LineInv, TypeOK

LEMMA BarrierStep ==
  ASSUME LineInv, LineInv', BarrierInv, [Next]_vars, NEW b \in Barriers
  PROVE  BarrierFits(b)'
<1> USE DEF streamVars, queueVars, workerVars, historyVars
<1>1. \A i \in Calls : MovesOn(i)
  BY MovesOnStep
<1>2. CASE UNCHANGED <<covered, barrier, unfinished>>
  BY <1>1, <1>2, BarrierKept DEF BarrierInv
<1>3. CASE UNCHANGED covered /\ BarriersNotice
  BY <1>1, <1>3, BarrierKept DEF BarrierInv
<1>4. ASSUME NEW i \in Calls, Put(i, ChannelOf(i)), UNCHANGED <<covered, barrier>>
      PROVE  BarrierFits(b)'
  BY <1>1, <1>4, PutIsWork, BarrierKept DEF BarrierInv
<1>5. ASSUME NEW i \in Calls,
             Refuse(i) \/ Dispatch(i) \/ CloseStream(i) \/ Withdraws(i) \/ PutterResumes(i)
      PROVE  BarrierFits(b)'
  BY <1>2, <1>3, <1>4, <1>5
     DEF Refuse, Dispatch, CloseStream, Withdraws, GivesUp, PutterResumes, Put, Drain
<1>6. ASSUME NEW a \in Barriers, WaitIdle(a) PROVE BarrierFits(b)'
  BY <1>6, WaitIdleBarrier
<1>7. ASSUME NEW ch \in Channels, WorkerStep(ch) \/ OutletStep(ch) \/ SendKills(ch)
      PROVE  BarrierFits(b)'
  BY <1>2, <1>3, <1>7
     DEF WorkerStep, WorkerLoops, Skips, Retries, WorkerCancelled, OutletStep, SendSucceeds,
         SendFails, ChunkFails, Reports, SendKills, Dies, Finishes
<1>8. CASE Seals \/ CloseStep \/ UNCHANGED vars
  BY <1>2, <1>3, <1>8 DEF Seals, CloseStep, CloseCancels, CloseEnds, Drain, vars
<1> QED BY <1>5, <1>6, <1>7, <1>8 DEF Next, Caller

\* The queue takes only items of its own channel.
LEMMA AcceptedStep ==
  ASSUME LineInv, BarrierInv, [Next]_vars, NEW ch \in Channels
  PROVE  AcceptedFits(ch)'
<1> USE DEF streamVars, queueVars, workerVars, historyVars
<1>1. PICK a \in Seq(Calls) : a = accepted[ch]
  BY DEF LineInv, TypeOK
<1>2. ToSet(a) \subseteq Calls
  BY ElementOfSeq, LenProperties DEF ToSet
<1>3. CASE accepted'[ch] = accepted[ch]
  BY <1>1, <1>2, <1>3, MovesOnStep DEF BarrierInv, AcceptedFits, MovesOn
<1>4. ASSUME NEW i \in Calls, Enters(i, ChannelOf(i)) PROVE AcceptedFits(ch)'
  <2>1. CASE ChannelOf(i) # ch
    BY <1>3, <1>4, <2>1 DEF Enters, LineInv, TypeOK
  <2>2. CASE ChannelOf(i) = ch
    <3>1. accepted'[ch] = Append(a, i) /\ status'[i] = "queued"
      BY <1>1, <1>4, <2>2 DEF Enters, LineInv, TypeOK
    <3>2. ToSet(Append(a, i)) = ToSet(a) \cup {i}
      BY AppendElements
    <3>3. \A j \in ToSet(a) : ChannelOf(j) = ch /\ status'[j] \notin Early
      BY <1>1, <1>2, MovesOnStep DEF BarrierInv, AcceptedFits, MovesOn
    <3> QED BY <2>2, <3>1, <3>2, <3>3 DEF AcceptedFits, Early
  <2> QED BY <2>1, <2>2
<1>5. ASSUME NEW i \in Calls, Put(i, ChannelOf(i)) PROVE AcceptedFits(ch)'
  BY <1>3, <1>4, <1>5 DEF Put
<1> QED BY <1>3, <1>4, <1>5
        DEF Next, Caller, CloseStep, WorkerStep, WorkerLoops, Skips, Retries,
            WorkerCancelled, OutletStep, SendSucceeds, SendFails, Reports, SendKills, Dies,
            Refuse, Dispatch, CloseStream, Withdraws, GivesUp, PutterResumes, Put, WaitIdle,
            Seals, CloseCancels, CloseEnds, vars

LEMMA BarrierInit == Init => BarrierInv
<1> SUFFICES ASSUME Init PROVE BarrierInv
  OBVIOUS
<1>1. \A b \in Barriers : BarrierFits(b)
  BY DEF Init, BarrierFits
<1>2. \A ch \in Channels : AcceptedFits(ch)
  BY EmptyElements DEF Init, AcceptedFits
<1> QED BY <1>1, <1>2 DEF BarrierInv

LEMMA BarriersHold == Spec => [](LineInv /\ BarrierInv)
<1>1. LineInv /\ LineInv' /\ BarrierInv /\ [Next]_vars => BarrierInv'
  BY BarrierStep, AcceptedStep DEF BarrierInv
<1> QED BY <1>1, BarrierInit, LinesFit, PTL DEF Spec

\* When wait_idle returns, each item it found in the channel has left it: it was
\* handled, failed or dropped.
THEOREM BarriersCover == Spec => []BarrierCovers
<1>1. BarrierInv => BarrierCovers
  BY DEF BarrierInv, BarrierFits, BarrierCovers, Over
<1> QED BY <1>1, BarriersHold, PTL

\* After aclose the hub is empty, also through the callers that were blocked when
\* it closed: no barrier waits, and a caller that still sleeps has one awake
\* before it that will wake it.
THEOREM CloseLeavesNothing == Spec => []ClosedIsEmpty
<1>1. LineInv /\ BarrierInv => ClosedIsEmpty
  <2> SUFFICES ASSUME LineInv, BarrierInv, stage = "closed"
               PROVE  /\ \A ch \in Channels : queue[ch] = <<>> /\ item[ch] = NoCall /\ ~Alive(ch)
                      /\ \A b \in Barriers : barrier[b] # "waiting"
                      /\ \A i \in Calls : status[i] = "waiting" =>
                           \E j \in Calls : status[j] = "woken" /\ ChannelOf(j) = ChannelOf(i)
    BY DEF ClosedIsEmpty
  <2>1. \A ch \in Channels : queue[ch] = <<>> /\ item[ch] = NoCall /\ ~Alive(ch)
    BY DEF LineInv, StageFits
  <2>2. \A ch \in Channels : unfinished[ch] = 0
    <3>1. Len(<<>>) = 0
      OBVIOUS
    <3> QED BY <2>1, <3>1 DEF LineInv, LineFits
  <2>3. \A b \in Barriers : barrier[b] # "waiting"
    BY <2>2, HubAssumption DEF BarrierInv, BarrierFits
  <2>4. ASSUME NEW i \in Calls, status[i] = "waiting"
        PROVE  \E j \in Calls : status[j] = "woken" /\ ChannelOf(j) = ChannelOf(i)
    <3>1. PICK ch \in Channels : ch = ChannelOf(i)
      BY CallTypes
    <3>2. LineFits(ch) /\ i \in ToSet(putters[ch])
      BY <2>4, <3>1 DEF LineInv, LineFits, At
    <3>3. putters[ch] # <<>>
      BY <3>2, EmptyElements
    <3> QED BY <2>1, <3>1, <3>2, <3>3 DEF LineFits, At
  <2> QED BY <2>1, <2>3, <2>4
<1> QED BY <1>1, BarriersHold, PTL

-----------------------------------------------------------------------------
(* The order of delivery.                                                  *)

LEMMA WentOn ==
  ASSUME NEW a \in Seq(Calls), NEW b \in Seq(Calls), NEW n \in Nat, NEW m \in Nat, n <= m,
         \A x \in 1 .. n : b[x] = a[x],
         NEW r \in Seq(Calls), NEW i \in Calls \cup {NoCall}, Went(a, n, r, i)
  PROVE  Went(b, m, r, i)
<1>1. \A x \in 1 .. n : x \in 1 .. m /\ b[x] = a[x]
  OBVIOUS
<1>2. \A s \in 1 .. Len(r) : \E x \in 1 .. m : b[x] = r[s]
  BY <1>1 DEF Went
<1>3. ASSUME i # NoCall
      PROVE  \E y \in 1 .. m : /\ b[y] = i
                              /\ \A s \in 1 .. Len(r) : \E x \in 1 .. m : x < y /\ b[x] = r[s]
  <2>1. PICK y \in 1 .. n : /\ a[y] = i
                            /\ \A s \in 1 .. Len(r) : \E x \in 1 .. n : x < y /\ a[x] = r[s]
    BY <1>3 DEF Went
  <2>2. \A s \in 1 .. Len(r) : \E x \in 1 .. m : x < y /\ b[x] = r[s]
    BY <1>1, <2>1
  <2> QED BY <1>1, <2>1, <2>2
<1>4. \A s, t \in 1 .. Len(r) : s < t =>
        \E x, y \in 1 .. m : x < y /\ b[x] = r[s] /\ b[y] = r[t]
  <2>1. SUFFICES ASSUME NEW s \in 1 .. Len(r), NEW t \in 1 .. Len(r), s < t
                 PROVE  \E x, y \in 1 .. m : x < y /\ b[x] = r[s] /\ b[y] = r[t]
    OBVIOUS
  <2>2. PICK x \in 1 .. n, y \in 1 .. n : x < y /\ a[x] = r[s] /\ a[y] = r[t]
    BY <2>1 DEF Went
  <2> QED BY <1>1, <2>2
<1> QED BY <1>2, <1>3, <1>4 DEF Went

LEMMA OrderEnters ==
  ASSUME NEW a \in Seq(Calls), NEW q \in Seq(Calls), NEW r \in Seq(Calls),
         NEW i \in Calls \cup {NoCall}, NEW e \in Calls, Ordered(a, q, r, i)
  PROVE  Ordered(Append(a, e), Append(q, e), r, i)
<1>1. PICK b \in Seq(Calls) : b = Append(a, e)
  BY AppendElements
<1>2. PICK p \in Seq(Calls) : p = Append(q, e)
  BY AppendElements
<1>3. PICK n \in 0 .. Len(a) : Ends(a, q, n) /\ Went(a, n, r, i)
  BY DEF Ordered
<1>4. Len(a) \in Nat /\ Len(q) \in Nat /\ n \in Nat /\ n <= n
  BY LenProperties
<1>5. Len(b) = Len(a) + 1 /\ b[Len(a) + 1] = e /\ \A x \in 1 .. Len(a) : b[x] = a[x]
  BY <1>1, AppendProperties
<1>6. Len(p) = Len(q) + 1 /\ p[Len(q) + 1] = e /\ \A x \in 1 .. Len(q) : p[x] = q[x]
  BY <1>2, AppendProperties
<1>7. Len(a) = n + Len(q) /\ \A k \in 1 .. Len(q) : q[k] = a[n + k]
  BY <1>3 DEF Ends
<1>8. n \in 0 .. Len(b) /\ Len(b) = n + Len(p) /\ \A x \in 1 .. n : b[x] = a[x]
  BY <1>4, <1>5, <1>6, <1>7
<1>9. ASSUME NEW k \in 1 .. Len(p) PROVE p[k] = b[n + k]
  <2>1. CASE k = Len(q) + 1
    <3>1. n + k = Len(a) + 1
      BY <1>4, <1>7, <2>1
    <3> QED BY <1>5, <1>6, <2>1, <3>1
  <2>2. CASE k # Len(q) + 1
    <3>1. k \in 1 .. Len(q) /\ n + k \in 1 .. Len(a)
      BY <1>4, <1>6, <1>7, <2>2
    <3> QED BY <1>5, <1>6, <1>7, <3>1
  <2> QED BY <2>1, <2>2
<1>10. Went(b, n, r, i)
  BY <1>3, <1>4, <1>8, WentOn
<1> QED BY <1>1, <1>2, <1>8, <1>9, <1>10 DEF Ordered, Ends

LEMMA OrderTakes ==
  ASSUME NEW a \in Seq(Calls), NEW q \in Seq(Calls), q # <<>>, NEW r \in Seq(Calls),
         NEW i \in Calls \cup {NoCall}, Ordered(a, q, r, i)
  PROVE  Ordered(a, Tail(q), r, Head(q))
<1>1. PICK p \in Seq(Calls) : p = Tail(q)
  BY TailElements
<1>2. PICK h \in Calls : h = Head(q)
  BY TailElements
<1>3. PICK n \in 0 .. Len(a) : Ends(a, q, n) /\ Went(a, n, r, i)
  BY DEF Ordered
<1>4. Len(a) \in Nat /\ Len(q) \in Nat /\ n \in Nat /\ Len(p) \in Nat
  BY LenProperties
<1>5. Len(q) = Len(p) + 1 /\ h = q[1] /\ \A k \in 1 .. Len(p) : p[k] = q[k + 1]
  <2>1. Len(q) # 0
    BY EmptySeq
  <2>2. Len(p) = Len(q) - 1 /\ h = q[1] /\ \A k \in 1 .. Len(p) : p[k] = q[k + 1]
    BY <1>1, <1>2, HeadTailProperties
  <2> QED BY <1>4, <2>1, <2>2
<1>6. Len(a) = n + Len(q) /\ \A k \in 1 .. Len(q) : q[k] = a[n + k]
  BY <1>3 DEF Ends
<1>7. n + 1 \in 0 .. Len(a) /\ Len(a) = (n + 1) + Len(p) /\ a[n + 1] = h
  BY <1>4, <1>5, <1>6
<1>8. ASSUME NEW k \in 1 .. Len(p) PROVE p[k] = a[(n + 1) + k]
  <2>1. k + 1 \in 1 .. Len(q) /\ n + (k + 1) = (n + 1) + k
    BY <1>4, <1>5
  <2> QED BY <1>5, <1>6, <2>1
<1>9. Went(a, n + 1, r, i)
  BY <1>3, <1>4, WentOn
<1>10. \A s \in 1 .. Len(r) : \E x \in 1 .. n + 1 : x < n + 1 /\ a[x] = r[s]
  <2>1. \A x \in 1 .. n : x \in 1 .. n + 1 /\ x < n + 1
    BY <1>4
  <2> QED BY <1>3, <2>1 DEF Went
<1>11. n + 1 \in 1 .. n + 1
  BY <1>4
<1>12. Went(a, n + 1, r, h)
  BY <1>7, <1>9, <1>10, <1>11 DEF Went
<1> QED BY <1>1, <1>2, <1>7, <1>8, <1>12 DEF Ordered, Ends

LEMMA OrderDrops ==
  ASSUME NEW a \in Seq(Calls), NEW q \in Seq(Calls), NEW r \in Seq(Calls),
         NEW i \in Calls \cup {NoCall}, Ordered(a, q, r, i)
  PROVE  Ordered(a, <<>>, r, i)
<1>1. PICK n \in 0 .. Len(a) : Ends(a, q, n) /\ Went(a, n, r, i)
  BY DEF Ordered
<1>2. Len(a) \in Nat /\ n \in Nat /\ n <= Len(a) /\ Len(a) \in 0 .. Len(a)
  BY LenProperties
<1>3. Went(a, Len(a), r, i)
  BY <1>1, <1>2, WentOn
<1>4. Ends(a, <<>>, Len(a))
  <2>1. Len(<<>>) = 0 /\ 1 .. 0 = {} /\ Len(a) = Len(a) + 0
    BY <1>2
  <2> QED BY <2>1 DEF Ends
<1> QED BY <1>2, <1>3, <1>4 DEF Ordered

LEMMA OrderForgets ==
  ASSUME NEW a, NEW q, NEW r, NEW i, Ordered(a, q, r, i)
  PROVE  Ordered(a, q, r, NoCall)
BY DEF Ordered, Went

LEMMA OrderReceives ==
  ASSUME NEW a \in Seq(Calls), NEW q \in Seq(Calls), NEW r \in Seq(Calls),
         NEW i \in Calls, Ordered(a, q, r, i)
  PROVE  Ordered(a, q, Append(r, i), NoCall)
<1>1. PICK z \in Seq(Calls) : z = Append(r, i)
  BY AppendElements
<1>2. PICK n \in 0 .. Len(a) : Ends(a, q, n) /\ Went(a, n, r, i)
  BY DEF Ordered
<1>3. PICK y \in 1 .. n : /\ a[y] = i
                          /\ \A s \in 1 .. Len(r) : \E x \in 1 .. n : x < y /\ a[x] = r[s]
  BY <1>2, CallTypes DEF Went
<1>4. Len(z) = Len(r) + 1 /\ z[Len(r) + 1] = i /\ \A s \in 1 .. Len(r) : z[s] = r[s]
  BY <1>1, AppendProperties
<1>5. Len(r) \in Nat
  BY LenProperties
<1>6. \A s \in 1 .. Len(z) : s = Len(r) + 1 \/ s \in 1 .. Len(r)
  BY <1>4, <1>5
<1>7. \A s \in 1 .. Len(z) : \E x \in 1 .. n : a[x] = z[s]
  <2>1. SUFFICES ASSUME NEW s \in 1 .. Len(z) PROVE \E x \in 1 .. n : a[x] = z[s]
    OBVIOUS
  <2>2. CASE s = Len(r) + 1
    BY <1>3, <1>4, <2>2
  <2>3. CASE s \in 1 .. Len(r)
    <3>1. PICK x \in 1 .. n : a[x] = r[s]
      BY <1>2, <2>3 DEF Went
    <3> QED BY <1>4, <2>3, <3>1
  <2> QED BY <1>6, <2>2, <2>3
<1>8. ASSUME NEW s \in 1 .. Len(z), NEW t \in 1 .. Len(z), s < t
      PROVE  \E x, w \in 1 .. n : x < w /\ a[x] = z[s] /\ a[w] = z[t]
  <2>1. s \in 1 .. Len(r)
    BY <1>4, <1>5, <1>8
  <2>2. CASE t = Len(r) + 1
    <3>1. PICK x \in 1 .. n : x < y /\ a[x] = r[s]
      BY <1>3, <2>1
    <3> QED BY <1>3, <1>4, <2>1, <2>2, <3>1
  <2>3. CASE t \in 1 .. Len(r)
    <3>1. PICK x \in 1 .. n, w \in 1 .. n : x < w /\ a[x] = r[s] /\ a[w] = r[t]
      BY <1>2, <1>8, <2>1, <2>3 DEF Went
    <3> QED BY <1>4, <2>1, <2>3, <3>1
  <2> QED BY <1>6, <2>2, <2>3
<1>9. Went(a, n, z, NoCall)
  BY <1>7, <1>8 DEF Went
<1> QED BY <1>1, <1>2, <1>9 DEF Ordered

LEMMA OrderPut ==
  ASSUME TypeOK, OrderInv, NEW i \in Calls, Put(i, ChannelOf(i)), UNCHANGED <<received, item>>
  PROVE  OrderInv'
<1>1. PICK ch \in Channels : ch = ChannelOf(i)
  BY CallTypes
<1>2. CASE UNCHANGED <<queue, accepted>>
  BY <1>2 DEF OrderInv, OrderFits
<1>3. CASE Enters(i, ch)
  <2>1. PICK q \in Seq(Calls) : q = queue[ch]
    BY DEF TypeOK
  <2>2. PICK a \in Seq(Calls) : a = accepted[ch]
    BY DEF TypeOK
  <2>3. PICK r \in Seq(Calls) : r = received[ch]
    BY DEF TypeOK
  <2>4. Ordered(Append(a, i), Append(q, i), r, item[ch])
    BY <2>1, <2>2, <2>3, OrderEnters DEF OrderInv, OrderFits, TypeOK
  <2>5. /\ queue'[ch] = Append(q, i) /\ accepted'[ch] = Append(a, i)
        /\ \A d \in Channels \ {ch} : queue'[d] = queue[d] /\ accepted'[d] = accepted[d]
    BY <1>3, <2>1, <2>2 DEF Enters, TypeOK
  <2> QED BY <2>3, <2>4, <2>5 DEF OrderInv, OrderFits
<1> QED BY <1>1, <1>2, <1>3 DEF Put

LEMMA OrderDrain ==
  ASSUME TypeOK, OrderInv, \A d \in Channels : queue'[d] = <<>>,
         UNCHANGED <<accepted, received, item>>
  PROVE  OrderInv'
<1>1. SUFFICES ASSUME NEW d \in Channels PROVE Ordered(accepted[d], <<>>, received[d], item[d])
  BY DEF OrderInv, OrderFits
<1>2. /\ accepted[d] \in Seq(Calls) /\ queue[d] \in Seq(Calls) /\ received[d] \in Seq(Calls)
      /\ item[d] \in Calls \cup {NoCall}
  BY DEF TypeOK
<1>3. Ordered(accepted[d], queue[d], received[d], item[d])
  BY DEF OrderInv, OrderFits
<1> QED BY <1>2, <1>3, OrderDrops

LEMMA OrderTaken ==
  ASSUME TypeOK, OrderInv, NEW ch \in Channels, Takes(ch), UNCHANGED <<accepted, received>>
  PROVE  OrderInv'
<1>1. PICK q \in Seq(Calls) : q = queue[ch]
  BY DEF TypeOK
<1>2. q # <<>> /\ queue'[ch] = Tail(q) /\ item'[ch] = Head(q)
  BY <1>1 DEF Takes, TypeOK
<1>3. \A d \in Channels \ {ch} : queue'[d] = queue[d] /\ item'[d] = item[d]
  BY DEF Takes, TypeOK
<1>4. /\ accepted[ch] \in Seq(Calls) /\ received[ch] \in Seq(Calls)
      /\ item[ch] \in Calls \cup {NoCall} /\ Ordered(accepted[ch], q, received[ch], item[ch])
  BY <1>1 DEF TypeOK, OrderInv, OrderFits
<1>5. Ordered(accepted[ch], Tail(q), received[ch], Head(q))
  BY <1>2, <1>4, OrderTakes
<1> QED BY <1>2, <1>3, <1>5 DEF OrderInv, OrderFits

LEMMA OrderFinished ==
  ASSUME TypeOK, OrderInv, NEW ch \in Channels, NEW end, NEW next, Finishes(ch, end, next),
         UNCHANGED <<queue, accepted>>,
         \/ UNCHANGED received
         \/ item[ch] # NoCall /\ received' = [received EXCEPT ![ch] = Append(@, item[ch])]
  PROVE  OrderInv'
<1>1. item'[ch] = NoCall /\ \A d \in Channels \ {ch} : item'[d] = item[d]
  BY DEF Finishes, TypeOK
<1>2. CASE UNCHANGED received
  <2>1. Ordered(accepted[ch], queue[ch], received[ch], NoCall)
    BY OrderForgets DEF OrderInv, OrderFits
  <2> QED BY <1>1, <1>2, <2>1 DEF OrderInv, OrderFits
<1>3. CASE item[ch] # NoCall /\ received' = [received EXCEPT ![ch] = Append(@, item[ch])]
  <2>1. PICK r \in Seq(Calls) : r = received[ch]
    BY DEF TypeOK
  <2>2. PICK i \in Calls : i = item[ch]
    BY <1>3 DEF TypeOK
  <2>3. /\ accepted[ch] \in Seq(Calls) /\ queue[ch] \in Seq(Calls)
        /\ Ordered(accepted[ch], queue[ch], r, i)
    BY <2>1, <2>2 DEF TypeOK, OrderInv, OrderFits
  <2>4. Ordered(accepted[ch], queue[ch], Append(r, i), NoCall)
    BY <2>3, OrderReceives
  <2>5. /\ received'[ch] = Append(r, i)
        /\ \A d \in Channels \ {ch} : received'[d] = received[d]
    BY <1>3, <2>1, <2>2 DEF TypeOK
  <2> QED BY <1>1, <2>4, <2>5 DEF OrderInv, OrderFits
<1> QED BY <1>2, <1>3

LEMMA OrderStep ==
  ASSUME LineInv, OrderInv, [Next]_vars
  PROVE  OrderInv'
<1> USE DEF streamVars, queueVars, workerVars, historyVars
<1>1. TypeOK /\ \A d \in Channels : HandFits(d)
  BY DEF LineInv
<1>2. CASE UNCHANGED <<queue, accepted, received, item>>
  BY <1>2 DEF OrderInv, OrderFits
<1>3. ASSUME NEW i \in Calls,
             Refuse(i) \/ Dispatch(i) \/ CloseStream(i) \/ Withdraws(i)
      PROVE  OrderInv'
  BY <1>1, <1>2, <1>3, OrderPut DEF Refuse, Dispatch, CloseStream, Withdraws, GivesUp
<1>4. ASSUME NEW i \in Calls, PutterResumes(i) PROVE OrderInv'
  <2>1. CASE Put(i, ChannelOf(i))
    BY <1>1, <1>4, <2>1, OrderPut DEF PutterResumes
  <2>2. CASE UNCHANGED accepted /\ \A d \in Channels : queue'[d] = <<>>
    BY <1>1, <1>4, <2>2, OrderDrain DEF PutterResumes
  <2> QED BY <1>4, <2>1, <2>2 DEF PutterResumes, Put, Drain, DrainKeepingCount
<1>5. ASSUME NEW ch \in Channels, WorkerLoops(ch) PROVE OrderInv'
  BY <1>1, <1>2, <1>5, OrderTaken DEF WorkerLoops
<1>6. ASSUME NEW ch \in Channels, SendSucceeds(ch) PROVE OrderInv'
  <2>1. item[ch] # NoCall
    BY <1>1, <1>6 DEF SendSucceeds, HandFits, Busy
  <2> QED BY <1>1, <1>6, <2>1, OrderFinished DEF SendSucceeds
<1>7. ASSUME NEW ch \in Channels,
             \/ Skips(ch) \/ Reports(ch) \/ SendFails(ch) \/ Retries(ch)
             \/ WorkerCancelled(ch) \/ SendKills(ch)
      PROVE  OrderInv'
  BY <1>1, <1>2, <1>7, OrderFinished
     DEF Skips, Reports, SendFails, ChunkFails, Retries, WorkerCancelled, SendKills, Dies
<1>8. CASE CloseEnds
  BY <1>1, <1>8, OrderDrain DEF CloseEnds, Drain, DrainKeepingCount
<1> QED BY <1>2, <1>3, <1>4, <1>5, <1>6, <1>7, <1>8
        DEF Next, Caller, CloseStep, WorkerStep, OutletStep, WaitIdle, Seals, CloseCancels, vars

LEMMA OrderInit == Init => OrderInv
<1> SUFFICES ASSUME Init, NEW ch \in Channels PROVE Ordered(<<>>, <<>>, <<>>, NoCall)
  BY DEF Init, OrderInv, OrderFits
<1>1. Len(<<>>) = 0 /\ 1 .. 0 = {} /\ 0 \in 0 .. 0
  OBVIOUS
<1> QED BY <1>1 DEF Ordered, Ends, Went

\* The outlet of a channel takes its items in the order in which the queue took
\* them, across retries, failures, dropped items and replaced workers.
THEOREM DeliveryIsInOrder == Spec => []DeliveredInOrder
<1>1. LineInv /\ OrderInv => DeliveredInOrder
  <2> SUFFICES ASSUME LineInv, OrderInv, NEW ch \in Channels,
                      NEW s \in DOMAIN received[ch], NEW t \in DOMAIN received[ch], s < t
               PROVE  \E x, y \in DOMAIN accepted[ch] :
                        x < y /\ accepted[ch][x] = received[ch][s]
                              /\ accepted[ch][y] = received[ch][t]
    BY DEF DeliveredInOrder
  <2>1. PICK a \in Seq(Calls) : a = accepted[ch]
    BY DEF LineInv, TypeOK
  <2>2. PICK r \in Seq(Calls) : r = received[ch]
    BY DEF LineInv, TypeOK
  <2>3. PICK n \in 0 .. Len(a) : Went(a, n, r, item[ch])
    BY <2>1, <2>2 DEF OrderInv, OrderFits, Ordered
  <2>4. s \in 1 .. Len(r) /\ t \in 1 .. Len(r)
    BY <2>2, LenProperties
  <2>5. PICK x \in 1 .. n, y \in 1 .. n : x < y /\ a[x] = r[s] /\ a[y] = r[t]
    BY <2>3, <2>4 DEF Went
  <2>6. x \in 1 .. Len(a) /\ y \in 1 .. Len(a)
    <3>1. Len(a) \in Nat
      BY LenProperties
    <3> QED BY <2>3, <2>5, <3>1
  <2>7. DOMAIN a = 1 .. Len(a)
    BY LenProperties
  <2> QED BY <2>1, <2>2, <2>5, <2>6, <2>7
<1>2. LineInv /\ OrderInv /\ [Next]_vars => OrderInv'
  BY OrderStep
<1> QED BY <1>1, <1>2, OrderInit, LinesFit, PTL DEF Spec

-----------------------------------------------------------------------------
(* The life of a stream.                                                   *)

LEMMA AppendGuards ==
  ASSUME NEW q \in Seq(Calls), NEW e \in Calls, NEW c \in Conversations
  PROVE  /\ Guarded(q, c) /\ ~Is(e, "delta", c) => Guarded(Append(q, e), c)
         /\ Later(q, 0, c) => Later(Append(q, e), 0, c)
         /\ Is(e, "close", c) => Guarded(Append(q, e), c) /\ Later(Append(q, e), 0, c)
<1>1. PICK p \in Seq(Calls) : p = Append(q, e)
  BY AppendElements
<1>2. Len(q) \in Nat /\ Len(p) \in Nat
  BY LenProperties
<1>3. Len(p) = Len(q) + 1 /\ p[Len(q) + 1] = e /\ \A x \in 1 .. Len(q) : p[x] = q[x]
  BY <1>1, AppendProperties
<1>4. Len(q) + 1 \in 1 .. Len(p) /\ 1 .. Len(q) \subseteq 1 .. Len(p)
      /\ \A x \in 1 .. Len(p) : x = Len(q) + 1 \/ x \in 1 .. Len(q)
  BY <1>2, <1>3
<1>5. ASSUME NEW x, Later(q, x, c) PROVE Later(p, x, c)
  BY <1>3, <1>4, <1>5 DEF Later
<1>6. ASSUME Guarded(q, c), ~Is(e, "delta", c) PROVE Guarded(p, c)
  BY <1>3, <1>4, <1>5, <1>6 DEF Guarded
<1>7. ASSUME Is(e, "close", c) PROVE Guarded(p, c) /\ Later(p, 0, c)
  <2>1. Later(p, 0, c)
    BY <1>2, <1>3, <1>4, <1>7 DEF Later
  <2>2. ~Is(e, "delta", c)
    BY <1>7 DEF Is
  <2>3. \A x \in 1 .. Len(q) : x < Len(q) + 1
    BY <1>2
  <2>4. \A x \in 1 .. Len(q) : Later(p, x, c)
    BY <1>3, <1>4, <1>7, <2>3 DEF Later
  <2> QED BY <1>3, <1>4, <2>1, <2>2, <2>4 DEF Guarded
<1> QED BY <1>1, <1>5, <1>6, <1>7

LEMMA TailGuards ==
  ASSUME NEW q \in Seq(Calls), q # <<>>, NEW c \in Conversations
  PROVE  /\ Guarded(q, c) => Guarded(Tail(q), c)
         /\ Guarded(q, c) /\ Is(Head(q), "delta", c) => Later(Tail(q), 0, c)
         /\ Later(q, 0, c) /\ ~Is(Head(q), "close", c) => Later(Tail(q), 0, c)
<1>1. PICK p \in Seq(Calls) : p = Tail(q)
  BY TailElements
<1>2. Len(q) \in Nat /\ Len(p) \in Nat
  BY LenProperties
<1>3. Len(q) = Len(p) + 1 /\ Head(q) = q[1] /\ \A x \in 1 .. Len(p) : p[x] = q[x + 1]
  <2>1. Len(q) # 0
    BY EmptySeq
  <2>2. Len(p) = Len(q) - 1 /\ Head(q) = q[1] /\ \A x \in 1 .. Len(p) : p[x] = q[x + 1]
    BY <1>1, HeadTailProperties
  <2> QED BY <1>2, <2>1, <2>2
<1>4. ASSUME NEW x \in Nat, Later(q, x + 1, c) PROVE Later(p, x, c)
  <2>1. PICK y \in 1 .. Len(q) : x + 1 < y /\ Is(q[y], "close", c)
    BY <1>4 DEF Later
  <2>2. y - 1 \in 1 .. Len(p) /\ x < y - 1 /\ (y - 1) + 1 = y
    BY <1>2, <1>3, <2>1
  <2>3. p[y - 1] = q[y]
    BY <1>3, <2>2
  <2> QED BY <2>1, <2>2, <2>3 DEF Later
<1>5. ASSUME Guarded(q, c) PROVE Guarded(p, c)
  <2>1. SUFFICES ASSUME NEW x \in 1 .. Len(p), Is(p[x], "delta", c) PROVE Later(p, x, c)
    BY DEF Guarded
  <2>2. x \in Nat /\ x + 1 \in 1 .. Len(q)
    BY <1>2, <1>3
  <2>3. Later(q, x + 1, c)
    BY <1>3, <1>5, <2>1, <2>2 DEF Guarded
  <2> QED BY <1>4, <2>2, <2>3
<1>6. 1 \in 1 .. Len(q) /\ 0 + 1 = 1
  BY <1>2, <1>3
<1>7. ASSUME Guarded(q, c), Is(Head(q), "delta", c) PROVE Later(p, 0, c)
  <2>1. Later(q, 0 + 1, c)
    BY <1>3, <1>6, <1>7 DEF Guarded
  <2> QED BY <1>4, <2>1
<1>8. ASSUME Later(q, 0, c), ~Is(Head(q), "close", c) PROVE Later(p, 0, c)
  <2>1. PICK y \in 1 .. Len(q) : Is(q[y], "close", c)
    BY <1>8 DEF Later
  <2>2. y # 1
    BY <1>3, <1>8, <2>1
  <2>3. 0 + 1 < y
    BY <1>2, <2>2
  <2> QED BY <1>4, <2>1, <2>3 DEF Later
<1> QED BY <1>1, <1>5, <1>7, <1>8

\* A stream none of whose places change.
LEMMA StreamKept ==
  ASSUME NEW c \in Conversations, StreamFits(c),
         Offered(c)' = Offered(c), c \in routed' <=> c \in routed,
         queue'[Home[c]] = queue[Home[c]], c \in openStreams' => c \in openStreams
  PROVE  StreamFits(c)'
BY DEF StreamFits, Held

\* A call outside the conversation enters the queue or joins the putters.
LEMMA PutElsewhere ==
  ASSUME LineInv, NEW i \in Calls, Put(i, ChannelOf(i)),
         NEW c \in Conversations, Conversation(i) # c, StreamFits(c),
         c \in routed' <=> c \in routed, UNCHANGED openStreams
  PROVE  StreamFits(c)'
<1>1. PICK ch \in Channels : ch = ChannelOf(i)
  BY CallTypes
<1>2. Offered(c)' = Offered(c)
  BY DEF Put, Enters, Waits, Offered, LineInv, TypeOK
<1>3. CASE queue'[Home[c]] = queue[Home[c]]
  BY <1>2, <1>3, StreamKept
<1>4. CASE Enters(i, ch) /\ Home[c] = ch
  <2>1. PICK q \in Seq(Calls) : q = queue[ch]
    BY DEF LineInv, TypeOK
  <2>2. queue'[ch] = Append(q, i)
    BY <1>4, <2>1 DEF Enters, LineInv, TypeOK
  <2>3. ~Is(i, "delta", c)
    BY DEF Is
  <2>4. /\ Guarded(q, c) => Guarded(Append(q, i), c)
        /\ Later(q, 0, c) => Later(Append(q, i), 0, c)
    BY <2>3, AppendGuards
  <2> QED BY <1>2, <1>4, <2>1, <2>2, <2>4 DEF StreamFits, Held
<1>5. CASE Enters(i, ch) /\ Home[c] # ch
  <2>1. queue'[Home[c]] = queue[Home[c]]
    BY <1>5, HubAssumption DEF Enters, LineInv, TypeOK
  <2> QED BY <1>3, <2>1
<1> QED BY <1>1, <1>3, <1>4, <1>5 DEF Put

\* A close marker enters, or waits to enter: the stream can be closed.
LEMMA ClosePut ==
  ASSUME LineInv, NEW i \in Calls, NEW c \in Conversations, Is(i, "close", c),
         Put(i, ChannelOf(i)), Offered(c) \subseteq {i}
  PROVE  StreamFits(c)'
<1>1. PICK ch \in Channels : ch = ChannelOf(i) /\ ch = Home[c]
  BY CallTypes DEF Is, ChannelOf
<1>2. ~Is(i, "delta", c)
  BY DEF Is
<1>3. CASE Enters(i, ch)
  <2>1. Offered(c)' = {}
    BY <1>3 DEF Enters, Offered, LineInv, TypeOK
  <2>2. PICK q \in Seq(Calls) : q = queue[ch]
    BY DEF LineInv, TypeOK
  <2>3. queue'[ch] = Append(q, i)
    BY <1>3, <2>2 DEF Enters, LineInv, TypeOK
  <2>4. Guarded(Append(q, i), c) /\ Later(Append(q, i), 0, c)
    BY AppendGuards
  <2> QED BY <1>1, <2>1, <2>3, <2>4 DEF StreamFits
<1>4. CASE Waits(i, ch)
  <2>1. Offered(c)' = {i}
    BY <1>4 DEF Waits, Offered, LineInv, TypeOK, Is
  <2>2. Held(c)'
    BY <2>1 DEF Held
  <2> QED BY <1>2, <2>1, <2>2 DEF StreamFits
<1> QED BY <1>1, <1>3, <1>4 DEF Put

\* Any other item enters, or waits to enter.
LEMMA OtherPut ==
  ASSUME LineInv, NEW i \in Calls, NEW c \in Conversations, c = Conversation(i),
         Kind(i) # "close", Put(i, ChannelOf(i)), Offered(c) \subseteq {i}, StreamFits(c),
         UNCHANGED openStreams, c \in routed => c \in routed',
         Kind(i) = "delta" => c \in routed'
  PROVE  StreamFits(c)'
<1>1. PICK ch \in Channels : ch = ChannelOf(i) /\ ch = Home[c]
  BY CallTypes DEF ChannelOf
<1>2. Offered(c)' \subseteq {i}
  BY DEF Put, Enters, Waits, Offered, LineInv, TypeOK
<1>3. Held(c) => Held(c)'
  BY DEF Held, Is
<1>4. CASE Kind(i) = "delta"
  BY <1>2, <1>4 DEF StreamFits, Held
<1>5. CASE Kind(i) # "delta"
  <2>1. ~Is(i, "delta", c)
    BY <1>5 DEF Is
  <2>2. PICK q \in Seq(Calls) : q = queue[ch]
    BY DEF LineInv, TypeOK
  <2>3. /\ Guarded(q, c) => Guarded(Append(q, i), c)
        /\ Later(q, 0, c) => Later(Append(q, i), 0, c)
    BY <2>1, AppendGuards
  <2>4. queue'[ch] = Append(q, i) \/ queue'[ch] = q
    BY <1>1, <2>2 DEF Put, Enters, LineInv, TypeOK
  <2> QED BY <1>1, <1>2, <1>3, <2>1, <2>2, <2>3, <2>4 DEF StreamFits
<1> QED BY <1>4, <1>5

\* A call that begins finds none of its conversation on its way.
LEMMA NoneOffered ==
  ASSUME NEW i \in Calls, status[i] = "new", InTurn(i)
  PROVE  Offered(Conversation(i)) = {}
BY DEF Offered, InTurn

\* A woken call is the only one of its conversation on its way.
LEMMA OneOffered ==
  ASSUME NEW i \in Calls, status[i] \in {"waiting", "woken"}, StreamFits(Conversation(i))
  PROVE  Offered(Conversation(i)) = {i}
<1>1. i \in Offered(Conversation(i))
  BY DEF Offered
<1> QED BY <1>1 DEF StreamFits

LEMMA DispatchStreams ==
  ASSUME LineInv, NEW i \in Calls, Dispatch(i), NEW c \in Conversations, StreamFits(c)
  PROVE  StreamFits(c)'
<1>1. Put(i, ChannelOf(i)) /\ UNCHANGED openStreams
  BY DEF Dispatch
<1>2. CASE Conversation(i) # c
  BY <1>1, <1>2, PutElsewhere DEF Dispatch
<1>3. CASE Conversation(i) = c
  <2>1. Offered(c) = {}
    BY <1>3, NoneOffered DEF Dispatch
  <2>2. /\ Kind(i) # "close"
        /\ c \in routed => c \in routed'
        /\ Kind(i) = "delta" => c \in routed'
    BY <1>3 DEF Dispatch
  <2> QED BY <1>1, <1>3, <2>1, <2>2, OtherPut
<1> QED BY <1>2, <1>3

LEMMA CloseStreams ==
  ASSUME LineInv, NEW i \in Calls, CloseStream(i), NEW c \in Conversations, StreamFits(c)
  PROVE  StreamFits(c)'
<1>1. UNCHANGED openStreams /\ status[i] = "new" /\ Is(i, "close", Conversation(i))
  BY DEF CloseStream, Is
<1>2. CASE status' = [status EXCEPT ![i] = "void"] /\ UNCHANGED <<routed, queueVars>>
  <2>1. Offered(c)' = Offered(c)
    BY <1>1, <1>2 DEF Offered, LineInv, TypeOK
  <2> QED BY <1>1, <1>2, <2>1, StreamKept DEF queueVars
<1>3. CASE /\ Put(i, ChannelOf(i)) /\ routed' = routed \ {Conversation(i)}
  <2>1. CASE Conversation(i) # c
    BY <1>1, <1>3, <2>1, PutElsewhere
  <2>2. CASE Conversation(i) = c
    <3>1. Offered(c) = {}
      BY <2>2, NoneOffered DEF CloseStream
    <3> QED BY <1>1, <1>3, <2>2, <3>1, ClosePut
  <2> QED BY <2>1, <2>2
<1> QED BY <1>2, <1>3 DEF CloseStream

LEMMA ResumeStreams ==
  ASSUME LineInv, stage = "open", NEW i \in Calls, PutterResumes(i),
         NEW c \in Conversations, StreamFits(c)
  PROVE  StreamFits(c)'
<1>1. /\ Put(i, ChannelOf(i)) /\ status[i] = "woken"
      /\ UNCHANGED <<routed, openStreams>>
  BY DEF PutterResumes, Put, streamVars
<1>2. CASE Conversation(i) # c
  BY <1>1, <1>2, PutElsewhere
<1>3. CASE Conversation(i) = c
  <2>1. Offered(c) = {i}
    BY <1>1, <1>3, OneOffered
  <2>2. CASE Kind(i) = "close"
    BY <1>1, <1>3, <2>1, <2>2, ClosePut DEF Is
  <2>3. CASE Kind(i) # "close"
    <3>1. Kind(i) = "delta" => c \in routed'
      BY <1>1, <1>3, <2>1 DEF StreamFits, Is
    <3> QED BY <1>1, <1>3, <2>1, <2>3, <3>1, OtherPut
  <2> QED BY <2>2, <2>3
<1> QED BY <1>2, <1>3

LEMMA WithdrawStreams ==
  ASSUME LineInv, stage = "open", NEW i \in Calls, Withdraws(i),
         NEW c \in Conversations, StreamFits(c)
  PROVE  StreamFits(c)'
<1>1. PICK n \in Nat : n = IF status[i] = "woken" /\ ~Full(ChannelOf(i)) THEN 1 ELSE 0
  OBVIOUS
<1>2. Woken(ChannelOf(i), n) \subseteq At(ChannelOf(i), "waiting")
  BY CallTypes, WokenSlept
<1>3. /\ status[i] \in {"waiting", "woken"} /\ UNCHANGED <<openStreams, queue>>
      /\ status' = [j \in Calls |-> IF j = i THEN "withdrawn"
                                    ELSE IF j \in Woken(ChannelOf(i), n) THEN "woken"
                                    ELSE status[j]]
  BY <1>1 DEF Withdraws, GivesUp
<1>4. Offered(c)' = Offered(c) \ {i}
  BY <1>2, <1>3 DEF Offered, At
<1>5. /\ c \in routed => c \in routed'
      /\ c \in routed' => c \in routed \/ Is(i, "close", c)
      /\ Is(i, "close", c) => c \in routed'
  BY DEF Withdraws, Is
<1>6. Held(c) => Held(c)'
  BY <1>4, <1>5 DEF Held
<1> QED BY <1>3, <1>4, <1>5, <1>6 DEF StreamFits

LEMMA TakeStreams ==
  ASSUME LineInv, NEW ch \in Channels, Takes(ch), UNCHANGED routed,
         NEW c \in Conversations, StreamFits(c)
  PROVE  StreamFits(c)'
<1>1. PICK q \in Seq(Calls) : q = queue[ch]
  BY DEF LineInv, TypeOK
<1>2. PICK i \in Calls : i = Head(q)
  BY <1>1, TailElements DEF Takes
<1>3. q # <<>> /\ status[i] = "queued" /\ ChannelOf(i) = ch
  BY <1>1, <1>2, TailElements DEF Takes, LineInv, LineFits, At
<1>4. Woken(ch, 1) \subseteq At(ch, "waiting")
  BY WokenSlept
<1>5. Offered(c)' = Offered(c)
  BY <1>1, <1>2, <1>3, <1>4 DEF Takes, Offered, At
<1>6. c \in openStreams' =>
        /\ c \in openStreams \/ Is(i, "delta", c)
        /\ ~Is(i, "close", c)
  BY <1>1, <1>2 DEF Takes, Is
<1>7. /\ queue'[ch] = Tail(q)
      /\ Home[c] # ch => queue'[Home[c]] = queue[Home[c]]
  BY <1>1, HubAssumption DEF Takes, LineInv, TypeOK
<1>8. CASE Home[c] # ch
  <2>1. ~Is(i, "delta", c)
    BY <1>3, <1>8 DEF Is, ChannelOf
  <2> QED BY <1>5, <1>6, <1>7, <1>8, <2>1, StreamKept
<1>9. CASE Home[c] = ch
  <2>1. /\ Guarded(q, c) => Guarded(Tail(q), c)
        /\ Guarded(q, c) /\ Is(i, "delta", c) => Later(Tail(q), 0, c)
        /\ Later(q, 0, c) /\ ~Is(i, "close", c) => Later(Tail(q), 0, c)
    BY <1>2, <1>3, TailGuards
  <2>2. Held(c)' <=> Held(c)
    BY <1>5 DEF Held
  <2>3. c \in openStreams' => Held(c) \/ Later(Tail(q), 0, c)
    BY <1>1, <1>6, <1>9, <2>1 DEF StreamFits
  <2> QED BY <1>1, <1>5, <1>7, <1>9, <2>1, <2>2, <2>3 DEF StreamFits
<1> QED BY <1>8, <1>9

LEMMA StreamStep ==
  ASSUME LineInv, StreamInv, [Next]_vars, stage' = "open", NEW c \in Conversations
  PROVE  StreamFits(c)'
<1> USE DEF streamVars, queueVars, workerVars, historyVars
<1>1. stage = "open"
  BY DEF Next, Caller, CloseStep, Refuse, Dispatch, CloseStream, Withdraws, GivesUp,
         WaitIdle, Seals, PutterResumes, WorkerStep, WorkerLoops, Skips, Retries,
         WorkerCancelled, OutletStep, SendSucceeds, SendFails, Reports, SendKills, Dies,
         CloseCancels, CloseEnds, vars
<1>2. StreamFits(c) /\ \A d \in Channels : LineFits(d) /\ HandFits(d)
  BY <1>1 DEF StreamInv, LineInv
<1>3. CASE UNCHANGED <<status, routed, openStreams, queue>>
  <2>1. Offered(c)' = Offered(c)
    BY <1>3 DEF Offered
  <2> QED BY <1>2, <1>3, <2>1, StreamKept
<1>4. ASSUME NEW i \in Calls, Refuse(i) PROVE StreamFits(c)'
  <2>1. Offered(c)' = Offered(c)
    BY <1>4 DEF Refuse, Offered, LineInv, TypeOK
  <2> QED BY <1>2, <1>4, <2>1, StreamKept DEF Refuse
<1>5. ASSUME NEW i \in Calls,
             Dispatch(i) \/ CloseStream(i) \/ Withdraws(i) \/ PutterResumes(i)
      PROVE  StreamFits(c)'
  BY <1>1, <1>2, <1>5, DispatchStreams, CloseStreams, WithdrawStreams, ResumeStreams
<1>6. ASSUME NEW ch \in Channels, item[ch] # NoCall, NEW end \in Over, NEW next,
             Finishes(ch, end, next), UNCHANGED <<routed, openStreams, queue>>
      PROVE  StreamFits(c)'
  <2>1. item[ch] \in Calls /\ status[item[ch]] = "handling"
    BY <1>2, <1>6 DEF LineInv, TypeOK, LineFits, At
  <2>2. Offered(c)' = Offered(c)
    BY <1>6, <2>1 DEF Finishes, Offered, Over, LineInv, TypeOK
  <2> QED BY <1>2, <1>6, <2>2, StreamKept
<1>7. ASSUME NEW ch \in Channels, WorkerStep(ch) \/ OutletStep(ch) \/ SendKills(ch)
      PROVE  StreamFits(c)'
  <2>1. worker[ch] \in Busy => item[ch] # NoCall
    BY <1>2 DEF HandFits
  <2>2. CASE WorkerLoops(ch)
    BY <1>2, <1>3, <2>2, TakeStreams DEF WorkerLoops
  <2>3. CASE Skips(ch) \/ SendSucceeds(ch) \/ Reports(ch)
    BY <1>6, <2>1, <2>3 DEF Skips, SendSucceeds, Reports, Busy, Over
  <2>4. CASE SendFails(ch)
    BY <1>3, <1>6, <2>1, <2>4 DEF SendFails, ChunkFails, Busy, Over
  <2>5. CASE Retries(ch)
    BY <1>3, <2>5 DEF Retries
  <2>6. CASE Dies(ch)
    BY <1>3, <1>6, <2>6 DEF Dies, Over
  <2> QED BY <1>7, <2>2, <2>3, <2>4, <2>5, <2>6
          DEF WorkerStep, OutletStep, WorkerCancelled, SendKills
<1> QED BY <1>1, <1>3, <1>4, <1>5, <1>7
        DEF Next, Caller, CloseStep, WaitIdle, Seals, CloseCancels, CloseEnds, vars

LEMMA StreamInit == Init => StreamInv
<1> SUFFICES ASSUME Init, NEW c \in Conversations PROVE StreamFits(c)
  BY DEF StreamInv
<1>1. Offered(c) = {}
  BY DEF Init, Offered
<1>2. queue[Home[c]] = <<>>
  BY HubAssumption DEF Init
<1>3. Guarded(<<>>, c)
  <2>1. Len(<<>>) = 0 /\ 1 .. 0 = {}
    OBVIOUS
  <2> QED BY <2>1 DEF Guarded
<1> QED BY <1>1, <1>2, <1>3 DEF Init, StreamFits

\* While the hub is open no stream that was begun at an outlet is out of reach: it
\* can still be closed, whatever the callers that were cancelled under back
\* pressure left behind.
THEOREM OpenStaysClosable == Spec => []OpenIsClosable
<1>1. LineInv /\ StreamInv => OpenIsClosable
  <2> SUFFICES ASSUME LineInv, StreamInv, stage = "open", NEW c \in openStreams
               PROVE  \/ c \in routed
                      \/ \E i \in Calls : /\ Kind(i) = "close" /\ Conversation(i) = c
                                          /\ status[i] \in {"waiting", "woken", "queued"}
    BY DEF OpenIsClosable
  <2>1. c \in Conversations
    BY DEF LineInv, TypeOK
  <2>2. CASE Held(c)
    BY <2>2 DEF Held, Offered, Is
  <2>3. CASE Later(queue[Home[c]], 0, c)
    <3>1. PICK q \in Seq(Calls) : q = queue[Home[c]]
      BY <2>1, HubAssumption DEF LineInv, TypeOK
    <3>2. PICK y \in 1 .. Len(q) : Is(q[y], "close", c)
      BY <2>3, <3>1 DEF Later
    <3>3. q[y] \in Calls /\ q[y] \in ToSet(q)
      BY <3>2, ElementOfSeq, LenProperties DEF ToSet
    <3>4. status[q[y]] = "queued"
      BY <2>1, <3>1, <3>3, HubAssumption DEF LineInv, LineFits, At
    <3> QED BY <3>2, <3>3, <3>4 DEF Is
  <2> QED BY <2>1, <2>2, <2>3 DEF StreamInv, StreamFits
<1>2. LineInv /\ StreamInv /\ [Next]_vars => StreamInv'
  BY StreamStep DEF StreamInv
<1> QED BY <1>1, <1>2, StreamInit, LinesFit, PTL DEF Spec

-----------------------------------------------------------------------------
(* No second delivery, and no way back.                                    *)

\* No call enters its channel's queue a second time.
OnceInv == \A ch \in Channels : IsInjective(accepted[ch])

LEMMA OnceEnters ==
  ASSUME LineInv, BarrierInv, OnceInv, NEW i \in Calls, status[i] \in {"new", "woken"},
         Enters(i, ChannelOf(i))
  PROVE  OnceInv'
<1>1. PICK ch \in Channels : ch = ChannelOf(i)
  BY CallTypes
<1>2. PICK a \in Seq(Calls) : a = accepted[ch]
  BY DEF LineInv, TypeOK
<1>3. /\ accepted'[ch] = Append(a, i)
      /\ \A d \in Channels \ {ch} : accepted'[d] = accepted[d]
  BY <1>1, <1>2 DEF Enters, LineInv, TypeOK
<1>4. i \notin ToSet(a)
  BY <1>2 DEF BarrierInv, AcceptedFits, Early
<1>5. IsInjective(Append(a, i))
  BY <1>2, <1>4, AppendElements DEF OnceInv
<1> QED BY <1>3, <1>5 DEF OnceInv

LEMMA OnceStep ==
  ASSUME LineInv, BarrierInv, OnceInv, [Next]_vars
  PROVE  OnceInv'
<1>1. CASE UNCHANGED accepted
  BY <1>1 DEF OnceInv
<1>2. CASE \E i \in Calls : status[i] \in {"new", "woken"} /\ Enters(i, ChannelOf(i))
  BY <1>2, OnceEnters
<1> QED BY <1>1, <1>2
        DEF Next, Caller, CloseStep, WorkerStep, WorkerLoops, Skips, Retries,
            WorkerCancelled, OutletStep, SendSucceeds, SendFails, Reports, SendKills, Dies,
            Refuse, Dispatch, CloseStream, Withdraws, GivesUp, PutterResumes, Put, WaitIdle,
            Seals, CloseCancels, CloseEnds, vars, historyVars

\* No outlet has acknowledged an item twice (_deliver_with_retry retries only
\* what failed, and a worker or drain takes an item off the queue for good).
DeliveredOnce == \A ch \in Channels : IsInjective(received[ch])

\* No outlet takes an item twice: a retry, a replaced worker or a drain never
\* offers again what was delivered.
THEOREM DeliveryIsOnce == Spec => []DeliveredOnce
<1>1. LineInv /\ OrderInv /\ OnceInv => DeliveredOnce
  <2> SUFFICES ASSUME LineInv, OrderInv, OnceInv, NEW ch \in Channels
               PROVE  IsInjective(received[ch])
    BY DEF DeliveredOnce
  <2>1. PICK a \in Seq(Calls) : a = accepted[ch]
    BY DEF LineInv, TypeOK
  <2>2. PICK r \in Seq(Calls) : r = received[ch]
    BY DEF LineInv, TypeOK
  <2>3. PICK n \in 0 .. Len(a) : Went(a, n, r, item[ch])
    BY <2>1, <2>2 DEF OrderInv, OrderFits, Ordered
  <2>4. \A x \in 1 .. n : x \in DOMAIN a
    <3>1. Len(a) \in Nat
      BY LenProperties
    <3>2. \A x \in 1 .. n : x \in 1 .. Len(a)
      BY <2>3, <3>1
    <3> QED BY <3>2, LenProperties
  <2>5. ASSUME NEW s \in 1 .. Len(r), NEW t \in 1 .. Len(r), s < t
        PROVE  r[s] # r[t]
    <3>1. PICK x \in 1 .. n, y \in 1 .. n : x < y /\ a[x] = r[s] /\ a[y] = r[t]
      BY <2>3, <2>5 DEF Went
    <3>2. x # y
      BY <2>3, <3>1
    <3> QED BY <2>1, <2>4, <3>1, <3>2 DEF OnceInv, IsInjective
  <2>6. ASSUME NEW s \in 1 .. Len(r), NEW t \in 1 .. Len(r), r[s] = r[t]
        PROVE  s = t
    <3>1. ~(s < t) /\ ~(t < s)
      BY <2>5, <2>6
    <3>2. Len(r) \in Nat
      BY LenProperties
    <3> QED BY <3>1, <3>2
  <2>7. DOMAIN r = 1 .. Len(r)
    BY LenProperties
  <2> QED BY <2>2, <2>6, <2>7 DEF IsInjective
<1>2. LineInv /\ OrderInv /\ [Next]_vars => OrderInv'
  BY OrderStep
<1>3. LineInv /\ BarrierInv /\ OnceInv /\ [Next]_vars => OnceInv'
  BY OnceStep
<1>4. Init => OnceInv
  BY EmptyElements DEF Init, OnceInv
<1> QED BY <1>1, <1>2, <1>3, <1>4, OrderInit, BarriersHold, PTL DEF Spec

\* What left its caller never comes back to it, and what was handled, failed,
\* dropped, refused or withdrawn stays so.
THEOREM CallsMoveOn == Spec => [][\A i \in Calls : MovesOn(i)]_vars
<1>1. LineInv /\ [Next]_vars => [\A i \in Calls : MovesOn(i)]_vars
  BY MovesOnStep
<1> QED BY <1>1, LinesFit, PTL DEF Spec

=============================================================================
