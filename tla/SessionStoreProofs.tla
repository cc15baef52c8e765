------------------------- MODULE SessionStoreProofs -------------------------
(* The session file for any number of writers, turns, generations, crashes  *)
(* and failing calls: erased turns stay erased, nothing is overwritten or   *)
(* deleted unseen, the snapshots are kept, and the file is a history in     *)
(* generations.                                                             *)
EXTENDS SessionStore, SequenceFacts

LEMMA PartElements ==
  ASSUME NEW S, NEW q \in Seq(S), NEW m \in 1 .. Len(q) + 1, NEW n \in 0 .. Len(q)
  PROVE  SubSeq(q, m, n) \in Seq(S) /\ ToSet(SubSeq(q, m, n)) \subseteq ToSet(q)
<1>1. \A i \in m .. n : q[i] \in S /\ i \in 1 .. Len(q)
  OBVIOUS
<1>2. m \in Int /\ n \in Int
  OBVIOUS
<1>3. /\ SubSeq(q, m, n) \in Seq(S)
      /\ Len(SubSeq(q, m, n)) = IF m <= n THEN n - m + 1 ELSE 0
      /\ \A i \in 1 .. n - m + 1 : SubSeq(q, m, n)[i] = q[m + i - 1]
  BY <1>1, <1>2, SubSeqProperties
<1>4. \A i \in 1 .. Len(SubSeq(q, m, n)) :
        m + i - 1 \in 1 .. Len(q) /\ SubSeq(q, m, n)[i] = q[m + i - 1]
  BY <1>3
<1> QED
  BY <1>3, <1>4 DEF ToSet

LEMMA InitStoreInv == Init => StoreInv
BY StoreAssumption DEF Init, StoreInv, TypeOK, Absent, Closed, Disk, Session, NoFutureEpoch, UnusedIsFresh,
   CurrentIsClean, ErasedStaysErased, ToSet

LEMMA DiskTypes ==
  ASSUME TypeOK, NEW e \in Nat
  PROVE  /\ disk \in Disk /\ disk.epoch \in Nat /\ disk.msgs \in Seq(Turns)
         /\ Marked \in Disk /\ Marked.epoch = disk.epoch /\ Marked.msgs = disk.msgs
         /\ Fenced(e) \in Disk /\ Fenced(e).epoch = e /\ Fenced(e).msgs = disk.msgs
BY DEF TypeOK, Disk, Marked, Fenced

LEMMA GoneTypes ==
  ASSUME NEW d \in Disk
  PROVE  /\ Gone(d) \in Disk /\ Gone(d).epoch = d.epoch /\ ToSet(Gone(d).msgs) = {}
         /\ Gone(d).msgs = <<>>
<1> DEFINE none == <<>>
<1>1. none \in Seq(Turns) /\ ToSet(none) = {}
  BY DEF ToSet
<1>2. Gone(d) = [d EXCEPT !.there = FALSE, !.msgs = none, !.meta = 0, !.torn = FALSE]
  BY DEF Gone
<1> HIDE DEF none
<1>3. Gone(d) = [there |-> FALSE, msgs |-> none, meta |-> 0, torn |-> FALSE,
                 marker |-> d.marker, epoch |-> d.epoch]
  BY <1>2 DEF Disk
<1>4. d.marker \in {"unknown", "marked", "fenced"} /\ d.epoch \in Nat
  BY DEF Disk
<1>5. Gone(d) \in Disk /\ Gone(d).epoch = d.epoch /\ Gone(d).msgs = none
  BY <1>1, <1>3, <1>4 DEF Disk
<1> QED
  BY <1>1, <1>5 DEF none

LEMMA SessionTypes ==
  ASSUME TypeOK, NEW h \in Sessions
  PROVE  /\ mem[h] \in Session /\ mem[h].epoch \in Nat /\ mem[h].msgs \in Seq(Turns)
         /\ Closed \in Session /\ Closed.epoch = 0 /\ ToSet(Closed.msgs) = {}
         /\ Closed.open = FALSE
BY DEF TypeOK, Session, Closed, ToSet

\* A Session with other metadata, or in another generation.
LEMMA WithMeta ==
  ASSUME NEW s \in Session, NEW m \in Nat
  PROVE  /\ [s EXCEPT !.meta = m] \in Session /\ [s EXCEPT !.meta = m].meta = m
         /\ \A f \in {"open", "msgs", "persisted", "snapMsgs", "snapMeta", "epoch",
                      "asking", "askEpoch", "asked"} : [s EXCEPT !.meta = m][f] = s[f]
BY DEF Session

LEMMA WithEpoch ==
  ASSUME NEW s \in Session, NEW e \in Nat
  PROVE  /\ [s EXCEPT !.epoch = e] \in Session /\ [s EXCEPT !.epoch = e].epoch = e
         /\ \A f \in {"open", "msgs", "persisted", "snapMsgs", "snapMeta",
                      "asking", "askEpoch", "asked"} : [s EXCEPT !.epoch = e][f] = s[f]
BY DEF Session

\* A state of the disk on the way of a write by h keeps its turns as long as it
\* keeps its epoch, and has no turn that h had not or that was erased.
Legal(h, d) ==
  /\ d \in Disk /\ disk.epoch <= d.epoch
  /\ d.epoch = disk.epoch => ToSet(disk.msgs) \subseteq ToSet(d.msgs)
  /\ ToSet(d.msgs) \subseteq ToSet(disk.msgs) \cup ToSet(mem[h].msgs)
  /\ ToSet(d.msgs) \cap erased = {}

\* So does what is left of h after it.
LegalAfter(h, final, session) ==
  /\ session \in Session /\ session.epoch <= final.epoch
  /\ ToSet(session.msgs) \subseteq ToSet(mem[h].msgs)
  /\ session.epoch = final.epoch =>
       ToSet(session.msgs) \cap (erased \cup (ToSet(disk.msgs) \ ToSet(final.msgs))) = {}

\* s is what h was before a write, but for turns it had and for its metadata.
PartOf(s, h) ==
  /\ s \in Session
  /\ s.persisted = mem[h].persisted /\ s.snapMsgs = mem[h].snapMsgs
  /\ s.snapMeta = mem[h].snapMeta /\ s.epoch = mem[h].epoch
  /\ ToSet(s.msgs) \subseteq ToSet(mem[h].msgs)

LEMMA WriteKeeps ==
  ASSUME StoreInv, NEW h \in Sessions, NEW stages, NEW final, NEW session, NEW undone,
         \A d \in stages \cup {final} : Legal(h, d), LegalAfter(h, final, session),
         PartOf(undone, h), Write(h, stages, final, session, undone), UNCHANGED unused
  PROVE  StoreInv'
<1>1. TypeOK /\ NoFutureEpoch /\ UnusedIsFresh /\ CurrentIsClean /\ ErasedStaysErased
  BY DEF StoreInv
<1>2. Legal(h, disk')
  <2>1. Legal(h, disk)
    BY <1>1 DEF TypeOK, Disk, Legal, ErasedStaysErased
  <2> QED
    BY <2>1 DEF Write
<1>3. erased' = erased \cup (ToSet(disk.msgs) \ ToSet(disk'.msgs))
  BY DEF Write
<1>4. PICK left : /\ mem' = [mem EXCEPT ![h] = left]
                  /\ left \in Session /\ left.epoch <= disk'.epoch
                  /\ ToSet(left.msgs) \subseteq ToSet(mem[h].msgs)
                  /\ left.epoch = disk'.epoch => ToSet(left.msgs) \cap erased' = {}
  <2>1. CASE disk' = final /\ mem' = [mem EXCEPT ![h] = session]
    BY <1>3, <2>1 DEF LegalAfter
  <2>2. CASE mem' = [mem EXCEPT ![h] = Closed]
    <3>1. disk'.epoch \in Nat
      BY <1>2 DEF Legal, Disk
    <3>2. /\ Closed \in Session /\ Closed.epoch <= disk'.epoch
          /\ ToSet(Closed.msgs) \subseteq ToSet(mem[h].msgs)
          /\ ToSet(Closed.msgs) \cap erased' = {}
      <4>1. Closed \in Session /\ Closed.epoch = 0 /\ ToSet(Closed.msgs) = {}
        BY <1>1, SessionTypes
      <4> QED
        BY <3>1, <4>1
    <3> QED
      BY <2>2, <3>2
  <2>3. CASE mem' = [mem EXCEPT ![h] = undone]
    <3>1. mem[h].epoch \in Nat /\ disk.epoch \in Nat /\ disk'.epoch \in Nat
      BY <1>1, <1>2, SessionTypes DEF TypeOK, Disk, Legal
    <3>2. /\ undone \in Session /\ undone.epoch = mem[h].epoch
          /\ ToSet(undone.msgs) \subseteq ToSet(mem[h].msgs)
          /\ mem[h].epoch <= disk.epoch /\ disk.epoch <= disk'.epoch
      BY <1>1, <1>2 DEF PartOf, NoFutureEpoch, Legal
    <3>3. ASSUME undone.epoch = disk'.epoch
          PROVE  ToSet(undone.msgs) \cap erased' = {}
      <4>1. mem[h].epoch = disk.epoch /\ disk'.epoch = disk.epoch
        BY <3>1, <3>2, <3>3
      <4>2. ToSet(mem[h].msgs) \cap erased = {} /\ erased' = erased
        BY <1>1, <1>2, <1>3, <4>1 DEF CurrentIsClean, Legal
      <4> QED
        BY <3>2, <4>2
    <3>4. undone.epoch <= disk'.epoch
      BY <3>1, <3>2
    <3> QED
      BY <2>3, <3>2, <3>3, <3>4
  <2> QED
    BY <2>1, <2>2, <2>3 DEF Write
<1>5. \A g \in Sessions : mem'[g] = IF g = h THEN left ELSE mem[g]
  BY <1>1, <1>4 DEF TypeOK
<1>6. TypeOK'
  <2>1. crashes' \in 0 .. MaxCrashes
    BY <1>1, StoreAssumption DEF Write, TypeOK
  <2>2. ToSet(disk.msgs) \subseteq Turns
    BY <1>1, DiskTypes DEF ToSet
  <2> QED
    BY <1>1, <1>2, <1>3, <1>4, <2>1, <2>2 DEF TypeOK, Legal
<1>7. disk.epoch \in Nat /\ disk'.epoch \in Nat /\ \A g \in Sessions : mem[g].epoch \in Nat
  BY <1>1, <1>6, DiskTypes, SessionTypes DEF TypeOK, Disk
<1>8. NoFutureEpoch'
  BY <1>1, <1>2, <1>4, <1>5, <1>7 DEF NoFutureEpoch, Legal
<1>9. UnusedIsFresh'
  BY <1>1, <1>2, <1>3, <1>4, <1>5 DEF UnusedIsFresh, Legal
<1>10. CurrentIsClean'
  <2> SUFFICES ASSUME NEW g \in Sessions, g # h, mem[g].epoch = disk'.epoch
               PROVE  ToSet(mem[g].msgs) \cap erased' = {}
    BY <1>4, <1>5 DEF CurrentIsClean
  <2>1. disk'.epoch = disk.epoch
    BY <1>1, <1>2, <1>7 DEF NoFutureEpoch, Legal
  <2> QED
    BY <1>1, <1>2, <1>3, <2>1 DEF CurrentIsClean, Legal
<1>11. ErasedStaysErased'
  BY <1>2, <1>3 DEF ErasedStaysErased, Legal
<1> QED
  BY <1>6, <1>8, <1>9, <1>10, <1>11 DEF StoreInv

-----------------------------------------------------------------------------
\* s is the open object h, with another meta or without some of its turns.
VersionOf(s, h) == PartOf(s, h) /\ s.open /\ mem[h].open

LEMMA SavedTypes ==
  ASSUME TypeOK, NEW s \in Session, NEW e \in Nat, NEW keep \in BOOLEAN
  PROVE  /\ Saved(s, e, keep) \in Session /\ Saved(s, e, keep).epoch \in {0, e}
         /\ Saved(s, e, keep).epoch # e => Saved(s, e, keep) = Closed
         /\ ToSet(Saved(s, e, keep).msgs) \subseteq ToSet(s.msgs)
<1>1. CASE keep
  BY <1>1 DEF Saved, Session
<1>2. CASE ~keep
  BY <1>2 DEF Saved, Session, Closed, ToSet
<1> QED
  BY <1>1, <1>2

LEMMA UnsavedElements ==
  ASSUME NEW s \in Session
  PROVE  Unsaved(s) \in Seq(Turns) /\ ToSet(Unsaved(s)) \subseteq ToSet(s.msgs)
<1> DEFINE q == s.msgs
           m == IF s.persisted THEN Len(s.snapMsgs) + 1 ELSE 1
<1>1. q \in Seq(Turns) /\ s.snapMsgs \in Seq(Turns)
  BY DEF Session
<1>2. Len(q) \in Nat /\ Len(s.snapMsgs) \in Nat
  BY <1>1
<1>3. m \in Nat /\ m >= 1
  BY <1>2
<1>4. Unsaved(s) = SubSeq(q, m, Len(q))
  BY DEF Unsaved
<1> HIDE DEF q, m
<1>5. CASE m <= Len(q) + 1
  <2>1. m \in 1 .. Len(q) + 1 /\ Len(q) \in 0 .. Len(q)
    BY <1>2, <1>3, <1>5
  <2>2. SubSeq(q, m, Len(q)) \in Seq(Turns) /\ ToSet(SubSeq(q, m, Len(q))) \subseteq ToSet(q)
    BY <1>1, <2>1, PartElements
  <2> QED
    BY <1>4, <2>2 DEF q
<1>6. CASE m > Len(q) + 1
  <2>1. SubSeq(q, m, Len(q)) = <<>>
    BY <1>1, <1>2, <1>3, <1>6, SubSeqEmpty
  <2> QED
    BY <1>4, <2>1 DEF ToSet
<1> QED
  BY <1>2, <1>3, <1>5, <1>6

\* The file with a part of what is appended.
LEMMA GrownElements ==
  ASSUME TypeOK, NEW s \in Session, NEW n \in 0 .. Len(Unsaved(s)), NEW meta \in Nat,
         NEW t \in BOOLEAN
  PROVE  /\ Grown(s, n, meta, t) \in Disk /\ Grown(s, n, meta, t).epoch = disk.epoch
         /\ ToSet(disk.msgs) \subseteq ToSet(Grown(s, n, meta, t).msgs)
         /\ ToSet(Grown(s, n, meta, t).msgs) \subseteq ToSet(disk.msgs) \cup ToSet(s.msgs)
         /\ Grown(s, n, meta, t).meta = meta /\ Grown(s, n, meta, t).there
<1> DEFINE part == SubSeq(Unsaved(s), 1, n)
           base == Fenced(disk.epoch)
<1>1. Unsaved(s) \in Seq(Turns) /\ ToSet(Unsaved(s)) \subseteq ToSet(s.msgs)
  BY UnsavedElements
<1>2. part \in Seq(Turns) /\ ToSet(part) \subseteq ToSet(s.msgs)
  <2>1. 1 \in 1 .. Len(Unsaved(s)) + 1
    BY <1>1
  <2> QED
    BY <1>1, <2>1, PartElements
<1>3. disk.epoch \in Nat /\ disk.msgs \in Seq(Turns) /\ base \in Disk /\ base.epoch = disk.epoch
  BY DiskTypes DEF TypeOK, Disk
<1>5. Grown(s, n, meta, t) = [base EXCEPT !.there = TRUE, !.msgs = disk.msgs \o part,
                                          !.meta = meta, !.torn = t]
  BY DEF Grown
<1> HIDE DEF part, base
<1>4. disk.msgs \o part \in Seq(Turns) /\ ToSet(disk.msgs \o part) = ToSet(disk.msgs) \cup ToSet(part)
  BY <1>2, <1>3, ConcatElements
<1>6. /\ Grown(s, n, meta, t) \in Disk /\ Grown(s, n, meta, t).epoch = disk.epoch
      /\ Grown(s, n, meta, t).msgs = disk.msgs \o part /\ Grown(s, n, meta, t).meta = meta
      /\ Grown(s, n, meta, t).there
  BY <1>3, <1>4, <1>5 DEF Disk
<1> QED
  BY <1>2, <1>4, <1>6

\* An append by an object of the present generation.
LEMMA AppendKeeps ==
  ASSUME StoreInv, NEW h \in Sessions, NEW s, VersionOf(s, h), NEW keep \in BOOLEAN,
         AppendTo(h, s, keep), UNCHANGED unused
  PROVE  StoreInv'
<1> DEFINE final == Grown(s, Len(Unsaved(s)), s.meta, FALSE)
           left == Saved(s, disk.epoch, keep)
<1>1. TypeOK /\ CurrentIsClean /\ ErasedStaysErased /\ disk.epoch \in Nat /\ disk.meta \in Nat
  BY DEF StoreInv, TypeOK, Disk
<1>2. EpochIs(s.epoch) /\ Write(h, PartlyGrown(s), final, left, s)
  BY DEF AppendTo
<1>3. PartOf(s, h) /\ s \in Session /\ s.meta \in Nat
  BY DEF VersionOf, PartOf, Session
<1>4. ToSet(s.msgs) \subseteq ToSet(mem[h].msgs) /\ ToSet(mem[h].msgs) \cap erased = {}
  BY <1>1, <1>2 DEF VersionOf, PartOf, EpochIs, CurrentIsClean
<1>5. Len(Unsaved(s)) \in Nat
  BY <1>3, UnsavedElements
<1>6. ASSUME NEW n \in 0 .. Len(Unsaved(s)), NEW meta \in Nat, NEW t \in BOOLEAN
      PROVE  Legal(h, Grown(s, n, meta, t))
  BY <1>1, <1>3, <1>4, GrownElements DEF Legal, ErasedStaysErased
<1>7. Legal(h, Marked) /\ Legal(h, Fenced(disk.epoch))
  BY <1>1, DiskTypes DEF Legal, ErasedStaysErased
<1>8. \A d \in PartlyGrown(s) : Legal(h, d)
  <2>1. 0 \in 0 .. Len(Unsaved(s)) /\ 0 .. Len(Unsaved(s)) - 1 \subseteq 0 .. Len(Unsaved(s))
    BY <1>5
  <2>2. \A t \in BOOLEAN : Legal(h, Grown(s, 0, disk.meta, t))
    BY <1>1, <1>6, <2>1
  <2>3. \A n \in 0 .. Len(Unsaved(s)) - 1, t \in BOOLEAN : Legal(h, Grown(s, n, s.meta, t))
    BY <1>3, <1>6, <2>1
  <2>4. Legal(h, Grown(s, Len(Unsaved(s)), s.meta, FALSE))
    <3>1. Len(Unsaved(s)) \in 0 .. Len(Unsaved(s)) /\ FALSE \in BOOLEAN
      BY <1>5
    <3> QED
      BY <1>3, <1>6, <3>1
  <2> QED
    <3> DEFINE A == {Marked, Fenced(disk.epoch), Grown(s, Len(Unsaved(s)), s.meta, FALSE)}
               B == {Grown(s, 0, disk.meta, t) : t \in BOOLEAN}
               C == {Grown(s, n, s.meta, t) : n \in 0 .. Len(Unsaved(s)) - 1, t \in BOOLEAN}
    <3>1. \A d \in A : Legal(h, d)
      BY <1>7, <2>4
    <3>2. \A d \in B : Legal(h, d)
      BY <2>2
    <3>3. \A d \in C : Legal(h, d)
      BY <2>3
    <3>4. PartlyGrown(s) = A \cup B \cup C
      BY DEF PartlyGrown
    <3> HIDE DEF A, B, C
    <3> QED
      BY <3>1, <3>2, <3>3, <3>4
<1>9. Len(Unsaved(s)) \in 0 .. Len(Unsaved(s)) /\ FALSE \in BOOLEAN
  BY <1>5
<1>10. /\ Legal(h, final) /\ final.epoch = disk.epoch
       /\ ToSet(disk.msgs) \subseteq ToSet(final.msgs)
  BY <1>1, <1>3, <1>6, <1>9, GrownElements
<1>11. left \in Session /\ left.epoch \in {0, disk.epoch} /\ ToSet(left.msgs) \subseteq ToSet(s.msgs)
  BY <1>1, <1>3, SavedTypes
<1> HIDE DEF final, left
<1>12. LegalAfter(h, final, left)
  BY <1>1, <1>4, <1>10, <1>11 DEF LegalAfter
<1>13. \A d \in PartlyGrown(s) \cup {final} : Legal(h, d)
  BY <1>8, <1>10
<1> QED
  BY <1>2, <1>3, <1>12, <1>13, WriteKeeps

\* A rewrite under a new epoch.
LEMMA RewriteKeeps ==
  ASSUME StoreInv, NEW h \in Sessions, NEW s, VersionOf(s, h), NEW keep \in BOOLEAN,
         NEW undone, PartOf(undone, h), RewriteAs(h, s, keep, undone), UNCHANGED unused
  PROVE  StoreInv'
<1> DEFINE stages == {Marked, Fenced(NextEpoch)}
           final == Rewritten(s)
           left == Saved(s, NextEpoch, keep)
<1>1. /\ TypeOK /\ CurrentIsClean /\ ErasedStaysErased
      /\ disk.epoch \in Nat /\ NextEpoch \in Nat /\ NextEpoch > disk.epoch
  BY DEF StoreInv, TypeOK, Disk, NextEpoch
<1>2. EpochIs(s.epoch) /\ Write(h, stages, final, left, undone)
  BY DEF RewriteAs, MayRewrite
<1>3. s \in Session /\ s.msgs \in Seq(Turns) /\ s.meta \in Nat
  BY DEF VersionOf, PartOf, Session
<1>4. ToSet(s.msgs) \subseteq ToSet(mem[h].msgs) /\ ToSet(mem[h].msgs) \cap erased = {}
  BY <1>1, <1>2 DEF VersionOf, PartOf, EpochIs, CurrentIsClean
<1>5. /\ Fenced(NextEpoch) \in Disk /\ Fenced(NextEpoch).epoch = NextEpoch
      /\ Legal(h, Marked) /\ Legal(h, Fenced(NextEpoch))
  BY <1>1, DiskTypes DEF Legal, ErasedStaysErased
<1>6. final \in Disk /\ final.epoch = NextEpoch /\ final.msgs = s.msgs
  BY <1>3, <1>5 DEF Disk, Rewritten
<1>7. left \in Session /\ left.epoch \in {0, NextEpoch} /\ ToSet(left.msgs) \subseteq ToSet(s.msgs)
  BY <1>1, <1>3, SavedTypes
<1> HIDE DEF final, left
<1>8. Legal(h, final)
  BY <1>1, <1>4, <1>6 DEF Legal
<1>9. LegalAfter(h, final, left)
  BY <1>1, <1>4, <1>6, <1>7 DEF LegalAfter
<1> QED
  BY <1>2, <1>5, <1>8, <1>9, WriteKeeps

LEMMA SaveAsKeeps ==
  ASSUME StoreInv, NEW h \in Sessions, NEW s, VersionOf(s, h), NEW keep \in BOOLEAN,
         SaveAs(h, s, keep), UNCHANGED unused
  PROVE  StoreInv'
<1> DEFINE ready == [s EXCEPT !.meta = IF @ = 0 THEN 1 ELSE @]
<1>1. VersionOf(ready, h)
  BY DEF VersionOf, PartOf, Session
<1>2. AppendTo(h, ready, keep) \/ RewriteAs(h, ready, keep, ready)
  BY DEF SaveAs
<1>3. PartOf(ready, h)
  BY <1>1 DEF VersionOf
<1> HIDE DEF ready
<1> QED
  BY <1>1, <1>2, <1>3, AppendKeeps, RewriteKeeps

\* The object after its question for a deletion was answered.
LEMMA NotAskingTypes ==
  ASSUME TypeOK, NEW h \in Sessions
  PROVE  /\ NotAsking(mem[h]) \in Session /\ PartOf(NotAsking(mem[h]), h)
         /\ NotAsking(mem[h]).msgs = mem[h].msgs /\ NotAsking(mem[h]).asking = FALSE
         /\ NotAsking(mem[h]).askEpoch = 0 /\ NotAsking(mem[h]).asked = <<>>
<1> DEFINE none == <<>>
<1>1. none \in Seq(Turns)
  OBVIOUS
<1>2. NotAsking(mem[h]) = [mem[h] EXCEPT !.asking = FALSE, !.askEpoch = 0,
                                         !.askExisted = FALSE, !.asked = none]
  BY DEF NotAsking
<1>3. PICK t : t = NotAsking(mem[h])
  OBVIOUS
<1> HIDE DEF none
<1>4. PICK r \in Session : r = mem[h]
  BY SessionTypes
<1>5. t = [r EXCEPT !.asking = FALSE, !.askEpoch = 0, !.askExisted = FALSE, !.asked = none]
  BY <1>2, <1>3, <1>4, Zenon
<1>6. /\ t \in Session /\ t.asking = FALSE /\ t.askEpoch = 0 /\ t.asked = none
      /\ t.msgs = r.msgs /\ t.persisted = r.persisted /\ t.snapMsgs = r.snapMsgs
      /\ t.snapMeta = r.snapMeta /\ t.epoch = r.epoch
  BY <1>1, <1>5 DEF Session
<1> QED
  BY <1>3, <1>4, <1>6 DEF PartOf, none

LEMMA DeleteByKeeps ==
  ASSUME StoreInv, NEW h \in Sessions, DeleteBy(h), UNCHANGED unused
  PROVE  StoreInv'
<1> DEFINE stages == {Marked, Fenced(NextEpoch)}
           final == Gone(Fenced(NextEpoch))
           left == NotAsking(mem[h])
<1>1. /\ TypeOK /\ NoFutureEpoch /\ ErasedStaysErased
      /\ disk.epoch \in Nat /\ NextEpoch \in Nat /\ NextEpoch > disk.epoch
  BY DEF StoreInv, TypeOK, Disk, NextEpoch
<1>2. /\ Fenced(NextEpoch) \in Disk /\ Fenced(NextEpoch).epoch = NextEpoch
      /\ Legal(h, Marked) /\ Legal(h, Fenced(NextEpoch))
  BY <1>1, DiskTypes DEF Legal, ErasedStaysErased
<1>3. final \in Disk /\ final.epoch = NextEpoch /\ ToSet(final.msgs) = {}
  BY <1>2, GoneTypes
<1>4. /\ left \in Session /\ left.epoch = mem[h].epoch /\ left.msgs = mem[h].msgs
      /\ PartOf(left, h)
  BY <1>1, NotAskingTypes DEF PartOf
<1>6. Write(h, stages, final, left, left)
  BY DEF DeleteBy
<1> HIDE DEF final, left
<1>5. left.epoch < NextEpoch
  <2>1. mem[h].epoch \in Nat /\ mem[h].epoch <= disk.epoch
    BY <1>1, SessionTypes DEF NoFutureEpoch
  <2> QED
    BY <1>1, <1>4, <2>1
<1>7. Legal(h, final)
  BY <1>1, <1>3 DEF Legal
<1>8. LegalAfter(h, final, left)
  <2>1. left.epoch \in Nat
    BY <1>4 DEF Session
  <2> QED
    BY <1>1, <1>3, <1>4, <1>5, <2>1 DEF LegalAfter
<1> QED
  BY <1>2, <1>4, <1>6, <1>7, <1>8, WriteKeeps

\* A step that only changes the object h.
LEMMA MemoryKeeps ==
  ASSUME StoreInv, NEW h \in Sessions, NEW s \in Session, s.epoch <= disk.epoch,
         s.epoch = disk.epoch => ToSet(s.msgs) \cap erased = {},
         unused' \subseteq unused, unused' \cap ToSet(s.msgs) = {},
         mem' = [mem EXCEPT ![h] = s], UNCHANGED <<disk, crashes, erased>>
  PROVE  StoreInv'
<1>1. TypeOK /\ NoFutureEpoch /\ UnusedIsFresh /\ CurrentIsClean /\ ErasedStaysErased
  BY DEF StoreInv
<1>2. \A g \in Sessions : mem'[g] = IF g = h THEN s ELSE mem[g]
  BY <1>1 DEF TypeOK
<1>3. TypeOK'
  BY <1>1 DEF TypeOK
<1>4. NoFutureEpoch' /\ CurrentIsClean'
  BY <1>1, <1>2 DEF NoFutureEpoch, CurrentIsClean
<1>5. UnusedIsFresh'
  BY <1>1, <1>2 DEF UnusedIsFresh
<1>6. ErasedStaysErased'
  BY <1>1 DEF ErasedStaysErased
<1> QED
  BY <1>3, <1>4, <1>5, <1>6 DEF StoreInv

LEMMA VersionKeeps ==
  ASSUME StoreInv, NEW h \in Sessions, NEW s, VersionOf(s, h),
         mem' = [mem EXCEPT ![h] = s], UNCHANGED <<disk, unused, crashes, erased>>
  PROVE  StoreInv'
<1>1. /\ s \in Session /\ s.epoch = mem[h].epoch
      /\ ToSet(s.msgs) \subseteq ToSet(mem[h].msgs)
  BY DEF VersionOf, PartOf
<1>2. /\ mem[h].epoch <= disk.epoch /\ unused \cap ToSet(mem[h].msgs) = {}
      /\ mem[h].epoch = disk.epoch => ToSet(mem[h].msgs) \cap erased = {}
  BY DEF StoreInv, NoFutureEpoch, UnusedIsFresh, CurrentIsClean
<1> QED
  BY <1>1, <1>2, MemoryKeeps

LEMMA ShortenedVersions ==
  ASSUME TypeOK, NEW h \in Sessions, mem[h].open,
         NEW n \in {0, Len(mem[h].msgs) - 1} \cap Nat, NEW s \in Shortened(mem[h], n)
  PROVE  VersionOf(s, h)
<1>1. mem[h] \in Session /\ mem[h].msgs \in Seq(Turns) /\ mem[h].meta \in Nat
  BY SessionTypes DEF Session
<1>2. 1 \in 1 .. Len(mem[h].msgs) + 1 /\ n \in 0 .. Len(mem[h].msgs)
  BY <1>1
<1>3. /\ SubSeq(mem[h].msgs, 1, n) \in Seq(Turns)
      /\ ToSet(SubSeq(mem[h].msgs, 1, n)) \subseteq ToSet(mem[h].msgs)
  BY <1>1, <1>2, PartElements
<1>4. PICK m \in mem[h].meta .. mem[h].meta + 1 :
        s = [mem[h] EXCEPT !.msgs = SubSeq(mem[h].msgs, 1, n), !.meta = m]
  BY Zenon DEF Shortened
<1> DEFINE q == SubSeq(mem[h].msgs, 1, n)
<1>5. m \in Nat /\ s = [mem[h] EXCEPT !.msgs = q, !.meta = m]
  BY <1>1, <1>4
<1>6. q \in Seq(Turns) /\ ToSet(q) \subseteq ToSet(mem[h].msgs)
  BY <1>3
<1> HIDE DEF q
<1>7. /\ s \in Session /\ s.msgs = q
      /\ \A f \in {"open", "persisted", "snapMsgs", "snapMeta", "epoch"} : s[f] = mem[h][f]
  BY <1>1, <1>5, <1>6 DEF Session
<1> QED
  BY <1>6, <1>7 DEF VersionOf, PartOf

-----------------------------------------------------------------------------
\* An edit of the history that was never saved needs no new file, only a new epoch.
LEMMA EpochBumpKeeps ==
  ASSUME StoreInv, NEW h \in Sessions, NEW s, VersionOf(s, h), EpochIs(s.epoch),
         Write(h, {Marked}, Fenced(NextEpoch), [s EXCEPT !.epoch = @ + 1], mem[h]), UNCHANGED unused
  PROVE  StoreInv'
<1> DEFINE left == [s EXCEPT !.epoch = @ + 1]
<1>1. /\ TypeOK /\ CurrentIsClean /\ ErasedStaysErased
      /\ disk.epoch \in Nat /\ NextEpoch \in Nat /\ NextEpoch = disk.epoch + 1
  BY DEF StoreInv, TypeOK, Disk, NextEpoch
<1>2. s \in Session /\ s.epoch = disk.epoch /\ s.epoch = mem[h].epoch
  BY DEF VersionOf, PartOf, EpochIs
<1>3. left \in Session /\ left.epoch = NextEpoch /\ left.msgs = s.msgs
  BY <1>1, <1>2 DEF Session
<1>4. /\ Fenced(NextEpoch).epoch = NextEpoch /\ Fenced(NextEpoch).msgs = disk.msgs
      /\ Legal(h, Marked) /\ Legal(h, Fenced(NextEpoch))
  BY <1>1, DiskTypes DEF Legal, ErasedStaysErased
<1>5. ToSet(s.msgs) \subseteq ToSet(mem[h].msgs) /\ ToSet(mem[h].msgs) \cap erased = {}
  BY <1>1, <1>2 DEF VersionOf, PartOf, CurrentIsClean
<1>6. Write(h, {Marked}, Fenced(NextEpoch), left, mem[h]) /\ PartOf(mem[h], h)
  BY <1>1, SessionTypes DEF PartOf
<1> HIDE DEF left
<1>7. LegalAfter(h, Fenced(NextEpoch), left)
  BY <1>1, <1>3, <1>4, <1>5 DEF LegalAfter
<1> QED
  BY <1>4, <1>6, <1>7, WriteKeeps

LEMMA LoadKeeps ==
  ASSUME StoreInv, NEW h \in Sessions, Load(h)
  PROVE  StoreInv'
<1>1. /\ TypeOK /\ UnusedIsFresh /\ ErasedStaysErased
      /\ disk.epoch \in Nat /\ disk.msgs \in Seq(Turns) /\ disk.meta \in Nat /\ disk.torn \in BOOLEAN
  BY DEF StoreInv, TypeOK, Disk
<1>2. Closed \in Session /\ Closed.msgs = <<>> /\ ToSet(<<>>) = {}
  BY DEF Closed, Session, ToSet
<1>3. PICK s : /\ mem' = [mem EXCEPT ![h] = s]
               /\ s \in Session /\ s.epoch = disk.epoch
               /\ s.msgs = disk.msgs \/ s.msgs = <<>>
  <2>1. CASE disk.there
    <3> DEFINE s == [Closed EXCEPT !.open = TRUE, !.msgs = disk.msgs, !.meta = disk.meta,
                       !.persisted = TRUE, !.snapMsgs = disk.msgs, !.snapMeta = disk.meta,
                       !.epoch = disk.epoch, !.rewrite = disk.torn]
    <3>1. s \in Session /\ s.epoch = disk.epoch /\ s.msgs = disk.msgs
      BY <1>1, <1>2 DEF Session
    <3>2. mem' = [mem EXCEPT ![h] = s]
      BY <2>1 DEF Load
    <3> HIDE DEF s
    <3> QED
      BY <3>1, <3>2
  <2>2. CASE ~disk.there
    <3> DEFINE s == [Closed EXCEPT !.open = TRUE, !.meta = 1, !.epoch = disk.epoch]
    <3>1. s \in Session /\ s.epoch = disk.epoch /\ s.msgs = <<>>
      BY <1>1, <1>2 DEF Session
    <3>2. mem' = [mem EXCEPT ![h] = s]
      BY <2>2 DEF Load
    <3> HIDE DEF s
    <3> QED
      BY <3>1, <3>2
  <2> QED
    BY <2>1, <2>2
<1>4. ToSet(s.msgs) \cap erased = {} /\ unused \cap ToSet(s.msgs) = {}
  BY <1>1, <1>2, <1>3 DEF ErasedStaysErased, UnusedIsFresh
<1>5. UNCHANGED <<disk, unused, crashes, erased>>
  BY DEF Load
<1>6. s.epoch <= disk.epoch /\ unused' \subseteq unused /\ unused' \cap ToSet(s.msgs) = {}
  BY <1>1, <1>3, <1>4, <1>5
<1> QED
  BY <1>3, <1>4, <1>5, <1>6, MemoryKeeps

LEMMA RecordKeeps ==
  ASSUME StoreInv, NEW h \in Sessions, Record(h)
  PROVE  StoreInv'
<1>1. TypeOK /\ NoFutureEpoch /\ UnusedIsFresh /\ CurrentIsClean
  BY DEF StoreInv
<1>2. PICK t \in unused : /\ mem' = [mem EXCEPT ![h].msgs = Append(@, t)]
                          /\ unused' = unused \ {t}
  BY DEF Record
<1> DEFINE q == Append(mem[h].msgs, t)
           s == [mem[h] EXCEPT !.msgs = q]
<1>3. mem[h] \in Session /\ mem[h].msgs \in Seq(Turns) /\ t \in Turns
  BY <1>1, <1>2, SessionTypes DEF TypeOK
<1>4. q \in Seq(Turns) /\ ToSet(q) = ToSet(mem[h].msgs) \cup {t}
  BY <1>3, AppendElements
<1>5. mem' = [mem EXCEPT ![h] = s]
  BY <1>1, <1>2 DEF TypeOK
<1> HIDE DEF q
<1>6. s \in Session /\ s.epoch = mem[h].epoch /\ s.msgs = q
  BY <1>3, <1>4 DEF Session
<1> HIDE DEF s
<1>7. UNCHANGED <<disk, crashes, erased>>
  BY DEF Record
<1>8. /\ s.epoch <= disk.epoch /\ unused' \subseteq unused /\ unused' \cap ToSet(s.msgs) = {}
      /\ s.epoch = disk.epoch => ToSet(s.msgs) \cap erased = {}
  BY <1>1, <1>2, <1>4, <1>6 DEF NoFutureEpoch, UnusedIsFresh, CurrentIsClean
<1> QED
  BY <1>5, <1>6, <1>7, <1>8, MemoryKeeps

LEMMA SetMetaKeeps ==
  ASSUME StoreInv, NEW h \in Sessions, SetMeta(h)
  PROVE  StoreInv'
<1> DEFINE s == [mem[h] EXCEPT !.meta = @ + 1]
<1>1. mem[h] \in Session /\ mem[h].open
  BY SessionTypes DEF StoreInv, SetMeta
<1>2. VersionOf(s, h)
  <2>1. /\ s \in Session
        /\ \A f \in {"open", "msgs", "persisted", "snapMsgs", "snapMeta", "epoch"} : s[f] = mem[h][f]
    <3>1. mem[h].meta + 1 \in Nat /\ s = [mem[h] EXCEPT !.meta = mem[h].meta + 1]
      BY <1>1 DEF Session
    <3> HIDE DEF s
    <3> QED
      BY <1>1, <3>1, WithMeta
  <2> HIDE DEF s
  <2> QED
    BY <1>1, <2>1 DEF VersionOf, PartOf
<1>3. /\ SaveAs(h, s, TRUE) \/ (mem' = [mem EXCEPT ![h] = s] /\ UNCHANGED <<disk, crashes, erased>>)
      /\ UNCHANGED unused
  BY DEF SetMeta
<1> HIDE DEF s
<1> QED
  BY <1>2, <1>3, SaveAsKeeps, VersionKeeps

LEMMA CommitKeeps ==
  ASSUME StoreInv, NEW h \in Sessions, CommitHistoryRewrite(h)
  PROVE  StoreInv'
<1>1. TypeOK /\ mem[h].open /\ UNCHANGED unused
  BY DEF StoreInv, CommitHistoryRewrite
<1>2. PICK n \in {0, Len(mem[h].msgs) - 1} \cap Nat : \E s \in Shortened(mem[h], n) :
        IF s.persisted \/ Dirty(s)
        THEN RewriteAs(h, [s EXCEPT !.meta = IF @ = 0 THEN 1 ELSE @], TRUE, mem[h])
        ELSE /\ EpochIs(s.epoch)
             /\ Write(h, {Marked}, Fenced(NextEpoch), [s EXCEPT !.epoch = @ + 1], mem[h])
  BY DEF CommitHistoryRewrite
<1>3. PICK s \in Shortened(mem[h], n) :
        IF s.persisted \/ Dirty(s)
        THEN RewriteAs(h, [s EXCEPT !.meta = IF @ = 0 THEN 1 ELSE @], TRUE, mem[h])
        ELSE /\ EpochIs(s.epoch)
             /\ Write(h, {Marked}, Fenced(NextEpoch), [s EXCEPT !.epoch = @ + 1], mem[h])
  BY <1>2
<1> DEFINE ready == [s EXCEPT !.meta = IF @ = 0 THEN 1 ELSE @]
<1>4. VersionOf(s, h)
  BY <1>1, ShortenedVersions
<1>5. VersionOf(ready, h)
  BY <1>4 DEF VersionOf, PartOf, Session
<1>6. CASE RewriteAs(h, ready, TRUE, mem[h])
  <2> HIDE DEF ready
  <2>1. PartOf(mem[h], h)
    BY <1>1, SessionTypes DEF PartOf
  <2> QED
    BY <1>1, <1>5, <1>6, <2>1, RewriteKeeps
<1>7. CASE /\ EpochIs(s.epoch)
           /\ Write(h, {Marked}, Fenced(NextEpoch), [s EXCEPT !.epoch = @ + 1], mem[h])
  BY <1>1, <1>4, <1>7, EpochBumpKeeps
<1> QED
  BY <1>3, <1>6, <1>7

LEMMA NewSessionKeeps ==
  ASSUME StoreInv, NEW h \in Sessions, NewSession(h)
  PROVE  StoreInv'
<1>1. TypeOK /\ mem[h].open /\ UNCHANGED unused
  BY DEF StoreInv, NewSession
<1>2. PICK s \in Shortened(mem[h], 0) :
        \/ SaveAs(h, s, FALSE)
        \/ mem' = [mem EXCEPT ![h] = s] /\ UNCHANGED <<disk, crashes, erased>>
  BY DEF NewSession
<1>3. 0 \in {0, Len(mem[h].msgs) - 1} \cap Nat
  OBVIOUS
<1>4. VersionOf(s, h)
  BY <1>1, <1>3, ShortenedVersions
<1> QED
  BY <1>1, <1>2, <1>4, SaveAsKeeps, VersionKeeps

LEMMA AskKeeps ==
  ASSUME StoreInv, NEW h \in Sessions, AskDelete(h)
  PROVE  StoreInv'
<1> DEFINE s == [mem[h] EXCEPT !.asking = TRUE, !.askEpoch = mem[h].epoch,
                               !.askExisted = disk.there, !.asked = mem[h].snapMsgs]
<1>1. mem[h] \in Session /\ mem[h].epoch \in Nat /\ disk.there \in BOOLEAN /\ mem[h].open
  BY SessionTypes DEF StoreInv, TypeOK, Disk, AskDelete
<1>2. VersionOf(s, h)
  BY <1>1 DEF VersionOf, PartOf, Session
<1>3. mem' = [mem EXCEPT ![h] = s] /\ UNCHANGED <<disk, unused, crashes, erased>>
  BY DEF AskDelete
<1> HIDE DEF s
<1> QED
  BY <1>2, <1>3, VersionKeeps

LEMMA InvalidateKeeps ==
  ASSUME StoreInv, NEW h \in Sessions, Invalidate(h)
  PROVE  StoreInv'
<1>1. /\ mem' = [mem EXCEPT ![h] = Closed] /\ UNCHANGED <<disk, unused, crashes, erased>>
  BY DEF Invalidate
<1>2. Closed \in Session /\ Closed.epoch = 0 /\ ToSet(Closed.msgs) = {} /\ disk.epoch \in Nat
  BY SessionTypes DEF StoreInv, TypeOK, Disk
<1>3. /\ Closed.epoch <= disk.epoch /\ ToSet(Closed.msgs) \cap erased = {}
      /\ unused' \subseteq unused /\ unused' \cap ToSet(Closed.msgs) = {}
  BY <1>1, <1>2
<1> QED
  BY <1>1, <1>2, <1>3, MemoryKeeps

LEMMA NextKeepsStoreInv == StoreInv /\ [Next]_vars => StoreInv'
<1>1. SUFFICES ASSUME StoreInv, [Next]_vars PROVE StoreInv'
  OBVIOUS
<1>2. CASE UNCHANGED vars
  BY <1>1, <1>2 DEF vars, StoreInv, TypeOK, NoFutureEpoch, UnusedIsFresh, CurrentIsClean,
                    ErasedStaysErased
<1>3. ASSUME NEW h \in Sessions, Save(h)
      PROVE  StoreInv'
  <2>1. VersionOf(mem[h], h) /\ SaveAs(h, mem[h], TRUE) /\ UNCHANGED unused
    BY <1>1, <1>3, SessionTypes DEF Save, VersionOf, PartOf, StoreInv
  <2> QED
    BY <1>1, <2>1, SaveAsKeeps
<1>4. ASSUME NEW h \in Sessions, CliDelete(h) \/ ConfirmedDelete(h)
      PROVE  StoreInv'
  BY <1>1, <1>4, DeleteByKeeps DEF CliDelete, ConfirmedDelete
<1> QED
  BY <1>1, <1>2, <1>3, <1>4, LoadKeeps, InvalidateKeeps, RecordKeeps, SetMetaKeeps, CommitKeeps,
     NewSessionKeeps, AskKeeps DEF Next

\* Every Session object and the file keep their types (rincode/session/manager.py).
THEOREM StoreTypes == Spec => []TypeOK
<1>1. StoreInv => TypeOK
  BY DEF StoreInv
<1> QED
  BY <1>1, InitStoreInv, NextKeepsStoreInv, PTL DEF Spec

\* Whatever the writers do with stale objects, and wherever they die, a turn
\* that left the file never returns to it (the epoch, rincode/utils/atomic_io.py).
THEOREM ErasedTurnsStayErased == Spec => []ErasedStaysErased
<1>1. StoreInv => ErasedStaysErased
  BY DEF StoreInv
<1> QED
  BY <1>1, InitStoreInv, NextKeepsStoreInv, PTL DEF Spec
-----------------------------------------------------------------------------
\* A step of h leaves the other objects alone, removes the file only as a
\* deletion, and has seen what it overwrites.
StepOf(h) ==
  /\ \A g \in Sessions \ {h} : mem'[g] = mem[g]
  /\ disk.there /\ ~disk'.there => CliDelete(h) \/ ConfirmedDelete(h)
  /\ disk.there /\ disk'.there /\
     ~(ToSet(disk.msgs) \subseteq ToSet(disk'.msgs) /\ disk'.meta = disk.meta)
       => /\ mem[h].snapMeta = disk.meta
          /\ ToSet(disk.msgs) \subseteq ToSet(disk'.msgs) \/ mem[h].snapMsgs = disk.msgs

LEMMA WriteOutcome ==
  ASSUME TypeOK, NEW h \in Sessions, NEW stages, NEW final, NEW session, NEW undone,
         Write(h, stages, final, session, undone)
  PROVE  disk' \in stages \cup {final, disk} /\ \A g \in Sessions \ {h} : mem'[g] = mem[g]
BY DEF Write, TypeOK

LEMMA MarkedContent ==
  ASSUME TypeOK, NEW e
  PROVE  /\ Marked.msgs = disk.msgs /\ Marked.meta = disk.meta
         /\ Fenced(e).msgs = disk.msgs /\ Fenced(e).meta = disk.meta
         /\ Marked.there = disk.there /\ Fenced(e).there = disk.there
BY DEF TypeOK, Disk, Marked, Fenced

LEMMA AppendIsStep ==
  ASSUME TypeOK, NEW h \in Sessions, NEW s, VersionOf(s, h), NEW keep \in BOOLEAN,
         AppendTo(h, s, keep)
  PROVE  StepOf(h)
<1>1. /\ disk' \in PartlyGrown(s) \cup {Grown(s, Len(Unsaved(s)), s.meta, FALSE), disk}
      /\ \A g \in Sessions \ {h} : mem'[g] = mem[g]
  BY WriteOutcome DEF AppendTo
<1>2. s \in Session /\ s.meta \in Nat /\ disk.meta \in Nat /\ Len(Unsaved(s)) \in Nat
  BY UnsavedElements DEF VersionOf, PartOf, Session, TypeOK, Disk
<1>3. ASSUME NEW n \in 0 .. Len(Unsaved(s)), NEW meta \in Nat, NEW t \in BOOLEAN
      PROVE  /\ ToSet(disk.msgs) \subseteq ToSet(Grown(s, n, meta, t).msgs)
             /\ Grown(s, n, meta, t).meta = meta /\ Grown(s, n, meta, t).there
  BY <1>2, GrownElements
<1> DEFINE Grows(d) == /\ ToSet(disk.msgs) \subseteq ToSet(d.msgs) /\ d.meta \in {disk.meta, s.meta}
                       /\ disk.there => d.there
<1>4. Grows(disk')
  <2>1. /\ 0 \in 0 .. Len(Unsaved(s)) /\ Len(Unsaved(s)) \in 0 .. Len(Unsaved(s))
        /\ 0 .. Len(Unsaved(s)) - 1 \subseteq 0 .. Len(Unsaved(s)) /\ FALSE \in BOOLEAN
    BY <1>2
  <2>2. Grows(Marked) /\ Grows(Fenced(disk.epoch)) /\ Grows(disk)
    BY MarkedContent
  <2>3. \A t \in BOOLEAN : Grows(Grown(s, 0, disk.meta, t))
    BY <1>2, <1>3, <2>1
  <2>4. \A n \in 0 .. Len(Unsaved(s)), t \in BOOLEAN : Grows(Grown(s, n, s.meta, t))
    BY <1>2, <1>3
  <2> HIDE DEF Grows
  <2>5. /\ \A n \in 0 .. Len(Unsaved(s)) - 1, t \in BOOLEAN : Grows(Grown(s, n, s.meta, t))
        /\ Grows(Grown(s, Len(Unsaved(s)), s.meta, FALSE))
    BY <2>1, <2>4
  <2>6. \A d \in PartlyGrown(s) : Grows(d)
    <3> DEFINE A == {Marked, Fenced(disk.epoch), Grown(s, Len(Unsaved(s)), s.meta, FALSE)}
               B == {Grown(s, 0, disk.meta, t) : t \in BOOLEAN}
               C == {Grown(s, n, s.meta, t) : n \in 0 .. Len(Unsaved(s)) - 1, t \in BOOLEAN}
    <3>1. \A d \in A : Grows(d)
      BY <2>2, <2>5
    <3>2. \A d \in B : Grows(d)
      BY <2>3
    <3>3. \A d \in C : Grows(d)
      BY <2>5
    <3>4. PartlyGrown(s) = A \cup B \cup C
      BY DEF PartlyGrown
    <3> HIDE DEF A, B, C
    <3> QED
      BY <3>1, <3>2, <3>3, <3>4
  <2> QED
    BY <1>1, <2>2, <2>5, <2>6
<1>5. SUFFICES ASSUME disk.there, disk'.meta # disk.meta
               PROVE  mem[h].snapMeta = disk.meta
  BY <1>1, <1>4 DEF StepOf
<1>6. disk.meta = IF s.persisted THEN s.snapMeta ELSE s.meta
  BY <1>5 DEF AppendTo, AppendBase
<1> QED
  BY <1>4, <1>5, <1>6 DEF VersionOf, PartOf

LEMMA RewriteIsStep ==
  ASSUME TypeOK, NEW h \in Sessions, NEW s, VersionOf(s, h), NEW keep \in BOOLEAN, NEW undone,
         RewriteAs(h, s, keep, undone)
  PROVE  StepOf(h)
<1>1. /\ disk' \in {Marked, Fenced(NextEpoch), Rewritten(s), disk}
      /\ \A g \in Sessions \ {h} : mem'[g] = mem[g]
      /\ disk.there = s.persisted
      /\ s.persisted => disk.msgs = s.snapMsgs /\ disk.meta = s.snapMeta
  BY WriteOutcome DEF RewriteAs, MayRewrite, RewriteBase, EpochIs
<1>2. disk.there => mem[h].snapMeta = disk.meta /\ mem[h].snapMsgs = disk.msgs
  BY <1>1 DEF VersionOf, PartOf
<1>3. disk.there => disk'.there
  <2>1. Rewritten(s).there
    BY DEF Rewritten, Fenced, TypeOK, Disk
  <2> QED
    BY <1>1, <2>1, MarkedContent
<1> QED
  BY <1>1, <1>2, <1>3 DEF StepOf

LEMMA SaveAsIsStep ==
  ASSUME TypeOK, NEW h \in Sessions, NEW s, VersionOf(s, h), NEW keep \in BOOLEAN,
         SaveAs(h, s, keep)
  PROVE  StepOf(h)
<1> DEFINE ready == [s EXCEPT !.meta = IF @ = 0 THEN 1 ELSE @]
<1>1. VersionOf(ready, h)
  BY DEF VersionOf, PartOf, Session
<1>2. AppendTo(h, ready, keep) \/ RewriteAs(h, ready, keep, ready)
  BY DEF SaveAs
<1> HIDE DEF ready
<1> QED
  BY <1>1, <1>2, AppendIsStep, RewriteIsStep

LEMMA CommitIsStep ==
  ASSUME TypeOK, NEW h \in Sessions, CommitHistoryRewrite(h)
  PROVE  StepOf(h)
<1>1. mem[h].open
  BY DEF CommitHistoryRewrite
<1>2. PICK n \in {0, Len(mem[h].msgs) - 1} \cap Nat : \E s \in Shortened(mem[h], n) :
        \/ RewriteAs(h, [s EXCEPT !.meta = IF @ = 0 THEN 1 ELSE @], TRUE, mem[h])
        \/ /\ ~disk.there
           /\ Write(h, {Marked}, Fenced(NextEpoch), [s EXCEPT !.epoch = @ + 1], mem[h])
  BY DEF CommitHistoryRewrite
<1>3. PICK s \in Shortened(mem[h], n) :
        \/ RewriteAs(h, [s EXCEPT !.meta = IF @ = 0 THEN 1 ELSE @], TRUE, mem[h])
        \/ /\ ~disk.there
           /\ Write(h, {Marked}, Fenced(NextEpoch), [s EXCEPT !.epoch = @ + 1], mem[h])
  BY <1>2
<1> DEFINE ready == [s EXCEPT !.meta = IF @ = 0 THEN 1 ELSE @]
           left == [s EXCEPT !.epoch = @ + 1]
<1>4. VersionOf(s, h)
  BY <1>1, ShortenedVersions
<1>5. VersionOf(ready, h)
  BY <1>4 DEF VersionOf, PartOf, Session
<1>6. \/ RewriteAs(h, ready, TRUE, mem[h])
      \/ ~disk.there /\ Write(h, {Marked}, Fenced(NextEpoch), left, mem[h])
  BY <1>3
<1> HIDE DEF ready, left
<1>7. CASE ~disk.there /\ Write(h, {Marked}, Fenced(NextEpoch), left, mem[h])
  <2>1. \A g \in Sessions \ {h} : mem'[g] = mem[g]
    BY <1>7, WriteOutcome
  <2> QED
    BY <1>7, <2>1 DEF StepOf
<1> QED
  BY <1>5, <1>6, <1>7, RewriteIsStep

LEMMA DeleteIsStep ==
  ASSUME TypeOK, NEW h \in Sessions, CliDelete(h) \/ ConfirmedDelete(h)
  PROVE  StepOf(h)
<1>1. /\ disk' \in {Marked, Fenced(NextEpoch), Gone(Fenced(NextEpoch)), disk}
      /\ \A g \in Sessions \ {h} : mem'[g] = mem[g]
  BY WriteOutcome DEF CliDelete, ConfirmedDelete, DeleteBy
<1>2. CASE disk' \in {Marked, Fenced(NextEpoch), disk}
  BY <1>1, <1>2, MarkedContent DEF StepOf
<1>3. CASE disk' = Gone(Fenced(NextEpoch))
  <2>1. NextEpoch \in Nat
    BY DEF NextEpoch, TypeOK, Disk
  <2>2. Fenced(NextEpoch) \in Disk
    BY <2>1, DiskTypes
  <2>3. disk'.there = FALSE
    BY <1>3, <2>2 DEF Gone, Disk
  <2> QED
    BY <1>1, <2>3 DEF StepOf
<1> QED
  BY <1>1, <1>2, <1>3

LEMMA NextIsStep ==
  ASSUME TypeOK, NEW h \in Sessions,
         \/ Load(h) \/ Invalidate(h) \/ Record(h) \/ SetMeta(h) \/ Save(h)
         \/ CommitHistoryRewrite(h) \/ NewSession(h)
         \/ CliDelete(h) \/ AskDelete(h) \/ ConfirmedDelete(h)
  PROVE  StepOf(h)
<1>1. mem[h] \in Session
  BY SessionTypes
<1>2. CASE disk' = disk /\ \E s : mem' = [mem EXCEPT ![h] = s]
  BY <1>2 DEF StepOf, TypeOK
<1>3. CASE SetMeta(h)
  <2> DEFINE s == [mem[h] EXCEPT !.meta = @ + 1]
  <2>1. mem[h].open /\ (SaveAs(h, s, TRUE) \/ (mem' = [mem EXCEPT ![h] = s] /\ UNCHANGED <<disk, crashes, erased>>))
    BY <1>3 DEF SetMeta
  <2>2. VersionOf(s, h)
    <3>1. mem[h].meta + 1 \in Nat /\ s = [mem[h] EXCEPT !.meta = mem[h].meta + 1]
      BY <1>1 DEF Session
    <3> HIDE DEF s
    <3> QED
      BY <1>1, <2>1, <3>1, WithMeta DEF VersionOf, PartOf
  <2> HIDE DEF s
  <2> QED
    BY <1>2, <2>1, <2>2, SaveAsIsStep
<1>4. CASE Save(h)
  BY <1>1, <1>4, SaveAsIsStep DEF Save, VersionOf, PartOf
<1>5. CASE NewSession(h)
  <2>1. PICK s \in Shortened(mem[h], 0) :
          \/ SaveAs(h, s, FALSE)
          \/ mem' = [mem EXCEPT ![h] = s] /\ UNCHANGED <<disk, crashes, erased>>
    BY <1>5 DEF NewSession
  <2>2. mem[h].open /\ 0 \in {0, Len(mem[h].msgs) - 1} \cap Nat
    BY <1>5 DEF NewSession
  <2>3. VersionOf(s, h)
    BY <2>2, ShortenedVersions
  <2> QED
    BY <1>2, <2>1, <2>3, SaveAsIsStep
<1>6. CASE CliDelete(h) \/ ConfirmedDelete(h)
  BY <1>6, DeleteIsStep
<1>7. CASE Load(h) \/ Invalidate(h) \/ AskDelete(h)
  <2>1. disk' = disk /\ \E s : mem' = [mem EXCEPT ![h] = s]
    BY <1>7 DEF Load, Invalidate, AskDelete
  <2> QED
    BY <1>2, <2>1
<1>8. CASE Record(h)
  <2>1. disk' = disk /\ \A g \in Sessions \ {h} : mem'[g] = mem[g]
    BY <1>8 DEF Record, TypeOK
  <2> QED
    BY <2>1 DEF StepOf
<1> QED
  BY <1>3, <1>4, <1>5, <1>6, <1>7, <1>8, CommitIsStep

\* Whoever drops turns from the file, or changes its metadata, had read what it
\* replaces (_validate_append_base and _validate_rewrite_base, manager.py).
THEOREM OverwritesAreSeen == Spec => NothingOverwrittenUnseen
<1> DEFINE grows == ToSet(disk.msgs) \subseteq ToSet(disk'.msgs)
           Seen == disk.there /\ disk'.there /\ ~(grows /\ disk'.meta = disk.meta) =>
             \E h \in Sessions : /\ \A g \in Sessions \ {h} : mem'[g] = mem[g]
                                 /\ mem[h].snapMeta = disk.meta
                                 /\ grows \/ mem[h].snapMsgs = disk.msgs
<1>1. ASSUME TypeOK, Next PROVE Seen
  <2>1. PICK h \in Sessions : StepOf(h)
    BY <1>1, NextIsStep DEF Next
  <2> QED
    BY <2>1 DEF StepOf
<1>2. TypeOK /\ [Next]_vars => [Seen]_vars
  BY <1>1
<1>3. Spec => [][Seen]_vars
  BY <1>2, StoreTypes, PTL DEF Spec
<1> QED
  BY <1>3 DEF NothingOverwrittenUnseen
-----------------------------------------------------------------------------
(* The file as a history in generations.                                    *)

\* new has the first n of old, and else nothing of it.
Common(old, new, n) ==
  /\ n <= Len(new)
  /\ \A i \in 1 .. n : new[i] = old[i]
  /\ \A j \in 1 .. Len(new), i \in 1 .. Len(old) : j > n => new[j] # old[i]

\* Continuing a history, entry by entry.
LEMMA ContinuesEntries ==
  ASSUME NEW S, NEW old \in Seq(S), NEW new \in Seq(S)
  PROVE  Log!Continues(old, new) <=> \E n \in 0 .. Len(old) : Common(old, new, n)
<1>1. PICK a \in Nat : a = Len(old)
  OBVIOUS
<1>2. PICK b \in Nat : b = Len(new)
  OBVIOUS
<1>3. SUFFICES ASSUME NEW n \in 0 .. a
               PROVE  /\ IsPrefix(SubSeq(old, 1, n), new)
                      /\ ToSet(SubSeq(new, n + 1, Len(new))) \cap ToSet(old) = {}
                      <=> Common(old, new, n)
  BY <1>1 DEF Log!Continues, Log!IsPrefix, IsPrefix, Log!ToSet, ToSet
<1> DEFINE f == SubSeq(old, 1, n)
           g == SubSeq(new, n + 1, b)
<1>4. f \in Seq(S) /\ Len(f) = n /\ \A i \in 1 .. n : f[i] = old[i]
  BY <1>1, StartEntries
<1>5. IsPrefix(f, new) <=> n <= b /\ \A i \in 1 .. n : new[i] = old[i]
  <2> HIDE DEF f
  <2>1. IsPrefix(f, new) <=> Len(f) <= Len(new) /\ \A i \in 1 .. Len(f) : new[i] = f[i]
    BY <1>4, PrefixEntries
  <2> QED
    BY <1>2, <1>4, <2>1
<1>6. n <= b => (ToSet(g) \cap ToSet(old) = {} <=>
                   \A j \in 1 .. b, i \in 1 .. a : j > n => new[j] # old[i])
  <2>1. SUFFICES ASSUME n <= b
                 PROVE  ToSet(g) \cap ToSet(old) = {} <=>
                          \A j \in 1 .. b, i \in 1 .. a : j > n => new[j] # old[i]
    OBVIOUS
  <2>2. n + 1 \in 1 .. Len(new) + 1 /\ b \in 0 .. Len(new)
    BY <1>2, <2>1
  <2>3. /\ g \in Seq(S) /\ (n + 1 <= b => Len(g) = b - (n + 1) + 1) /\ (n + 1 > b => Len(g) = 0)
        /\ \A i \in 1 .. b - (n + 1) + 1 : g[i] = new[(n + 1) + i - 1]
    BY <2>2, PartEntries
  <2>4. (b - (n + 1) + 1 = b - n) /\ \A i \in 1 .. b - n : (n + 1) + i - 1 = n + i
    OBVIOUS
  <2> HIDE DEF g
  <2>5. Len(g) = b - n /\ \A i \in 1 .. b - n : g[i] = new[n + i]
    BY <2>1, <2>3, <2>4
  <2>6. \A x : x \in ToSet(g) <=> \E j \in 1 .. b : j > n /\ x = new[j]
    <3> DOMAIN g = 1 .. b - n
      BY <2>3, <2>5, LenProperties
    <3>1. \A x : x \in ToSet(g) <=> \E i \in 1 .. b - n : x = g[i]
      BY DEF ToSet
    <3>2. ASSUME NEW i \in 1 .. b - n
          PROVE  n + i \in 1 .. b /\ n + i > n
      BY <2>1
    <3>3. ASSUME NEW j \in 1 .. b, j > n
          PROVE  j - n \in 1 .. b - n /\ new[j] = g[j - n]
      <4>1. j - n \in 1 .. b - n /\ n + (j - n) = j
        BY <2>1, <3>3
      <4> QED
        BY <2>5, <4>1
    <3>4. ASSUME NEW x, x \in ToSet(g)
          PROVE  \E j \in 1 .. b : j > n /\ x = new[j]
      <4>1. PICK i \in 1 .. b - n : x = g[i]
        BY <3>1, <3>4
      <4> QED
        BY <2>5, <3>2, <4>1
    <3>5. ASSUME NEW x, NEW j \in 1 .. b, j > n, x = new[j]
          PROVE  x \in ToSet(g)
      BY <3>1, <3>3, <3>5
    <3> QED
      BY <3>4, <3>5
  <2>7. \A x : x \in ToSet(old) <=> \E i \in 1 .. a : x = old[i]
    BY <1>1 DEF ToSet
  <2> QED
    BY <2>6, <2>7
<1> QED
  BY <1>2, <1>1, <1>5, <1>6 DEF Common

\* A history continues itself, and any history continues none.
LEMMA ContinuesSame ==
  ASSUME NEW S, NEW q \in Seq(S)
  PROVE  Log!Continues(q, q) /\ Log!Continues(q, <<>>) /\ Log!Continues(<<>>, q)
<1>1. PICK a \in Nat : a = Len(q)
  OBVIOUS
<1> DEFINE none == <<>>
<1>2. none \in Seq(S) /\ Len(none) = 0
  OBVIOUS
<1> HIDE DEF none
<1>3. Common(q, q, a) /\ a \in 0 .. Len(q)
  BY <1>1 DEF Common
<1>4. Common(q, none, 0) /\ 0 \in 0 .. Len(q)
  BY <1>1, <1>2 DEF Common
<1>5. Common(none, q, 0) /\ 0 \in 0 .. Len(none)
  BY <1>1, <1>2 DEF Common
<1>6. Log!Continues(q, q) /\ Log!Continues(q, none) /\ Log!Continues(none, q)
  BY <1>2, <1>3, <1>4, <1>5, ContinuesEntries
<1> QED
  BY <1>6 DEF none

\* So does one that goes on with something new.
LEMMA ContinuesAppended ==
  ASSUME NEW S, NEW old \in Seq(S), NEW new \in Seq(S), NEW t \in S,
         Log!Continues(old, new), t \notin ToSet(old)
  PROVE  Log!Continues(old, Append(new, t))
<1>1. PICK n \in 0 .. Len(old) : Common(old, new, n)
  BY ContinuesEntries
<1>2. PICK b \in Nat : b = Len(new)
  OBVIOUS
<1> DEFINE more == Append(new, t)
<1>3. /\ more \in Seq(S) /\ Len(more) = b + 1
      /\ \A i \in 1 .. b : more[i] = new[i]
      /\ more[b + 1] = t
  BY <1>2, AppendProperties
<1> HIDE DEF more
<1>4. \A i \in 1 .. Len(old) : t # old[i]
  BY DEF ToSet
<1>5. n <= b /\ \A i \in 1 .. n : i \in 1 .. b
  BY <1>1, <1>2 DEF Common
<1>6. \A j \in 1 .. b + 1 : j \in 1 .. b \/ j = b + 1
  OBVIOUS
<1>7. Common(old, more, n)
  <2>1. n <= Len(more)
    BY <1>3, <1>5
  <2>2. \A i \in 1 .. n : more[i] = old[i]
    BY <1>1, <1>3, <1>5 DEF Common
  <2>3. \A j \in 1 .. b + 1, i \in 1 .. Len(old) : j > n => more[j] # old[i]
    BY <1>1, <1>2, <1>3, <1>4, <1>6 DEF Common
  <2> QED
    BY <1>3, <2>1, <2>2, <2>3 DEF Common
<1>8. Log!Continues(old, more)
  BY <1>3, <1>7, ContinuesEntries
<1> QED
  BY <1>8 DEF more

\* And one that is cut short.
LEMMA ContinuesShortened ==
  ASSUME NEW S, NEW old \in Seq(S), NEW new \in Seq(S), NEW k \in 0 .. Len(new),
         Log!Continues(old, new)
  PROVE  Log!Continues(old, SubSeq(new, 1, k))
<1>1. PICK n \in 0 .. Len(old) : Common(old, new, n)
  BY ContinuesEntries
<1>2. PICK b \in Nat : b = Len(new)
  OBVIOUS
<1>3. PICK a \in Nat : a = Len(old)
  OBVIOUS
<1> DEFINE f == SubSeq(new, 1, k)
<1>4. f \in Seq(S) /\ Len(f) = k /\ \A i \in 1 .. k : f[i] = new[i]
  BY StartEntries
<1> HIDE DEF f
<1>5. \E m \in 0 .. Len(old) : Common(old, f, m)
  <2>1. CASE n <= k
    <3>1. \A i \in 1 .. n : i \in 1 .. k
      BY <2>1
    <3>2. \A i \in 1 .. k : i \in 1 .. b
      BY <1>2
    <3>3. Common(old, f, n)
      BY <1>1, <1>2, <1>4, <2>1, <3>1, <3>2 DEF Common
    <3> QED
      BY <3>3
  <2>2. CASE n > k
    <3>1. k \in 0 .. Len(old) /\ \A i \in 1 .. k : i \in 1 .. n
      BY <1>3, <2>2
    <3>2. Common(old, f, k)
      BY <1>1, <1>4, <3>1 DEF Common
    <3> QED
      BY <3>1, <3>2
  <2> QED
    BY <2>1, <2>2
<1>6. Log!Continues(old, f)
  BY <1>4, <1>5, ContinuesEntries
<1> QED
  BY <1>6 DEF f

\* A history is kept in itself, and in what is appended to one that has it.
LEMMA KeptSame ==
  ASSUME NEW S, NEW q \in Seq(S)
  PROVE  KeptIn(q, q) /\ KeptIn(<<>>, q)
<1>1. KeptIn(q, q)
  <2>1. [i \in DOMAIN q |-> i] \in [DOMAIN q -> DOMAIN q]
    OBVIOUS
  <2> QED
    BY <2>1 DEF KeptIn
<1>2. KeptIn(<<>>, q)
  <2>1. DOMAIN <<>> = {}
    OBVIOUS
  <2>2. [i \in {} |-> i] \in [{} -> DOMAIN q]
    OBVIOUS
  <2> QED
    BY <2>1, <2>2 DEF KeptIn
<1> QED
  BY <1>1, <1>2

\* When both are appended the same, and when only the one it is kept in is.
LEMMA KeptAppended ==
  ASSUME NEW S, NEW old \in Seq(S), NEW new \in Seq(S), NEW more \in Seq(S), KeptIn(old, new)
  PROVE  KeptIn(old, new \o more) /\ KeptIn(old \o more, new \o more)
<1>1. PICK a \in Nat : a = Len(old)
  OBVIOUS
<1>2. PICK b \in Nat : b = Len(new)
  OBVIOUS
<1>3. PICK c \in Nat : c = Len(more)
  OBVIOUS
<1>4. DOMAIN old = 1 .. a /\ DOMAIN new = 1 .. b
  BY <1>1, <1>2
<1>5. PICK at \in [1 .. a -> 1 .. b] :
        /\ \A i \in 1 .. a : new[at[i]] = old[i]
        /\ \A i, j \in 1 .. a : i < j => at[i] < at[j]
  BY <1>4 DEF KeptIn
<1> DEFINE m == old \o more
           l == new \o more
<1>6. /\ m \in Seq(S) /\ DOMAIN m = 1 .. a + c
      /\ \A i \in 1 .. a + c : m[i] = IF i <= a THEN old[i] ELSE more[i - a]
  BY <1>1, <1>3, ConcatProperties
<1>7. /\ l \in Seq(S) /\ DOMAIN l = 1 .. b + c
      /\ \A i \in 1 .. b + c : l[i] = IF i <= b THEN new[i] ELSE more[i - b]
  BY <1>2, <1>3, ConcatProperties
<1> HIDE DEF m, l
<1>8. KeptIn(old, l)
  <2>1. at \in [1 .. a -> 1 .. b + c] /\ \A i \in 1 .. a : l[at[i]] = old[i]
    <3>1. \A i \in 1 .. a : at[i] \in 1 .. b + c /\ at[i] <= b
      OBVIOUS
    <3> QED
      BY <1>5, <1>7, <3>1
  <2> QED
    BY <1>4, <1>5, <1>7, <2>1 DEF KeptIn
<1>9. KeptIn(m, l)
  <2> DEFINE to == [i \in 1 .. a + c |-> IF i <= a THEN at[i] ELSE (i - a) + b]
  <2>1. ASSUME NEW i \in 1 .. a + c
        PROVE  /\ to[i] \in 1 .. b + c /\ l[to[i]] = m[i]
               /\ i <= a => (to[i] = at[i] /\ i \in 1 .. a /\ at[i] \in 1 .. b)
               /\ i > a => to[i] = (i - a) + b
    <3>1. CASE i <= a
      <4>1. i \in 1 .. a
        BY <3>1
      <4>2. to[i] = at[i] /\ at[i] \in 1 .. b
        BY <3>1, <4>1
      <4>3. to[i] \in 1 .. b + c /\ to[i] <= b
        BY <4>2
      <4> HIDE DEF to
      <4>4. l[to[i]] = old[i]
        BY <1>5, <1>7, <4>1, <4>2, <4>3
      <4> QED
        BY <1>6, <3>1, <4>1, <4>2, <4>3, <4>4
    <3>2. CASE i > a
      <4>1. to[i] = (i - a) + b
        BY <3>2
      <4> HIDE DEF to
      <4>2. /\ to[i] \in 1 .. b + c /\ ~(to[i] <= b) /\ to[i] - b = i - a /\ ~(i <= a)
        BY <3>2, <4>1
      <4> QED
        BY <1>6, <1>7, <3>2, <4>1, <4>2
    <3> QED
      BY <3>1, <3>2
  <2>2. to \in [1 .. a + c -> 1 .. b + c]
    BY <2>1
  <2> HIDE DEF to
  <2>3. ASSUME NEW i \in 1 .. a + c, NEW j \in 1 .. a + c, i < j
        PROVE  to[i] < to[j]
    <3>1. CASE j <= a
      <4>1. i <= a
        BY <2>3, <3>1
      <4>2. to[i] = at[i] /\ i \in 1 .. a /\ to[j] = at[j] /\ j \in 1 .. a
        BY <2>1, <3>1, <4>1
      <4> QED
        BY <1>5, <2>3, <4>2
    <3>2. CASE i <= a /\ j > a
      BY <2>1, <3>2
    <3>3. CASE i > a
      BY <2>1, <2>3, <3>3
    <3> QED
      BY <3>1, <3>2, <3>3
  <2>4. to \in [DOMAIN m -> DOMAIN l]
    BY <1>6, <1>7, <2>2
  <2>5. \A i \in DOMAIN m : l[to[i]] = m[i]
    BY <1>6, <2>1
  <2>6. \A i, j \in DOMAIN m : i < j => to[i] < to[j]
    BY <1>6, <2>3
  <2> QED
    BY <2>4, <2>5, <2>6 DEF KeptIn
<1> QED
  BY <1>8, <1>9 DEF m, l

\* A state of the disk on the way of a write: the file has only grown, or the
\* next generation continues it.
Follows(d) ==
  /\ d \in Disk /\ (~d.there => d.msgs = <<>>)
  /\ \/ /\ d.epoch = disk.epoch /\ (disk.there => d.there)
        /\ \E more \in Seq(Turns) : d.msgs = disk.msgs \o more
     \/ d.epoch = NextEpoch /\ Log!Continues(disk.msgs, d.msgs)

\* The question for a deletion that s waits for is about what d has.
Asks(s, d) ==
  /\ s.askEpoch <= d.epoch
  /\ IF s.asking THEN s.open /\ (s.askEpoch = d.epoch => KeptIn(s.asked, d.msgs))
                 ELSE s.asked = <<>>

\* An object whose snapshot is that of a file d.
Believes(s, d) ==
  /\ s \in Session /\ Log!Continues(s.snapMsgs, s.msgs)
  /\ ~s.persisted => s.snapMsgs = <<>>
  /\ s.persisted /\ s.epoch = d.epoch => d.there /\ KeptIn(s.snapMsgs, d.msgs)
  /\ Asks(s, d)

SameQuestion(s, r) ==
  s.open = r.open /\ s.asking = r.asking /\ s.askEpoch = r.askEpoch /\ s.asked = r.asked

NoQuestion(s) == s.asking = FALSE /\ s.askEpoch = 0 /\ s.asked = <<>>

\* s is h with another history or metadata, and no other question.
Descends(s, h) ==
  /\ s \in Session /\ Log!Continues(s.snapMsgs, s.msgs)
  /\ s.persisted = mem[h].persisted /\ s.snapMsgs = mem[h].snapMsgs /\ s.epoch = mem[h].epoch
  /\ SameQuestion(s, mem[h]) \/ NoQuestion(s)

\* What the log of the file may do in a step.
LogStep == [Log!Next]_<<disk.epoch, disk.msgs, erased>>

LEMMA ClosedBelieves ==
  ASSUME NEW d, d.epoch \in Nat
  PROVE  Believes(Closed, d)
<1> DEFINE none == <<>>
<1>1. none \in Seq(Turns)
  OBVIOUS
<1>2. Log!Continues(none, none)
  BY <1>1, ContinuesSame
<1>3. /\ Closed \in Session /\ Closed.snapMsgs = none /\ Closed.msgs = none
      /\ Closed.persisted = FALSE
      /\ Closed.asking = FALSE /\ Closed.askEpoch = 0 /\ Closed.asked = none
  BY <1>1 DEF Closed, Session
<1> QED
  BY <1>2, <1>3 DEF Believes, Asks

\* What was in the file is in it after a write, unless that began a generation.
LEMMA KeptByWrite ==
  ASSUME HistoryInv, NEW d, Follows(d), NEW old \in Seq(Turns), d.epoch = disk.epoch,
         KeptIn(old, disk.msgs)
  PROVE  KeptIn(old, d.msgs)
<1>1. disk.epoch \in Nat /\ disk.msgs \in Seq(Turns)
  BY DEF HistoryInv, StoreInv, TypeOK, Disk
<1>2. PICK more \in Seq(Turns) : d.msgs = disk.msgs \o more
  BY <1>1 DEF Follows, NextEpoch
<1>3. PICK q \in Seq(Turns) : q = disk.msgs
  BY <1>1
<1>4. KeptIn(old, q \o more)
  BY <1>3, KeptAppended
<1> QED
  BY <1>2, <1>3, <1>4

\* The objects after a write that did not tell them.
LEMMA FollowsKeeps ==
  ASSUME HistoryInv, NEW d, Follows(d), NEW g \in Sessions, NEW s, Descends(s, g)
  PROVE  Believes(s, d)
<1>1. /\ TypeOK /\ NoFutureEpoch /\ SnapshotIsKept /\ AskedIsKept /\ HistoryContinues
      /\ disk.epoch \in Nat /\ d.epoch \in {disk.epoch, disk.epoch + 1}
  BY DEF HistoryInv, StoreInv, TypeOK, Disk, Follows, NextEpoch
<1>2. mem[g] \in Session
  BY <1>1, SessionTypes
<1>3. /\ mem[g].epoch \in Nat /\ mem[g].epoch <= disk.epoch
      /\ mem[g].askEpoch \in Nat /\ mem[g].askEpoch <= disk.epoch
      /\ mem[g].snapMsgs \in Seq(Turns) /\ mem[g].asked \in Seq(Turns)
  BY <1>1, <1>2 DEF NoFutureEpoch, AskedIsKept, Session
<1>4. ASSUME s.persisted, s.epoch = d.epoch
      PROVE  d.there /\ KeptIn(s.snapMsgs, d.msgs)
  <2>1. d.epoch = disk.epoch /\ mem[g].persisted /\ mem[g].epoch = disk.epoch
        /\ s.snapMsgs = mem[g].snapMsgs
    BY <1>1, <1>3, <1>4 DEF Descends
  <2>2. disk.there /\ KeptIn(mem[g].snapMsgs, disk.msgs)
    BY <1>1, <2>1 DEF SnapshotIsKept
  <2>3. d.there
    BY <1>1, <2>1, <2>2 DEF Follows, NextEpoch
  <2> QED
    BY <1>3, <2>1, <2>2, <2>3, KeptByWrite
<1>5. Asks(s, d)
  <2>1. CASE NoQuestion(s)
    BY <1>1, <2>1 DEF NoQuestion, Asks
  <2>2. CASE SameQuestion(s, mem[g])
    <3>1. mem[g].askEpoch <= d.epoch
      BY <1>1, <1>3
    <3>2. ASSUME mem[g].asking, mem[g].askEpoch = d.epoch
          PROVE  KeptIn(mem[g].asked, d.msgs)
      <4>1. d.epoch = disk.epoch
        BY <1>1, <1>3, <3>2
      <4>2. KeptIn(mem[g].asked, disk.msgs)
        BY <1>1, <3>2, <4>1 DEF AskedIsKept
      <4> QED
        BY <1>3, <4>1, <4>2, KeptByWrite
    <3>3. IF mem[g].asking THEN mem[g].open ELSE mem[g].asked = <<>>
      BY <1>1 DEF AskedIsKept
    <3> QED
      BY <2>2, <3>1, <3>2, <3>3 DEF SameQuestion, Asks
  <2> QED
    BY <2>1, <2>2 DEF Descends
<1>6. ~s.persisted => s.snapMsgs = <<>>
  BY <1>1 DEF Descends, HistoryContinues
<1> QED
  BY <1>4, <1>5, <1>6 DEF Believes, Descends

LEMMA ConcatPrefix ==
  ASSUME NEW S, NEW q \in Seq(S), NEW r \in Seq(S)
  PROVE  IsPrefix(q, q \o r)
<1>1. PICK a \in Nat : a = Len(q)
  OBVIOUS
<1>2. PICK b \in Nat : b = Len(r)
  OBVIOUS
<1> DEFINE l == q \o r
<1>3. /\ l \in Seq(S) /\ Len(l) = a + b
      /\ \A i \in 1 .. a + b : l[i] = IF i <= a THEN q[i] ELSE r[i - a]
  BY <1>1, <1>2, ConcatProperties
<1> HIDE DEF l
<1>4. a <= a + b /\ \A i \in 1 .. a : l[i] = q[i]
  BY <1>3
<1>5. IsPrefix(q, l)
  BY <1>1, <1>3, <1>4, PrefixEntries
<1> QED
  BY <1>5 DEF l

\* A step from file to file.
LEMMA FollowsIsStep ==
  ASSUME HistoryInv, StoreInv', Follows(disk'),
         erased' = erased \cup (ToSet(disk.msgs) \ ToSet(disk'.msgs))
  PROVE  LogStep
<1>1. /\ disk.epoch \in Nat /\ disk.msgs \in Seq(Turns)
      /\ ToSet(disk'.msgs) \cap erased' = {}
  BY DEF HistoryInv, StoreInv, TypeOK, Disk, ErasedStaysErased
<1>2. CASE disk'.epoch = disk.epoch
  <2>1. PICK more \in Seq(Turns) : disk'.msgs = disk.msgs \o more
    BY <1>1, <1>2 DEF Follows, NextEpoch
  <2>2. PICK q \in Seq(Turns) : q = disk.msgs
    BY <1>1
  <2>3. IsPrefix(q, q \o more) /\ ToSet(q) \subseteq ToSet(q \o more)
    BY ConcatElements, ConcatPrefix
  <2>4. erased' = erased
    BY <2>1, <2>2, <2>3
  <2>5. Log!Extend
    BY <1>2, <2>1, <2>2, <2>3, <2>4 DEF Log!Extend, Log!IsPrefix, IsPrefix
  <2> QED
    BY <1>1, <2>5 DEF LogStep, Log!Next, Log!ToSet, ToSet
<1>3. CASE disk'.epoch = NextEpoch /\ Log!Continues(disk.msgs, disk'.msgs)
  <2>1. Log!NextGeneration
    BY <1>3 DEF Log!NextGeneration, NextEpoch, Log!ToSet, ToSet
  <2> QED
    BY <1>1, <2>1 DEF LogStep, Log!Next, Log!ToSet, ToSet
<1> QED
  BY <1>2, <1>3 DEF Follows

LEMMA MarkedFollows ==
  ASSUME HistoryInv
  PROVE  Follows(disk) /\ Follows(Marked) /\ Follows(Fenced(disk.epoch)) /\ Follows(Fenced(NextEpoch))
<1>1. /\ TypeOK /\ NoFileIsEmpty /\ disk.epoch \in Nat /\ disk.msgs \in Seq(Turns)
      /\ NextEpoch \in Nat
  BY DEF HistoryInv, StoreInv, TypeOK, Disk, NextEpoch
<1>2. /\ Marked.there = disk.there
      /\ Fenced(disk.epoch).there = disk.there /\ Fenced(NextEpoch).there = disk.there
  BY <1>1 DEF TypeOK, Disk, Marked, Fenced
<1> DEFINE none == <<>>
<1>3. none \in Seq(Turns) /\ disk.msgs \o none = disk.msgs
  BY <1>1, ConcatEmptySeq
<1> HIDE DEF none
<1>4. Log!Continues(disk.msgs, disk.msgs)
  BY <1>1, ContinuesSame
<1> QED
  BY <1>1, <1>2, <1>3, <1>4, DiskTypes DEF Follows, NoFileIsEmpty

\* A write that goes from one such state of the disk to another.
LEMMA WriteFollows ==
  ASSUME HistoryInv, StoreInv', NEW h \in Sessions, NEW stages, NEW final, NEW session, NEW undone,
         \A d \in stages \cup {final} : Follows(d), Believes(session, final), Descends(undone, h),
         ToSet(session.snapMsgs) \subseteq ToSet(mem[h].msgs) \cup ToSet(mem[h].snapMsgs),
         Write(h, stages, final, session, undone), UNCHANGED unused
  PROVE  HistoryInv' /\ LogStep
<1>1. /\ StoreInv /\ TypeOK /\ UnusedIsFresh /\ HistoryContinues
  BY DEF HistoryInv, StoreInv
<1>2. Follows(disk') /\ disk'.epoch \in Nat
  <2>1. Follows(disk')
    BY MarkedFollows DEF Write
  <2> QED
    BY <2>1 DEF Follows, Disk
<1>3. erased' = erased \cup (ToSet(disk.msgs) \ ToSet(disk'.msgs))
  BY DEF Write
<1>4. PICK left : /\ mem' = [mem EXCEPT ![h] = left] /\ Believes(left, disk')
                  /\ ToSet(left.snapMsgs) \subseteq ToSet(mem[h].msgs) \cup ToSet(mem[h].snapMsgs)
  <2>1. CASE disk' = final /\ mem' = [mem EXCEPT ![h] = session]
    BY <2>1
  <2>2. CASE mem' = [mem EXCEPT ![h] = Closed]
    <3>1. ToSet(Closed.snapMsgs) = {}
      BY DEF Closed, ToSet
    <3>2. Believes(Closed, disk')
      BY <1>2, ClosedBelieves
    <3> QED
      BY <2>2, <3>1, <3>2
  <2>3. CASE mem' = [mem EXCEPT ![h] = undone]
    <3>1. undone.snapMsgs = mem[h].snapMsgs
      BY DEF Descends
    <3>2. Believes(undone, disk')
      BY <1>2, FollowsKeeps
    <3> QED
      BY <2>3, <3>1, <3>2
  <2> QED
    BY <2>1, <2>2, <2>3 DEF Write
<1>5. \A g \in Sessions : mem'[g] = IF g = h THEN left ELSE mem[g]
  BY <1>1, <1>4 DEF TypeOK
<1>6. \A g \in Sessions : Believes(mem'[g], disk')
  <2>1. \A g \in Sessions : Descends(mem[g], g)
    BY <1>1, SessionTypes DEF Descends, SameQuestion, HistoryContinues
  <2> QED
    BY <1>2, <1>4, <1>5, <2>1, FollowsKeeps
<1>7. \A g \in Sessions : unused \cap ToSet(mem'[g].snapMsgs) = {}
  BY <1>1, <1>4, <1>5 DEF UnusedIsFresh, HistoryContinues
<1>8. SnapshotIsKept' /\ HistoryContinues'
  BY <1>6, <1>7 DEF SnapshotIsKept, HistoryContinues, Believes
<1>9. AskedIsKept'
  BY <1>6 DEF AskedIsKept, Believes, Asks
<1>10. NoFileIsEmpty'
  BY <1>2 DEF NoFileIsEmpty, Follows
<1> QED
  BY <1>2, <1>3, <1>8, <1>9, <1>10, FollowsIsStep DEF HistoryInv

\* A step that only changes the object h.
LEMMA MemoryFollows ==
  ASSUME HistoryInv, StoreInv', NEW h \in Sessions, NEW s, Believes(s, disk),
         unused' \subseteq unused, unused' \cap ToSet(s.snapMsgs) = {},
         mem' = [mem EXCEPT ![h] = s], UNCHANGED <<disk, erased>>
  PROVE  HistoryInv' /\ LogStep
<1>1. TypeOK /\ SnapshotIsKept /\ AskedIsKept /\ HistoryContinues /\ NoFileIsEmpty
  BY DEF HistoryInv, StoreInv
<1>2. \A g \in Sessions : mem'[g] = IF g = h THEN s ELSE mem[g]
  BY <1>1 DEF TypeOK
<1>3. SnapshotIsKept'
  BY <1>1, <1>2 DEF SnapshotIsKept, Believes
<1>4. HistoryContinues'
  BY <1>1, <1>2 DEF HistoryContinues, Believes
<1>5. NoFileIsEmpty'
  BY <1>1 DEF NoFileIsEmpty
<1>6. AskedIsKept'
  BY <1>1, <1>2 DEF AskedIsKept, Believes, Asks
<1> QED
  BY <1>3, <1>4, <1>5, <1>6 DEF HistoryInv, LogStep

\* s is the open object h, changed in its metadata or cut short.
Continuation(s, h) ==
  VersionOf(s, h) /\ Log!Continues(s.snapMsgs, s.msgs) /\ SameQuestion(s, mem[h])

LEMMA ContinuationDescends ==
  ASSUME NEW h \in Sessions, NEW s, Continuation(s, h)
  PROVE  Descends(s, h)
BY DEF Continuation, VersionOf, PartOf, Descends

LEMMA MetaContinues ==
  ASSUME NEW h \in Sessions, NEW s, Continuation(s, h), NEW m \in Nat
  PROVE  Continuation([s EXCEPT !.meta = m], h)
<1>1. s \in Session
  BY DEF Continuation, VersionOf, PartOf
<1>2. PICK t : t = [s EXCEPT !.meta = m]
  OBVIOUS
<1>3. /\ t \in Session
      /\ \A f \in {"open", "msgs", "persisted", "snapMsgs", "snapMeta", "epoch",
                   "asking", "askEpoch", "asked"} : t[f] = s[f]
  BY <1>1, <1>2, WithMeta
<1>4. Continuation(t, h)
  BY <1>3 DEF Continuation, VersionOf, PartOf, SameQuestion
<1> QED
  BY <1>2, <1>4

LEMMA InitHistory == Init => HistoryInv
<1> SUFFICES ASSUME Init PROVE HistoryInv
  OBVIOUS
<1> DEFINE none == <<>>
<1>1. Log!Continues(none, none)
  <2>1. none \in Seq(Turns)
    OBVIOUS
  <2> QED
    BY <2>1, ContinuesSame
<1>2. \A h \in Sessions : mem[h].snapMsgs = none /\ mem[h].msgs = none /\ mem[h].persisted = FALSE
  BY DEF Init, Closed
<1>3. ToSet(none) = {}
  BY DEF ToSet
<1>4. HistoryContinues
  BY <1>1, <1>2, <1>3 DEF HistoryContinues
<1>5. SnapshotIsKept /\ NoFileIsEmpty
  BY <1>2 DEF SnapshotIsKept, NoFileIsEmpty, Init, Absent
<1>6. AskedIsKept
  <2>1. disk.epoch = 0 /\ \A h \in Sessions : NoQuestion(mem[h])
    BY DEF Init, Absent, Closed, NoQuestion
  <2> QED
    BY <2>1 DEF AskedIsKept, NoQuestion
<1> QED
  BY <1>4, <1>5, <1>6, InitStoreInv DEF HistoryInv

\* What an append adds to a snapshot, and a part of it to the file.
LEMMA UnsavedIsTheRest ==
  ASSUME NEW s \in Session, s.persisted \/ s.snapMsgs = <<>>, s.persisted => AppendOnly(s)
  PROVE  /\ Unsaved(s) \in Seq(Turns) /\ s.msgs = s.snapMsgs \o Unsaved(s)
         /\ SubSeq(Unsaved(s), 1, Len(Unsaved(s))) = Unsaved(s)
<1>1. s.msgs \in Seq(Turns) /\ s.snapMsgs \in Seq(Turns) /\ Unsaved(s) \in Seq(Turns)
  BY UnsavedElements DEF Session
<1>2. SubSeq(Unsaved(s), 1, Len(Unsaved(s))) = Unsaved(s)
  BY <1>1, SubSeqFull
<1>3. PICK q \in Seq(Turns) : q = s.msgs
  BY <1>1
<1>4. PICK p \in Seq(Turns) : p = s.snapMsgs
  BY <1>1
<1>5. CASE s.persisted
  <2>1. IsPrefix(p, q) /\ Unsaved(s) = SubSeq(q, Len(p) + 1, Len(q))
    BY <1>3, <1>4, <1>5 DEF AppendOnly, Unsaved
  <2>2. Len(p) \in Nat /\ Len(q) \in Nat /\ Len(p) <= Len(q) /\ SubSeq(p, 1, Len(p)) = SubSeq(q, 1, Len(p))
    BY <2>1 DEF IsPrefix
  <2>3. p = SubSeq(q, 1, Len(p))
    BY <2>2, SubSeqFull
  <2>4. /\ 1 \in 1 .. Len(q) + 1 /\ Len(p) \in 1 - 1 .. Len(q) /\ Len(q) \in Len(p) .. Len(q)
    BY <2>2
  <2>5. SubSeq(q, 1, Len(p)) \o SubSeq(q, Len(p) + 1, Len(q)) = SubSeq(q, 1, Len(q))
    BY <2>4, ConcatAdjacentSubSeq
  <2> QED
    BY <1>1, <1>2, <1>3, <1>4, <2>1, <2>3, <2>5, SubSeqFull
<1>6. CASE ~s.persisted
  <2>1. Unsaved(s) = q /\ p = <<>>
    BY <1>3, <1>4, <1>6, SubSeqFull DEF Unsaved
  <2>2. <<>> \o q = q
    BY ConcatEmptySeq
  <2> QED
    BY <1>1, <1>2, <1>3, <1>4, <2>1, <2>2
<1> QED
  BY <1>5, <1>6

LEMMA GrownFollows ==
  ASSUME HistoryInv, NEW s \in Session, NEW n \in 0 .. Len(Unsaved(s)), NEW meta \in Nat,
         NEW t \in BOOLEAN
  PROVE  /\ Follows(Grown(s, n, meta, t)) /\ Grown(s, n, meta, t).there
         /\ Grown(s, n, meta, t).msgs = disk.msgs \o SubSeq(Unsaved(s), 1, n)
<1> DEFINE part == SubSeq(Unsaved(s), 1, n)
           base == Fenced(disk.epoch)
<1>1. TypeOK /\ disk.epoch \in Nat /\ disk.msgs \in Seq(Turns) /\ base \in Disk
  BY DiskTypes DEF HistoryInv, StoreInv, TypeOK, Disk
<1>2. part \in Seq(Turns)
  <2>1. Unsaved(s) \in Seq(Turns)
    BY UnsavedElements
  <2>2. 1 \in 1 .. Len(Unsaved(s)) + 1
    BY <2>1
  <2> QED
    BY <2>1, <2>2, PartElements
<1>3. Grown(s, n, meta, t) = [base EXCEPT !.there = TRUE, !.msgs = disk.msgs \o part,
                                          !.meta = meta, !.torn = t]
  BY DEF Grown
<1>4. Grown(s, n, meta, t) \in Disk /\ Grown(s, n, meta, t).epoch = disk.epoch
  BY <1>1, GrownElements
<1> HIDE DEF part, base
<1>5. Grown(s, n, meta, t).there /\ Grown(s, n, meta, t).msgs = disk.msgs \o part
  BY <1>1, <1>3 DEF Disk
<1> QED
  BY <1>2, <1>4, <1>5 DEF Follows, part

\* What save leaves of the object.
LEMMA SavedBelieves ==
  ASSUME NEW s \in Session, NEW e \in Nat, NEW keep \in BOOLEAN, NEW d,
         d.there /\ KeptIn(s.msgs, d.msgs), d.epoch \in Nat, Asks(s, d)
  PROVE  /\ Believes(Saved(s, e, keep), d)
         /\ ToSet(Saved(s, e, keep).snapMsgs) \subseteq ToSet(s.msgs)
<1>1. CASE ~keep
  <2>1. ToSet(Closed.snapMsgs) = {}
    BY DEF Closed, ToSet
  <2> QED
    BY <1>1, <2>1, ClosedBelieves DEF Saved
<1>2. CASE keep
  <2>1. Log!Continues(s.msgs, s.msgs)
    <3>1. s.msgs \in Seq(Turns)
      BY DEF Session
    <3> QED
      BY <3>1, ContinuesSame
  <2>2. /\ Saved(s, e, keep) \in Session /\ Saved(s, e, keep).msgs = s.msgs
        /\ Saved(s, e, keep).snapMsgs = s.msgs /\ Saved(s, e, keep).persisted
    BY <1>2 DEF Saved, Session
  <2>3. SameQuestion(Saved(s, e, keep), s)
    BY <1>2 DEF Saved, Session, SameQuestion
  <2>4. Asks(Saved(s, e, keep), d)
    BY <2>3 DEF SameQuestion, Asks
  <2> QED
    BY <2>1, <2>2, <2>4 DEF Believes
<1> QED
  BY <1>1, <1>2

LEMMA AppendFollows ==
  ASSUME HistoryInv, StoreInv', NEW h \in Sessions, NEW s, Continuation(s, h),
         s.persisted => AppendOnly(s), NEW keep \in BOOLEAN, AppendTo(h, s, keep), UNCHANGED unused
  PROVE  HistoryInv' /\ LogStep
<1> DEFINE final == Grown(s, Len(Unsaved(s)), s.meta, FALSE)
           left == Saved(s, disk.epoch, keep)
<1>1. /\ TypeOK /\ SnapshotIsKept /\ HistoryContinues
      /\ disk.epoch \in Nat /\ disk.meta \in Nat /\ disk.msgs \in Seq(Turns)
  BY DEF HistoryInv, StoreInv, TypeOK, Disk
<1>2. EpochIs(s.epoch) /\ Write(h, PartlyGrown(s), final, left, s)
  BY DEF AppendTo
<1>3. /\ s \in Session /\ s.meta \in Nat /\ s.msgs \in Seq(Turns) /\ s.snapMsgs \in Seq(Turns)
      /\ ToSet(s.msgs) \subseteq ToSet(mem[h].msgs)
      /\ s.persisted = mem[h].persisted /\ s.snapMsgs = mem[h].snapMsgs /\ mem[h].epoch = disk.epoch
  BY <1>2 DEF Continuation, VersionOf, PartOf, Session, EpochIs
<1>4. s.persisted \/ s.snapMsgs = <<>>
  BY <1>1, <1>3 DEF HistoryContinues
<1>5. /\ Unsaved(s) \in Seq(Turns) /\ s.msgs = s.snapMsgs \o Unsaved(s)
      /\ SubSeq(Unsaved(s), 1, Len(Unsaved(s))) = Unsaved(s)
  BY <1>3, <1>4, UnsavedIsTheRest
<1>6. KeptIn(s.snapMsgs, disk.msgs)
  <2>1. CASE s.persisted
    BY <1>1, <1>3, <2>1 DEF SnapshotIsKept
  <2>2. CASE ~s.persisted
    <3>1. KeptIn(<<>>, disk.msgs)
      BY <1>1, KeptSame
    <3> QED
      BY <1>4, <2>2, <3>1
  <2> QED
    BY <2>1, <2>2
<1>7. KeptIn(s.msgs, disk.msgs \o Unsaved(s))
  <2>1. PICK p \in Seq(Turns) : p = s.snapMsgs
    BY <1>3
  <2>2. PICK q \in Seq(Turns) : q = disk.msgs
    BY <1>1
  <2>3. PICK r \in Seq(Turns) : r = Unsaved(s)
    BY <1>5
  <2>4. KeptIn(p \o r, q \o r)
    BY <1>6, <2>1, <2>2, KeptAppended
  <2> QED
    BY <1>5, <2>1, <2>2, <2>3, <2>4
<1>8. Len(Unsaved(s)) \in 0 .. Len(Unsaved(s)) /\ FALSE \in BOOLEAN
  BY <1>5
<1>9. Follows(final) /\ final.there /\ final.msgs = disk.msgs \o Unsaved(s)
  BY <1>3, <1>5, <1>8, GrownFollows
<1>10. \A d \in PartlyGrown(s) : Follows(d)
  <2>1. 0 \in 0 .. Len(Unsaved(s)) /\ 0 .. Len(Unsaved(s)) - 1 \subseteq 0 .. Len(Unsaved(s))
    BY <1>5
  <2>2. \A t \in BOOLEAN : Follows(Grown(s, 0, disk.meta, t))
    BY <1>1, <1>3, <2>1, GrownFollows
  <2>3. \A n \in 0 .. Len(Unsaved(s)) - 1, t \in BOOLEAN : Follows(Grown(s, n, s.meta, t))
    BY <1>3, <2>1, GrownFollows
  <2> DEFINE A == {Marked, Fenced(disk.epoch), Grown(s, Len(Unsaved(s)), s.meta, FALSE)}
             B == {Grown(s, 0, disk.meta, t) : t \in BOOLEAN}
             C == {Grown(s, n, s.meta, t) : n \in 0 .. Len(Unsaved(s)) - 1, t \in BOOLEAN}
  <2>4. \A d \in A : Follows(d)
    BY <1>9, MarkedFollows
  <2>5. (\A d \in B : Follows(d)) /\ \A d \in C : Follows(d)
    BY <2>2, <2>3
  <2>6. PartlyGrown(s) = A \cup B \cup C
    BY DEF PartlyGrown
  <2> HIDE DEF A, B, C
  <2> QED
    BY <2>4, <2>5, <2>6
<1>11. Descends(s, h)
  BY ContinuationDescends
<1> HIDE DEF final
<1>12. Asks(s, final) /\ final.epoch \in Nat
  BY <1>9, <1>11, FollowsKeeps DEF Believes, Follows, Disk
<1>13. Believes(left, final) /\ ToSet(left.snapMsgs) \subseteq ToSet(s.msgs)
  BY <1>1, <1>3, <1>7, <1>9, <1>12, SavedBelieves
<1> HIDE DEF left
<1>14. \A d \in PartlyGrown(s) \cup {final} : Follows(d)
  BY <1>9, <1>10
<1> QED
  BY <1>2, <1>3, <1>11, <1>13, <1>14, WriteFollows

LEMMA RewriteFollows ==
  ASSUME HistoryInv, StoreInv', NEW h \in Sessions, NEW s, Continuation(s, h),
         NEW keep \in BOOLEAN, NEW undone, Continuation(undone, h),
         RewriteAs(h, s, keep, undone), UNCHANGED unused
  PROVE  HistoryInv' /\ LogStep
<1> DEFINE stages == {Marked, Fenced(NextEpoch)}
           final == Rewritten(s)
           left == Saved(s, NextEpoch, keep)
<1>1. /\ TypeOK /\ HistoryContinues /\ NoFileIsEmpty
      /\ disk.epoch \in Nat /\ NextEpoch \in Nat
  BY DEF HistoryInv, StoreInv, TypeOK, Disk, NextEpoch
<1>2. MayRewrite(s) /\ Write(h, stages, final, left, undone)
  BY DEF RewriteAs
<1>3. /\ s \in Session /\ s.meta \in Nat /\ s.msgs \in Seq(Turns)
      /\ ToSet(s.msgs) \subseteq ToSet(mem[h].msgs) /\ Log!Continues(s.snapMsgs, s.msgs)
      /\ s.persisted = mem[h].persisted /\ s.snapMsgs = mem[h].snapMsgs
  BY DEF Continuation, VersionOf, PartOf, Session
<1>4. disk.msgs = s.snapMsgs
  BY <1>1, <1>2, <1>3 DEF MayRewrite, RewriteBase, HistoryContinues, NoFileIsEmpty
<1>5. Fenced(NextEpoch) \in Disk /\ Fenced(NextEpoch).epoch = NextEpoch
  BY <1>1, DiskTypes
<1>6. final \in Disk /\ final.epoch = NextEpoch /\ final.msgs = s.msgs /\ final.there
  BY <1>3, <1>5 DEF Disk, Rewritten
<1>7. KeptIn(s.msgs, s.msgs)
  BY <1>3, KeptSame
<1> HIDE DEF final
<1>8. Follows(final)
  BY <1>3, <1>4, <1>6 DEF Follows
<1>9. Descends(undone, h) /\ Asks(s, final)
  BY <1>8, ContinuationDescends, FollowsKeeps DEF Believes
<1>10. Believes(left, final) /\ ToSet(left.snapMsgs) \subseteq ToSet(s.msgs)
  BY <1>1, <1>3, <1>6, <1>7, <1>9, SavedBelieves
<1> HIDE DEF left
<1>11. \A d \in stages \cup {final} : Follows(d)
  BY <1>8, MarkedFollows
<1> QED
  BY <1>2, <1>3, <1>9, <1>10, <1>11, WriteFollows

LEMMA SaveAsFollows ==
  ASSUME HistoryInv, StoreInv', NEW h \in Sessions, NEW s, Continuation(s, h),
         NEW keep \in BOOLEAN, SaveAs(h, s, keep), UNCHANGED unused
  PROVE  HistoryInv' /\ LogStep
<1> DEFINE ready == [s EXCEPT !.meta = IF @ = 0 THEN 1 ELSE @]
<1>1. Continuation(ready, h)
  <2>1. s \in Session
    BY DEF Continuation, VersionOf, PartOf
  <2>2. (IF s.meta = 0 THEN 1 ELSE s.meta) \in Nat
    BY <2>1 DEF Session
  <2> QED
    BY <2>2, MetaContinues
<1>2. \/ RewriteAs(h, ready, keep, ready)
      \/ AppendTo(h, ready, keep) /\ (s.persisted => AppendOnly(s))
  BY DEF SaveAs
<1>3. /\ ready.persisted = s.persisted
      /\ ready.msgs = s.msgs /\ ready.snapMsgs = s.snapMsgs
  BY DEF Continuation, VersionOf, PartOf, Session
<1>4. AppendOnly(s) => AppendOnly(ready)
  BY <1>3 DEF AppendOnly
<1> HIDE DEF ready
<1> QED
  BY <1>1, <1>2, <1>3, <1>4, AppendFollows, RewriteFollows

LEMMA DeleteByFollows ==
  ASSUME HistoryInv, StoreInv', NEW h \in Sessions, DeleteBy(h), UNCHANGED unused
  PROVE  HistoryInv' /\ LogStep
<1> DEFINE stages == {Marked, Fenced(NextEpoch)}
           final == Gone(Fenced(NextEpoch))
           left == NotAsking(mem[h])
<1>1. /\ TypeOK /\ HistoryContinues
      /\ disk.epoch \in Nat /\ NextEpoch \in Nat /\ disk.msgs \in Seq(Turns)
  BY DEF HistoryInv, StoreInv, TypeOK, Disk, NextEpoch
<1>2. Fenced(NextEpoch) \in Disk /\ Fenced(NextEpoch).epoch = NextEpoch
  BY <1>1, DiskTypes
<1>3. final \in Disk /\ final.epoch = NextEpoch /\ final.msgs = <<>>
  BY <1>2, GoneTypes
<1>4. Descends(left, h)
  BY <1>1, NotAskingTypes DEF PartOf, Descends, NoQuestion, HistoryContinues
<1>5. Write(h, stages, final, left, left)
  BY DEF DeleteBy
<1> HIDE DEF final, left
<1>6. Log!Continues(disk.msgs, <<>>)
  BY <1>1, ContinuesSame
<1>7. Follows(final)
  BY <1>3, <1>6 DEF Follows
<1>8. Believes(left, final) /\ left.snapMsgs = mem[h].snapMsgs
  BY <1>4, <1>7, FollowsKeeps DEF Descends
<1>9. \A d \in stages \cup {final} : Follows(d)
  BY <1>7, MarkedFollows
<1>10. ToSet(left.snapMsgs) \subseteq ToSet(mem[h].msgs) \cup ToSet(mem[h].snapMsgs)
  BY <1>8
<1> QED
  BY <1>4, <1>5, <1>8, <1>9, <1>10, WriteFollows

\* What is in memory is such a continuation, also with other metadata.
LEMMA ObjectsContinue ==
  ASSUME HistoryInv, NEW h \in Sessions, mem[h].open
  PROVE  /\ mem[h] \in Session /\ Continuation(mem[h], h)
         /\ Continuation([mem[h] EXCEPT !.meta = @ + 1], h)
<1>1. mem[h] \in Session /\ HistoryContinues
  BY SessionTypes DEF HistoryInv, StoreInv
<1>2. Continuation(mem[h], h)
  BY <1>1 DEF Continuation, VersionOf, PartOf, HistoryContinues, SameQuestion
<1>3. mem[h].meta + 1 \in Nat
  BY <1>1 DEF Session
<1> QED
  BY <1>1, <1>2, <1>3, MetaContinues

LEMMA ShortenedContinues ==
  ASSUME HistoryInv, NEW h \in Sessions, mem[h].open,
         NEW n \in {0, Len(mem[h].msgs) - 1} \cap Nat, NEW s \in Shortened(mem[h], n)
  PROVE  Continuation(s, h)
<1>1. /\ TypeOK /\ mem[h] \in Session /\ mem[h].msgs \in Seq(Turns) /\ mem[h].meta \in Nat
      /\ mem[h].snapMsgs \in Seq(Turns) /\ Log!Continues(mem[h].snapMsgs, mem[h].msgs)
  BY SessionTypes DEF Session, HistoryInv, StoreInv, HistoryContinues
<1>2. VersionOf(s, h)
  BY <1>1, ShortenedVersions
<1>3. n \in 0 .. Len(mem[h].msgs)
  BY <1>1
<1>4. s.msgs = SubSeq(mem[h].msgs, 1, n) /\ SameQuestion(s, mem[h])
  <2>1. PICK m \in mem[h].meta .. mem[h].meta + 1 :
          s = [mem[h] EXCEPT !.msgs = SubSeq(mem[h].msgs, 1, n), !.meta = m]
    BY Zenon DEF Shortened
  <2> QED
    BY <1>1, <2>1 DEF SameQuestion, Session
<1>5. PICK old \in Seq(Turns) : old = mem[h].snapMsgs
  BY <1>1
<1>6. PICK new \in Seq(Turns) : new = mem[h].msgs
  BY <1>1
<1>7. Log!Continues(old, SubSeq(new, 1, n))
  BY <1>1, <1>3, <1>5, <1>6, ContinuesShortened
<1> QED
  BY <1>2, <1>4, <1>5, <1>6, <1>7 DEF Continuation, VersionOf, PartOf

\* Such an object in memory, not written.
LEMMA ContinuationFollows ==
  ASSUME HistoryInv, StoreInv', NEW h \in Sessions, NEW s, Continuation(s, h),
         mem' = [mem EXCEPT ![h] = s], UNCHANGED <<disk, unused, erased>>
  PROVE  HistoryInv' /\ LogStep
<1>1. Descends(s, h)
  BY ContinuationDescends
<1>2. Believes(s, disk)
  BY <1>1, MarkedFollows, FollowsKeeps
<1>3. unused \cap ToSet(s.snapMsgs) = {}
  BY <1>1 DEF HistoryInv, HistoryContinues, Descends
<1> QED
  BY <1>2, <1>3, MemoryFollows

LEMMA LoadFollows ==
  ASSUME HistoryInv, StoreInv', NEW h \in Sessions, Load(h)
  PROVE  HistoryInv' /\ LogStep
<1>1. TypeOK /\ UnusedIsFresh /\ disk \in Disk /\ disk.msgs \in Seq(Turns)
  BY DEF HistoryInv, StoreInv, TypeOK, Disk
<1>2. Closed \in Session
  BY <1>1, SessionTypes
<1>3. Closed.asking = FALSE /\ Closed.askEpoch = 0 /\ Closed.asked = <<>> /\ disk.epoch \in Nat
  BY <1>1 DEF Closed, Disk
<1>4. \E s \in Session : mem' = [mem EXCEPT ![h] = s] /\ Believes(s, disk)
                         /\ unused \cap ToSet(s.snapMsgs) = {}
  <2>1. CASE disk.there
    <3> DEFINE s == [Closed EXCEPT !.open = TRUE, !.msgs = disk.msgs, !.meta = disk.meta,
                       !.persisted = TRUE, !.snapMsgs = disk.msgs, !.snapMeta = disk.meta,
                       !.epoch = disk.epoch, !.rewrite = disk.torn]
    <3>1. /\ s \in Session /\ s.msgs = disk.msgs /\ s.snapMsgs = disk.msgs /\ s.persisted
          /\ s.asking = Closed.asking /\ s.askEpoch = Closed.askEpoch /\ s.asked = Closed.asked
      BY <1>1, <1>2 DEF Session, Disk
    <3>2. mem' = [mem EXCEPT ![h] = s]
      BY <2>1 DEF Load
    <3> HIDE DEF s
    <3>3. Log!Continues(disk.msgs, disk.msgs) /\ KeptIn(disk.msgs, disk.msgs)
      BY <1>1, ContinuesSame, KeptSame
    <3>4. Asks(s, disk)
      BY <1>3, <3>1 DEF Asks
    <3>5. Believes(s, disk)
      BY <2>1, <3>1, <3>3, <3>4 DEF Believes
    <3>6. unused \cap ToSet(s.snapMsgs) = {}
      BY <1>1, <3>1 DEF UnusedIsFresh
    <3> QED
      BY <3>1, <3>2, <3>5, <3>6
  <2>2. CASE ~disk.there
    <3> DEFINE s == [Closed EXCEPT !.open = TRUE, !.meta = 1, !.epoch = disk.epoch]
               none == <<>>
    <3>1. /\ s \in Session /\ s.msgs = none /\ s.snapMsgs = none /\ s.persisted = FALSE
          /\ s.asking = Closed.asking /\ s.askEpoch = Closed.askEpoch /\ s.asked = Closed.asked
      <4>1. Closed.msgs = none /\ Closed.snapMsgs = none /\ Closed.persisted = FALSE
        BY DEF Closed
      <4> HIDE DEF none
      <4> QED
        BY <1>1, <1>2, <4>1 DEF Session, Disk
    <3>2. mem' = [mem EXCEPT ![h] = s]
      BY <2>2 DEF Load
    <3> HIDE DEF s
    <3>3. none \in Seq(Turns) /\ ToSet(none) = {}
      BY DEF ToSet
    <3>4. Log!Continues(none, none)
      BY <3>3, ContinuesSame
    <3>5. Asks(s, disk)
      BY <1>3, <3>1 DEF Asks
    <3>6. Believes(s, disk)
      BY <3>1, <3>4, <3>5 DEF Believes
    <3>7. unused \cap ToSet(s.snapMsgs) = {}
      BY <3>1, <3>3
    <3> QED
      BY <3>1, <3>2, <3>6, <3>7
  <2> QED
    BY <2>1, <2>2
<1>5. UNCHANGED <<disk, unused, erased>>
  BY DEF Load
<1> QED
  BY <1>4, <1>5, MemoryFollows

LEMMA RecordFollows ==
  ASSUME HistoryInv, StoreInv', NEW h \in Sessions, Record(h)
  PROVE  HistoryInv' /\ LogStep
<1>1. /\ TypeOK /\ HistoryContinues /\ SnapshotIsKept /\ mem[h] \in Session
      /\ mem[h].msgs \in Seq(Turns) /\ mem[h].snapMsgs \in Seq(Turns)
  BY SessionTypes DEF HistoryInv, StoreInv, Session
<1>2. PICK t \in unused : /\ mem' = [mem EXCEPT ![h].msgs = Append(@, t)]
                          /\ unused' = unused \ {t}
  BY DEF Record
<1>3. t \in Turns /\ t \notin ToSet(mem[h].snapMsgs)
  BY <1>1, <1>2 DEF TypeOK, HistoryContinues
<1>4. PICK old \in Seq(Turns) : old = mem[h].snapMsgs
  BY <1>1
<1>5. PICK new \in Seq(Turns) : new = mem[h].msgs
  BY <1>1
<1> DEFINE q == Append(new, t)
           s == [mem[h] EXCEPT !.msgs = q]
<1>6. q \in Seq(Turns) /\ Log!Continues(old, q)
  <2>1. Log!Continues(old, new)
    BY <1>1, <1>4, <1>5 DEF HistoryContinues
  <2> QED
    BY <1>3, <1>4, <1>5, <2>1, ContinuesAppended, AppendElements
<1>7. mem' = [mem EXCEPT ![h] = s]
  BY <1>1, <1>2, <1>5 DEF TypeOK
<1> HIDE DEF q
<1>8. /\ s \in Session /\ s.epoch = mem[h].epoch /\ s.msgs = q /\ s.snapMsgs = old
      /\ s.persisted = mem[h].persisted /\ SameQuestion(s, mem[h])
  BY <1>1, <1>4, <1>6 DEF Session, SameQuestion
<1> HIDE DEF s
<1>9. Descends(s, h)
  BY <1>4, <1>6, <1>8 DEF Descends
<1>10. Believes(s, disk)
  BY <1>9, MarkedFollows, FollowsKeeps
<1>11. Believes(s, disk) /\ unused' \subseteq unused /\ unused' \cap ToSet(s.snapMsgs) = {}
  BY <1>1, <1>2, <1>4, <1>8, <1>10 DEF HistoryContinues
<1>12. UNCHANGED <<disk, erased>>
  BY DEF Record
<1> QED
  BY <1>7, <1>11, <1>12, MemoryFollows

LEMMA CommitFollows ==
  ASSUME HistoryInv, StoreInv', NEW h \in Sessions, CommitHistoryRewrite(h)
  PROVE  HistoryInv' /\ LogStep
<1>1. /\ TypeOK /\ HistoryContinues /\ disk.epoch \in Nat /\ NextEpoch \in Nat
      /\ mem[h].open /\ UNCHANGED unused
  BY DEF HistoryInv, StoreInv, TypeOK, Disk, NextEpoch, CommitHistoryRewrite
<1>2. PICK n \in {0, Len(mem[h].msgs) - 1} \cap Nat : \E s \in Shortened(mem[h], n) :
        \/ RewriteAs(h, [s EXCEPT !.meta = IF @ = 0 THEN 1 ELSE @], TRUE, mem[h])
        \/ /\ ~s.persisted
           /\ Write(h, {Marked}, Fenced(NextEpoch), [s EXCEPT !.epoch = @ + 1], mem[h])
  BY DEF CommitHistoryRewrite
<1>3. PICK s \in Shortened(mem[h], n) :
        \/ RewriteAs(h, [s EXCEPT !.meta = IF @ = 0 THEN 1 ELSE @], TRUE, mem[h])
        \/ /\ ~s.persisted
           /\ Write(h, {Marked}, Fenced(NextEpoch), [s EXCEPT !.epoch = @ + 1], mem[h])
  BY <1>2
<1>4. Continuation(s, h)
  BY <1>1, ShortenedContinues
<1>5. CASE RewriteAs(h, [s EXCEPT !.meta = IF @ = 0 THEN 1 ELSE @], TRUE, mem[h])
  <2> DEFINE ready == [s EXCEPT !.meta = IF @ = 0 THEN 1 ELSE @]
  <2>1. Continuation(ready, h) /\ Continuation(mem[h], h)
    <3>1. s \in Session
      BY <1>4 DEF Continuation, VersionOf, PartOf
    <3>2. (IF s.meta = 0 THEN 1 ELSE s.meta) \in Nat
      BY <3>1 DEF Session
    <3> QED
      BY <1>1, <1>4, <3>2, MetaContinues, ObjectsContinue
  <2>2. RewriteAs(h, ready, TRUE, mem[h])
    BY <1>5
  <2> HIDE DEF ready
  <2> QED
    BY <1>1, <2>1, <2>2, RewriteFollows
<1>6. CASE /\ ~s.persisted
           /\ Write(h, {Marked}, Fenced(NextEpoch), [s EXCEPT !.epoch = @ + 1], mem[h])
  <2> DEFINE left == [s EXCEPT !.epoch = @ + 1]
  <2>1. /\ left \in Session /\ left.msgs = s.msgs /\ left.snapMsgs = s.snapMsgs
        /\ left.persisted = s.persisted /\ SameQuestion(left, s)
    <3>1. s \in Session /\ s.epoch + 1 \in Nat
      BY <1>4 DEF Continuation, VersionOf, PartOf, Session
    <3>2. left = [s EXCEPT !.epoch = s.epoch + 1]
      OBVIOUS
    <3> QED
      BY <3>1, <3>2, WithEpoch DEF SameQuestion
  <2>2. Write(h, {Marked}, Fenced(NextEpoch), left, mem[h])
    BY <1>6
  <2> HIDE DEF left
  <2>3. Descends(s, h) /\ Descends(mem[h], h)
    BY <1>1, <1>4, ContinuationDescends, ObjectsContinue
  <2>4. Asks(s, Fenced(NextEpoch))
    BY <2>3, MarkedFollows, FollowsKeeps DEF Believes
  <2>5. Asks(left, Fenced(NextEpoch))
    BY <2>1, <2>4 DEF Asks, SameQuestion
  <2>6. Believes(left, Fenced(NextEpoch)) /\ left.snapMsgs = mem[h].snapMsgs
    BY <1>1, <1>4, <1>6, <2>1, <2>5 DEF Believes, Continuation, VersionOf, PartOf, HistoryContinues
  <2>7. \A d \in {Marked} \cup {Fenced(NextEpoch)} : Follows(d)
    BY MarkedFollows
  <2>8. ToSet(left.snapMsgs) \subseteq ToSet(mem[h].msgs) \cup ToSet(mem[h].snapMsgs)
    BY <2>6
  <2> QED
    BY <1>1, <2>2, <2>3, <2>6, <2>7, <2>8, WriteFollows
<1> QED
  BY <1>3, <1>5, <1>6

LEMMA AskFollows ==
  ASSUME HistoryInv, StoreInv', NEW h \in Sessions, AskDelete(h)
  PROVE  HistoryInv' /\ LogStep
<1> DEFINE s == [mem[h] EXCEPT !.asking = TRUE, !.askEpoch = mem[h].epoch,
                               !.askExisted = disk.there, !.asked = mem[h].snapMsgs]
<1>1. mem[h].open /\ mem' = [mem EXCEPT ![h] = s] /\ UNCHANGED <<disk, unused, erased>>
  BY DEF AskDelete
<1>2. /\ mem[h] \in Session /\ disk.there \in BOOLEAN /\ disk.msgs \in Seq(Turns)
      /\ NoFutureEpoch /\ SnapshotIsKept /\ HistoryContinues
  BY SessionTypes DEF HistoryInv, StoreInv, TypeOK, Disk
<1>3. Continuation(mem[h], h)
  BY <1>1, ObjectsContinue
<1>4. /\ s \in Session /\ s.open /\ s.asking /\ s.askEpoch = mem[h].epoch
      /\ s.asked = mem[h].snapMsgs /\ s.msgs = mem[h].msgs /\ s.snapMsgs = mem[h].snapMsgs
      /\ s.persisted = mem[h].persisted /\ s.epoch = mem[h].epoch
  BY <1>1, <1>2 DEF Session
<1>5. Believes(mem[h], disk)
  BY <1>3, ContinuationDescends, MarkedFollows, FollowsKeeps
<1>6. mem[h].epoch = disk.epoch => KeptIn(mem[h].snapMsgs, disk.msgs)
  <2>1. CASE mem[h].persisted
    BY <1>2, <2>1 DEF SnapshotIsKept
  <2>2. CASE ~mem[h].persisted
    <3>1. KeptIn(<<>>, disk.msgs)
      BY <1>2, KeptSame
    <3> QED
      BY <1>2, <2>2, <3>1 DEF HistoryContinues
  <2> QED
    BY <2>1, <2>2
<1> HIDE DEF s
<1>7. Asks(s, disk)
  BY <1>2, <1>4, <1>6 DEF Asks, NoFutureEpoch
<1>8. Believes(s, disk) /\ unused \cap ToSet(s.snapMsgs) = {}
  BY <1>2, <1>4, <1>5, <1>7 DEF Believes, HistoryContinues
<1> QED
  BY <1>1, <1>8, MemoryFollows

LEMMA NextFollows ==
  ASSUME HistoryInv, StoreInv', NEW h \in Sessions,
         \/ Load(h) \/ Invalidate(h) \/ Record(h) \/ SetMeta(h) \/ Save(h)
         \/ CommitHistoryRewrite(h) \/ NewSession(h)
         \/ CliDelete(h) \/ AskDelete(h) \/ ConfirmedDelete(h)
  PROVE  HistoryInv' /\ LogStep
<1>1. CASE Invalidate(h)
  <2>1. Believes(Closed, disk) /\ ToSet(Closed.snapMsgs) = {}
    <3>1. disk.epoch \in Nat
      BY DEF HistoryInv, StoreInv, TypeOK, Disk
    <3>2. ToSet(Closed.snapMsgs) = {}
      BY DEF Closed, ToSet
    <3> QED
      BY <3>1, <3>2, ClosedBelieves
  <2>2. mem' = [mem EXCEPT ![h] = Closed] /\ UNCHANGED <<disk, unused, erased>>
    BY <1>1 DEF Invalidate
  <2>3. unused' \subseteq unused /\ unused' \cap ToSet(Closed.snapMsgs) = {}
    BY <2>1, <2>2
  <2> QED
    BY <2>1, <2>2, <2>3, MemoryFollows
<1>2. CASE SetMeta(h)
  <2> DEFINE s == [mem[h] EXCEPT !.meta = @ + 1]
  <2>1. /\ mem[h].open /\ UNCHANGED unused
        /\ SaveAs(h, s, TRUE) \/ (mem' = [mem EXCEPT ![h] = s] /\ UNCHANGED <<disk, erased>>)
    BY <1>2 DEF SetMeta
  <2>2. Continuation(s, h)
    BY <2>1, ObjectsContinue
  <2> HIDE DEF s
  <2> QED
    BY <2>1, <2>2, SaveAsFollows, ContinuationFollows
<1>3. CASE Save(h)
  <2>1. mem[h].open /\ UNCHANGED unused /\ SaveAs(h, mem[h], TRUE)
    BY <1>3 DEF Save
  <2> QED
    BY <2>1, ObjectsContinue, SaveAsFollows
<1>4. CASE NewSession(h)
  <2>1. PICK s \in Shortened(mem[h], 0) :
          \/ SaveAs(h, s, FALSE)
          \/ mem' = [mem EXCEPT ![h] = s] /\ UNCHANGED <<disk, erased>>
    BY <1>4 DEF NewSession
  <2>2. mem[h].open /\ UNCHANGED unused /\ 0 \in {0, Len(mem[h].msgs) - 1} \cap Nat
    BY <1>4 DEF NewSession
  <2>3. Continuation(s, h)
    BY <2>2, ShortenedContinues
  <2> QED
    BY <2>1, <2>2, <2>3, SaveAsFollows, ContinuationFollows
<1>5. CASE CliDelete(h) \/ ConfirmedDelete(h)
  BY <1>5, DeleteByFollows DEF CliDelete, ConfirmedDelete
<1>6. CASE AskDelete(h)
  BY <1>6, AskFollows
<1> QED
  BY <1>1, <1>2, <1>3, <1>4, <1>5, <1>6, LoadFollows, RecordFollows, CommitFollows

LEMMA NextKeepsHistory == HistoryInv /\ [Next]_vars => HistoryInv' /\ LogStep
<1> SUFFICES ASSUME HistoryInv, [Next]_vars PROVE HistoryInv' /\ LogStep
  OBVIOUS
<1>1. StoreInv'
  BY NextKeepsStoreInv DEF HistoryInv
<1>2. CASE UNCHANGED vars
  BY <1>1, <1>2 DEF HistoryInv, vars, SnapshotIsKept, AskedIsKept, HistoryContinues, NoFileIsEmpty, LogStep
<1>3. CASE Next
  BY <1>1, <1>3, NextFollows DEF Next
<1> QED
  BY <1>2, <1>3

\* What a Session of the present generation takes for the content of the file
\* is in the file, in its order, whatever other processes appended meanwhile:
\* so SessionManager.save may append the rest and compare nothing else.
THEOREM SnapshotsAreKept == Spec => []SnapshotIsKept
<1>1. HistoryInv => SnapshotIsKept
  BY DEF HistoryInv
<1> QED
  BY <1>1, InitHistory, NextKeepsHistory, PTL DEF Spec

\* A deletion that was confirmed removes a file in which all the user was asked
\* about still stands (session_delete, tui_rpc/methods/session.py).
THEOREM DeletionsWereSeen == Spec => DeletionWasSeen
<1> DEFINE Seen == disk.there /\ ~disk'.there =>
             \A h \in Sessions : mem'[h] # mem[h] => KeptIn(mem[h].asked, disk.msgs)
<1>1. ASSUME HistoryInv, Next PROVE Seen
  <2>1. TypeOK /\ AskedIsKept /\ disk.msgs \in Seq(Turns)
    BY <1>1 DEF HistoryInv, StoreInv, TypeOK, Disk
  <2>2. PICK g \in Sessions : StepOf(g)
    BY <1>1, <2>1, NextIsStep DEF Next
  <2>3. SUFFICES ASSUME disk.there, ~disk'.there PROVE KeptIn(mem[g].asked, disk.msgs)
    BY <2>2 DEF StepOf
  <2>4. CASE CliDelete(g)
    <3>1. mem[g].asked = <<>>
      BY <2>1, <2>4 DEF CliDelete, AskedIsKept
    <3> QED
      BY <2>1, <3>1, KeptSame
  <2>5. CASE ConfirmedDelete(g)
    BY <2>1, <2>5 DEF ConfirmedDelete, EpochIs, AskedIsKept
  <2> QED
    BY <2>2, <2>3, <2>4, <2>5 DEF StepOf
<1>2. HistoryInv /\ [Next]_vars => [Seen]_vars
  BY <1>1
<1>3. Spec => [][Seen]_vars
  BY <1>2, InitHistory, NextKeepsHistory, PTL DEF Spec
<1> QED
  BY <1>3 DEF DeletionWasSeen

\* The file of a key, with its epoch and the turns it lost, is a history in
\* generations: it only grows within one, and the next keeps a beginning of it
\* (locked_append, atomic_replace and locked_delete, rincode/utils/atomic_io.py).
THEOREM FileImplementsLog == Spec => KeepsGenerationLog
<1>1. Init => Log!Init
  BY DEF Init, Absent, Log!Init
<1>2. Spec => [][Log!Next]_<<disk.epoch, disk.msgs, erased>>
  BY InitHistory, NextKeepsHistory, PTL DEF Spec, LogStep
<1> QED
  BY <1>1, <1>2, PTL DEF Spec, KeepsGenerationLog, Log!Spec
=============================================================================
