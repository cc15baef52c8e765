-------------------------- MODULE SequenceFacts --------------------------
(***************************************************************************)
(* Lemmas about sequences.  Of those without repetition, the form every    *)
(* queue of the models has: what appending, joining, popping and deleting  *)
(* do to the set of their elements.  Of their beginnings, the form of a    *)
(* log that grows.  And of folds over them: that a fold goes through one   *)
(* value after each element, by induction on the length, which rests on    *)
(* the least element of a set of numbers.                                  *)
(***************************************************************************)
EXTENDS Naturals, Sequences, SequencesExt, SequenceTheorems, WellFoundedInduction, TLAPS

\* What the empty queue holds.
LEMMA EmptyElements == ToSet(<<>>) = {} /\ IsInjective(<<>>)
BY DEF ToSet, IsInjective

\* Append adds one element, and keeps a sequence free of repetitions if the
\* element is new.
LEMMA AppendElements ==
  ASSUME NEW S, NEW q \in Seq(S), NEW e \in S
  PROVE  /\ Append(q, e) \in Seq(S)
         /\ ToSet(Append(q, e)) = ToSet(q) \cup {e}
         /\ IsInjective(q) /\ e \notin ToSet(q) => IsInjective(Append(q, e))
<1>1. /\ Append(q, e) \in Seq(S) /\ Len(Append(q, e)) = Len(q) + 1
      /\ \A i \in 1 .. Len(q) : Append(q, e)[i] = q[i]
      /\ Append(q, e)[Len(q) + 1] = e
      /\ DOMAIN q = 1 .. Len(q) /\ Len(q) \in Nat
      /\ DOMAIN Append(q, e) = 1 .. (Len(q) + 1)
  BY AppendProperties, LenProperties
<1>2. ToSet(Append(q, e)) = ToSet(q) \cup {e}
  BY <1>1 DEF ToSet
<1>3. ASSUME IsInjective(q), e \notin ToSet(q)
      PROVE  IsInjective(Append(q, e))
  BY <1>1, <1>3 DEF IsInjective, ToSet
<1> QED BY <1>1, <1>2, <1>3

\* Joining two sequences joins their elements, and keeps them distinct if the
\* sequences share none.
LEMMA ConcatElements ==
  ASSUME NEW S, NEW q \in Seq(S), NEW r \in Seq(S)
  PROVE  /\ q \o r \in Seq(S)
         /\ ToSet(q \o r) = ToSet(q) \cup ToSet(r)
         /\ IsInjective(q) /\ IsInjective(r) /\ ToSet(q) \cap ToSet(r) = {}
              => IsInjective(q \o r)
<1>1. /\ q \o r \in Seq(S) /\ Len(q \o r) = Len(q) + Len(r)
      /\ DOMAIN (q \o r) = 1 .. (Len(q) + Len(r))
      /\ DOMAIN q = 1 .. Len(q) /\ Len(q) \in Nat
      /\ DOMAIN r = 1 .. Len(r) /\ Len(r) \in Nat
      /\ \A i \in 1 .. Len(q) + Len(r) :
           (q \o r)[i] = IF i <= Len(q) THEN q[i] ELSE r[i - Len(q)]
  BY ConcatProperties, LenProperties
<1>2. ToSet(q \o r) \subseteq ToSet(q) \cup ToSet(r)
  <2>1. SUFFICES ASSUME NEW x \in ToSet(q \o r)
                 PROVE  x \in ToSet(q) \cup ToSet(r)
    OBVIOUS
  <2>2. PICK i \in 1 .. (Len(q) + Len(r)) : x = (q \o r)[i]
    BY <1>1 DEF ToSet
  <2>3. CASE i <= Len(q)
    BY <1>1, <2>2, <2>3 DEF ToSet
  <2>4. CASE i > Len(q)
    <3>1. i - Len(q) \in 1 .. Len(r) /\ x = r[i - Len(q)]
      BY <1>1, <2>2, <2>4
    <3> QED BY <1>1, <3>1 DEF ToSet
  <2> QED BY <1>1, <2>3, <2>4
<1>3. ToSet(q) \subseteq ToSet(q \o r)
  BY <1>1 DEF ToSet
<1>4. ToSet(r) \subseteq ToSet(q \o r)
  <2>1. SUFFICES ASSUME NEW x \in ToSet(r) PROVE x \in ToSet(q \o r)
    OBVIOUS
  <2>2. PICK i \in 1 .. Len(r) : x = r[i]
    BY <1>1 DEF ToSet
  <2>3. i + Len(q) \in 1 .. (Len(q) + Len(r)) /\ (q \o r)[i + Len(q)] = r[i]
    BY <1>1
  <2> QED BY <1>1, <2>2, <2>3 DEF ToSet
<1>5. ASSUME IsInjective(q), IsInjective(r), ToSet(q) \cap ToSet(r) = {},
             NEW i \in DOMAIN (q \o r), NEW j \in DOMAIN (q \o r),
             (q \o r)[i] = (q \o r)[j]
      PROVE  i = j
  <2>1. CASE i <= Len(q) /\ j <= Len(q)
    BY <1>1, <1>5, <2>1 DEF IsInjective
  <2>2. CASE i > Len(q) /\ j > Len(q)
    <3>1. i - Len(q) \in DOMAIN r /\ j - Len(q) \in DOMAIN r
      BY <1>1, <2>2
    <3>2. i - Len(q) = j - Len(q)
      BY <1>1, <1>5, <2>2, <3>1 DEF IsInjective
    <3> QED BY <1>1, <3>2
  <2>3. CASE i <= Len(q) /\ j > Len(q)
    <3>1. q[i] \in ToSet(q) /\ r[j - Len(q)] \in ToSet(r)
      BY <1>1, <2>3 DEF ToSet
    <3> QED BY <1>1, <1>5, <2>3, <3>1
  <2>4. CASE i > Len(q) /\ j <= Len(q)
    <3>1. q[j] \in ToSet(q) /\ r[i - Len(q)] \in ToSet(r)
      BY <1>1, <2>4 DEF ToSet
    <3> QED BY <1>1, <1>5, <2>4, <3>1
  <2> QED BY <1>1, <2>1, <2>2, <2>3, <2>4
<1> QED BY <1>1, <1>2, <1>3, <1>4, <1>5 DEF IsInjective

\* Popping takes the head out.
LEMMA TailElements ==
  ASSUME NEW S, NEW q \in Seq(S), q # <<>>
  PROVE  /\ Head(q) \in S /\ Tail(q) \in Seq(S)
         /\ ToSet(q) = ToSet(Tail(q)) \cup {Head(q)}
         /\ IsInjective(q) => IsInjective(Tail(q)) /\ Head(q) \notin ToSet(Tail(q))
<1>1. /\ Head(q) \in S /\ Tail(q) \in Seq(S) /\ Len(Tail(q)) = Len(q) - 1
      /\ \A i \in 1 .. Len(Tail(q)) : Tail(q)[i] = q[i + 1]
      /\ DOMAIN q = 1 .. Len(q) /\ Len(q) \in Nat \ {0}
      /\ DOMAIN Tail(q) = 1 .. Len(Tail(q)) /\ Head(q) = q[1]
  BY HeadTailProperties, LenProperties, EmptySeq
<1>2. ToSet(Tail(q)) \cup {Head(q)} \subseteq ToSet(q)
  BY <1>1 DEF ToSet
<1>3. ToSet(q) \subseteq ToSet(Tail(q)) \cup {Head(q)}
  <2>1. SUFFICES ASSUME NEW x \in ToSet(q)
                 PROVE  x \in ToSet(Tail(q)) \cup {Head(q)}
    OBVIOUS
  <2>2. PICK i \in 1 .. Len(q) : x = q[i]
    BY <1>1 DEF ToSet
  <2>3. CASE i = 1
    BY <1>1, <2>2, <2>3
  <2>4. CASE i # 1
    <3>1. i - 1 \in 1 .. Len(Tail(q)) /\ Tail(q)[i - 1] = q[i]
      BY <1>1, <2>4
    <3> QED BY <1>1, <2>2, <3>1 DEF ToSet
  <2> QED BY <2>3, <2>4
<1>4. ASSUME IsInjective(q)
      PROVE  IsInjective(Tail(q)) /\ Head(q) \notin ToSet(Tail(q))
  <2>1. IsInjective(Tail(q))
    <3>1. SUFFICES ASSUME NEW i \in DOMAIN Tail(q), NEW j \in DOMAIN Tail(q),
                          Tail(q)[i] = Tail(q)[j]
                   PROVE  i = j
      BY DEF IsInjective
    <3>2. i + 1 \in DOMAIN q /\ j + 1 \in DOMAIN q /\ q[i + 1] = q[j + 1]
      BY <1>1, <3>1
    <3> QED BY <1>1, <1>4, <3>2 DEF IsInjective
  <2>2. Head(q) \notin ToSet(Tail(q))
    <3>1. SUFFICES ASSUME NEW i \in 1 .. Len(Tail(q)), Head(q) = Tail(q)[i]
                   PROVE  FALSE
      BY <1>1 DEF ToSet
    <3>2. i + 1 \in DOMAIN q /\ 1 \in DOMAIN q /\ q[i + 1] = q[1] /\ i + 1 # 1
      BY <1>1, <3>1
    <3> QED BY <1>4, <3>2 DEF IsInjective
  <2> QED BY <2>1, <2>2
<1> QED BY <1>1, <1>2, <1>3, <1>4

\* An empty set of elements is that of an empty queue.
LEMMA NoElements ==
  ASSUME NEW S, NEW q \in Seq(S)
  PROVE  ToSet(q) = {} <=> q = <<>>
<1>1. ASSUME q # <<>> PROVE ToSet(q) # {}
  <2>1. Head(q) \in ToSet(q)
    BY <1>1, TailElements
  <2> QED BY <2>1
<1> QED BY <1>1, EmptyElements

\* Deleting an entry of a sequence without repetitions deletes its element.
LEMMA RemoveElements ==
  ASSUME NEW S, NEW q \in Seq(S), NEW i \in DOMAIN q
  PROVE  /\ RemoveAt(q, i) \in Seq(S)
         /\ ToSet(q) = ToSet(RemoveAt(q, i)) \cup {q[i]}
         /\ IsInjective(q) => IsInjective(RemoveAt(q, i)) /\ q[i] \notin ToSet(RemoveAt(q, i))
<1> DEFINE a == SubSeq(q, 1, i - 1)
           b == SubSeq(q, i + 1, Len(q))
<1>1. DOMAIN q = 1 .. Len(q) /\ Len(q) \in Nat /\ i \in 1 .. Len(q)
      /\ \A k \in 1 .. Len(q) : q[k] \in S
  BY LenProperties, ElementOfSeq
<1>2. a \in Seq(S) /\ Len(a) = i - 1 /\ \A k \in 1 .. i - 1 : a[k] = q[k]
  BY <1>1, SubSeqProperties
<1>3. b \in Seq(S) /\ Len(b) = Len(q) - i /\ \A k \in 1 .. Len(q) - i : b[k] = q[k + i]
  <2>1. /\ i + 1 \in Int /\ Len(q) \in Int
        /\ \A k \in i + 1 .. Len(q) : q[k] \in S
    BY <1>1
  <2> DEFINE low  == i + 1
             high == Len(q)
  <2>2. /\ b \in Seq(S) /\ Len(b) = IF low <= high THEN high - low + 1 ELSE 0
        /\ \A k \in 1 .. high - low + 1 : b[k] = q[low + k - 1]
    BY <2>1, SubSeqProperties
  <2>3. /\ high - low + 1 = Len(q) - i
        /\ (IF low <= high THEN high - low + 1 ELSE 0) = Len(q) - i
        /\ \A k \in 1 .. Len(q) - i : low + k - 1 = k + i
    BY <1>1
  <2> HIDE DEF b, low, high
  <2> QED BY <2>2, <2>3
<1>4. RemoveAt(q, i) = a \o b
  BY DEF RemoveAt
<1>5. /\ DOMAIN a = 1 .. i - 1 /\ DOMAIN b = 1 .. Len(q) - i
  BY <1>2, <1>3, LenProperties
<1> HIDE DEF a, b
<1>6. RemoveAt(q, i) \in Seq(S) /\ ToSet(RemoveAt(q, i)) = ToSet(a) \cup ToSet(b)
  BY <1>2, <1>3, <1>4, ConcatElements
<1>7. ToSet(q) = ToSet(a) \cup ToSet(b) \cup {q[i]}
  <2>1. ToSet(a) \subseteq ToSet(q)
    BY <1>1, <1>2, <1>5 DEF ToSet
  <2>2. ToSet(b) \subseteq ToSet(q)
    <3>1. SUFFICES ASSUME NEW x \in ToSet(b) PROVE x \in ToSet(q)
      OBVIOUS
    <3>2. PICK k \in 1 .. Len(q) - i : x = b[k]
      BY <1>5 DEF ToSet
    <3>3. k + i \in 1 .. Len(q) /\ x = q[k + i]
      BY <1>1, <1>3, <3>2
    <3> QED BY <1>1, <3>3 DEF ToSet
  <2>3. ASSUME NEW x \in ToSet(q) PROVE x \in ToSet(a) \cup ToSet(b) \cup {q[i]}
    <3>1. PICK k \in 1 .. Len(q) : x = q[k]
      BY <1>1 DEF ToSet
    <3>2. CASE k < i
      <4>1. k \in 1 .. i - 1
        BY <1>1, <3>2
      <4> QED BY <1>2, <1>5, <3>1, <4>1 DEF ToSet
    <3>3. CASE k > i
      <4>1. k - i \in 1 .. Len(q) - i /\ (k - i) + i = k
        BY <1>1, <3>3
      <4>2. b[k - i] = q[k]
        BY <1>3, <4>1
      <4> QED BY <1>5, <3>1, <4>1, <4>2 DEF ToSet
    <3> QED BY <1>1, <3>1, <3>2, <3>3
  <2> QED BY <1>1, <2>1, <2>2, <2>3 DEF ToSet
<1>8. ASSUME IsInjective(q)
      PROVE  IsInjective(RemoveAt(q, i)) /\ q[i] \notin ToSet(RemoveAt(q, i))
  <2>1. IsInjective(a)
    <3>1. SUFFICES ASSUME NEW j \in 1 .. i - 1, NEW k \in 1 .. i - 1, a[j] = a[k]
                   PROVE  j = k
      BY <1>5 DEF IsInjective
    <3>2. j \in DOMAIN q /\ k \in DOMAIN q /\ q[j] = q[k]
      BY <1>1, <1>2, <3>1
    <3> QED BY <1>8, <3>2 DEF IsInjective
  <2>2. IsInjective(b)
    <3>1. SUFFICES ASSUME NEW j \in 1 .. Len(q) - i, NEW k \in 1 .. Len(q) - i, b[j] = b[k]
                   PROVE  j = k
      BY <1>5 DEF IsInjective
    <3>2. j + i \in DOMAIN q /\ k + i \in DOMAIN q /\ q[j + i] = q[k + i]
      BY <1>1, <1>3, <3>1
    <3>3. j + i = k + i
      BY <1>8, <3>2 DEF IsInjective
    <3> QED BY <1>1, <3>3
  <2>3. ToSet(a) \cap ToSet(b) = {}
    <3>1. SUFFICES ASSUME NEW j \in 1 .. i - 1, NEW k \in 1 .. Len(q) - i, a[j] = b[k]
                   PROVE  FALSE
      BY <1>5 DEF ToSet
    <3>2. j \in DOMAIN q /\ k + i \in DOMAIN q /\ j # k + i
      BY <1>1
    <3>3. q[j] = q[k + i]
      BY <1>2, <1>3, <3>1
    <3> QED BY <1>8, <3>2, <3>3 DEF IsInjective
  <2>4. q[i] \notin ToSet(a)
    <3>1. SUFFICES ASSUME NEW j \in 1 .. i - 1, a[j] = q[i] PROVE FALSE
      BY <1>5 DEF ToSet
    <3>2. j \in DOMAIN q /\ q[j] = q[i] /\ j # i
      BY <1>1, <1>2, <3>1
    <3> QED BY <1>8, <3>2 DEF IsInjective
  <2>5. q[i] \notin ToSet(b)
    <3>1. SUFFICES ASSUME NEW k \in 1 .. Len(q) - i, b[k] = q[i] PROVE FALSE
      BY <1>5 DEF ToSet
    <3>2. k + i \in DOMAIN q /\ k + i # i
      BY <1>1
    <3>3. q[k + i] = q[i]
      BY <1>3, <3>1
    <3> QED BY <1>1, <1>8, <3>2, <3>3 DEF IsInjective
  <2> QED BY <1>2, <1>3, <1>4, <1>6, <2>1, <2>2, <2>3, <2>4, <2>5, ConcatElements
<1> QED BY <1>6, <1>7, <1>8

\* "gone" are the first n elements of q, "rest" is the queue of the others.
Splits(q, n, gone, rest) ==
  /\ \A x : x \in gone <=> \E k \in DOMAIN q : k <= n /\ x = q[k]
  /\ n < Len(q) => Len(rest) = Len(q) - n
  /\ n >= Len(q) => Len(rest) = 0
  /\ \A k \in 1 .. Len(q) - n : rest[k] = q[k + n]

\* What is left of a queue after its first n elements.
LEMMA RestOfQueue ==
  ASSUME NEW S, NEW q \in Seq(S), NEW n \in Nat,
         NEW gone, gone = {q[k] : k \in {k \in DOMAIN q : k <= n}},
         NEW rest, rest = SubSeq(q, n + 1, Len(q))
  PROVE  rest \in Seq(S) /\ Splits(q, n, gone, rest)
<1> DEFINE low  == n + 1
           high == Len(q)
<1>1. /\ low \in Int /\ high \in Int /\ \A k \in low .. high : q[k] \in S
      /\ rest = SubSeq(q, low, high)
  BY LenProperties, ElementOfSeq
<1>2. /\ rest \in Seq(S) /\ Len(rest) = IF low <= high THEN high - low + 1 ELSE 0
      /\ \A k \in 1 .. high - low + 1 : rest[k] = q[low + k - 1]
  BY <1>1, SubSeqProperties
<1>3. /\ high - low + 1 = Len(q) - n /\ n < Len(q) <=> low <= high
      /\ n >= Len(q) <=> ~(low <= high)
      /\ \A k \in 1 .. Len(q) - n : low + k - 1 = k + n
  BY LenProperties
<1>4. \A x : x \in gone <=> \E k \in DOMAIN q : k <= n /\ x = q[k]
  OBVIOUS
<1> HIDE DEF low, high
<1>5. /\ n < Len(q) => Len(rest) = Len(q) - n
      /\ n >= Len(q) => Len(rest) = 0
      /\ \A k \in 1 .. Len(q) - n : rest[k] = q[k + n]
  BY <1>2, <1>3
<1> QED BY <1>2, <1>4, <1>5 DEF Splits

\* Letting the first n of a queue go splits its elements, and keeps those left
\* distinct from them.
LEMMA SplitElements ==
  ASSUME NEW S, NEW q \in Seq(S), NEW n \in Nat, NEW gone, NEW rest \in Seq(S),
         Splits(q, n, gone, rest)
  PROVE  /\ ToSet(q) = gone \cup ToSet(rest)
         /\ IsInjective(q) => IsInjective(rest) /\ gone \cap ToSet(rest) = {}
         /\ n = 0 => gone = {}
         /\ n # 0 /\ rest # <<>> => gone # {}
<1>. Len(q) \in Nat /\ Len(rest) \in Nat
  BY LenProperties
<1>1. DOMAIN q = 1 .. Len(q) /\ DOMAIN rest = 1 .. Len(rest)
  BY LenProperties
<1>2. \/ n < Len(q) /\ Len(rest) = Len(q) - n
      \/ n >= Len(q) /\ Len(rest) = 0
  BY DEF Splits
<1>3. \A x : x \in gone <=> \E k \in DOMAIN q : k <= n /\ x = q[k]
  BY DEF Splits
<1>4. \A k \in 1 .. Len(rest) : k + n \in 1 .. Len(q) /\ rest[k] = q[k + n]
  <2>1. SUFFICES ASSUME NEW k \in 1 .. Len(rest)
                 PROVE  k + n \in 1 .. Len(q) /\ rest[k] = q[k + n]
    OBVIOUS
  <2>2. k + n \in 1 .. Len(q) /\ k \in 1 .. Len(q) - n
    BY <1>2
  <2> QED BY <2>2 DEF Splits
<1>5. \A k \in 1 .. Len(q) : k > n => k - n \in 1 .. Len(rest) /\ rest[k - n] = q[k]
  <2>1. SUFFICES ASSUME NEW k \in 1 .. Len(q), k > n
                 PROVE  k - n \in 1 .. Len(rest) /\ rest[k - n] = q[k]
    OBVIOUS
  <2>2. k - n \in 1 .. Len(rest) /\ k - n \in 1 .. Len(q) - n /\ (k - n) + n = k
    BY <1>2, <2>1
  <2> QED BY <2>2 DEF Splits
<1>6. ToSet(q) = gone \cup ToSet(rest)
  <2>1. ASSUME NEW x \in ToSet(q) PROVE x \in gone \cup ToSet(rest)
    <3>1. PICK k \in 1 .. Len(q) : x = q[k]
      BY <1>1 DEF ToSet
    <3>2. CASE k <= n
      BY <1>3, <3>1, <3>2, <1>1
    <3>3. CASE k > n
      BY <1>1, <1>5, <3>1, <3>3 DEF ToSet
    <3> QED BY <3>2, <3>3
  <2>2. gone \subseteq ToSet(q)
    BY <1>3 DEF ToSet
  <2>3. ToSet(rest) \subseteq ToSet(q)
    BY <1>1, <1>4 DEF ToSet
  <2> QED BY <2>1, <2>2, <2>3
<1>7. ASSUME IsInjective(q)
      PROVE  IsInjective(rest) /\ gone \cap ToSet(rest) = {}
  <2>1. IsInjective(rest)
    <3>1. SUFFICES ASSUME NEW j \in 1 .. Len(rest), NEW k \in 1 .. Len(rest), rest[j] = rest[k]
                   PROVE  j = k
      BY <1>1 DEF IsInjective
    <3>2. j + n = k + n
      BY <1>1, <1>4, <1>7, <3>1 DEF IsInjective
    <3> QED BY <3>2
  <2>2. ASSUME NEW x \in gone, x \in ToSet(rest) PROVE FALSE
    <3>1. PICK j \in 1 .. Len(q) : j <= n /\ x = q[j]
      BY <1>1, <1>3
    <3>2. PICK k \in 1 .. Len(rest) : x = rest[k]
      BY <1>1, <2>2 DEF ToSet
    <3>3. j = k + n
      BY <1>1, <1>4, <1>7, <3>1, <3>2 DEF IsInjective
    <3> QED BY <3>1, <3>3
  <2> QED BY <2>1, <2>2
<1>8. n = 0 => gone = {}
  BY <1>1, <1>3
<1>9. ASSUME n # 0, rest # <<>> PROVE gone # {}
  <2>1. Len(rest) # 0
    BY <1>9, EmptySeq
  <2>2. 1 \in DOMAIN q /\ 1 <= n
    BY <1>2, <1>9, <2>1
  <2> QED BY <1>3, <2>2
<1> QED BY <1>6, <1>7, <1>8, <1>9

-----------------------------------------------------------------------------
(* Beginnings of sequences.                                                *)

\* The elements of a part of a sequence.
LEMMA PartEntries ==
  ASSUME NEW S, NEW q \in Seq(S), NEW m \in 1 .. Len(q) + 1, NEW n \in 0 .. Len(q)
  PROVE  /\ SubSeq(q, m, n) \in Seq(S)
         /\ m <= n => Len(SubSeq(q, m, n)) = n - m + 1
         /\ m > n => Len(SubSeq(q, m, n)) = 0
         /\ \A i \in 1 .. n - m + 1 : SubSeq(q, m, n)[i] = q[m + i - 1]
<1>1. \A i \in m .. n : q[i] \in S
  OBVIOUS
<1>2. m \in Int /\ n \in Int
  OBVIOUS
<1>3. /\ SubSeq(q, m, n) \in Seq(S)
      /\ Len(SubSeq(q, m, n)) = IF m <= n THEN n - m + 1 ELSE 0
      /\ \A i \in 1 .. n - m + 1 : SubSeq(q, m, n)[i] = q[m + i - 1]
  BY <1>1, <1>2, SubSeqProperties
<1> QED
  BY <1>3, <1>2

\* The first n elements.
LEMMA StartEntries ==
  ASSUME NEW S, NEW q \in Seq(S), NEW n \in 0 .. Len(q)
  PROVE  /\ SubSeq(q, 1, n) \in Seq(S) /\ Len(SubSeq(q, 1, n)) = n
         /\ \A i \in 1 .. n : SubSeq(q, 1, n)[i] = q[i]
<1> DEFINE f == SubSeq(q, 1, n)
<1>1. 1 \in 1 .. Len(q) + 1
  OBVIOUS
<1>2. /\ f \in Seq(S) /\ (1 <= n => Len(f) = n - 1 + 1) /\ (1 > n => Len(f) = 0)
      /\ \A i \in 1 .. n - 1 + 1 : f[i] = q[1 + i - 1]
  BY <1>1, PartEntries
<1>3. (n - 1 + 1 = n) /\ \A i \in 1 .. n : 1 + i - 1 = i
  OBVIOUS
<1> QED
  BY <1>2, <1>3

\* When q is a beginning of r, entry by entry.
LEMMA PrefixEntries ==
  ASSUME NEW S, NEW q \in Seq(S), NEW r \in Seq(S)
  PROVE  IsPrefix(q, r) <=> Len(q) <= Len(r) /\ \A i \in 1 .. Len(q) : r[i] = q[i]
<1>1. PICK a \in Nat : a = Len(q)
  OBVIOUS
<1>2. PICK b \in Nat : b = Len(r)
  OBVIOUS
<1>3. CASE a <= b
  <2> DEFINE f == SubSeq(r, 1, a)
  <2>2. f \in Seq(S) /\ Len(f) = a /\ \A i \in 1 .. a : f[i] = r[i]
    BY <1>2, <1>3, StartEntries
  <2>3. SubSeq(q, 1, a) = q
    BY <1>1, SubSeqFull
  <2>4. IsPrefix(q, r) <=> (q = f)
    BY <1>1, <1>2, <1>3, <2>3 DEF IsPrefix
  <2> HIDE DEF f
  <2>5. (q = f) <=> \A i \in 1 .. a : q[i] = f[i]
    BY <1>1, <2>2, SeqEqual
  <2> QED
    BY <1>1, <1>2, <1>3, <2>2, <2>4, <2>5
<1>4. CASE a > b
  BY <1>1, <1>2, <1>4 DEF IsPrefix
<1> QED
  BY <1>3, <1>4


\* A beginning grows by the next element.
LEMMA StartGrows ==
  ASSUME NEW S, NEW q \in Seq(S), NEW k \in Nat, k + 1 <= Len(q)
  PROVE  SubSeq(q, 1, k + 1) = Append(SubSeq(q, 1, k), q[k + 1])
<1>1. k + 1 \in 0 .. Len(q) /\ k \in 0 .. Len(q) /\ q[k + 1] \in S
  BY ElementOfSeq
<1> DEFINE f == SubSeq(q, 1, k)
           g == SubSeq(q, 1, k + 1)
<1>2. f \in Seq(S) /\ Len(f) = k /\ \A i \in 1 .. k : f[i] = q[i]
  BY <1>1, StartEntries
<1>3. g \in Seq(S) /\ Len(g) = k + 1 /\ \A i \in 1 .. k + 1 : g[i] = q[i]
  BY <1>1, StartEntries
<1> DEFINE h == Append(f, q[k + 1])
<1> HIDE DEF f, g
<1>4. /\ h \in Seq(S) /\ Len(h) = k + 1 /\ \A i \in 1 .. k : h[i] = f[i]
      /\ h[k + 1] = q[k + 1]
  BY <1>1, <1>2, AppendProperties
<1> HIDE DEF h
<1>5. \A i \in 1 .. k + 1 : g[i] = h[i]
  <2>1. \A i \in 1 .. k + 1 : i \in 1 .. k \/ i = k + 1
    OBVIOUS
  <2> QED
    BY <1>2, <1>3, <1>4, <2>1
<1>6. g = h
  BY <1>3, <1>4, <1>5, SeqEqual
<1> QED
  BY <1>6 DEF f, g, h

\* A sequence begins itself.
LEMMA PrefixSame ==
  ASSUME NEW S, NEW q \in Seq(S)
  PROVE  IsPrefix(q, q)
<1>1. Len(q) <= Len(q)
  BY LenProperties
<1> QED
  BY <1>1, PrefixEntries

\* What begins a sequence begins it when it has grown.
LEMMA PrefixGrows ==
  ASSUME NEW S, NEW p \in Seq(S), NEW q \in Seq(S), NEW r \in Seq(S), IsPrefix(p, q)
  PROVE  IsPrefix(p, q \o r)
<1>1. PICK a \in Nat : a = Len(p)
  OBVIOUS
<1>2. PICK b \in Nat : b = Len(q)
  OBVIOUS
<1>3. PICK c \in Nat : c = Len(r)
  OBVIOUS
<1>4. a <= b /\ \A i \in 1 .. a : q[i] = p[i]
  BY <1>1, <1>2, PrefixEntries
<1> DEFINE l == q \o r
<1>5. /\ l \in Seq(S) /\ Len(l) = b + c
      /\ \A i \in 1 .. b + c : l[i] = IF i <= b THEN q[i] ELSE r[i - b]
  BY <1>2, <1>3, ConcatProperties
<1> HIDE DEF l
<1>6. a <= b + c /\ \A i \in 1 .. a : i \in 1 .. b + c /\ i <= b
  BY <1>4
<1>7. \A i \in 1 .. a : l[i] = p[i]
  BY <1>4, <1>5, <1>6
<1>8. IsPrefix(p, l)
  BY <1>1, <1>5, <1>6, <1>7, PrefixEntries
<1> QED
  BY <1>8 DEF l

\* The length, from the places.
LEMMA LengthOfDomain ==
  ASSUME NEW S, NEW q \in Seq(S), NEW n \in Nat, DOMAIN q = 1 .. n
  PROVE  Len(q) = n
<1>1. PICK m \in Nat : m = Len(q) /\ DOMAIN q = 1 .. m
  BY LenProperties
<1>2. 1 .. m = 1 .. n
  BY <1>1
<1>3. m = n
  <2>1. m \in 1 .. m \/ m = 0
    OBVIOUS
  <2>2. n \in 1 .. n \/ n = 0
    OBVIOUS
  <2>3. m <= n
    BY <1>2, <2>1
  <2>4. n <= m
    BY <1>2, <2>2
  <2> QED
    BY <2>3, <2>4
<1> QED
  BY <1>1, <1>3

-----------------------------------------------------------------------------
(* Induction on the length of a sequence, and the values of a fold.  A fold *)
(* is a choice of a function over sets of places, so that it takes a value  *)
(* after each element has to be shown.                                      *)

\* A set with 0 in it that is closed under adding 1 has every number.
LEMMA SetInduction ==
  ASSUME NEW S, 0 \in S, \A n \in Nat : n \in S => n + 1 \in S
  PROVE  Nat \subseteq S
<1> DEFINE rest == Nat \ S
<1>1. SUFFICES ASSUME rest # {} PROVE FALSE
  OBVIOUS
<1>2. rest \subseteq Nat /\ rest # {}
  BY <1>1
<1> HIDE DEF rest
<1>3. PICK m \in rest : \A k \in rest : <<k, m>> \notin OpToRel(<, Nat)
  BY <1>2, NatLessThanWellFounded, WFMin
<1>4. \A k \in rest : ~(k < m)
  BY <1>2, <1>3 DEF OpToRel
<1>5. m # 0 /\ m \in Nat
  BY DEF rest
<1>6. m - 1 \in Nat /\ m - 1 < m
  BY <1>5
<1>7. m - 1 \in S
  BY <1>4, <1>6 DEF rest
<1>8. m - 1 + 1 = m
  BY <1>5
<1> QED
  BY <1>6, <1>7, <1>8 DEF rest

\* The last of some places, when the last place of all is among them.
LEMMA MaxOfTop ==
  ASSUME NEW m \in Nat, NEW s \in SUBSET (1 .. m + 1), m + 1 \in s
  PROVE  Max(s) = m + 1
<1>1. \A y \in s : m + 1 >= y /\ y \in Nat
  OBVIOUS
<1>2. \E x \in s : \A y \in s : x >= y
  BY <1>1
<1>3. PICK x : x = CHOOSE z \in s : \A y \in s : z >= y
  OBVIOUS
<1>4. x \in s /\ \A y \in s : x >= y
  BY <1>2, <1>3
<1>5. x \in 1 .. m + 1 /\ x >= m + 1
  BY <1>4
<1>6. x = m + 1
  BY <1>5
<1> QED
  BY <1>3, <1>6 DEF Max

\* g satisfies the recursion of FoldLeft over q, on the sets of its first m places.
FoldsOver(g, m, o, base, q) ==
  \A s \in SUBSET (1 .. m) : g[s] = IF s = {} THEN base ELSE o[<<g[s \ {Max(s)}], q[Max(s)]>>]

\* A fold is well defined: there is a function over the sets of positions that
\* satisfies its recursion.
LEMMA FoldExists ==
  ASSUME NEW V, NEW E, NEW o \in [V \X E -> V], NEW base \in V, NEW q \in Seq(E)
  PROVE  \E g \in [SUBSET (1 .. Len(q)) -> V] : FoldsOver(g, Len(q), o, base, q)
<1> DEFINE Fits(g, m) == FoldsOver(g, m, o, base, q)
           Has(m) == m <= Len(q) => \E g \in [SUBSET (1 .. m) -> V] : Fits(g, m)
           S == {m \in Nat : Has(m)}
<1>1. Has(0)
  <2> DEFINE g == [s \in SUBSET (1 .. 0) |-> base]
  <2>1. \A s \in SUBSET (1 .. 0) : s = {}
    OBVIOUS
  <2>2. g \in [SUBSET (1 .. 0) -> V] /\ Fits(g, 0)
    BY <2>1 DEF FoldsOver
  <2> QED
    BY <2>2
<1>2. ASSUME NEW m \in Nat, Has(m)
      PROVE  Has(m + 1)
  <2>1. SUFFICES ASSUME m + 1 <= Len(q)
                 PROVE  \E g \in [SUBSET (1 .. m + 1) -> V] : Fits(g, m + 1)
    OBVIOUS
  <2>2. PICK f \in [SUBSET (1 .. m) -> V] : Fits(f, m)
    <3>1. m <= Len(q)
      BY <2>1
    <3> QED
      BY <1>2, <3>1
  <2>3. q[m + 1] \in E
    BY <2>1, ElementOfSeq
  <2> DEFINE g == [s \in SUBSET (1 .. m + 1) |->
                     IF m + 1 \in s THEN o[<<f[s \ {m + 1}], q[m + 1]>>] ELSE f[s]]
  <2>4. \A s \in SUBSET (1 .. m + 1) : s \ {m + 1} \in SUBSET (1 .. m)
    OBVIOUS
  <2>5. \A s \in SUBSET (1 .. m + 1) : m + 1 \notin s => s \in SUBSET (1 .. m)
    OBVIOUS
  <2>6. g \in [SUBSET (1 .. m + 1) -> V]
    <3>1. ASSUME NEW s \in SUBSET (1 .. m + 1)
          PROVE  (IF m + 1 \in s THEN o[<<f[s \ {m + 1}], q[m + 1]>>] ELSE f[s]) \in V
      <4>1. CASE m + 1 \in s
        <5>1. <<f[s \ {m + 1}], q[m + 1]>> \in V \X E
          BY <2>3, <2>4
        <5>2. o[<<f[s \ {m + 1}], q[m + 1]>>] \in V
          BY <5>1
        <5> QED
          BY <4>1, <5>2
      <4>2. CASE m + 1 \notin s
        BY <2>5, <4>2
      <4> QED
        BY <4>1, <4>2
    <3> QED
      BY <3>1
  <2>7. ASSUME NEW s \in SUBSET (1 .. m + 1)
        PROVE  g[s] = IF s = {} THEN base ELSE o[<<g[s \ {Max(s)}], q[Max(s)]>>]
    <3>1. CASE m + 1 \in s
      <4>1. Max(s) = m + 1 /\ s # {}
        BY <3>1, MaxOfTop
      <4>2. g[s] = o[<<f[s \ {m + 1}], q[m + 1]>>]
        BY <3>1
      <4>3. g[s \ {m + 1}] = f[s \ {m + 1}]
        BY <2>4
      <4> HIDE DEF g
      <4> QED
        BY <4>1, <4>2, <4>3
    <3>2. CASE m + 1 \notin s
      <4>1. s \in SUBSET (1 .. m) /\ s \ {Max(s)} \in SUBSET (1 .. m)
        BY <2>5, <3>2
      <4>2. m + 1 \notin s \ {Max(s)} /\ s \ {Max(s)} \in SUBSET (1 .. m + 1)
        BY <3>2
      <4>3. g[s] = f[s] /\ g[s \ {Max(s)}] = f[s \ {Max(s)}]
        BY <3>2, <4>2
      <4>4. f[s] = IF s = {} THEN base ELSE o[<<f[s \ {Max(s)}], q[Max(s)]>>]
        BY <2>2, <4>1 DEF FoldsOver
      <4> HIDE DEF g
      <4> QED
        BY <4>3, <4>4
    <3> QED
      BY <3>1, <3>2
  <2> HIDE DEF g
  <2> QED
    BY <2>6, <2>7 DEF FoldsOver
<1> HIDE DEF Has
<1>3. Nat \subseteq S
  <2>1. 0 \in S /\ \A m \in Nat : m \in S => m + 1 \in S
    BY <1>1, <1>2
  <2> HIDE DEF S
  <2> QED
    BY <2>1, SetInduction
<1>4. Len(q) \in Nat /\ Has(Len(q))
  BY <1>3
<1>5. Len(q) <= Len(q)
  BY <1>4
<1>6. \E g \in [SUBSET (1 .. Len(q)) -> V] : Fits(g, Len(q))
  BY <1>4, <1>5, Zenon DEF Has
<1> QED
  BY <1>6

\* The values of a function over the sets of positions, position by position.
LEMMA FoldChain ==
  ASSUME NEW n \in Nat, NEW k \in 1 .. n
  PROVE  /\ 1 .. k \in SUBSET (1 .. n) /\ 1 .. k # {}
         /\ Max(1 .. k) = k /\ (1 .. k) \ {k} = 1 .. k - 1
<1>1. /\ 1 .. k \in SUBSET (1 .. n) /\ 1 .. k # {}
      /\ (1 .. k) \ {k} = 1 .. k - 1
  OBVIOUS
<1>2. PICK m \in Nat : k = m + 1
  <2>1. k - 1 \in Nat /\ k = (k - 1) + 1
    OBVIOUS
  <2> QED
    BY <2>1
<1>3. 1 .. k \in SUBSET (1 .. m + 1) /\ m + 1 \in 1 .. k
  BY <1>2
<1>4. Max(1 .. k) = m + 1
  BY <1>3, MaxOfTop
<1> QED
  BY <1>1, <1>2, <1>4

\* What holds of the first value and is handed on holds of every value.
LEMMA ChainInduction ==
  ASSUME NEW V, NEW n \in Nat, NEW c, c[0] \in V,
         \A k \in 1 .. n : c[k - 1] \in V => c[k] \in V
  PROVE  \A k \in 0 .. n : c[k] \in V
<1> DEFINE S == {k \in Nat : k <= n => c[k] \in V}
<1>1. 0 \in S
  OBVIOUS
<1>2. ASSUME NEW k \in Nat, k \in S PROVE k + 1 \in S
  <2>1. SUFFICES ASSUME k + 1 <= n PROVE c[k + 1] \in V
    OBVIOUS
  <2>2. c[k] \in V /\ k + 1 \in 1 .. n /\ (k + 1) - 1 = k
    BY <1>2, <2>1
  <2> QED
    BY <2>2
<1> HIDE DEF S
<1>3. Nat \subseteq S
  BY <1>1, <1>2, SetInduction
<1>4. \A k \in 0 .. n : k \in S /\ k <= n
  BY <1>3
<1> QED
  BY <1>4 DEF S

\* The last of some places is one of the places.
LEMMA MaxInside ==
  ASSUME NEW n \in Nat, NEW s \in SUBSET (1 .. n), s # {}
  PROVE  Max(s) \in 1 .. n
<1> DEFINE S == {m \in Nat : \A r \in SUBSET (1 .. m) : r # {} => Max(r) \in r}
<1>1. 0 \in S
  <2>1. \A r \in SUBSET (1 .. 0) : r = {}
    OBVIOUS
  <2> QED
    BY <2>1
<1>2. ASSUME NEW m \in Nat, m \in S PROVE m + 1 \in S
  <2>1. SUFFICES ASSUME NEW r \in SUBSET (1 .. m + 1), r # {} PROVE Max(r) \in r
    OBVIOUS
  <2>2. CASE m + 1 \in r
    BY <2>2, MaxOfTop
  <2>3. CASE m + 1 \notin r
    <3>1. r \in SUBSET (1 .. m)
      BY <2>3
    <3> QED
      BY <1>2, <2>1, <3>1
  <2> QED
    BY <2>2, <2>3
<1> HIDE DEF S
<1>3. Nat \subseteq S
  BY <1>1, <1>2, SetInduction
<1>4. n \in S
  BY <1>3
<1>5. Max(s) \in s
  BY <1>4 DEF S
<1> QED
  BY <1>5

=============================================================================
