---------------------------- MODULE QueueLemmas ----------------------------
(***************************************************************************)
(* Lemmas about Kept and about counting, for queues of any length.         *)
(*                                                                         *)
(* They are inductions, over the naturals and over sequences, stated for   *)
(* sets: the set of the numbers, or of the queues, that have the property. *)
(* Counting is such an induction, derived from the pigeonhole principle:   *)
(* in a set that holds 0, n + 1 with each n, and not some k, adding one    *)
(* would be an injection of its finite part below k into itself that is    *)
(* not a surjection.                                                       *)
(***************************************************************************)
EXTENDS Queues, SequencesExt, SequenceTheorems, FiniteSetTheorems, TLAPS

\* Induction: a set that holds 0 and n + 1 with each n holds every number.
LEMMA Counting ==
    ASSUME NEW S, 0 \in S, \A n \in Nat : n \in S => n + 1 \in S
    PROVE  \A n \in Nat : n \in S
<1> SUFFICES ASSUME NEW k \in Nat, k \notin S PROVE FALSE
    OBVIOUS
<1> DEFINE A == {n \in 0..k : n \in S}
           next == [n \in A |-> n + 1]
<1>1. IsFiniteSet(A)
  <2>1. 0 \in Int /\ k \in Int /\ A \in SUBSET (0..k)
      OBVIOUS
  <2>2. IsFiniteSet(0..k)
      BY <2>1, FS_Interval
  <2> QED
      BY <2>1, <2>2, FS_Subset
<1>2. \A n \in A : n + 1 \in A /\ n + 1 # 0
    OBVIOUS
<1>3. next \in [A -> A] /\ \A m, n \in A : next[m] = next[n] => m = n
    BY <1>2
<1>4. 0 \in A /\ \A n \in A : next[n] # 0
    BY <1>2
<1> HIDE DEF A, next
<1>5. next \in Injection(A, A)
    BY <1>3 DEF Injection, IsInjective
<1>6. next \in Surjection(A, A)
    BY <1>1, <1>5, FS_Injection
<1> QED
    BY <1>4, <1>6 DEF Surjection

\* Induction over sequences.
LEMMA Appending ==
    ASSUME NEW X, NEW S, <<>> \in S, \A q \in Seq(X), x \in X : q \in S => Append(q, x) \in S
    PROVE  \A q \in Seq(X) : q \in S
<1> DEFINE N == {n \in Nat : \A q \in Seq(X) : Len(q) = n => q \in S}
<1>1. 0 \in N
  <2>1. \A q \in Seq(X) : Len(q) = 0 => q = <<>>
      BY EmptySeq
  <2> QED
      BY <2>1
<1>2. ASSUME NEW n \in Nat, n \in N PROVE n + 1 \in N
  <2> SUFFICES ASSUME NEW q \in Seq(X), Len(q) = n + 1 PROVE q \in S
      OBVIOUS
  <2>1. q # <<>>
      BY EmptySeq
  <2>2. PICK s \in Seq(X), x \in X : q = Append(s, x)
      BY <2>1, SequenceEmptyOrAppend
  <2>3. Len(q) = Len(s) + 1 /\ Len(s) \in Nat
      BY <2>2, AppendProperties, LenProperties
  <2>4. s \in S
      BY <1>2, <2>3
  <2> QED
      BY <2>2, <2>4
<1> HIDE DEF N
<1>3. \A n \in Nat : n \in N
    BY <1>1, <1>2, Counting
<1> QED
    BY <1>3, LenProperties DEF N

-----------------------------------------------------------------------------
(* The recursion of Kept.                                                  *)

\* What a queue keeps of its first n elements, for each n up to m.
KeepsOf(q, S, X, m) ==
    {k \in [0..m -> Seq(X)] :
        /\ k[0] = <<>>
        /\ \A n \in 1..m : k[n] = IF q[n] \in S THEN Append(k[n - 1], q[n]) ELSE k[n - 1]}

LEMMA KeepsExist ==
    ASSUME NEW X, NEW S, NEW q \in Seq(X)
    PROVE  KeepsOf(q, S, X, Len(q)) # {}
<1> DEFINE N == {n \in Nat : n <= Len(q) => KeepsOf(q, S, X, n) # {}}
<1>1. 0 \in N
  <2>1. [i \in 0..0 |-> <<>>] \in KeepsOf(q, S, X, 0)
    <3>1. <<>> \in Seq(X)
        BY EmptySeq
    <3> QED
        BY <3>1 DEF KeepsOf
  <2> QED
      BY <2>1
<1>2. ASSUME NEW n \in Nat, n \in N PROVE n + 1 \in N
  <2> SUFFICES ASSUME n + 1 <= Len(q) PROVE KeepsOf(q, S, X, n + 1) # {}
      OBVIOUS
  <2>1. PICK k \in KeepsOf(q, S, X, n) : TRUE
      BY <1>2, LenProperties
  <2>2. /\ k \in [0..n -> Seq(X)] /\ k[0] = <<>>
        /\ \A i \in 1..n : k[i] = IF q[i] \in S THEN Append(k[i - 1], q[i]) ELSE k[i - 1]
      BY <2>1 DEF KeepsOf
  <2>3. q[n + 1] \in X /\ k[n] \in Seq(X)
      BY <2>2, ElementOfSeq, LenProperties
  <2> DEFINE last == IF q[n + 1] \in S THEN Append(k[n], q[n + 1]) ELSE k[n]
             longer == [i \in 0..(n + 1) |-> IF i = n + 1 THEN last ELSE k[i]]
  <2>4. last \in Seq(X)
      BY <2>3, AppendProperties
  <2> HIDE DEF last
  <2>5. longer \in [0..(n + 1) -> Seq(X)] /\ longer[0] = <<>>
      BY <2>2, <2>4
  <2>6. ASSUME NEW i \in 1..(n + 1)
        PROVE  longer[i] = IF q[i] \in S THEN Append(longer[i - 1], q[i]) ELSE longer[i - 1]
    <3>1. CASE i = n + 1
        BY <3>1 DEF last
    <3>2. CASE i # n + 1
      <4>1. i \in 1..n /\ i - 1 \in 0..(n + 1) /\ i - 1 # n + 1 /\ i \in 0..(n + 1)
          BY <3>2
      <4>2. longer[i] = k[i] /\ longer[i - 1] = k[i - 1]
          BY <3>2, <4>1
      <4> QED
          BY <2>2, <4>1, <4>2
    <3> QED
        BY <3>1, <3>2
  <2> HIDE DEF longer
  <2>7. longer \in KeepsOf(q, S, X, n + 1)
      BY <2>5, <2>6 DEF KeepsOf
  <2> QED
      BY <2>7
<1> HIDE DEF N
<1>3. \A n \in Nat : n \in N
    BY <1>1, <1>2, Counting
<1> QED
    BY <1>3, LenProperties DEF N

\* There is one such function, also if one queue begins with the other.
LEMMA KeepsUnique ==
    ASSUME NEW X, NEW S, NEW q, NEW r, NEW m \in Nat, NEW n \in Nat, m <= n,
           \A i \in 1..m : q[i] = r[i],
           NEW k \in KeepsOf(q, S, X, m), NEW l \in KeepsOf(r, S, X, n)
    PROVE  \A i \in 0..m : k[i] = l[i]
<1> DEFINE N == {i \in Nat : i <= m => k[i] = l[i]}
<1>1. 0 \in N
    BY DEF KeepsOf
<1>2. ASSUME NEW i \in Nat, i \in N PROVE i + 1 \in N
  <2> SUFFICES ASSUME i + 1 <= m PROVE k[i + 1] = l[i + 1]
      OBVIOUS
  <2>1. i + 1 \in 1..m /\ i + 1 \in 1..n /\ (i + 1) - 1 = i /\ k[i] = l[i]
      BY <1>2
  <2>2. /\ k[i + 1] = IF q[i + 1] \in S THEN Append(k[i], q[i + 1]) ELSE k[i]
        /\ l[i + 1] = IF r[i + 1] \in S THEN Append(l[i], r[i + 1]) ELSE l[i]
    <3>1. /\ \A j \in 1..m : k[j] = IF q[j] \in S THEN Append(k[j - 1], q[j]) ELSE k[j - 1]
          /\ \A j \in 1..n : l[j] = IF r[j] \in S THEN Append(l[j - 1], r[j]) ELSE l[j - 1]
        BY DEF KeepsOf
    <3> HIDE DEF N
    <3> QED
        BY <2>1, <3>1
  <2>3. q[i + 1] = r[i + 1]
      BY <2>1
  <2> QED
      BY <2>1, <2>2, <2>3
<1> HIDE DEF N
<1>3. \A i \in Nat : i \in N
    BY <1>1, <1>2, Counting
<1> QED
    BY <1>3 DEF N

\* Kept is the last of them.
LEMMA KeptIsLast ==
    ASSUME NEW X, NEW S, NEW q \in Seq(X)
    PROVE  \A k \in KeepsOf(q, S, X, Len(q)) : Kept(q, S) = k[Len(q)]
<1> DEFINE D == 0..Len(q)
           Steps(k) == [n \in D |-> IF n = 0 THEN <<>>
                                    ELSE IF q[n] \in S THEN Append(k[n - 1], q[n])
                                    ELSE k[n - 1]]
           kept == CHOOSE k : k = Steps(k)
<1>1. Len(q) \in Nat
    BY LenProperties
<1>2. \A k \in KeepsOf(q, S, X, Len(q)) : k = Steps(k)
  <2> SUFFICES ASSUME NEW k \in KeepsOf(q, S, X, Len(q)) PROVE k = Steps(k)
      OBVIOUS
  <2>1. /\ k \in [D -> Seq(X)] /\ k[0] = <<>>
        /\ \A n \in 1..Len(q) : k[n] = IF q[n] \in S THEN Append(k[n - 1], q[n]) ELSE k[n - 1]
      BY DEF KeepsOf
  <2>2. \A n \in D : n = 0 \/ n \in 1..Len(q)
      BY <1>1
  <2>3. \A n \in D : k[n] = IF n = 0 THEN <<>>
                            ELSE IF q[n] \in S THEN Append(k[n - 1], q[n])
                            ELSE k[n - 1]
      BY <1>1, <2>1, <2>2
  <2> HIDE DEF D
  <2> QED
      BY <2>1, <2>3
<1>3. kept = Steps(kept)
    BY <1>2, KeepsExist
<1>4. ASSUME NEW k \in KeepsOf(q, S, X, Len(q)) PROVE k[Len(q)] = kept[Len(q)]
  <2> DEFINE N == {i \in Nat : i <= Len(q) => k[i] = kept[i]}
  <2>1. \A n \in D : kept[n] = IF n = 0 THEN <<>>
                               ELSE IF q[n] \in S THEN Append(kept[n - 1], q[n])
                               ELSE kept[n - 1]
      BY <1>3
  <2> HIDE DEF kept
  <2>2. 0 \in N
      BY <1>1, <2>1 DEF KeepsOf
  <2>3. ASSUME NEW i \in Nat, i \in N PROVE i + 1 \in N
    <3> SUFFICES ASSUME i + 1 <= Len(q) PROVE k[i + 1] = kept[i + 1]
        OBVIOUS
    <3>1. i + 1 \in 1..Len(q) /\ i + 1 \in D /\ i + 1 # 0 /\ (i + 1) - 1 = i /\ k[i] = kept[i]
        BY <1>1, <2>3
    <3> QED
        BY <2>1, <3>1 DEF KeepsOf
  <2> HIDE DEF N
  <2>4. \A i \in Nat : i \in N
      BY <2>2, <2>3, Counting
  <2> QED
      BY <1>1, <2>4 DEF N
<1>5. Kept(q, S) = kept[Len(q)]
    BY DEF Kept
<1> QED
    BY <1>4, <1>5
-----------------------------------------------------------------------------
(* What Kept does to a queue.                                              *)

LEMMA KeptEmpty == ASSUME NEW S PROVE Kept(<<>>, S) = <<>>
<1> DEFINE q == <<>>
<1>1. q \in Seq({}) /\ Len(q) = 0
    BY EmptySeq
<1> HIDE DEF q
<1>2. PICK k \in KeepsOf(q, S, {}, Len(q)) : TRUE
    BY <1>1, KeepsExist
<1>3. Kept(q, S) = k[Len(q)]
    BY <1>1, <1>2, KeptIsLast
<1>4. k[0] = <<>>
    BY <1>2 DEF KeepsOf
<1> QED
    BY <1>1, <1>3, <1>4 DEF q

LEMMA KeptAppend ==
    ASSUME NEW X, NEW S, NEW q \in Seq(X), NEW x \in X
    PROVE  Kept(Append(q, x), S) = IF x \in S THEN Append(Kept(q, S), x) ELSE Kept(q, S)
<1> DEFINE r == Append(q, x)
           n == Len(q)
<1>1. /\ r \in Seq(X) /\ Len(r) = n + 1 /\ n \in Nat
      /\ \A i \in 1..n : q[i] = r[i]
      /\ r[n + 1] = x
    BY AppendProperties, LenProperties
<1> HIDE DEF r, n
<1>2. PICK k \in KeepsOf(q, S, X, n) : TRUE
    BY KeepsExist DEF n
<1>3. PICK l \in KeepsOf(r, S, X, n + 1) : TRUE
    BY <1>1, KeepsExist
<1>4. \A i \in 0..n : k[i] = l[i]
    BY <1>1, <1>2, <1>3, KeepsUnique
<1>5. k[n] = l[n]
    BY <1>1, <1>4
<1>6. Kept(q, S) = k[n] /\ Kept(r, S) = l[n + 1]
    BY <1>1, <1>2, <1>3, KeptIsLast DEF n
<1>7. l[n + 1] = IF r[n + 1] \in S THEN Append(l[n], r[n + 1]) ELSE l[n]
  <2>1. \A i \in 1..(n + 1) : l[i] = IF r[i] \in S THEN Append(l[i - 1], r[i]) ELSE l[i - 1]
      BY <1>3 DEF KeepsOf
  <2>2. n + 1 \in 1..(n + 1) /\ (n + 1) - 1 = n
      BY <1>1
  <2> QED
      BY <2>1, <2>2
<1> QED
    BY <1>1, <1>5, <1>6, <1>7 DEF r

LEMMA KeptType ==
    ASSUME NEW X, NEW S, NEW q \in Seq(X)
    PROVE  Kept(q, S) \in Seq(X)
<1> DEFINE Good == {s \in Seq(X) : Kept(s, S) \in Seq(X)}
<1>1. <<>> \in Good
    BY KeptEmpty, EmptySeq
<1>2. ASSUME NEW s \in Seq(X), NEW x \in X, s \in Good PROVE Append(s, x) \in Good
  <2>1. Append(s, x) \in Seq(X) /\ Append(Kept(s, S), x) \in Seq(X)
      BY <1>2, AppendProperties
  <2>2. Kept(Append(s, x), S) = IF x \in S THEN Append(Kept(s, S), x) ELSE Kept(s, S)
      BY KeptAppend
  <2> QED
      BY <1>2, <2>1, <2>2
<1> HIDE DEF Good
<1>3. \A s \in Seq(X) : s \in Good
    BY <1>1, <1>2, Appending
<1> QED
    BY <1>3 DEF Good

\* The elements of a queue, one by one.
LEMMA RangeEmpty == ToSet(<<>>) = {}
<1>1. <<>> \in Seq({}) /\ Len(<<>>) = 0
    BY EmptySeq
<1>2. DOMAIN <<>> = {}
    BY <1>1, LenProperties
<1> QED
    BY <1>2 DEF ToSet

LEMMA RangeAppend ==
    ASSUME NEW X, NEW q \in Seq(X), NEW x \in X
    PROVE  ToSet(Append(q, x)) = ToSet(q) \cup {x}
<1>1. /\ DOMAIN Append(q, x) = 1..(Len(q) + 1) /\ DOMAIN q = 1..Len(q) /\ Len(q) \in Nat
      /\ \A i \in 1..Len(q) : Append(q, x)[i] = q[i]
      /\ Append(q, x)[Len(q) + 1] = x
    BY AppendProperties, LenProperties
<1>2. 1..(Len(q) + 1) = 1..Len(q) \cup {Len(q) + 1}
    BY <1>1
<1> QED
    BY <1>1, <1>2 DEF ToSet

LEMMA RangeIn == ASSUME NEW X, NEW q \in Seq(X) PROVE ToSet(q) \subseteq X
BY ElementOfSeq, LenProperties DEF ToSet

LEMMA RangeConcat ==
    ASSUME NEW X, NEW q \in Seq(X), NEW r \in Seq(X)
    PROVE  ToSet(q \o r) = ToSet(q) \cup ToSet(r)
<1> DEFINE m == Len(q)
           n == Len(r)
<1>1. /\ m \in Nat /\ n \in Nat /\ DOMAIN q = 1..m /\ DOMAIN r = 1..n
      /\ q \o r \in Seq(X) /\ Len(q \o r) = m + n
      /\ \A i \in 1..(m + n) : (q \o r)[i] = IF i <= m THEN q[i] ELSE r[i - m]
    BY ConcatProperties, LenProperties
<1>2. DOMAIN (q \o r) = 1..(m + n)
    BY <1>1, LenProperties
<1> HIDE DEF m, n
<1>3. ASSUME NEW i \in 1..(m + n) PROVE (q \o r)[i] \in ToSet(q) \cup ToSet(r)
  <2>1. CASE i <= m
      BY <1>1, <2>1 DEF ToSet
  <2>2. CASE ~(i <= m)
    <3>1. i - m \in 1..n
        BY <1>1, <2>2
    <3> QED
        BY <1>1, <2>2, <3>1 DEF ToSet
  <2> QED
      BY <2>1, <2>2
<1>4. ASSUME NEW i \in 1..m PROVE q[i] \in ToSet(q \o r)
  <2>1. i \in 1..(m + n) /\ (q \o r)[i] = q[i]
      BY <1>1
  <2> QED
      BY <1>2, <2>1 DEF ToSet
<1>5. ASSUME NEW i \in 1..n PROVE r[i] \in ToSet(q \o r)
  <2>1. i + m \in 1..(m + n) /\ ~(i + m <= m) /\ (i + m) - m = i
      BY <1>1
  <2>2. (q \o r)[i + m] = r[i]
      BY <1>1, <2>1
  <2> QED
      BY <1>2, <2>1, <2>2 DEF ToSet
<1>6. ToSet(q \o r) \subseteq ToSet(q) \cup ToSet(r)
    BY <1>2, <1>3 DEF ToSet
<1>7. ToSet(q) \subseteq ToSet(q \o r) /\ ToSet(r) \subseteq ToSet(q \o r)
    BY <1>1, <1>4, <1>5 DEF ToSet
<1> QED
    BY <1>6, <1>7

LEMMA KeptRange ==
    ASSUME NEW X, NEW S, NEW q \in Seq(X)
    PROVE  ToSet(Kept(q, S)) = ToSet(q) \cap S
<1> DEFINE Good == {s \in Seq(X) : ToSet(Kept(s, S)) = ToSet(s) \cap S}
<1>1. <<>> \in Good
    BY KeptEmpty, EmptySeq, RangeEmpty
<1>2. ASSUME NEW s \in Seq(X), NEW x \in X, s \in Good PROVE Append(s, x) \in Good
  <2>1. Append(s, x) \in Seq(X) /\ ToSet(Append(s, x)) = ToSet(s) \cup {x}
      BY AppendProperties, RangeAppend
  <2>2. CASE x \in S
    <3>1. Kept(Append(s, x), S) = Append(Kept(s, S), x)
        BY <2>2, KeptAppend
    <3>2. ToSet(Append(Kept(s, S), x)) = ToSet(Kept(s, S)) \cup {x}
        BY KeptType, RangeAppend
    <3> QED
        BY <1>2, <2>1, <2>2, <3>1, <3>2
  <2>3. CASE x \notin S
    <3>1. Kept(Append(s, x), S) = Kept(s, S)
        BY <2>3, KeptAppend
    <3> QED
        BY <1>2, <2>1, <2>3, <3>1
  <2> QED
      BY <2>2, <2>3
<1> HIDE DEF Good
<1>3. \A s \in Seq(X) : s \in Good
    BY <1>1, <1>2, Appending
<1> QED
    BY <1>3 DEF Good

LEMMA AppendConcat ==
    ASSUME NEW X, NEW q \in Seq(X), NEW r \in Seq(X), NEW x \in X
    PROVE  q \o Append(r, x) = Append(q \o r, x)
<1>1. /\ Append(r, x) = r \o <<x>> /\ <<x>> \in Seq(X)
      /\ q \o r \in Seq(X) /\ Append(q \o r, x) = (q \o r) \o <<x>>
  <2>1. <<>> \in Seq(X) /\ <<x>> = Append(<<>>, x)
      BY EmptySeq
  <2> QED
      BY <2>1, AppendIsConcat, AppendProperties, ConcatProperties
<1> QED
    BY <1>1, ConcatAssociative

LEMMA KeptConcat ==
    ASSUME NEW X, NEW S, NEW q \in Seq(X), NEW r \in Seq(X)
    PROVE  Kept(q \o r, S) = Kept(q, S) \o Kept(r, S)
<1> DEFINE Good == {s \in Seq(X) : Kept(q \o s, S) = Kept(q, S) \o Kept(s, S)}
<1>1. <<>> \in Good
  <2>1. q \o <<>> = q /\ Kept(q, S) \o <<>> = Kept(q, S)
      BY KeptType, ConcatEmptySeq
  <2> QED
      BY <2>1, KeptEmpty, EmptySeq
<1>2. ASSUME NEW s \in Seq(X), NEW x \in X, s \in Good PROVE Append(s, x) \in Good
  <2>1. Append(s, x) \in Seq(X) /\ q \o s \in Seq(X)
      BY AppendProperties, ConcatProperties
  <2>2. q \o Append(s, x) = Append(q \o s, x)
      BY AppendConcat
  <2>3. CASE x \in S
    <3>1. /\ Kept(q \o Append(s, x), S) = Append(Kept(q \o s, S), x)
          /\ Kept(Append(s, x), S) = Append(Kept(s, S), x)
        BY <2>1, <2>2, <2>3, KeptAppend
    <3>2. Kept(q, S) \in Seq(X) /\ Kept(s, S) \in Seq(X)
        BY KeptType
    <3>3. Kept(q, S) \o Append(Kept(s, S), x) = Append(Kept(q, S) \o Kept(s, S), x)
        BY <3>2, AppendConcat
    <3> QED
        BY <1>2, <2>1, <3>1, <3>3
  <2>4. CASE x \notin S
    <3>1. Kept(Append(s, x), S) = Kept(s, S)
        BY <2>4, KeptAppend
    <3>2. Kept(Append(q \o s, x), S) = Kept(q \o s, S)
      <4> DEFINE t == q \o s
      <4>1. t \in Seq(X)
          BY <2>1
      <4> HIDE DEF t
      <4>2. Kept(Append(t, x), S) = Kept(t, S)
          BY <2>4, <4>1, KeptAppend
      <4> QED
          BY <4>2 DEF t
    <3> QED
        BY <1>2, <2>1, <2>2, <3>1, <3>2
  <2> QED
      BY <2>3, <2>4
<1> HIDE DEF Good
<1>3. \A s \in Seq(X) : s \in Good
    BY <1>1, <1>2, Appending
<1> QED
    BY <1>3 DEF Good

\* Only the elements that are there decide what is kept.
LEMMA KeptSame ==
    ASSUME NEW X, NEW q \in Seq(X), NEW S, NEW T, \A x \in ToSet(q) : x \in S <=> x \in T
    PROVE  Kept(q, S) = Kept(q, T)
<1> DEFINE Good == {s \in Seq(X) : (\A x \in ToSet(s) : x \in S <=> x \in T)
                                        => Kept(s, S) = Kept(s, T)}
<1>1. <<>> \in Good
    BY KeptEmpty, EmptySeq
<1>2. ASSUME NEW s \in Seq(X), NEW x \in X, s \in Good PROVE Append(s, x) \in Good
  <2>1. Append(s, x) \in Seq(X) /\ ToSet(Append(s, x)) = ToSet(s) \cup {x}
      BY AppendProperties, RangeAppend
  <2>2. /\ Kept(Append(s, x), S) = IF x \in S THEN Append(Kept(s, S), x) ELSE Kept(s, S)
        /\ Kept(Append(s, x), T) = IF x \in T THEN Append(Kept(s, T), x) ELSE Kept(s, T)
      BY KeptAppend
  <2> QED
      BY <1>2, <2>1, <2>2
<1> HIDE DEF Good
<1>3. \A s \in Seq(X) : s \in Good
    BY <1>1, <1>2, Appending
<1> QED
    BY <1>3 DEF Good

LEMMA KeptAll ==
    ASSUME NEW X, NEW q \in Seq(X), NEW S, ToSet(q) \subseteq S
    PROVE  Kept(q, S) = q
<1> DEFINE Good == {s \in Seq(X) : ToSet(s) \subseteq S => Kept(s, S) = s}
<1>1. <<>> \in Good
    BY KeptEmpty, EmptySeq
<1>2. ASSUME NEW s \in Seq(X), NEW x \in X, s \in Good PROVE Append(s, x) \in Good
  <2>1. Append(s, x) \in Seq(X) /\ ToSet(Append(s, x)) = ToSet(s) \cup {x}
      BY AppendProperties, RangeAppend
  <2>2. Kept(Append(s, x), S) = IF x \in S THEN Append(Kept(s, S), x) ELSE Kept(s, S)
      BY KeptAppend
  <2> QED
      BY <1>2, <2>1, <2>2
<1> HIDE DEF Good
<1>3. \A s \in Seq(X) : s \in Good
    BY <1>1, <1>2, Appending
<1> QED
    BY <1>3 DEF Good

LEMMA KeptNone ==
    ASSUME NEW X, NEW q \in Seq(X), NEW S, ToSet(q) \cap S = {}
    PROVE  Kept(q, S) = <<>>
<1>1. Kept(q, S) \in Seq(X) /\ ToSet(Kept(q, S)) = {}
    BY KeptType, KeptRange
<1>2. DOMAIN Kept(q, S) = {}
    BY <1>1 DEF ToSet
<1>3. Len(Kept(q, S)) \in Nat /\ 1..Len(Kept(q, S)) = {}
    BY <1>1, <1>2, LenProperties
<1> DEFINE n == Len(Kept(q, S))
<1>4. n = 0
  <2>1. n \in Nat /\ 1..n = {}
      BY <1>3
  <2> HIDE DEF n
  <2> QED
      BY <2>1
<1> QED
    BY <1>1, <1>4, EmptySeq

LEMMA KeptTwice ==
    ASSUME NEW X, NEW q \in Seq(X), NEW S, NEW T
    PROVE  Kept(Kept(q, S), T) = Kept(q, S \cap T)
<1> DEFINE Good == {s \in Seq(X) : Kept(Kept(s, S), T) = Kept(s, S \cap T)}
<1>1. <<>> \in Good
    BY KeptEmpty, EmptySeq
<1>2. ASSUME NEW s \in Seq(X), NEW x \in X, s \in Good PROVE Append(s, x) \in Good
  <2>1. Append(s, x) \in Seq(X) /\ Kept(s, S) \in Seq(X)
      BY AppendProperties, KeptType
  <2>2. /\ Kept(Append(s, x), S) = IF x \in S THEN Append(Kept(s, S), x) ELSE Kept(s, S)
        /\ Kept(Append(s, x), S \cap T) =
              IF x \in S \cap T THEN Append(Kept(s, S \cap T), x) ELSE Kept(s, S \cap T)
        /\ Kept(Append(Kept(s, S), x), T) =
              IF x \in T THEN Append(Kept(Kept(s, S), T), x) ELSE Kept(Kept(s, S), T)
      BY <2>1, KeptAppend
  <2>3. Kept(Kept(s, S), T) = Kept(s, S \cap T)
      BY <1>2
  <2>4. Kept(Kept(Append(s, x), S), T) = Kept(Append(s, x), S \cap T)
    <3>1. CASE x \in S /\ x \in T
        BY <2>2, <2>3, <3>1
    <3>2. CASE x \in S /\ x \notin T
        BY <2>2, <2>3, <3>2
    <3>3. CASE x \notin S
        BY <2>2, <2>3, <3>3
    <3> QED
        BY <3>1, <3>2, <3>3
  <2> QED
      BY <2>1, <2>4
<1> HIDE DEF Good
<1>3. \A s \in Seq(X) : s \in Good
    BY <1>1, <1>2, Appending
<1> QED
    BY <1>3 DEF Good

-----------------------------------------------------------------------------
(* Queues in which nothing is twice.                                       *)

LEMMA InjectiveAppend ==
    ASSUME NEW X, NEW q \in Seq(X), NEW x \in X
    PROVE  IsInjective(Append(q, x)) <=> IsInjective(q) /\ x \notin ToSet(q)
<1>1. /\ DOMAIN Append(q, x) = 1..(Len(q) + 1) /\ DOMAIN q = 1..Len(q) /\ Len(q) \in Nat
      /\ \A i \in 1..Len(q) : Append(q, x)[i] = q[i]
      /\ Append(q, x)[Len(q) + 1] = x
    BY AppendProperties, LenProperties
<1>2. 1..(Len(q) + 1) = 1..Len(q) \cup {Len(q) + 1} /\ Len(q) + 1 \notin 1..Len(q)
    BY <1>1
<1>3. ASSUME IsInjective(Append(q, x)) PROVE IsInjective(q) /\ x \notin ToSet(q)
  <2>1. \A i, j \in 1..(Len(q) + 1) : Append(q, x)[i] = Append(q, x)[j] => i = j
      BY <1>1, <1>3 DEF IsInjective
  <2>2. \A i, j \in 1..Len(q) : q[i] = q[j] => i = j
      BY <1>1, <1>2, <2>1
  <2>3. \A i \in 1..Len(q) : q[i] # x
      BY <1>1, <1>2, <2>1
  <2> QED
      BY <1>1, <2>2, <2>3 DEF IsInjective, ToSet
<1>4. ASSUME IsInjective(q), x \notin ToSet(q) PROVE IsInjective(Append(q, x))
  <2>1. \A i, j \in 1..Len(q) : q[i] = q[j] => i = j
      BY <1>1, <1>4 DEF IsInjective
  <2>2. \A i \in 1..Len(q) : q[i] # x
      BY <1>1, <1>4 DEF ToSet
  <2>3. \A i, j \in 1..(Len(q) + 1) : Append(q, x)[i] = Append(q, x)[j] => i = j
      BY <1>1, <1>2, <2>1, <2>2
  <2> QED
      BY <1>1, <2>3 DEF IsInjective
<1> QED
    BY <1>3, <1>4

LEMMA KeptInjective ==
    ASSUME NEW X, NEW q \in Seq(X), NEW S, IsInjective(q)
    PROVE  IsInjective(Kept(q, S))
<1> DEFINE Good == {s \in Seq(X) : IsInjective(s) => IsInjective(Kept(s, S))}
<1>1. <<>> \in Good
    BY KeptEmpty, EmptySeq
<1>2. ASSUME NEW s \in Seq(X), NEW x \in X, s \in Good PROVE Append(s, x) \in Good
  <2>1. Append(s, x) \in Seq(X) /\ Kept(s, S) \in Seq(X)
      BY AppendProperties, KeptType
  <2> SUFFICES ASSUME IsInjective(Append(s, x)) PROVE IsInjective(Kept(Append(s, x), S))
      BY <2>1
  <2>2. IsInjective(s) /\ x \notin ToSet(s)
      BY InjectiveAppend
  <2>3. IsInjective(Kept(s, S)) /\ x \notin ToSet(Kept(s, S))
      BY <1>2, <2>2, KeptRange
  <2>4. IsInjective(Append(Kept(s, S), x))
      BY <2>1, <2>3, InjectiveAppend
  <2>5. Kept(Append(s, x), S) = IF x \in S THEN Append(Kept(s, S), x) ELSE Kept(s, S)
      BY KeptAppend
  <2> QED
      BY <2>3, <2>4, <2>5
<1> HIDE DEF Good
<1>3. \A s \in Seq(X) : s \in Good
    BY <1>1, <1>2, Appending
<1> QED
    BY <1>3 DEF Good

\* Nothing is twice in two queues in a row if nothing is in both.
LEMMA InjectiveConcat ==
    ASSUME NEW X, NEW q \in Seq(X), NEW r \in Seq(X)
    PROVE  IsInjective(q \o r) <=> /\ IsInjective(q) /\ IsInjective(r)
                                   /\ ToSet(q) \cap ToSet(r) = {}
<1> DEFINE Good == {s \in Seq(X) : IsInjective(q \o s) <=> /\ IsInjective(q) /\ IsInjective(s)
                                                           /\ ToSet(q) \cap ToSet(s) = {}}
<1>1. <<>> \in Good
  <2>1. q \o <<>> = q /\ <<>> \in Seq(X) /\ DOMAIN <<>> = {}
    <3>1. <<>> \in Seq(X) /\ Len(<<>>) = 0
        BY EmptySeq
    <3> QED
        BY <3>1, ConcatEmptySeq, LenProperties
  <2> QED
      BY <2>1, RangeEmpty DEF IsInjective
<1>2. ASSUME NEW s \in Seq(X), NEW x \in X, s \in Good PROVE Append(s, x) \in Good
  <2>1. Append(s, x) \in Seq(X) /\ q \o s \in Seq(X)
      BY AppendProperties, ConcatProperties
  <2>2. q \o Append(s, x) = Append(q \o s, x)
      BY AppendConcat
  <2>3. IsInjective(Append(q \o s, x)) <=> IsInjective(q \o s) /\ x \notin ToSet(q) \cup ToSet(s)
    <3> DEFINE t == q \o s
    <3>1. t \in Seq(X) /\ ToSet(t) = ToSet(q) \cup ToSet(s)
        BY <2>1, RangeConcat
    <3> HIDE DEF t
    <3>2. IsInjective(Append(t, x)) <=> IsInjective(t) /\ x \notin ToSet(t)
        BY <3>1, InjectiveAppend
    <3> QED
        BY <3>1, <3>2 DEF t
  <2>4. IsInjective(Append(s, x)) <=> IsInjective(s) /\ x \notin ToSet(s)
      BY InjectiveAppend
  <2>5. ToSet(Append(s, x)) = ToSet(s) \cup {x}
      BY RangeAppend
  <2>6. IsInjective(q \o s) <=> /\ IsInjective(q) /\ IsInjective(s) /\ ToSet(q) \cap ToSet(s) = {}
      BY <1>2
  <2> HIDE DEF Good
  <2>7. IsInjective(q \o Append(s, x)) <=> /\ IsInjective(q) /\ IsInjective(Append(s, x))
                                           /\ ToSet(q) \cap ToSet(Append(s, x)) = {}
      BY <2>2, <2>3, <2>4, <2>5, <2>6
  <2> QED
      BY <2>1, <2>7 DEF Good
<1> HIDE DEF Good
<1>3. \A s \in Seq(X) : s \in Good
    BY <1>1, <1>2, Appending
<1> QED
    BY <1>3 DEF Good

\* A queue of one element.
LEMMA OneElement ==
    ASSUME NEW X, NEW x \in X
    PROVE  /\ <<x>> \in Seq(X) /\ <<x>> # <<>> /\ ToSet(<<x>>) = {x} /\ IsInjective(<<x>>)
           /\ \A S : Kept(<<x>>, S) = IF x \in S THEN <<x>> ELSE <<>>
<1> DEFINE e == <<>>
<1>1. e \in Seq(X) /\ <<x>> = Append(e, x) /\ e = <<>>
    BY EmptySeq
<1>2. ToSet(e) = {} /\ DOMAIN e = {} /\ \A S : Kept(e, S) = <<>>
  <2>1. Len(e) = 0 /\ ToSet(e) = {}
      BY EmptySeq, RangeEmpty
  <2>2. DOMAIN e = {}
    <3> HIDE DEF e
    <3> QED
        BY <1>1, <2>1, LenProperties
  <2>3. ASSUME NEW S PROVE Kept(e, S) = <<>>
      BY KeptEmpty
  <2> HIDE DEF e
  <2> QED
      BY <2>1, <2>2, <2>3
<1>a. e \in Seq(X)
    BY <1>1
<1> HIDE DEF e
<1>3. Append(e, x) \in Seq(X) /\ Append(e, x) # <<>>
    BY <1>1, AppendProperties
<1>4. ToSet(Append(e, x)) = ToSet(e) \cup {x}
    BY <1>a, RangeAppend
<1>5. IsInjective(Append(e, x))
  <2>1. IsInjective(e)
      BY <1>2 DEF IsInjective
  <2> QED
      BY <1>1, <1>2, <2>1, InjectiveAppend
<1>6. ASSUME NEW S PROVE Kept(Append(e, x), S) = IF x \in S THEN Append(e, x) ELSE <<>>
  <2>1. Kept(Append(e, x), S) = IF x \in S THEN Append(Kept(e, S), x) ELSE Kept(e, S)
      BY <1>a, KeptAppend
  <2>2. Kept(e, S) = <<>>
      BY <1>2
  <2> QED
      BY <1>1, <2>1, <2>2
<1> QED
    BY <1>1, <1>2, <1>3, <1>4, <1>5, <1>6

\* A queue and what is behind its head.
LEMMA Behead ==
    ASSUME NEW X, NEW q \in Seq(X), q # <<>>
    PROVE  /\ Head(q) \in X /\ Tail(q) \in Seq(X) /\ Head(q) \in ToSet(q)
           /\ <<Head(q)>> \o Tail(q) = q
           /\ ToSet(q) = {Head(q)} \cup ToSet(Tail(q))
           /\ IsInjective(q) => IsInjective(Tail(q)) /\ Head(q) \notin ToSet(Tail(q))
<1>1. Head(q) \in X /\ Tail(q) \in Seq(X)
    BY HeadTailProperties
<1>2. Len(q) \in Nat /\ Len(q) # 0 /\ Head(q) = q[1]
    BY LenProperties, EmptySeq
<1>3. q = <<Head(q)>> \o Tail(q)
  <2>1. SubSeq(q, 1, Len(q)) = <<q[1]>> \o SubSeq(q, 1 + 1, Len(q))
      BY <1>2, SubSeqRecursiveFirst
  <2>2. SubSeq(q, 1, Len(q)) = q /\ Tail(q) = SubSeq(q, 2, Len(q))
      BY SubSeqFull, TailIsSubSeq
  <2> QED
      BY <1>2, <2>1, <2>2
<1>4. <<Head(q)>> \in Seq(X) /\ ToSet(<<Head(q)>>) = {Head(q)}
    BY <1>1, OneElement
<1> DEFINE h == <<Head(q)>>
           t == Tail(q)
<1>5. h \in Seq(X) /\ t \in Seq(X) /\ ToSet(h) = {Head(q)} /\ q = h \o t
    BY <1>1, <1>3, <1>4
<1>6. ToSet(h \o t) = ToSet(h) \cup ToSet(t)
  <2> HIDE DEF h, t
  <2> QED
      BY <1>5, RangeConcat
<1>7. IsInjective(h \o t) => IsInjective(t) /\ ToSet(h) \cap ToSet(t) = {}
  <2> HIDE DEF h, t
  <2> QED
      BY <1>5, InjectiveConcat
<1> HIDE DEF h, t
<1>8. /\ ToSet(q) = {Head(q)} \cup ToSet(t)
      /\ IsInjective(q) => IsInjective(t) /\ Head(q) \notin ToSet(t)
    BY <1>5, <1>6, <1>7
<1> QED
    BY <1>1, <1>3, <1>8 DEF t

\* Taking one element out of a queue leaves all others in their order.
LEMMA RemoveIsKept ==
    ASSUME NEW X, NEW q \in Seq(X), IsInjective(q), NEW i \in DOMAIN q
    PROVE  /\ RemoveAt(q, i) = Kept(q, X \ {q[i]}) /\ RemoveAt(q, i) \in Seq(X)
           /\ ToSet(RemoveAt(q, i)) = ToSet(q) \ {q[i]}
           /\ IsInjective(RemoveAt(q, i))
<1> DEFINE n == Len(q)
           x == q[i]
           a == SubSeq(q, 1, i - 1)
           b == SubSeq(q, i + 1, n)
           c == <<x>>
           S == X \ {x}
<1>1. n \in Nat /\ i \in 1..n /\ x \in X /\ x \in ToSet(q)
    BY LenProperties, ElementOfSeq DEF ToSet
<1>2. a \in Seq(X) /\ b \in Seq(X)
    BY <1>1, SubSeqProperties, ElementOfSeq
<1>3. c \in Seq(X) /\ ToSet(c) = {x} /\ Kept(c, S) = <<>>
    BY <1>1, OneElement
<1>4. q = a \o (c \o b)
  <2>0. /\ i \in 1..Len(q) /\ Len(q) \in i..Len(q) /\ i - 1 \in (1 - 1)..Len(q)
        /\ Len(q) \in (i - 1)..Len(q) /\ 1 \in 1..(Len(q) + 1)
      BY <1>1
  <2>1. SubSeq(q, i, n) = c \o b
      BY <2>0, SubSeqRecursiveFirst
  <2>2. SubSeq(q, 1, i - 1) \o SubSeq(q, (i - 1) + 1, n) = SubSeq(q, 1, n)
      BY <2>0, ConcatAdjacentSubSeq
  <2>3. (i - 1) + 1 = i /\ SubSeq(q, 1, n) = q
      BY <1>1, SubSeqFull
  <2> QED
      BY <2>1, <2>2, <2>3
<1>5. RemoveAt(q, i) = a \o b
    BY DEF RemoveAt
<1> HIDE DEF a, b, c, x, n, S
<1> DEFINE r == c \o b
<1>6. r \in Seq(X) /\ ToSet(r) = {x} \cup ToSet(b) /\ Kept(r, S) = <<>> \o Kept(b, S)
  <2>1. r \in Seq(X) /\ ToSet(r) = ToSet(c) \cup ToSet(b)
      BY <1>2, <1>3, ConcatProperties, RangeConcat
  <2>2. Kept(r, S) = Kept(c, S) \o Kept(b, S)
      BY <1>2, <1>3, KeptConcat
  <2> QED
      BY <1>3, <2>1, <2>2
<1>7. IsInjective(r) => x \notin ToSet(b)
    BY <1>2, <1>3, InjectiveConcat
<1>8. q = a \o r
    BY <1>4
<1> HIDE DEF r
<1>9. /\ IsInjective(a \o r) => IsInjective(r) /\ ToSet(a) \cap ToSet(r) = {}
      /\ Kept(a \o r, S) = Kept(a, S) \o Kept(r, S)
  <2>1. IsInjective(a \o r) => IsInjective(r) /\ ToSet(a) \cap ToSet(r) = {}
      BY <1>2, <1>6, InjectiveConcat
  <2>2. Kept(a \o r, S) = Kept(a, S) \o Kept(r, S)
      BY <1>2, <1>6, KeptConcat
  <2> QED
      BY <2>1, <2>2
<1>10. x \notin ToSet(a) /\ x \notin ToSet(b)
    BY <1>6, <1>7, <1>8, <1>9
<1>11. ToSet(a) \subseteq X /\ ToSet(b) \subseteq X
    BY <1>2, RangeIn
<1>12. Kept(a, S) = a /\ Kept(b, S) = b
    BY <1>2, <1>10, <1>11, KeptAll DEF S
<1>13. Kept(q, S) = a \o b
  <2>1. <<>> \o b = b
      BY <1>2, ConcatEmptySeq
  <2> QED
      BY <1>6, <1>8, <1>9, <1>12, <2>1
<1>14. /\ Kept(q, S) \in Seq(X) /\ IsInjective(Kept(q, S))
       /\ ToSet(Kept(q, S)) = ToSet(q) \cap S
    BY KeptType, KeptInjective, KeptRange
<1>15. ToSet(q) \cap S = ToSet(q) \ {x}
    BY RangeIn DEF S
<1> QED
    BY <1>5, <1>13, <1>14, <1>15 DEF x, S

LEMMA AscendingOf ==
    ASSUME NEW n \in Nat, NEW S
    PROVE  /\ Ascending(n, S) \in Seq(1..n) /\ IsInjective(Ascending(n, S))
           /\ ToSet(Ascending(n, S)) = S \cap (1..n)
<1> DEFINE q == [i \in 1..n |-> i]
           X == 1..n
<1>1. q \in Seq(X) /\ ToSet(q) = X /\ IsInjective(q)
  <2>1. q \in Seq(X)
      BY IsASeq
  <2>2. DOMAIN q = 1..n /\ \A i \in 1..n : q[i] = i
      OBVIOUS
  <2> QED
      BY <2>1, <2>2 DEF ToSet, IsInjective
<1> HIDE DEF q, X
<1>2. Kept(q, S) \in Seq(X) /\ ToSet(Kept(q, S)) = X \cap S /\ IsInjective(Kept(q, S))
    BY <1>1, KeptType, KeptRange, KeptInjective
<1> QED
    BY <1>2 DEF q, X, Ascending

\* FlattenSeq, the concatenation of a sequence of sequences.
LEMMA Flattened ==
    ASSUME NEW X, NEW ss \in Seq(Seq(X))
    PROVE  /\ FlattenSeq(ss) \in Seq(X)
           /\ ToSet(FlattenSeq(ss)) = UNION {ToSet(ss[i]) : i \in 1..Len(ss)}
<1> DEFINE n == Len(ss)
           Next(f) == [i \in 1..n |-> IF i = 1 THEN ss[i] ELSE f[i - 1] \o ss[i]]
           flatten == CHOOSE f : f = Next(f)
           Upto(m, f) == \A i \in 1..m : f[i] = IF i = 1 THEN ss[i] ELSE f[i - 1] \o ss[i]
           N == {m \in Nat : m <= n => \E f \in [1..n -> Seq(X)] : Upto(m, f)}
           R == {m \in Nat : m \in 1..n =>
                    /\ flatten[m] \in Seq(X)
                    /\ ToSet(flatten[m]) = UNION {ToSet(ss[i]) : i \in 1..m}}
<1>1. n \in Nat /\ \A i \in 1..n : ss[i] \in Seq(X)
    BY LenProperties, ElementOfSeq
<1>2. CASE n = 0
  <2>1. ss = <<>> /\ FlattenSeq(ss) = ss
      BY <1>2, EmptySeq DEF FlattenSeq
  <2>2. <<>> \in Seq(X) /\ ToSet(<<>>) = {}
      BY EmptySeq, RangeEmpty
  <2>3. 1..Len(ss) = {}
      BY <1>2
  <2> QED
      BY <2>1, <2>2, <2>3
<1>3. CASE n # 0
  <2>1. 0 \in N
    <3>1. [i \in 1..n |-> <<>>] \in [1..n -> Seq(X)]
        BY EmptySeq
    <3> QED
        BY <3>1
  <2>2. ASSUME NEW m \in Nat, m \in N PROVE m + 1 \in N
    <3>0. m + 1 \in Nat
        OBVIOUS
    <3> SUFFICES ASSUME m + 1 <= n PROVE \E f \in [1..n -> Seq(X)] : Upto(m + 1, f)
      <4> HIDE DEF Upto, n
      <4> QED
          BY <3>0
    <3>1. PICK f \in [1..n -> Seq(X)] : Upto(m, f)
        BY <1>1, <2>2
    <3> DEFINE last == IF m = 0 THEN ss[1] ELSE f[m] \o ss[m + 1]
               g == [f EXCEPT ![m + 1] = last]
    <3>2. last \in Seq(X)
      <4>1. CASE m = 0
          BY <1>1, <1>3, <4>1
      <4>2. CASE m # 0
        <5>1. m \in 1..n /\ m + 1 \in 1..n
            BY <1>1, <4>2
        <5> HIDE DEF n
        <5>2. f[m] \in Seq(X) /\ ss[m + 1] \in Seq(X)
            BY <1>1, <5>1
        <5> QED
            BY <4>2, <5>2, ConcatProperties
      <4> QED
          BY <4>1, <4>2
    <3>3. g \in [1..n -> Seq(X)] /\ g[m + 1] = last
          /\ \A i \in 1..m : g[i] = f[i]
        BY <1>1, <3>2
    <3>4. ASSUME NEW i \in 1..(m + 1)
          PROVE  g[i] = IF i = 1 THEN ss[i] ELSE g[i - 1] \o ss[i]
      <4> HIDE DEF g
      <4>1. CASE i = m + 1
        <5>1. CASE m = 0
            BY <3>3, <4>1, <5>1
        <5>2. CASE m # 0
          <6>1. i # 1 /\ i - 1 = m /\ m \in 1..m
              BY <4>1, <5>2
          <6> QED
              BY <3>3, <4>1, <5>2, <6>1
        <5> QED
            BY <5>1, <5>2
      <4>2. CASE i # m + 1
        <5>1. i \in 1..m /\ (i # 1 => i - 1 \in 1..m)
            BY <4>2
        <5> HIDE DEF last
        <5> QED
            BY <3>1, <3>3, <5>1
      <4> QED
          BY <4>1, <4>2
    <3> HIDE DEF g
    <3> QED
        BY <3>3, <3>4
  <2> HIDE DEF N
  <2>3. n \in N
      BY <1>1, <2>1, <2>2, Counting
  <2>4. PICK f \in [1..n -> Seq(X)] : Upto(n, f)
      BY <1>1, <2>3 DEF N
  <2>5. f = Next(f)
      BY <2>4
  <2>6. flatten = Next(flatten)
      BY <2>5
  <2>7. \A i \in 1..n : flatten[i] = IF i = 1 THEN ss[i] ELSE flatten[i - 1] \o ss[i]
      BY <2>6
  <2>8. FlattenSeq(ss) = flatten[n]
      BY <1>3 DEF FlattenSeq
  <2> HIDE DEF flatten, Next
  <2>9. 0 \in R
      OBVIOUS
  <2>10. ASSUME NEW m \in Nat, m \in R PROVE m + 1 \in R
    <3> SUFFICES ASSUME m + 1 \in 1..n
                 PROVE  /\ flatten[m + 1] \in Seq(X)
                        /\ ToSet(flatten[m + 1]) = UNION {ToSet(ss[i]) : i \in 1..(m + 1)}
        OBVIOUS
    <3>1. CASE m = 0
      <4>0. 1 \in 1..n /\ 1..1 = {1}
          BY <1>1, <1>3
      <4> HIDE DEF n, R
      <4>1. flatten[1] = ss[1]
          BY <2>7, <4>0
      <4>2. UNION {ToSet(ss[i]) : i \in 1..1} = ToSet(ss[1])
          BY <4>0
      <4> QED
          BY <1>1, <3>1, <4>0, <4>1, <4>2
    <3>2. CASE m # 0
      <4>1. m \in 1..n /\ m + 1 # 1 /\ (m + 1) - 1 = m
          BY <3>2
      <4>2. flatten[m + 1] = flatten[m] \o ss[m + 1]
          BY <2>7, <4>1
      <4>3. /\ flatten[m] \in Seq(X) /\ ss[m + 1] \in Seq(X)
            /\ ToSet(flatten[m]) = UNION {ToSet(ss[i]) : i \in 1..m}
          BY <1>1, <2>10, <4>1
      <4> HIDE DEF n, R
      <4>4. ToSet(flatten[m + 1]) = ToSet(flatten[m]) \cup ToSet(ss[m + 1])
            /\ flatten[m + 1] \in Seq(X)
          BY <4>2, <4>3, RangeConcat, ConcatProperties
      <4>5. 1..(m + 1) = (1..m) \cup {m + 1}
          OBVIOUS
      <4>6. UNION {ToSet(ss[i]) : i \in 1..(m + 1)}
              = (UNION {ToSet(ss[i]) : i \in 1..m}) \cup ToSet(ss[m + 1])
          BY <4>5
      <4> QED
          BY <4>3, <4>4, <4>6
    <3> QED
        BY <3>1, <3>2
  <2> HIDE DEF R
  <2>11. n \in R
      BY <1>1, <2>9, <2>10, Counting
  <2>12. n \in 1..n
      BY <1>1, <1>3
  <2>13. /\ flatten[n] \in Seq(X)
         /\ ToSet(flatten[n]) = UNION {ToSet(ss[i]) : i \in 1..n}
      BY <2>11, <2>12 DEF R
  <2> QED
      BY <2>8, <2>13
<1> QED
    BY <1>2, <1>3

-----------------------------------------------------------------------------
(* How many elements of a queue are in a set.                              *)

Number(q, S) == Cardinality({i \in 1..Len(q) : q[i] \in S})

\* It is a number: none if no element is in the set, all if every one is.
LEMMA NumberType ==
    ASSUME NEW X, NEW q \in Seq(X), NEW S
    PROVE  /\ Number(q, S) \in Nat /\ IsFiniteSet({i \in 1..Len(q) : q[i] \in S})
           /\ Number(q, S) = 0 <=> ToSet(q) \cap S = {}
           /\ ToSet(q) \subseteq S => Number(q, S) = Len(q)
<1> DEFINE At == {i \in 1..Len(q) : q[i] \in S}
<1>1. Len(q) \in Nat /\ DOMAIN q = 1..Len(q)
    BY LenProperties
<1>2. IsFiniteSet(1..Len(q)) /\ Cardinality(1..Len(q)) = Len(q)
    BY <1>1, FS_Interval
<1>3. IsFiniteSet(At) /\ Cardinality(At) \in Nat
    BY <1>2, FS_Subset, FS_CardinalityType
<1>4. Cardinality(At) = 0 <=> At = {}
    BY <1>3, FS_EmptySet
<1>5. At = {} <=> ToSet(q) \cap S = {}
    BY <1>1 DEF ToSet
<1>6. ToSet(q) \subseteq S => At = 1..Len(q)
    BY <1>1 DEF ToSet
<1> QED
    BY <1>2, <1>3, <1>4, <1>5, <1>6 DEF Number

\* None of an empty queue.
LEMMA NumberEmpty == ASSUME NEW S PROVE Number(<<>>, S) = 0
<1>1. <<>> \in Seq({}) /\ ToSet(<<>>) \cap S = {}
    BY EmptySeq, RangeEmpty
<1> DEFINE e == <<>>
<1>2. e \in Seq({}) /\ ToSet(e) \cap S = {}
    BY <1>1
<1> HIDE DEF e
<1>3. Number(e, S) = 0
    BY <1>2, NumberType
<1> QED
    BY <1>3 DEF e

\* An element more is one more, if it is in the set.
LEMMA NumberAppend ==
    ASSUME NEW X, NEW q \in Seq(X), NEW x \in X, NEW S
    PROVE  /\ x \in S => Number(Append(q, x), S) = Number(q, S) + 1
           /\ x \notin S => Number(Append(q, x), S) = Number(q, S)
<1> DEFINE r == Append(q, x)
           n == Len(q)
           At == {i \in 1..n : q[i] \in S}
<1>1. /\ Len(r) = n + 1 /\ n \in Nat /\ r[n + 1] = x
      /\ \A i \in 1..n : r[i] = q[i]
    BY AppendProperties, LenProperties
<1>2. /\ x \in S => {i \in 1..Len(r) : r[i] \in S} = At \cup {n + 1}
      /\ x \notin S => {i \in 1..Len(r) : r[i] \in S} = At
  <2> HIDE DEF r, n
  <2>1. 1..Len(r) = (1..n) \cup {n + 1}
      BY <1>1
  <2> QED
      BY <1>1, <2>1
<1>3. IsFiniteSet(At) /\ Cardinality(At) \in Nat /\ n + 1 \notin At
    BY <1>1, NumberType DEF Number
<1>4. Cardinality(At \cup {n + 1}) = Cardinality(At) + 1
  <2> HIDE DEF At, n
  <2> QED
      BY <1>3, FS_AddElement
<1>5. Number(q, S) = Cardinality(At) /\ Number(r, S) = Cardinality({i \in 1..Len(r) : r[i] \in S})
    BY DEF Number
<1> HIDE DEF At, r, n
<1>6. /\ x \in S => Number(r, S) = Number(q, S) + 1
      /\ x \notin S => Number(r, S) = Number(q, S)
    BY <1>2, <1>4, <1>5
<1> QED
    BY <1>6 DEF r

\* Two queues hold together what each of them holds.
LEMMA NumberConcat ==
    ASSUME NEW X, NEW q \in Seq(X), NEW r \in Seq(X), NEW S
    PROVE  Number(q \o r, S) = Number(q, S) + Number(r, S)
<1> DEFINE Good == {s \in Seq(X) : Number(q \o s, S) = Number(q, S) + Number(s, S)}
<1>1. <<>> \in Good
  <2>1. q \o <<>> = q /\ <<>> \in Seq(X) /\ Number(<<>>, S) = 0 /\ Number(q, S) \in Nat
      BY ConcatEmptySeq, EmptySeq, NumberEmpty, NumberType
  <2> QED
      BY <2>1
<1>2. ASSUME NEW s \in Seq(X), NEW x \in X, s \in Good PROVE Append(s, x) \in Good
  <2>1. Append(s, x) \in Seq(X) /\ q \o s \in Seq(X) /\ q \o Append(s, x) = Append(q \o s, x)
      BY AppendProperties, ConcatProperties, AppendConcat
  <2>2. /\ x \in S => Number(Append(s, x), S) = Number(s, S) + 1
        /\ x \notin S => Number(Append(s, x), S) = Number(s, S)
      BY NumberAppend
  <2>3. /\ x \in S => Number(Append(q \o s, x), S) = Number(q \o s, S) + 1
        /\ x \notin S => Number(Append(q \o s, x), S) = Number(q \o s, S)
      BY <2>1, NumberAppend
  <2>4. Number(q \o s, S) = Number(q, S) + Number(s, S)
      BY <1>2
  <2>5. Number(q, S) \in Nat /\ Number(s, S) \in Nat
      BY NumberType
  <2>6. Number(q \o Append(s, x), S) = Number(q, S) + Number(Append(s, x), S)
      BY <2>1, <2>2, <2>3, <2>4, <2>5
  <2> QED
      BY <2>1, <2>6
<1> HIDE DEF Good
<1>3. \A s \in Seq(X) : s \in Good
    BY <1>1, <1>2, Appending
<1> QED
    BY <1>3 DEF Good

\* The first element taken is one less, if it is in the set.
LEMMA NumberTail ==
    ASSUME NEW X, NEW q \in Seq(X), q # <<>>, NEW S
    PROVE  /\ Head(q) \in S => Number(q, S) = Number(Tail(q), S) + 1
           /\ Head(q) \notin S => Number(q, S) = Number(Tail(q), S)
<1> DEFINE h == Head(q)
           t == Tail(q)
           e == <<>>
           b == <<h>>
<1>1. h \in X /\ t \in Seq(X) /\ b \in Seq(X) /\ b \o t = q
    BY Behead, OneElement
<1>2. e \in Seq(X) /\ b = Append(e, h) /\ Number(e, S) = 0
    BY EmptySeq, NumberEmpty
<1> HIDE DEF h, t, e, b
<1>3. /\ h \in S => Number(b, S) = 1
      /\ h \notin S => Number(b, S) = 0
  <2>1. /\ h \in S => Number(Append(e, h), S) = Number(e, S) + 1
        /\ h \notin S => Number(Append(e, h), S) = Number(e, S)
      BY <1>1, <1>2, NumberAppend
  <2> QED
      BY <1>2, <2>1
<1>4. Number(b \o t, S) = Number(b, S) + Number(t, S)
    BY <1>1, NumberConcat
<1>5. Number(t, S) \in Nat
    BY <1>1, NumberType
<1>6. /\ h \in S => Number(q, S) = Number(t, S) + 1
      /\ h \notin S => Number(q, S) = Number(t, S)
    BY <1>1, <1>3, <1>4, <1>5
<1> QED
    BY <1>6 DEF h, t

\* What is in one of two sets that have nothing in common is counted once.
LEMMA NumberUnion ==
    ASSUME NEW X, NEW q \in Seq(X), NEW S, NEW T, S \cap T = {}
    PROVE  Number(q, S \cup T) = Number(q, S) + Number(q, T)
<1> DEFINE Good == {s \in Seq(X) : Number(s, S \cup T) = Number(s, S) + Number(s, T)}
<1>1. <<>> \in Good
    BY EmptySeq, NumberEmpty
<1>2. ASSUME NEW s \in Seq(X), NEW x \in X, s \in Good PROVE Append(s, x) \in Good
  <2>1. Append(s, x) \in Seq(X)
      BY AppendProperties
  <2>2. /\ x \in S => Number(Append(s, x), S) = Number(s, S) + 1
        /\ x \notin S => Number(Append(s, x), S) = Number(s, S)
        /\ x \in T => Number(Append(s, x), T) = Number(s, T) + 1
        /\ x \notin T => Number(Append(s, x), T) = Number(s, T)
        /\ x \in S \cup T => Number(Append(s, x), S \cup T) = Number(s, S \cup T) + 1
        /\ x \notin S \cup T => Number(Append(s, x), S \cup T) = Number(s, S \cup T)
      BY NumberAppend
  <2>3. Number(s, S) \in Nat /\ Number(s, T) \in Nat
      BY NumberType
  <2>4. Number(s, S \cup T) = Number(s, S) + Number(s, T)
      BY <1>2
  <2>5. Number(Append(s, x), S \cup T) = Number(Append(s, x), S) + Number(Append(s, x), T)
      BY <2>2, <2>3, <2>4
  <2> QED
      BY <2>1, <2>5
<1> HIDE DEF Good
<1>3. \A s \in Seq(X) : s \in Good
    BY <1>1, <1>2, Appending
<1> QED
    BY <1>3 DEF Good
=============================================================================
