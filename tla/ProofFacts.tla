----------------------------- MODULE ProofFacts -----------------------------
(***************************************************************************)
(* Facts about sequences without repetitions, cardinalities and minima that *)
(* the proofs of several components use.                                   *)
(***************************************************************************)
EXTENDS Naturals, Sequences, FiniteSets, SequencesExt, SequenceTheorems,
        FiniteSetTheorems, WellFoundedInduction, TLAPS

-----------------------------------------------------------------------------
(* Sequences. *)

(* No element occurs twice. *)
Distinct(s) == \A i, j \in 1 .. Len(s) : s[i] = s[j] => i = j

(* The elements of a sequence have its type, and there are some unless it is empty. *)
LEMMA EntriesTyped ==
    ASSUME NEW T, NEW s \in Seq(T)
    PROVE  ToSet(s) \subseteq T /\ (s = <<>> <=> ToSet(s) = {})
  <1>1. Len(s) \in Nat /\ DOMAIN s = 1 .. Len(s) /\ \A i \in 1 .. Len(s) : s[i] \in T
    OBVIOUS
  <1>2. s # <<>> => 1 \in DOMAIN s
    BY <1>1
  <1>3. QED
    BY <1>1, <1>2 DEF ToSet

LEMMA EmptyQueue == ToSet(<<>>) = {} /\ Distinct(<<>>)
  BY DEF ToSet, Distinct

LEMMA EmptyDomain == DOMAIN <<>> = {}
  OBVIOUS

(* Taking the head off a queue without repetitions takes it out of its elements. *)
LEMMA TakeHead ==
    ASSUME NEW T, NEW s \in Seq(T), s # <<>>, Distinct(s)
    PROVE  /\ Head(s) \in ToSet(s) /\ Head(s) \in T
           /\ Tail(s) \in Seq(T) /\ Distinct(Tail(s))
           /\ ToSet(Tail(s)) = ToSet(s) \ {Head(s)}
  <1>1. Len(s) \in Nat /\ Len(s) > 0 /\ DOMAIN s = 1 .. Len(s) /\ \A i \in 1 .. Len(s) : s[i] \in T
    OBVIOUS
  <1>2. /\ Head(s) = s[1]
        /\ Tail(s) \in Seq(T) /\ Len(Tail(s)) = Len(s) - 1
        /\ DOMAIN Tail(s) = 1 .. (Len(s) - 1)
        /\ \A i \in 1 .. (Len(s) - 1) : Tail(s)[i] = s[i + 1]
    OBVIOUS
  <1>3. Distinct(Tail(s))
    BY <1>1, <1>2 DEF Distinct
  <1>4. ToSet(Tail(s)) = ToSet(s) \ {Head(s)}
    <2>1. ASSUME NEW x \in ToSet(Tail(s)) PROVE x \in ToSet(s) /\ x # Head(s)
      <3>1. PICK i \in 1 .. (Len(s) - 1) : x = s[i + 1]
        BY <1>2 DEF ToSet
      <3>2. i + 1 \in 1 .. Len(s) /\ i + 1 # 1 /\ 1 \in 1 .. Len(s)
        BY <1>1
      <3>3. QED
        BY <1>1, <1>2, <3>1, <3>2 DEF ToSet, Distinct
    <2>2. ASSUME NEW x \in ToSet(s), x # Head(s) PROVE x \in ToSet(Tail(s))
      <3>1. PICK i \in 1 .. Len(s) : x = s[i]
        BY <1>1 DEF ToSet
      <3>2. i # 1
        BY <1>2, <2>2, <3>1
      <3>3. i - 1 \in 1 .. (Len(s) - 1) /\ (i - 1) + 1 = i
        BY <1>1, <3>2
      <3>4. x = Tail(s)[i - 1]
        BY <1>2, <3>1, <3>3
      <3>5. QED
        BY <1>2, <3>3, <3>4 DEF ToSet
    <2>3. QED
      BY <2>1, <2>2
  <1>5. QED
    BY <1>1, <1>2, <1>3, <1>4 DEF ToSet

(* Appending what is not in the queue adds exactly that. *)
LEMMA PutLast ==
    ASSUME NEW T, NEW s \in Seq(T), NEW x \in T, Distinct(s), x \notin ToSet(s)
    PROVE  /\ Append(s, x) \in Seq(T) /\ Append(s, x) # <<>> /\ Distinct(Append(s, x))
           /\ ToSet(Append(s, x)) = ToSet(s) \cup {x}
  <1>1. Len(s) \in Nat /\ DOMAIN s = 1 .. Len(s)
    OBVIOUS
  <1>2. /\ Append(s, x) \in Seq(T) /\ Len(Append(s, x)) = Len(s) + 1
        /\ DOMAIN Append(s, x) = 1 .. (Len(s) + 1)
        /\ \A i \in 1 .. Len(s) : Append(s, x)[i] = s[i]
        /\ Append(s, x)[Len(s) + 1] = x
    OBVIOUS
  <1>3. \A i \in 1 .. (Len(s) + 1) : i = Len(s) + 1 \/ i \in 1 .. Len(s)
    BY <1>1
  <1>4. \A i \in 1 .. Len(s) : i \in 1 .. (Len(s) + 1)
    BY <1>1
  <1>5. Len(s) + 1 \in 1 .. (Len(s) + 1)
    BY <1>1
  <1>6. Distinct(Append(s, x))
    BY <1>1, <1>2, <1>3 DEF Distinct, ToSet
  <1>7. ToSet(Append(s, x)) = ToSet(s) \cup {x}
    <2>1. \A y \in ToSet(Append(s, x)) : y \in ToSet(s) \cup {x}
      BY <1>1, <1>2, <1>3 DEF ToSet
    <2>2. \A y \in ToSet(s) : y \in ToSet(Append(s, x))
      BY <1>1, <1>2, <1>4 DEF ToSet
    <2>3. x \in ToSet(Append(s, x))
      BY <1>2, <1>5 DEF ToSet
    <2>4. QED
      BY <2>1, <2>2, <2>3
  <1>8. QED
    BY <1>1, <1>2, <1>6, <1>7

-----------------------------------------------------------------------------
(* Minima, and what is chosen with them. *)

(* A nonempty set of naturals has its minimum. *)
LEMMA MinOfNats ==
    ASSUME NEW I \in SUBSET Nat, I # {}
    PROVE  Min(I) \in I /\ \A i \in I : Min(I) <= i
<1>1. PICK x \in I : \A y \in I : ~ (<<y, x>> \in OpToRel(<, Nat))
  BY NatLessThanWellFounded, WFMin
<1>2. ASSUME NEW y \in I, y < x PROVE FALSE
  <2>1. <<y, x>> \in {ss \in Nat \X Nat : ss[1] < ss[2]}
    BY <1>2
  <2>2. <<y, x>> \in OpToRel(<, Nat)
    BY <2>1 DEF OpToRel
  <2> QED BY <1>1, <2>2
<1>3. \A y \in I : x =< y
  BY <1>2
<1> QED BY <1>3 DEF Min

(* A waiter that leaves a queue leaves a queue. *)
LEMMA RemoveFirstType ==
    ASSUME NEW S, NEW q \in Seq(S), NEW e
    PROVE  RemoveFirst(q, e) \in Seq(S)
<1> DEFINE I == {i \in 1 .. Len(q) : q[i] = e}
<1>1. CASE I # {}
  <2>1. Min(I) \in I
    <3> HIDE DEF I
    <3>1. I \in SUBSET Nat
      BY LenProperties DEF I
    <3> QED BY <3>1, <1>1, MinOfNats
  <2> DEFINE m == Min(I)
  <2>2. RemoveFirst(q, e) = RemoveAt(q, m)
    BY <1>1 DEF RemoveFirst, SelectInSeq
  <2> HIDE DEF m
  <2>3. m \in 1 .. Len(q) /\ Len(q) \in Nat
    BY <2>1, LenProperties DEF m
  <2>4. SubSeq(q, 1, m - 1) \in Seq(S) /\ SubSeq(q, m + 1, Len(q)) \in Seq(S)
    BY <2>3, SubSeqProperties, ElementOfSeq
  <2> QED BY <2>2, <2>4, ConcatProperties DEF RemoveAt
<1>2. CASE I = {}
  BY <1>2 DEF RemoveFirst
<1> QED BY <1>1, <1>2

-----------------------------------------------------------------------------
(* Cardinalities. *)

(* A subset taken away is counted away. *)
LEMMA CardRemoved ==
    ASSUME NEW S, IsFiniteSet(S), NEW T \in SUBSET S
    PROVE  /\ Cardinality(S \ T) = Cardinality(S) - Cardinality(T)
           /\ Cardinality(S \ T) \in Nat
  <1>1. IsFiniteSet(T) /\ IsFiniteSet(S \ T)
    BY FS_Subset
  <1>2. /\ Cardinality(S) \in Nat /\ Cardinality(T) \in Nat /\ Cardinality(S \ T) \in Nat
    BY <1>1, FS_CardinalityType
  <1>3. (S \ T) \cup T = S /\ (S \ T) \cap T = {}
    OBVIOUS
  <1>4. Cardinality((S \ T) \cup T) = Cardinality(S \ T) + Cardinality(T) - Cardinality((S \ T) \cap T)
    BY <1>1, FS_Union
  <1>5. QED
    BY <1>2, <1>3, <1>4, FS_EmptySet

(* The least number that is not in use exists, and is not in use. *)
LEMMA LeastUnused ==
    ASSUME NEW S \in SUBSET Nat, IsFiniteSet(S)
    PROVE  LET i == Min((1 .. Cardinality(S) + 1) \ S) IN i \in Nat \ {0} /\ i \notin S
  <1> DEFINE n == Cardinality(S)
             R == 1 .. n + 1
  <1>1. n \in Nat
    BY FS_CardinalityType
  <1> HIDE DEF n
  <1>2. IsFiniteSet(R) /\ Cardinality(R) = n + 1
    BY <1>1, FS_Interval
  <1>3. R \ S # {}
    <2> SUFFICES ASSUME R \ S = {} PROVE FALSE
      OBVIOUS
    <2>1. R \in SUBSET S
      OBVIOUS
    <2> HIDE DEF R
    <2>2. Cardinality(R) <= n
      BY <2>1, FS_Subset DEF n
    <2>3. QED
      BY <1>1, <1>2, <2>2
  <1>4. R \ S \in SUBSET (Nat \ {0})
    BY <1>1
  <1> HIDE DEF R
  <1>5. Min(R \ S) \in R \ S
    BY <1>3, <1>4, MinOfNats
  <1>6. QED
    BY <1>4, <1>5 DEF R, n

=============================================================================
