-------------------------- MODULE SessionStoreProofs --------------------------
(***************************************************************************)
(* Proofs about SessionStore, for any number of runs, run_ids and          *)
(* conversations, however often clients use a run_id.                      *)
(* What FlattenSeq makes comes first, by induction over how much of it is  *)
(* made: the library's induction takes an operator, so it is stated here   *)
(* for the members of a set.  Then come two inductive invariants with one  *)
(* lemma per conjunct: Invariant, about the states of runs and sessions,   *)
(* and Contents, about the orders of runs and the messages, which needs    *)
(* the first; then the theorems.                                           *)
(***************************************************************************)
EXTENDS SessionStore, FiniteSetTheorems, SequenceTheorems, TLAPS

(* Sequences of sequences.                                                 *)

\* A set of naturals with a member has a least one: were there always a smaller
\* one, the intervals up to them would be ever smaller finite sets.
LEMMA Least ==
  ASSUME NEW B \in SUBSET Nat, NEW b \in B
  PROVE  \E m \in B : \A k \in B : m <= k
<1> DEFINE T == {0..k : k \in {j \in B : j <= b}}
<1>1. T \subseteq FiniteSubsetsOf(0..b) /\ T # {}
  <2>1. \A k \in {j \in B : j <= b} : 0..k \in FiniteSubsetsOf(0..b)
    <3> SUFFICES ASSUME NEW k \in B, k <= b PROVE 0..k \in FiniteSubsetsOf(0..b)
      OBVIOUS
    <3>1. IsFiniteSet(0..k)
      BY FS_Interval
    <3>2. 0..k \subseteq 0..b
      OBVIOUS
    <3> QED
      BY <3>1, <3>2 DEF FiniteSubsetsOf
  <2>2. 0..b \in T
    OBVIOUS
  <2> QED
    BY <2>1, <2>2
<1>2. PICK t \in T : \A u \in T : <<u, t>> \notin StrictSubsetOrdering(0..b)
  <2> HIDE DEF T
  <2> QED
    BY <1>1, WFMin, FS_StrictSubsetOrderingWellFounded
<1>3. PICK m \in B : m <= b /\ t = 0..m
  OBVIOUS
<1>4. ASSUME NEW k \in B, k < m PROVE FALSE
  <2>1. 0..k \in T
    BY <1>3, <1>4
  <2>2. /\ 0..k \subseteq 0..m /\ 0..k # 0..m /\ 0..m \subseteq 0..b
        /\ 0..k \in SUBSET (0..b) /\ 0..m \in SUBSET (0..b)
    BY <1>3, <1>4
  <2>3. <<0..k, 0..m>> \in StrictSubsetOrdering(0..b)
    BY <2>2 DEF StrictSubsetOrdering
  <2> QED
    BY <1>2, <1>3, <2>1, <2>3
<1> QED
  BY <1>4

\* Induction over the naturals, for the members of a set.
LEMMA Induction ==
  ASSUME NEW P, 0 \in P, \A n \in Nat : n \in P => n + 1 \in P
  PROVE  \A n \in Nat : n \in P
<1> SUFFICES ASSUME NEW b \in Nat, b \notin P PROVE FALSE
  OBVIOUS
<1> DEFINE Bad == Nat \ P
<1>1. PICK m \in Bad : \A k \in Bad : m <= k
  <2>1. Bad \in SUBSET Nat /\ b \in Bad
    OBVIOUS
  <2> HIDE DEF Bad
  <2> QED
    BY <2>1, Least
<1> QED
  BY <1>1

\* One more sequence is appended to those before it.
Joins(f, seqs, i) == f[i] = IF i = 1 THEN seqs[i] ELSE f[i - 1] \o seqs[i]

\* There are such joins of any number of the sequences.
LEMMA FlattenPart ==
  ASSUME NEW M, NEW seqs \in Seq(Seq(M)), NEW n \in Nat, n <= Len(seqs)
  PROVE  \E f \in [1..n -> Seq(M)] : \A i \in 1..n : Joins(f, seqs, i)
<1> DEFINE Part(m) == \E f \in [1..m -> Seq(M)] : \A i \in 1..m : Joins(f, seqs, i)
           P == {m \in Nat : m <= Len(seqs) => Part(m)}
<1>1. Part(0)
  <2> DEFINE f == [i \in 1..0 |-> <<>>]
  <2>1. f \in [1..0 -> Seq(M)] /\ \A i \in 1..0 : Joins(f, seqs, i)
    OBVIOUS
  <2> HIDE DEF f
  <2> QED
    BY <2>1
<1>2. ASSUME NEW m \in Nat, Part(m), m + 1 <= Len(seqs) PROVE Part(m + 1)
  <2>1. PICK f \in [1..m -> Seq(M)] : \A i \in 1..m : Joins(f, seqs, i)
    BY <1>2
  <2> DEFINE e == IF m = 0 THEN seqs[1] ELSE f[m] \o seqs[m + 1]
             g == [i \in 1..m + 1 |-> IF i = m + 1 THEN e ELSE f[i]]
  <2>2. e \in Seq(M)
    <3>1. seqs[m + 1] \in Seq(M)
      BY <1>2, ElementOfSeq
    <3>2. CASE m = 0
      BY <3>1, <3>2
    <3>3. CASE m # 0
      BY <3>1, <3>3, ConcatProperties
    <3> QED
      BY <3>2, <3>3
  <2>3. g \in [1..m + 1 -> Seq(M)]
    <3> HIDE DEF e
    <3> QED
      BY <2>2
  <2>4. \A i \in 1..m + 1 : Joins(g, seqs, i)
    <3>1. Joins(g, seqs, m + 1)
      BY <1>2 DEF Joins
    <3>2. ASSUME NEW i \in 1..m PROVE Joins(g, seqs, i)
      <4>1. i \in 1..m + 1 /\ i # m + 1
        OBVIOUS
      <4>2. i # 1 => i - 1 \in 1..m + 1 /\ i - 1 # m + 1
        OBVIOUS
      <4>3. g[i] = f[i] /\ (i # 1 => g[i - 1] = f[i - 1])
        <5> HIDE DEF e
        <5> QED
          BY <4>1, <4>2
      <4> HIDE DEF g
      <4> QED
        BY <2>1, <4>3 DEF Joins
    <3>3. 1..m + 1 = (1..m) \cup {m + 1}
      OBVIOUS
    <3> HIDE DEF g
    <3> QED
      BY <3>1, <3>2, <3>3
  <2> HIDE DEF g
  <2> QED
    BY <2>3, <2>4
<1> HIDE DEF Part
<1>3. \A m \in Nat : m \in P
  <2>1. 0 \in P
    BY <1>1
  <2>2. \A m \in Nat : m \in P => m + 1 \in P
    BY <1>2
  <2> HIDE DEF P
  <2> QED
    BY <2>1, <2>2, Induction
<1> QED
  BY <1>3 DEF Part

\* FlattenSeq takes the last of such joins.
LEMMA FlattenSteps ==
  ASSUME NEW M, NEW seqs \in Seq(Seq(M)), seqs # <<>>
  PROVE  \E f \in [1..Len(seqs) -> Seq(M)] :
           /\ FlattenSeq(seqs) = f[Len(seqs)]
           /\ \A i \in 1..Len(seqs) : Joins(f, seqs, i)
<1> DEFINE Whole(f) == f = [i \in 1..Len(seqs) |-> IF i = 1 THEN seqs[i] ELSE f[i - 1] \o seqs[i]]
           c == CHOOSE f : Whole(f)
           Q == {n \in Nat : n \in 1..Len(seqs) => c[n] \in Seq(M)}
<1>1. Len(seqs) \in Nat /\ Len(seqs) # 0 /\ Len(seqs) <= Len(seqs)
  BY EmptySeq
<1>2. FlattenSeq(seqs) = c[Len(seqs)]
  BY <1>1 DEF FlattenSeq
<1>3. \E f : Whole(f)
  <2>1. PICK f \in [1..Len(seqs) -> Seq(M)] : \A i \in 1..Len(seqs) : Joins(f, seqs, i)
    <3> HIDE DEF c, Q, Whole
    <3> QED
      BY <1>1, FlattenPart
  <2>2. \A i \in 1..Len(seqs) : f[i] = IF i = 1 THEN seqs[i] ELSE f[i - 1] \o seqs[i]
    BY <2>1 DEF Joins
  <2> QED
    BY <2>1, <2>2
<1>4. Whole(c)
  <2> HIDE DEF Whole
  <2> QED
    BY <1>3
<1> HIDE DEF c
<1>5. \A i \in 1..Len(seqs) : Joins(c, seqs, i)
  BY <1>4 DEF Joins
<1>6. \A n \in Nat : n \in Q
  <2>1. 0 \in Q
    OBVIOUS
  <2>2. ASSUME NEW n \in Nat, n \in Q, n + 1 \in 1..Len(seqs) PROVE c[n + 1] \in Seq(M)
    <3>1. seqs[n + 1] \in Seq(M)
      BY <2>2, ElementOfSeq
    <3>2. CASE n = 0
      BY <1>5, <2>2, <3>1, <3>2 DEF Joins
    <3>3. CASE n # 0
      <4>1. c[n] \in Seq(M)
        BY <2>2, <3>3
      <4>2. c[n + 1] = c[n] \o seqs[n + 1]
        <5>1. n + 1 # 1 /\ (n + 1) - 1 = n
          BY <3>3
        <5> QED
          BY <1>5, <2>2, <5>1 DEF Joins
      <4> QED
        BY <3>1, <4>1, <4>2, ConcatProperties
    <3> QED
      BY <3>2, <3>3
  <2>3. \A n \in Nat : n \in Q => n + 1 \in Q
    BY <2>2
  <2> HIDE DEF Q
  <2> QED
    BY <2>1, <2>3, Induction
<1>7. c \in [1..Len(seqs) -> Seq(M)]
  <2>1. \A i \in 1..Len(seqs) : c[i] \in Seq(M)
    BY <1>6
  <2> QED
    BY <1>4, <2>1
<1> QED
  BY <1>2, <1>5, <1>7

\* Induction from 1 to an end.
LEMMA UpTo ==
  ASSUME NEW end \in Nat, NEW P, 1 \in P,
         \A n \in P : n \in 1..end /\ n + 1 \in 1..end => n + 1 \in P
  PROVE  \A n \in 1..end : n \in P
<1> DEFINE Q == {n \in Nat : n \in 1..end => n \in P}
<1>1. 0 \in Q
  OBVIOUS
<1>2. ASSUME NEW n \in Nat, n \in Q PROVE n + 1 \in Q
  <2> SUFFICES ASSUME n + 1 \in 1..end PROVE n + 1 \in P
    OBVIOUS
  <2>1. CASE n = 0
    BY <2>1
  <2>2. CASE n # 0
    BY <1>2, <2>2
  <2> QED
    BY <2>1, <2>2
<1>3. \A n \in Nat : n \in Q
  <2> HIDE DEF Q
  <2> QED
    BY <1>1, <1>2, Induction
<1> QED
  BY <1>3

\* f[n] is what the first n sequences make.
Makes(f, seqs) ==
  /\ f[1] = seqs[1]
  /\ \A n \in 1..Len(seqs) : n + 1 \in 1..Len(seqs) => f[n + 1] = f[n] \o seqs[n + 1]

\* FlattenSeq is made of all sequences.
LEMMA FlattenMakes ==
  ASSUME NEW M, NEW seqs \in Seq(Seq(M)), seqs # <<>>
  PROVE  /\ Len(seqs) \in 1..Len(seqs)
         /\ \A n \in 1..Len(seqs) : seqs[n] \in Seq(M)
         /\ \E f \in [1..Len(seqs) -> Seq(M)] :
               Makes(f, seqs) /\ FlattenSeq(seqs) = f[Len(seqs)]
<1>1. PICK f \in [1..Len(seqs) -> Seq(M)] :
        /\ FlattenSeq(seqs) = f[Len(seqs)]
        /\ \A i \in 1..Len(seqs) : Joins(f, seqs, i)
  BY FlattenSteps
<1>2. Len(seqs) \in Nat \ {0} /\ 1 \in 1..Len(seqs) /\ Len(seqs) \in 1..Len(seqs)
  BY EmptySeq
<1>3. \A n \in 1..Len(seqs) : seqs[n] \in Seq(M)
  BY ElementOfSeq
<1>4. f[1] = seqs[1]
  BY <1>1, <1>2 DEF Joins
<1>5. \A n \in 1..Len(seqs) : n + 1 \in 1..Len(seqs) => f[n + 1] = f[n] \o seqs[n + 1]
  <2> SUFFICES ASSUME NEW n \in 1..Len(seqs), n + 1 \in 1..Len(seqs)
               PROVE  f[n + 1] = f[n] \o seqs[n + 1]
    OBVIOUS
  <2>1. n + 1 # 1 /\ (n + 1) - 1 = n
    OBVIOUS
  <2> QED
    BY <1>1, <2>1 DEF Joins
<1> QED
  BY <1>1, <1>2, <1>3, <1>4, <1>5 DEF Makes

\* The elements of the first n sequences.
Elements(seqs, n) == UNION {Range(seqs[i]) : i \in 1..n}

\* One more sequence, more elements.
LEMMA ElementsNext ==
  ASSUME NEW seqs, NEW n \in Nat
  PROVE  Elements(seqs, n + 1) = Elements(seqs, n) \cup Range(seqs[n + 1])
<1>1. 1..n + 1 = (1..n) \cup {n + 1}
  OBVIOUS
<1> QED
  BY <1>1 DEF Elements

\* What the first n sequences make has their elements.
LEMMA MadeElements ==
  ASSUME NEW M, NEW seqs \in Seq(Seq(M)), seqs # <<>>,
         NEW f \in [1..Len(seqs) -> Seq(M)], Makes(f, seqs)
  PROVE  \A n \in 1..Len(seqs) : Range(f[n]) = Elements(seqs, n)
<1> DEFINE P == {n \in 1..Len(seqs) : Range(f[n]) = Elements(seqs, n)}
<1>1. Len(seqs) \in Nat /\ 1 \in 1..Len(seqs) /\ \A n \in 1..Len(seqs) : seqs[n] \in Seq(M)
  BY FlattenMakes
<1>2. 1 \in P
  <2>1. Elements(seqs, 1) = Range(seqs[1])
    BY DEF Elements
  <2> QED
    BY <1>1, <2>1 DEF Makes
<1>3. ASSUME NEW n \in P, n + 1 \in 1..Len(seqs)
      PROVE  n + 1 \in P
  <2>1. n \in Nat /\ n \in 1..Len(seqs) /\ Range(f[n]) = Elements(seqs, n)
    BY <1>1
  <2>2. f[n + 1] = f[n] \o seqs[n + 1]
    BY <1>3, <2>1 DEF Makes
  <2>3. f[n] \in Seq(M) /\ seqs[n + 1] \in Seq(M)
    BY <1>1, <1>3, <2>1
  <2>4. Range(f[n + 1]) = Range(f[n]) \cup Range(seqs[n + 1])
    BY <2>2, <2>3, RangeConcatenation
  <2>5. Range(f[n + 1]) = Elements(seqs, n + 1)
    BY <2>1, <2>4, ElementsNext
  <2> QED
    BY <1>3, <2>5
<1>4. \A n \in 1..Len(seqs) : n \in P
  <2> HIDE DEF P
  <2> QED
    BY <1>1, <1>2, <1>3, UpTo
<1> QED
  BY <1>4

\* What FlattenSeq makes has the elements of the sequences.
LEMMA FlattenRange ==
  ASSUME NEW M, NEW seqs \in Seq(Seq(M))
  PROVE  /\ FlattenSeq(seqs) \in Seq(M)
         /\ Range(FlattenSeq(seqs)) = Elements(seqs, Len(seqs))
<1>1. CASE seqs = <<>>
  <2>1. FlattenSeq(seqs) = <<>> /\ Len(seqs) = 0
    BY <1>1 DEF FlattenSeq
  <2>2. Range(<<>>) = {}
    BY DEF Range
  <2>3. Elements(seqs, 0) = {}
    BY DEF Elements
  <2> QED
    BY <2>1, <2>2, <2>3
<1>2. CASE seqs # <<>>
  <2>1. PICK f \in [1..Len(seqs) -> Seq(M)] :
          Makes(f, seqs) /\ FlattenSeq(seqs) = f[Len(seqs)]
    BY <1>2, FlattenMakes
  <2>2. Len(seqs) \in 1..Len(seqs)
    BY <1>2, FlattenMakes
  <2>3. Range(f[Len(seqs)]) = Elements(seqs, Len(seqs))
    BY <1>2, <2>1, <2>2, MadeElements
  <2> QED
    BY <2>1, <2>2, <2>3
<1> QED
  BY <1>1, <1>2

\* Two sequences without a common element.
LEMMA ConcatInjective ==
  ASSUME NEW M, NEW s \in Seq(M), NEW t \in Seq(M), IsInjective(s), IsInjective(t),
         Range(s) \cap Range(t) = {}
  PROVE  IsInjective(s \o t)
<1> SUFFICES ASSUME NEW i \in 1..Len(s) + Len(t), NEW j \in 1..Len(s) + Len(t),
                    (s \o t)[i] = (s \o t)[j], i < j
             PROVE  FALSE
  BY DEF IsInjective
<1>1. \A k \in 1..Len(s) : s[k] \in Range(s)
  BY DEF Range
<1>2. \A k \in 1..Len(t) : t[k] \in Range(t)
  BY DEF Range
<1> QED
  BY <1>1, <1>2, ConcatProperties DEF IsInjective

\* Nothing is in two of the sequences.
Apart(seqs) ==
  \A i \in 1..Len(seqs) :
    /\ IsInjective(seqs[i])
    /\ \A j \in 1..Len(seqs) : j # i => Range(seqs[i]) \cap Range(seqs[j]) = {}

\* Then nothing is twice in what FlattenSeq makes of them.
LEMMA FlattenInjective ==
  ASSUME NEW M, NEW seqs \in Seq(Seq(M)), Apart(seqs)
  PROVE  IsInjective(FlattenSeq(seqs))
<1>1. CASE seqs = <<>>
  <2>1. FlattenSeq(seqs) = <<>>
    BY <1>1 DEF FlattenSeq
  <2> QED
    BY <2>1 DEF IsInjective
<1>2. CASE seqs # <<>>
  <2>1. PICK f \in [1..Len(seqs) -> Seq(M)] :
          Makes(f, seqs) /\ FlattenSeq(seqs) = f[Len(seqs)]
    BY <1>2, FlattenMakes
  <2> DEFINE P == {n \in 1..Len(seqs) : IsInjective(f[n])}
  <2>2. /\ Len(seqs) \in Nat /\ 1 \in 1..Len(seqs) /\ Len(seqs) \in 1..Len(seqs)
        /\ \A n \in 1..Len(seqs) : seqs[n] \in Seq(M)
    BY <1>2, FlattenMakes
  <2>3. 1 \in P
    BY <2>1, <2>2 DEF Apart, Makes
  <2>4. ASSUME NEW n \in P, n + 1 \in 1..Len(seqs) PROVE n + 1 \in P
    <3>1. f[n + 1] = f[n] \o seqs[n + 1]
      BY <2>1, <2>4 DEF Makes
    <3>2. Range(f[n]) = Elements(seqs, n)
      BY <1>2, <2>1, MadeElements
    <3>3. Range(f[n]) \cap Range(seqs[n + 1]) = {}
      <4>1. \A i \in 1..n : Range(seqs[i]) \cap Range(seqs[n + 1]) = {}
        <5> SUFFICES ASSUME NEW i \in 1..n
                     PROVE  Range(seqs[i]) \cap Range(seqs[n + 1]) = {}
          OBVIOUS
        <5>1. i \in 1..Len(seqs) /\ i # n + 1
          BY <2>2, <2>4
        <5> QED
          BY <2>4, <5>1 DEF Apart
      <4> QED
        BY <3>2, <4>1 DEF Elements
    <3>4. f[n] \in Seq(M) /\ seqs[n + 1] \in Seq(M) /\ IsInjective(f[n])
      BY <2>2, <2>4
    <3>5. IsInjective(seqs[n + 1])
      BY <2>4 DEF Apart
    <3> QED
      BY <2>4, <3>1, <3>3, <3>4, <3>5, ConcatInjective
  <2>5. \A n \in 1..Len(seqs) : n \in P
    <3> HIDE DEF P
    <3> QED
      BY <2>2, <2>3, <2>4, UpTo
  <2> QED
    BY <2>1, <2>2, <2>5
<1> QED
  BY <1>1, <1>2

\* Without takes elements away and adds or repeats none.
LEMMA WithoutProperties ==
  ASSUME NEW S, NEW order \in Seq(S), NEW rs
  PROVE  /\ Without(order, rs) \in Seq(S)
         /\ Range(Without(order, rs)) = Range(order) \ rs
         /\ IsInjective(order) => IsInjective(Without(order, rs))
<1> DEFINE part(i) == IF order[i] \in rs THEN <<>> ELSE <<order[i]>>
           seqs == [i \in DOMAIN order |-> part(i)]
<1>1. Without(order, rs) = FlattenSeq(seqs)
  BY DEF Without
<1>2. \A i \in 1..Len(order) : part(i) \in Seq(S)
  BY ElementOfSeq
<1>3. ASSUME NEW i \in 1..Len(order)
      PROVE  Range(part(i)) = {order[i]} \ rs /\ IsInjective(part(i))
  <2>1. CASE order[i] \in rs
    <3>1. part(i) = <<>> /\ DOMAIN part(i) = {}
      BY <2>1
    <3> QED
      BY <2>1, <3>1 DEF Range, IsInjective
  <2>2. CASE order[i] \notin rs
    <3>1. DOMAIN part(i) = {1} /\ part(i)[1] = order[i]
      BY <2>2
    <3> QED
      BY <2>2, <3>1 DEF Range, IsInjective
  <2> QED
    BY <2>1, <2>2
<1> HIDE DEF part
<1>4. /\ seqs \in Seq(Seq(S)) /\ Len(seqs) = Len(order)
      /\ \A i \in 1..Len(order) : seqs[i] = part(i)
  BY <1>2, SMTT(30)
<1> HIDE DEF seqs
<1>5. \A i \in 1..Len(order) : Range(seqs[i]) = {order[i]} \ rs /\ IsInjective(seqs[i])
  BY <1>3, <1>4
<1>6. Range(Without(order, rs)) = Range(order) \ rs
  <2>1. Range(order) = {order[i] : i \in 1..Len(order)}
    BY RangeEquality
  <2>2. Elements(seqs, Len(order)) = {order[i] : i \in 1..Len(order)} \ rs
    BY <1>5 DEF Elements
  <2> QED
    BY <1>1, <1>4, <2>1, <2>2, FlattenRange
<1>7. IsInjective(order) => IsInjective(Without(order, rs))
  <2> SUFFICES ASSUME IsInjective(order) PROVE IsInjective(Without(order, rs))
    OBVIOUS
  <2>1. \A i, j \in 1..Len(order) : i # j => order[i] # order[j]
    BY DEF IsInjective
  <2>2. Apart(seqs)
    <3> SUFFICES ASSUME NEW i \in 1..Len(order)
                 PROVE  /\ IsInjective(seqs[i])
                        /\ \A j \in 1..Len(order) :
                             j # i => Range(seqs[i]) \cap Range(seqs[j]) = {}
      BY <1>4 DEF Apart
    <3>1. Range(seqs[i]) = {order[i]} \ rs /\ IsInjective(seqs[i])
      BY <1>5
    <3>2. ASSUME NEW j \in 1..Len(order), j # i PROVE Range(seqs[i]) \cap Range(seqs[j]) = {}
      <4>1. Range(seqs[j]) = {order[j]} \ rs /\ order[i] # order[j]
        BY <1>5, <2>1, <3>2
      <4> QED
        BY <3>1, <4>1
    <3> QED
      BY <3>1, <3>2
  <2> QED
    BY <1>1, <1>4, <2>2, FlattenInjective
<1> QED
  BY <1>1, <1>4, <1>6, <1>7, FlattenRange
-----------------------------------------------------------------------------
USE DEF Goto, target, request, memory, store, history, Leave

\* The types of what the proofs are about.
RunTypes ==
  /\ phase \in [Runs -> Phases]
  /\ known \subseteq Runs
  /\ mem \in [Runs -> TerminalStates \cup {"active"}]
  /\ row \in [Runs -> TerminalStates \cup {"active", "none"}]
  /\ deleted \subseteq Runs

\* The inductive invariant.
Invariant ==
  /\ RunTypes
  /\ RunAtPhase
  /\ IdsApart
  /\ ActiveKeepsSession
  /\ StoreFollowsMemory
  /\ AnsweredCompleted
  /\ EndedRunsClosed
  /\ DeletedAtRest
  /\ DeletedForgotten

\* What a restart does to the rows: some that are closed go, those that are
\* not are failed or go.
Recovered ==
  /\ phase' = [r \in Runs |-> IF phase[r] = "new" THEN "new" ELSE "ended"]
  /\ id' = id /\ overwritten' = overwritten
  /\ known' = {} /\ forget' = {} /\ unsaved' = {}
  /\ mem' = [r \in Runs |-> "active"]
  /\ \E Expired \in SUBSET {r \in Runs : row[r] # "none"} :
       /\ row' = [r \in Runs |-> IF r \in Expired THEN "none"
                                ELSE IF r \in Interrupted THEN "failed"
                                ELSE row[r]]
       /\ answered' = answered \ Expired
       /\ deleted' = deleted \cup Expired
-----------------------------------------------------------------------------
\* Whatever the cutoff and the orders are, a restart is of that kind.
LEMMA RestartRecovers == Restart => Recovered
<1> SUFFICES ASSUME Restart PROVE Recovered
  OBVIOUS
<1>1. \A C : UNION {Stored(c) : c \in C} \in SUBSET {r \in Runs : row[r] # "none"}
  BY DEF Stored
<1>2. PICK Expired :
        /\ \E C : Expired = UNION {Stored(c) : c \in C}
        /\ row' = [r \in Runs |-> IF r \in Expired THEN "none"
                                  ELSE IF r \in Interrupted THEN "failed"
                                  ELSE row[r]]
        /\ DeleteRows(Expired)
  BY Zenon DEF Restart
<1>3. /\ phase' = [r \in Runs |-> IF phase[r] = "new" THEN "new" ELSE "ended"]
      /\ id' = id /\ overwritten' = overwritten
      /\ known' = {} /\ forget' = {} /\ unsaved' = {}
      /\ mem' = [r \in Runs |-> "active"]
  BY DEF Restart
<1> QED
  BY <1>1, <1>2, <1>3, Zenon DEF DeleteRows, Recovered

\* Every step keeps the types.
LEMMA TypeStep ==
  RunTypes /\ [Next]_vars => RunTypes'
<1> SUFFICES ASSUME RunTypes, [Next]_vars PROVE RunTypes'
  OBVIOUS
<1>1. ASSUME NEW r \in Runs, Thread(r) PROVE RunTypes'
  <2>1. CASE Request(r)
    BY <2>1 DEF Phases, Registered, Request, RunTypes
  <2>2. CASE ResumeRequest(r)
    BY <2>2 DEF Phases, Registered, ResumeRequest, RunTypes
  <2>3. CASE ReadHistory(r)
    BY <2>3 DEF Phases, ReadHistory, RunTypes
  <2>4. CASE HistoryDiffers(r)
    BY <2>4 DEF HistoryDiffers, Phases, RunTypes
  <2>5. CASE InsertSession(r)
    BY <2>5 DEF Holder, InsertSession, Phases, RunTypes
  <2>6. CASE InsertFails(r)
    BY <2>6 DEF Holder, InsertFails, Phases, RunTypes
  <2>7. CASE SaveSnapshot(r)
    BY <2>7 DEF Holder, Notified, Phases, RunTypes, Save, SaveSnapshot
  <2>8. CASE FirstSaveFails(r)
    BY <2>8 DEF FirstSaveFails, Phases, Raises, RunTypes
  <2>9. CASE Complete(r)
    BY <2>9 DEF Complete, Notified, Phases, RunTypes, TerminalStates
  <2>10. CASE StoreAnswer(r)
    BY <2>10 DEF Holder, Phases, RunTypes, Save, StoreAnswer
  <2>11. CASE StoreAnswerFails(r)
    BY <2>11 DEF Phases, Raises, RunTypes, StoreAnswerFails
  <2>12. CASE SetError(r)
    BY <2>12 DEF Holder, Phases, Raises, RunTypes, Save, SetError
  <2>13. CASE LastEvent(r)
    BY <2>13 DEF Holder, LastEvent, Notified, Phases, Raises, RunTypes, Save
  <2>14. ASSUME NEW state \in {"failed", "cancelled"}, Terminate(r, state)
         PROVE RunTypes'
    BY <2>14 DEF Holder, Notified, Phases, Raises, RunTypes, Save, TerminalRow,
       TerminalStates, Terminate
  <2> QED
    BY <1>1, <2>1, <2>2, <2>3, <2>4, <2>5, <2>6, <2>7, <2>8, <2>9, <2>10, <2>11,
       <2>12, <2>13, <2>14 DEF Thread
<1>2. ASSUME NEW c \in Conversations, DeleteConversation(c) PROVE RunTypes'
  BY <1>2 DEF DeleteConversation, DeleteRows, RunTypes, Stored
<1>3. CASE ForgetRuns
  BY <1>3 DEF ForgetRuns, RunTypes
<1>4. ASSUME NEW r \in Runs, Prune(r) PROVE RunTypes'
  BY <1>4 DEF Prune, RunTypes
<1>5. CASE Restart
  BY <1>5, RestartRecovers DEF Phases, Recovered, RunTypes, TerminalStates
<1>6. CASE UNCHANGED vars
  BY <1>6 DEF RunTypes, vars
<1> QED
  BY <1>1, <1>2, <1>3, <1>4, <1>5, <1>6 DEF Next

\* Every step keeps what is true in each phase.
LEMMA PhaseStep ==
  RunTypes /\ RunAtPhase /\ IdsApart /\ [Next]_vars => RunAtPhase'
<1> SUFFICES ASSUME RunTypes, RunAtPhase, IdsApart, [Next]_vars
             PROVE  RunAtPhase'
  OBVIOUS
<1>1. ASSUME NEW r \in Runs, Thread(r) PROVE RunAtPhase'
  <2>1. CASE Request(r)
    BY <2>1 DEF Registered, Request, RunAtPhase, RunTypes
  <2>2. CASE ResumeRequest(r)
    BY <2>2 DEF Registered, ResumeRequest, RunAtPhase, RunTypes
  <2>3. CASE ReadHistory(r)
    BY <2>3 DEF ReadHistory, RunAtPhase
  <2>4. CASE HistoryDiffers(r)
    BY <2>4 DEF HistoryDiffers, RunAtPhase
  <2>5. CASE InsertSession(r)
    BY <2>5 DEF Holder, InsertSession, RunAtPhase, RunTypes
  <2>6. CASE InsertFails(r)
    BY <2>6 DEF Holder, InsertFails, RunAtPhase
  <2>7. CASE SaveSnapshot(r)
    BY <2>7 DEF Holder, IdsApart, Notified, RunAtPhase, RunTypes, Save, SaveSnapshot
  <2>8. CASE FirstSaveFails(r)
    BY <2>8 DEF FirstSaveFails, Raises, RunAtPhase, RunTypes
  <2>9. CASE Complete(r)
    BY <2>9 DEF Complete, Notified, RunAtPhase, RunTypes
  <2>10. CASE StoreAnswer(r)
    BY <2>10 DEF Holder, IdsApart, RunAtPhase, RunTypes, Save, StoreAnswer
  <2>11. CASE StoreAnswerFails(r)
    BY <2>11 DEF Raises, RunAtPhase, StoreAnswerFails
  <2>12. CASE SetError(r)
    BY <2>12 DEF Holder, IdsApart, Raises, RunAtPhase, RunTypes, Save, SetError
  <2>13. CASE LastEvent(r)
    BY <2>13 DEF Holder, IdsApart, LastEvent, Notified, Raises, RunAtPhase, RunTypes,
       Save
  <2>14. ASSUME NEW state \in {"failed", "cancelled"}, Terminate(r, state)
         PROVE RunAtPhase'
    BY <2>14 DEF Holder, IdsApart, Notified, Raises, RunAtPhase, RunTypes, Save,
       TerminalRow, Terminate
  <2> QED
    BY <1>1, <2>1, <2>2, <2>3, <2>4, <2>5, <2>6, <2>7, <2>8, <2>9, <2>10, <2>11,
       <2>12, <2>13, <2>14 DEF Thread
<1>2. ASSUME NEW c \in Conversations, DeleteConversation(c) PROVE RunAtPhase'
  BY <1>2 DEF DeleteConversation, RunAtPhase
<1>3. CASE ForgetRuns
  BY <1>3 DEF ForgetRuns, Forgettable, RunAtPhase, TerminalStates
<1>4. ASSUME NEW r \in Runs, Prune(r) PROVE RunAtPhase'
  BY <1>4 DEF Prune, RunAtPhase, TerminalStates
<1>5. CASE Restart
  BY <1>5, RestartRecovers DEF Interrupted, Recovered, RunAtPhase
<1>6. CASE UNCHANGED vars
  BY <1>6 DEF RunAtPhase, vars
<1> QED
  BY <1>1, <1>2, <1>3, <1>4, <1>5, <1>6 DEF Next

\* Every step keeps run_ids apart: create_run and the primary key see to it.
LEMMA IdsStep ==
  RunTypes /\ RunAtPhase /\ IdsApart /\ [Next]_vars => IdsApart'
<1> SUFFICES ASSUME RunTypes, RunAtPhase, IdsApart, [Next]_vars PROVE IdsApart'
  OBVIOUS
<1>1. ASSUME NEW r \in Runs, Thread(r) PROVE IdsApart'
  <2>1. CASE Request(r)
    BY <2>1 DEF IdsApart, Registered, Request, RunAtPhase, RunTypes
  <2>2. CASE ResumeRequest(r)
    BY <2>2 DEF IdsApart, Registered, ResumeRequest, RunAtPhase, RunTypes
  <2>3. CASE ReadHistory(r)
    BY <2>3 DEF IdsApart, ReadHistory, RunAtPhase, RunTypes
  <2>4. CASE HistoryDiffers(r)
    BY <2>4 DEF HistoryDiffers, IdsApart, RunAtPhase, RunTypes
  <2>5. CASE InsertSession(r)
    BY <2>5 DEF Holder, IdsApart, InsertSession, RunAtPhase, RunTypes
  <2>6. CASE InsertFails(r)
    BY <2>6 DEF Holder, IdsApart, InsertFails, RunAtPhase, RunTypes
  <2>7. CASE SaveSnapshot(r)
    BY <2>7 DEF Holder, IdsApart, Notified, RunAtPhase, RunTypes, Save, SaveSnapshot
  <2>8. CASE FirstSaveFails(r)
    BY <2>8 DEF FirstSaveFails, IdsApart, Raises, RunAtPhase, RunTypes
  <2>9. CASE Complete(r)
    BY <2>9 DEF Complete, IdsApart, Notified, RunAtPhase, RunTypes
  <2>10. CASE StoreAnswer(r)
    BY <2>10 DEF Holder, IdsApart, RunAtPhase, RunTypes, Save, StoreAnswer
  <2>11. CASE StoreAnswerFails(r)
    BY <2>11 DEF IdsApart, Raises, RunAtPhase, RunTypes, StoreAnswerFails
  <2>12. CASE SetError(r)
    BY <2>12 DEF Holder, IdsApart, Raises, RunAtPhase, RunTypes, Save, SetError
  <2>13. CASE LastEvent(r)
    BY <2>13 DEF Holder, IdsApart, LastEvent, Notified, Raises, RunAtPhase, RunTypes,
       Save
  <2>14. ASSUME NEW state \in {"failed", "cancelled"}, Terminate(r, state)
         PROVE IdsApart'
    BY <2>14 DEF Holder, IdsApart, Notified, Raises, RunAtPhase, RunTypes, Save, TerminalRow,
       Terminate
  <2> QED
    BY <1>1, <2>1, <2>2, <2>3, <2>4, <2>5, <2>6, <2>7, <2>8, <2>9, <2>10, <2>11,
       <2>12, <2>13, <2>14 DEF Thread
<1>2. ASSUME NEW c \in Conversations, DeleteConversation(c) PROVE IdsApart'
  BY <1>2 DEF DeleteConversation, IdsApart
<1>3. CASE ForgetRuns
  BY <1>3 DEF ForgetRuns, IdsApart
<1>4. ASSUME NEW r \in Runs, Prune(r) PROVE IdsApart'
  BY <1>4 DEF IdsApart, Prune
<1>5. CASE Restart
  BY <1>5, RestartRecovers DEF IdsApart, Interrupted, Recovered
<1>6. CASE UNCHANGED vars
  BY <1>6 DEF IdsApart, vars
<1> QED
  BY <1>1, <1>2, <1>3, <1>4, <1>5, <1>6 DEF Next

\* Every step keeps the sessions of runs that have saves to make.
LEMMA KeepStep ==
  RunTypes /\ RunAtPhase /\ ActiveKeepsSession /\ [Next]_vars => ActiveKeepsSession'
<1> SUFFICES ASSUME RunTypes, RunAtPhase, ActiveKeepsSession, [Next]_vars
             PROVE  ActiveKeepsSession'
  OBVIOUS
<1>1. ASSUME NEW r \in Runs, Thread(r) PROVE ActiveKeepsSession'
  <2>1. CASE Request(r)
    BY <2>1 DEF ActiveKeepsSession, Registered, Request
  <2>2. CASE ResumeRequest(r)
    BY <2>2 DEF ActiveKeepsSession, Registered, ResumeRequest
  <2>3. CASE ReadHistory(r)
    BY <2>3 DEF ActiveKeepsSession, ReadHistory
  <2>4. CASE HistoryDiffers(r)
    BY <2>4 DEF ActiveKeepsSession, HistoryDiffers
  <2>5. CASE InsertSession(r)
    BY <2>5 DEF ActiveKeepsSession, Holder, InsertSession, RunTypes
  <2>6. CASE InsertFails(r)
    BY <2>6 DEF ActiveKeepsSession, Holder, InsertFails
  <2>7. CASE SaveSnapshot(r)
    BY <2>7 DEF ActiveKeepsSession, Holder, Notified, RunAtPhase, RunTypes, Save,
       SaveSnapshot
  <2>8. CASE FirstSaveFails(r)
    BY <2>8 DEF ActiveKeepsSession, FirstSaveFails, Raises
  <2>9. CASE Complete(r)
    BY <2>9 DEF ActiveKeepsSession, Complete, Notified, RunTypes
  <2>10. CASE StoreAnswer(r)
    BY <2>10 DEF ActiveKeepsSession, Holder, RunTypes, Save, StoreAnswer
  <2>11. CASE StoreAnswerFails(r)
    BY <2>11 DEF ActiveKeepsSession, Raises, StoreAnswerFails
  <2>12. CASE SetError(r)
    BY <2>12 DEF ActiveKeepsSession, Holder, Raises, RunAtPhase, RunTypes, Save,
       SetError
  <2>13. CASE LastEvent(r)
    BY <2>13 DEF ActiveKeepsSession, Holder, LastEvent, Notified, Raises, RunTypes, Save
  <2>14. ASSUME NEW state \in {"failed", "cancelled"}, Terminate(r, state)
         PROVE ActiveKeepsSession'
    BY <2>14 DEF ActiveKeepsSession, Holder, Notified, Raises, RunTypes, Save,
       TerminalRow, Terminate
  <2> QED
    BY <1>1, <2>1, <2>2, <2>3, <2>4, <2>5, <2>6, <2>7, <2>8, <2>9, <2>10, <2>11,
       <2>12, <2>13, <2>14 DEF Thread
<1>2. ASSUME NEW c \in Conversations, DeleteConversation(c) PROVE ActiveKeepsSession'
  <2>1. /\ phase' = phase /\ overwritten' = overwritten
        /\ row' = [q \in Runs |-> IF q \in Stored(c) THEN "none" ELSE row[q]]
    BY <1>2 DEF DeleteConversation
  <2>2. \A q \in Stored(c) : row[q] # "active"
    BY <1>2 DEF Deletable, DeleteConversation, TerminalStates
  <2> QED
    BY <2>1, <2>2 DEF ActiveKeepsSession
<1>3. CASE ForgetRuns
  BY <1>3 DEF ActiveKeepsSession, ForgetRuns
<1>4. ASSUME NEW r \in Runs, Prune(r) PROVE ActiveKeepsSession'
  BY <1>4 DEF ActiveKeepsSession, Prune
<1>5. CASE Restart
  BY <1>5, RestartRecovers DEF ActiveKeepsSession, Recovered
<1>6. CASE UNCHANGED vars
  BY <1>6 DEF ActiveKeepsSession, vars
<1> QED
  BY <1>1, <1>2, <1>3, <1>4, <1>5, <1>6 DEF Next

\* Every step keeps terminal sessions and their runs in the same state.
LEMMA FollowStep ==
  RunTypes /\ RunAtPhase /\ StoreFollowsMemory /\ [Next]_vars => StoreFollowsMemory'
<1> SUFFICES ASSUME RunTypes, RunAtPhase, StoreFollowsMemory, [Next]_vars
             PROVE  StoreFollowsMemory'
  OBVIOUS
<1>1. ASSUME NEW r \in Runs, Thread(r) PROVE StoreFollowsMemory'
  <2>1. CASE Request(r)
    BY <2>1 DEF Registered, Request, RunAtPhase, StoreFollowsMemory, TerminalStates
  <2>2. CASE ResumeRequest(r)
    BY <2>2 DEF Registered, ResumeRequest, RunAtPhase, StoreFollowsMemory,
       TerminalStates
  <2>3. CASE ReadHistory(r)
    BY <2>3 DEF ReadHistory, StoreFollowsMemory
  <2>4. CASE HistoryDiffers(r)
    BY <2>4 DEF HistoryDiffers, StoreFollowsMemory
  <2>5. CASE InsertSession(r)
    BY <2>5 DEF Holder, InsertSession, StoreFollowsMemory, TerminalStates
  <2>6. CASE InsertFails(r)
    BY <2>6 DEF Holder, InsertFails, StoreFollowsMemory
  <2>7. CASE SaveSnapshot(r)
    BY <2>7 DEF Holder, Notified, RunTypes, Save, SaveSnapshot, StoreFollowsMemory
  <2>8. CASE FirstSaveFails(r)
    BY <2>8 DEF FirstSaveFails, Raises, StoreFollowsMemory
  <2>9. CASE Complete(r)
    BY <2>9 DEF Complete, Notified, RunAtPhase, RunTypes, StoreFollowsMemory,
       TerminalStates
  <2>10. CASE StoreAnswer(r)
    BY <2>10 DEF Holder, RunAtPhase, RunTypes, Save, StoreAnswer, StoreFollowsMemory
  <2>11. CASE StoreAnswerFails(r)
    BY <2>11 DEF Raises, StoreAnswerFails, StoreFollowsMemory
  <2>12. CASE SetError(r)
    BY <2>12 DEF Holder, Raises, RunTypes, Save, SetError, StoreFollowsMemory
  <2>13. CASE LastEvent(r)
    BY <2>13 DEF Holder, LastEvent, Notified, Raises, RunTypes, Save, StoreFollowsMemory
  <2>14. ASSUME NEW state \in {"failed", "cancelled"}, Terminate(r, state)
         PROVE StoreFollowsMemory'
    BY <2>14 DEF Holder, Notified, Raises, RunAtPhase, RunTypes, Save,
       StoreFollowsMemory, TerminalRow, TerminalStates, Terminate
  <2> QED
    BY <1>1, <2>1, <2>2, <2>3, <2>4, <2>5, <2>6, <2>7, <2>8, <2>9, <2>10, <2>11,
       <2>12, <2>13, <2>14 DEF Thread
<1>2. ASSUME NEW c \in Conversations, DeleteConversation(c) PROVE StoreFollowsMemory'
  BY <1>2 DEF DeleteConversation, RunTypes, StoreFollowsMemory, TerminalStates
<1>3. CASE ForgetRuns
  BY <1>3 DEF ForgetRuns, StoreFollowsMemory
<1>4. ASSUME NEW r \in Runs, Prune(r) PROVE StoreFollowsMemory'
  BY <1>4 DEF Prune, StoreFollowsMemory
<1>5. CASE Restart
  BY <1>5, RestartRecovers DEF Recovered, StoreFollowsMemory
<1>6. CASE UNCHANGED vars
  BY <1>6 DEF StoreFollowsMemory, vars
<1> QED
  BY <1>1, <1>2, <1>3, <1>4, <1>5, <1>6 DEF Next

\* Every step keeps completed sessions and answers together.
LEMMA AnswerStep ==
  RunTypes /\ RunAtPhase /\ IdsApart /\ ActiveKeepsSession /\ AnsweredCompleted
    /\ [Next]_vars => AnsweredCompleted'
<1> SUFFICES ASSUME RunTypes, RunAtPhase, IdsApart, ActiveKeepsSession, AnsweredCompleted,
                    [Next]_vars
             PROVE  AnsweredCompleted'
  OBVIOUS
<1>1. ASSUME NEW r \in Runs, Thread(r) PROVE AnsweredCompleted'
  <2>1. CASE Request(r)
    BY <2>1 DEF AnsweredCompleted, Registered, Request
  <2>2. CASE ResumeRequest(r)
    BY <2>2 DEF AnsweredCompleted, Registered, ResumeRequest
  <2>3. CASE ReadHistory(r)
    BY <2>3 DEF AnsweredCompleted, ReadHistory
  <2>4. CASE HistoryDiffers(r)
    BY <2>4 DEF AnsweredCompleted, HistoryDiffers
  <2>5. CASE InsertSession(r)
    BY <2>5 DEF AnsweredCompleted, Holder, InsertSession, RunAtPhase
  <2>6. CASE InsertFails(r)
    BY <2>6 DEF AnsweredCompleted, Holder, InsertFails
  <2>7. CASE SaveSnapshot(r)
    BY <2>7 DEF ActiveKeepsSession, AnsweredCompleted, Holder, Notified, RunTypes, Save,
       SaveSnapshot
  <2>8. CASE FirstSaveFails(r)
    BY <2>8 DEF AnsweredCompleted, FirstSaveFails, Raises
  <2>9. CASE Complete(r)
    BY <2>9 DEF ActiveKeepsSession, AnsweredCompleted, Complete, Notified, RunAtPhase,
       RunTypes
  <2>10. CASE StoreAnswer(r)
    BY <2>10 DEF AnsweredCompleted, Holder, IdsApart, RunAtPhase, RunTypes, Save,
       StoreAnswer
  <2>11. CASE StoreAnswerFails(r)
    BY <2>11 DEF AnsweredCompleted, Raises, StoreAnswerFails
  <2>12. CASE SetError(r)
    BY <2>12 DEF ActiveKeepsSession, AnsweredCompleted, Holder, Raises, RunAtPhase,
       RunTypes, Save, SetError
  <2>13. CASE LastEvent(r)
    BY <2>13 DEF AnsweredCompleted, Holder, LastEvent, Notified, Raises, RunAtPhase,
       RunTypes, Save
  <2>14. ASSUME NEW state \in {"failed", "cancelled"}, Terminate(r, state)
         PROVE AnsweredCompleted'
    BY <2>14 DEF ActiveKeepsSession, AnsweredCompleted, Holder, Notified, Raises,
       RunTypes, Save, TerminalRow, Terminate
  <2> QED
    BY <1>1, <2>1, <2>2, <2>3, <2>4, <2>5, <2>6, <2>7, <2>8, <2>9, <2>10, <2>11,
       <2>12, <2>13, <2>14 DEF Thread
<1>2. ASSUME NEW c \in Conversations, DeleteConversation(c) PROVE AnsweredCompleted'
  BY <1>2 DEF AnsweredCompleted, DeleteConversation, DeleteRows
<1>3. CASE ForgetRuns
  BY <1>3 DEF AnsweredCompleted, ForgetRuns
<1>4. ASSUME NEW r \in Runs, Prune(r) PROVE AnsweredCompleted'
  BY <1>4 DEF AnsweredCompleted, Prune
<1>5. CASE Restart
  BY <1>5, RestartRecovers DEF AnsweredCompleted, Interrupted, Recovered, TerminalStates
<1>6. CASE UNCHANGED vars
  BY <1>6 DEF AnsweredCompleted, vars
<1> QED
  BY <1>1, <1>2, <1>3, <1>4, <1>5, <1>6 DEF Next

\* Every step closes the session of a run that ends.
LEMMA CloseStep ==
  RunTypes /\ RunAtPhase /\ IdsApart /\ EndedRunsClosed /\ [Next]_vars
    => EndedRunsClosed'
<1> SUFFICES ASSUME RunTypes, RunAtPhase, IdsApart, EndedRunsClosed, [Next]_vars
             PROVE  EndedRunsClosed'
  OBVIOUS
<1>1. ASSUME NEW r \in Runs, Thread(r) PROVE EndedRunsClosed'
  <2>1. CASE Request(r)
    BY <2>1 DEF EndedRunsClosed, Registered, Request
  <2>2. CASE ResumeRequest(r)
    BY <2>2 DEF EndedRunsClosed, Registered, ResumeRequest
  <2>3. CASE ReadHistory(r)
    BY <2>3 DEF EndedRunsClosed, ReadHistory
  <2>4. CASE HistoryDiffers(r)
    BY <2>4 DEF EndedRunsClosed, HistoryDiffers, RunAtPhase
  <2>5. CASE InsertSession(r)
    BY <2>5 DEF EndedRunsClosed, Holder, InsertSession
  <2>6. CASE InsertFails(r)
    BY <2>6 DEF EndedRunsClosed, Holder, InsertFails, RunAtPhase
  <2>7. CASE SaveSnapshot(r)
    BY <2>7 DEF EndedRunsClosed, Holder, IdsApart, Notified, RunAtPhase, RunTypes, Save,
       SaveSnapshot
  <2>8. CASE FirstSaveFails(r)
    BY <2>8 DEF EndedRunsClosed, FirstSaveFails, Raises
  <2>9. CASE Complete(r)
    BY <2>9 DEF Complete, EndedRunsClosed, Notified
  <2>10. CASE StoreAnswer(r)
    BY <2>10 DEF EndedRunsClosed, Holder, IdsApart, RunAtPhase, RunTypes, Save,
       StoreAnswer
  <2>11. CASE StoreAnswerFails(r)
    BY <2>11 DEF EndedRunsClosed, Raises, StoreAnswerFails
  <2>12. CASE SetError(r)
    BY <2>12 DEF EndedRunsClosed, Holder, IdsApart, Raises, RunAtPhase, RunTypes, Save,
       SetError
  <2>13. CASE LastEvent(r)
    BY <2>13 DEF EndedRunsClosed, Holder, IdsApart, LastEvent, Notified, Raises,
       RunAtPhase, RunTypes, Save
  <2>14. ASSUME NEW state \in {"failed", "cancelled"}, Terminate(r, state)
         PROVE EndedRunsClosed'
    BY <2>14 DEF EndedRunsClosed, Holder, IdsApart, Notified, Raises, RunAtPhase,
       RunTypes, Save, TerminalRow, Terminate
  <2> QED
    BY <1>1, <2>1, <2>2, <2>3, <2>4, <2>5, <2>6, <2>7, <2>8, <2>9, <2>10, <2>11,
       <2>12, <2>13, <2>14 DEF Thread
<1>2. ASSUME NEW c \in Conversations, DeleteConversation(c) PROVE EndedRunsClosed'
  BY <1>2 DEF DeleteConversation, EndedRunsClosed
<1>3. CASE ForgetRuns
  BY <1>3 DEF EndedRunsClosed, ForgetRuns
<1>4. ASSUME NEW r \in Runs, Prune(r) PROVE EndedRunsClosed'
  BY <1>4 DEF EndedRunsClosed, Prune
<1>5. CASE Restart
  BY <1>5, RestartRecovers DEF EndedRunsClosed, Interrupted, Recovered, TerminalStates
<1>6. CASE UNCHANGED vars
  BY <1>6 DEF EndedRunsClosed, vars
<1> QED
  BY <1>1, <1>2, <1>3, <1>4, <1>5, <1>6 DEF Next

\* Every step leaves deleted runs at rest.
LEMMA RestStep ==
  RunTypes /\ RunAtPhase /\ ActiveKeepsSession /\ StoreFollowsMemory
    /\ DeletedAtRest /\ [Next]_vars => DeletedAtRest'
<1> SUFFICES ASSUME RunTypes, RunAtPhase, ActiveKeepsSession, StoreFollowsMemory,
                    DeletedAtRest, [Next]_vars
             PROVE  DeletedAtRest'
  OBVIOUS
<1>1. ASSUME NEW r \in Runs, Thread(r) PROVE DeletedAtRest'
  <2>1. CASE Request(r)
    BY <2>1 DEF DeletedAtRest, Registered, Request
  <2>2. CASE ResumeRequest(r)
    BY <2>2 DEF DeletedAtRest, Registered, ResumeRequest
  <2>3. CASE ReadHistory(r)
    BY <2>3 DEF DeletedAtRest, ReadHistory
  <2>4. CASE HistoryDiffers(r)
    BY <2>4 DEF DeletedAtRest, HistoryDiffers
  <2>5. CASE InsertSession(r)
    BY <2>5 DEF DeletedAtRest, Holder, InsertSession
  <2>6. CASE InsertFails(r)
    BY <2>6 DEF DeletedAtRest, Holder, InsertFails
  <2>7. CASE SaveSnapshot(r)
    BY <2>7 DEF DeletedAtRest, Holder, Notified, RunTypes, Save, SaveSnapshot
  <2>8. CASE FirstSaveFails(r)
    BY <2>8 DEF DeletedAtRest, FirstSaveFails, Raises
  <2>9. CASE Complete(r)
    BY <2>9 DEF Complete, DeletedAtRest, Notified, RunTypes
  <2>10. CASE StoreAnswer(r)
    BY <2>10 DEF DeletedAtRest, Holder, RunTypes, Save, StoreAnswer
  <2>11. CASE StoreAnswerFails(r)
    BY <2>11 DEF DeletedAtRest, Raises, StoreAnswerFails
  <2>12. CASE SetError(r)
    BY <2>12 DEF DeletedAtRest, Holder, Raises, RunTypes, Save, SetError
  <2>13. CASE LastEvent(r)
    BY <2>13 DEF DeletedAtRest, Holder, LastEvent, Notified, Raises, RunTypes, Save
  <2>14. ASSUME NEW state \in {"failed", "cancelled"}, Terminate(r, state)
         PROVE DeletedAtRest'
    BY <2>14 DEF DeletedAtRest, Holder, Notified, Raises, RunTypes, Save, TerminalRow,
       Terminate
  <2> QED
    BY <1>1, <2>1, <2>2, <2>3, <2>4, <2>5, <2>6, <2>7, <2>8, <2>9, <2>10, <2>11,
       <2>12, <2>13, <2>14 DEF Thread
<1>2. ASSUME NEW c \in Conversations, DeleteConversation(c) PROVE DeletedAtRest'
  <2>1. /\ phase' = phase /\ known' = known /\ mem' = mem /\ overwritten' = overwritten
        /\ row' = [q \in Runs |-> IF q \in Stored(c) THEN "none" ELSE row[q]]
        /\ deleted' = deleted \cup Stored(c)
    BY <1>2 DEF DeleteConversation, DeleteRows
  <2>2. \A q \in Stored(c) : q \in Runs /\ row[q] \in TerminalStates
    BY <1>2 DEF Deletable, DeleteConversation, Stored
  <2>3. \A q \in Stored(c) :
          /\ phase[q] \notin {"new", "read", "insert"}
          /\ q \notin overwritten => phase[q] \in {"last", "ended"}
    BY <2>2 DEF ActiveKeepsSession, Phases, RunAtPhase, RunTypes, TerminalStates
  <2>4. \A q \in Stored(c) : q \in known \ overwritten => mem[q] \in TerminalStates
    BY <2>2 DEF StoreFollowsMemory
  <2> QED
    BY <2>1, <2>2, <2>3, <2>4 DEF DeletedAtRest, RunTypes
<1>3. CASE ForgetRuns
  BY <1>3 DEF DeletedAtRest, ForgetRuns
<1>4. ASSUME NEW r \in Runs, Prune(r) PROVE DeletedAtRest'
  BY <1>4 DEF DeletedAtRest, Prune
<1>5. CASE Restart
  BY <1>5, RestartRecovers DEF DeletedAtRest, Interrupted, Recovered, RunAtPhase, RunTypes
<1>6. CASE UNCHANGED vars
  BY <1>6 DEF DeletedAtRest, vars
<1> QED
  BY <1>1, <1>2, <1>3, <1>4, <1>5, <1>6 DEF Next

\* Every step keeps deleted runs out of memory, or about to be forgotten.
LEMMA ForgetStep ==
  DeletedAtRest /\ DeletedForgotten /\ [Next]_vars => DeletedForgotten'
<1> SUFFICES ASSUME DeletedAtRest, DeletedForgotten, [Next]_vars PROVE DeletedForgotten'
  OBVIOUS
<1>1. ASSUME NEW r \in Runs, Thread(r) PROVE DeletedForgotten'
  <2>1. CASE Request(r)
    BY <2>1 DEF DeletedAtRest, DeletedForgotten, Registered, Request
  <2>2. CASE ResumeRequest(r)
    BY <2>2 DEF DeletedAtRest, DeletedForgotten, Registered, ResumeRequest
  <2>3. CASE ReadHistory(r)
    BY <2>3 DEF DeletedForgotten, ReadHistory
  <2>4. CASE HistoryDiffers(r)
    BY <2>4 DEF DeletedForgotten, HistoryDiffers
  <2>5. CASE InsertSession(r)
    BY <2>5 DEF DeletedForgotten, Holder, InsertSession
  <2>6. CASE InsertFails(r)
    BY <2>6 DEF DeletedForgotten, Holder, InsertFails
  <2>7. CASE SaveSnapshot(r)
    BY <2>7 DEF DeletedForgotten, Holder, Notified, RunTypes, Save, SaveSnapshot
  <2>8. CASE FirstSaveFails(r)
    BY <2>8 DEF DeletedForgotten, FirstSaveFails, Raises
  <2>9. CASE Complete(r)
    BY <2>9 DEF Complete, DeletedForgotten, Notified, RunTypes
  <2>10. CASE StoreAnswer(r)
    BY <2>10 DEF DeletedForgotten, Holder, RunTypes, Save, StoreAnswer
  <2>11. CASE StoreAnswerFails(r)
    BY <2>11 DEF DeletedForgotten, Raises, StoreAnswerFails
  <2>12. CASE SetError(r)
    BY <2>12 DEF DeletedForgotten, Holder, Raises, RunTypes, Save, SetError
  <2>13. CASE LastEvent(r)
    BY <2>13 DEF DeletedForgotten, Holder, LastEvent, Notified, Raises, RunTypes, Save
  <2>14. ASSUME NEW state \in {"failed", "cancelled"}, Terminate(r, state)
         PROVE DeletedForgotten'
    BY <2>14 DEF DeletedForgotten, Holder, Notified, Raises, RunTypes, Save,
       TerminalRow, Terminate
  <2> QED
    BY <1>1, <2>1, <2>2, <2>3, <2>4, <2>5, <2>6, <2>7, <2>8, <2>9, <2>10, <2>11,
       <2>12, <2>13, <2>14 DEF Thread
<1>2. ASSUME NEW c \in Conversations, DeleteConversation(c) PROVE DeletedForgotten'
  BY <1>2 DEF DeleteConversation, DeleteRows, DeletedForgotten
<1>3. CASE ForgetRuns
  BY <1>3 DEF DeletedAtRest, DeletedForgotten, ForgetRuns, Forgettable
<1>4. ASSUME NEW r \in Runs, Prune(r) PROVE DeletedForgotten'
  BY <1>4 DEF DeletedForgotten, Prune
<1>5. CASE Restart
  BY <1>5, RestartRecovers DEF DeletedForgotten, Recovered
<1>6. CASE UNCHANGED vars
  BY <1>6 DEF DeletedForgotten, vars
<1> QED
  BY <1>1, <1>2, <1>3, <1>4, <1>5, <1>6 DEF Next

\* What no step may do to a session.
FinalStep ==
  \A r \in Runs :
    /\ row[r] \in TerminalStates /\ r \notin overwritten' => row'[r] \in {row[r], "none"}
    /\ r \in deleted => row'[r] = "none"

\* The row that a save changes becomes state, and is that of its run or counts as
\* overwritten.
SavedRow(r, state) ==
  /\ overwritten \subseteq overwritten'
  /\ \A p \in Runs :
       \/ row'[p] = row[p]
       \/ row[p] # "none" /\ row'[p] = state /\ (p = r \/ p \in overwritten')

\* No step reopens a session or brings back a deleted one.
LEMMA FinalKept ==
  RunTypes /\ RunAtPhase /\ ActiveKeepsSession /\ DeletedAtRest /\ [Next]_vars
    => FinalStep
<1> SUFFICES ASSUME RunTypes, RunAtPhase, ActiveKeepsSession, DeletedAtRest, [Next]_vars
             PROVE  FinalStep
  OBVIOUS
<1>1. ASSUME NEW r \in Runs, Thread(r) PROVE FinalStep
  <2>1. CASE Request(r)
    BY <2>1 DEF DeletedAtRest, FinalStep, Registered, Request
  <2>2. CASE ResumeRequest(r)
    BY <2>2 DEF DeletedAtRest, FinalStep, Registered, ResumeRequest
  <2>3. CASE ReadHistory(r)
    BY <2>3 DEF DeletedAtRest, FinalStep, ReadHistory
  <2>4. CASE HistoryDiffers(r)
    BY <2>4 DEF DeletedAtRest, FinalStep, HistoryDiffers
  <2>5. CASE InsertSession(r)
    BY <2>5 DEF DeletedAtRest, FinalStep, Holder, InsertSession, RunAtPhase,
       TerminalStates
  <2>6. CASE InsertFails(r)
    BY <2>6 DEF DeletedAtRest, FinalStep, Holder, InsertFails
  <2>7. CASE SaveSnapshot(r)
    <3>1. SavedRow(r, "active")
      BY <2>7 DEF Holder, Notified, RunAtPhase, RunTypes, Save, SaveSnapshot, SavedRow
    <3> QED
      BY <2>7, <3>1 DEF ActiveKeepsSession, DeletedAtRest, FinalStep, SavedRow,
         SaveSnapshot, TerminalStates
  <2>8. CASE FirstSaveFails(r)
    BY <2>8 DEF DeletedAtRest, FinalStep, FirstSaveFails, Raises
  <2>9. CASE Complete(r)
    BY <2>9 DEF Complete, DeletedAtRest, FinalStep, Notified, RunTypes
  <2>10. CASE StoreAnswer(r)
    <3>1. SavedRow(r, "completed")
      BY <2>10 DEF Holder, RunAtPhase, RunTypes, Save, SavedRow, StoreAnswer
    <3> QED
      BY <2>10, <3>1 DEF ActiveKeepsSession, DeletedAtRest, FinalStep, SavedRow,
         StoreAnswer, TerminalStates
  <2>11. CASE StoreAnswerFails(r)
    BY <2>11 DEF DeletedAtRest, FinalStep, Raises, StoreAnswerFails
  <2>12. CASE SetError(r)
    <3>1. SavedRow(r, "active")
      BY <2>12 DEF Holder, RunAtPhase, RunTypes, Save, SavedRow, SetError
    <3> QED
      BY <2>12, <3>1 DEF ActiveKeepsSession, DeletedAtRest, FinalStep, SavedRow,
         SetError, TerminalStates
  <2>13. CASE LastEvent(r)
    <3>1. SavedRow(r, mem[r])
      BY <2>13 DEF Holder, LastEvent, Notified, RunTypes, Save, SavedRow
    <3> QED
      BY <2>13, <3>1 DEF DeletedAtRest, FinalStep, LastEvent, RunAtPhase, SavedRow
  <2>14. ASSUME NEW state \in {"failed", "cancelled"}, Terminate(r, state)
         PROVE FinalStep
    <3>1. SavedRow(r, state)
      BY <2>14 DEF Holder, Notified, RunTypes, Save, SavedRow, TerminalRow, Terminate
    <3> QED
      BY <2>14, <3>1 DEF ActiveKeepsSession, DeletedAtRest, FinalStep, SavedRow,
         TerminalStates, Terminate
  <2> QED
    BY <1>1, <2>1, <2>2, <2>3, <2>4, <2>5, <2>6, <2>7, <2>8, <2>9, <2>10, <2>11,
       <2>12, <2>13, <2>14 DEF Thread
<1>2. ASSUME NEW c \in Conversations, DeleteConversation(c) PROVE FinalStep
  BY <1>2 DEF DeleteConversation, DeletedAtRest, FinalStep
<1>3. CASE ForgetRuns
  BY <1>3 DEF DeletedAtRest, FinalStep, ForgetRuns
<1>4. ASSUME NEW r \in Runs, Prune(r) PROVE FinalStep
  BY <1>4 DEF DeletedAtRest, FinalStep, Prune
<1>5. CASE Restart
  BY <1>5, RestartRecovers DEF DeletedAtRest, FinalStep, Interrupted, Recovered
<1>6. CASE UNCHANGED vars
  BY <1>6 DEF DeletedAtRest, FinalStep, vars
<1> QED
  BY <1>1, <1>2, <1>3, <1>4, <1>5, <1>6 DEF Next

-----------------------------------------------------------------------------
\* The invariant holds at first.
LEMMA InvariantInit == Init => Invariant
  BY DEF ActiveKeepsSession, AnsweredCompleted, DeletedAtRest, DeletedForgotten,
     EndedRunsClosed, IdsApart, Init, Invariant, Phases, RunAtPhase, RunTypes,
     StoreFollowsMemory

\* Every step keeps the invariant.
LEMMA InvariantStep == Invariant /\ [Next]_vars => Invariant'
  BY TypeStep, PhaseStep, IdsStep, KeepStep, FollowStep, AnswerStep, CloseStep, RestStep,
     ForgetStep DEF Invariant
-----------------------------------------------------------------------------
(* The orders of runs and the messages.                                    *)

\* A new element at the end.
LEMMA AppendNew ==
  ASSUME NEW S, NEW s \in Seq(S), NEW e \in S
  PROVE  /\ Append(s, e) \in Seq(S)
         /\ Range(Append(s, e)) = Range(s) \cup {e}
         /\ IsInjective(s) /\ e \notin Range(s) => IsInjective(Append(s, e))
<1>1. /\ Append(s, e) \in Seq(S) /\ Len(Append(s, e)) = Len(s) + 1
      /\ \A i \in 1..Len(s) : Append(s, e)[i] = s[i]
      /\ Append(s, e)[Len(s) + 1] = e
  BY AppendProperties
<1>2. DOMAIN s = 1..Len(s) /\ DOMAIN Append(s, e) = 1..Len(s) + 1 /\ Len(s) \in Nat
  BY <1>1, LenProperties
<1>3. 1..Len(s) + 1 = (1..Len(s)) \cup {Len(s) + 1}
  BY <1>2
<1>4. Range(Append(s, e)) = Range(s) \cup {e}
  BY <1>1, <1>2, <1>3 DEF Range
<1>5. ASSUME IsInjective(s), e \notin Range(s) PROVE IsInjective(Append(s, e))
  <2>1. \A i \in 1..Len(s) : s[i] # e
    BY <1>2, <1>5 DEF Range
  <2> QED
    BY <1>1, <1>2, <1>3, <1>5, <2>1 DEF IsInjective
<1> QED
  BY <1>1, <1>4, <1>5

\* A part of a sequence.
LEMMA SubSeqRange ==
  ASSUME NEW S, NEW s \in Seq(S), NEW m \in Nat \ {0}, NEW n \in 0..Len(s)
  PROVE  /\ SubSeq(s, m, n) \in Seq(S)
         /\ Range(SubSeq(s, m, n)) \subseteq Range(s)
         /\ m <= n => SubSeq(s, m, n) # <<>> /\ Last(SubSeq(s, m, n)) = s[n]
<1>1. \A i \in m..n : i \in 1..Len(s) /\ s[i] \in S
  BY ElementOfSeq
<1>2. /\ SubSeq(s, m, n) \in Seq(S)
      /\ Len(SubSeq(s, m, n)) = IF m <= n THEN n - m + 1 ELSE 0
      /\ \A i \in 1..n - m + 1 : SubSeq(s, m, n)[i] = s[m + i - 1]
  BY <1>1, SubSeqProperties
<1>3. Range(SubSeq(s, m, n)) \subseteq Range(s)
  <2>1. ASSUME NEW i \in 1..Len(SubSeq(s, m, n)) PROVE SubSeq(s, m, n)[i] \in Range(s)
    <3>1. m + i - 1 \in 1..Len(s) /\ SubSeq(s, m, n)[i] = s[m + i - 1]
      BY <1>2
    <3> QED
      BY <3>1 DEF Range
  <2>2. Range(SubSeq(s, m, n)) = {SubSeq(s, m, n)[i] : i \in 1..Len(SubSeq(s, m, n))}
    BY <1>2, RangeEquality
  <2> QED
    BY <2>1, <2>2
<1>4. ASSUME m <= n PROVE SubSeq(s, m, n) # <<>> /\ Last(SubSeq(s, m, n)) = s[n]
  BY <1>2, <1>4, EmptySeq DEF Last
<1> QED
  BY <1>2, <1>3, <1>4

\* A run that is touched is in the order once, and last.
LEMMA TouchProperties ==
  ASSUME NEW order \in Seq(Runs), IsInjective(order), NEW r \in Runs
  PROVE  /\ Touch(order, r) \in Seq(Runs) /\ IsInjective(Touch(order, r))
         /\ Range(Touch(order, r)) = Range(order) \cup {r}
<1> DEFINE rest == Without(order, {r})
<1>1. rest \in Seq(Runs) /\ IsInjective(rest) /\ Range(rest) = Range(order) \ {r}
  BY WithoutProperties
<1>2. Touch(order, r) = Append(rest, r)
  BY DEF Touch
<1> HIDE DEF rest
<1> QED
  BY <1>1, <1>2, AppendNew

\* The history is made of the messages in the store.
LEMMA HistoryMessages ==
  ASSUME TypeOK, NEW c
  PROVE  /\ History(c) \in Seq(Messages)
         /\ \A m \in Range(History(c)) : \E p \in Runs : m \in Range(msgs[p])
<1> DEFINE part(i) == IF born[i] \in Stored(c) THEN msgs[born[i]] ELSE <<>>
           seqs == [i \in DOMAIN born |-> part(i)]
<1>1. /\ born \in Seq(Runs) /\ Len(born) \in Nat /\ DOMAIN born = 1..Len(born)
      /\ \A i \in 1..Len(born) : born[i] \in Runs
  BY ElementOfSeq, LenProperties DEF TypeOK
<1>2. \A i \in 1..Len(born) : part(i) \in Seq(Messages)
  BY <1>1 DEF TypeOK
<1>3. \A i \in 1..Len(born) : \A m \in Range(part(i)) : \E p \in Runs : m \in Range(msgs[p])
  <2> SUFFICES ASSUME NEW i \in 1..Len(born), NEW m \in Range(part(i))
               PROVE  m \in Range(msgs[born[i]])
    BY <1>1
  <2> QED
    BY DEF Range
<1> HIDE DEF part
<1>4. /\ seqs \in Seq(Seq(Messages)) /\ Len(seqs) = Len(born)
      /\ \A i \in 1..Len(born) : seqs[i] = part(i)
  BY <1>1, <1>2
<1>5. History(c) = FlattenSeq(seqs)
  BY DEF History, part
<1> HIDE DEF seqs
<1>6. FlattenSeq(seqs) \in Seq(Messages) /\ Range(FlattenSeq(seqs)) = Elements(seqs, Len(born))
  BY <1>4, FlattenRange
<1>7. \A m \in Elements(seqs, Len(born)) : \E p \in Runs : m \in Range(msgs[p])
  BY <1>3, <1>4 DEF Elements
<1> QED
  BY <1>5, <1>6, <1>7

\* Every run that has begun is in the order of creation, every run in the store in
\* that of updates.
Listed ==
  \A r \in Runs :
    /\ r \in Range(born) <=> phase[r] # "new"
    /\ r \in Range(touched) <=> row[r] # "none"

\* A message with an answer is that of a run that is over.
AnswersOld ==
  \A p, q \in Runs :
    <<"assistant", q>> \in Range(sent[p]) \cup Range(msgs[p]) => phase[q] = "ended"

\* A run that is updated last is one of the runs.
LEMMA LatestIsRun ==
  ASSUME TypeOK, Listed, NEW c, Stored(c) # {}
  PROVE  Latest(c) \in Stored(c)
<1> DEFINE order == Without(touched, Runs \ Stored(c))
<1>1. order \in Seq(Runs) /\ Range(order) = Range(touched) \ (Runs \ Stored(c))
  BY WithoutProperties DEF TypeOK
<1>2. Range(order) = Stored(c)
  <2>1. Range(touched) \subseteq Runs
    BY RangeOfSeq DEF TypeOK
  <2> QED
    BY <1>1, <2>1 DEF Listed, Stored
<1> HIDE DEF order
<1>3. order # <<>>
  BY <1>2 DEF Range
<1>4. order[Len(order)] \in Range(order)
  BY <1>1, <1>3, EmptySeq DEF Range
<1> QED
  BY <1>2, <1>4 DEF Latest, Last, order

\* Both orders hold each of their runs once.
Orders ==
  /\ born \in Seq(Runs) /\ IsInjective(born)
  /\ touched \in Seq(Runs) /\ IsInjective(touched)
  /\ Listed

\* How a step of a run changes the orders.
BornStep(r) ==
  \/ born' = born /\ \A q \in Runs : phase'[q] = "new" <=> phase[q] = "new"
  \/ /\ born' = Append(born, r) /\ phase[r] = "new"
     /\ \A q \in Runs : phase'[q] = "new" <=> phase[q] = "new" /\ q # r

TouchedStep ==
  \/ touched' = touched /\ \A q \in Runs : row'[q] = "none" <=> row[q] = "none"
  \/ \E p \in Runs :
       /\ touched' = Touch(touched, p) /\ row'[p] # "none"
       /\ \A q \in Runs \ {p} : row'[q] = row[q]

\* Every step of a thread is of that kind.
LEMMA ThreadOrders ==
  ASSUME RunTypes, RunAtPhase, ActiveKeepsSession, NEW r \in Runs, Thread(r)
  PROVE  BornStep(r) /\ TouchedStep
<1> USE DEF BornStep, TouchedStep, RunTypes
<1>1. CASE Request(r)
  BY <1>1 DEF Registered, Request
<1>2. CASE ResumeRequest(r)
  BY <1>2 DEF Registered, ResumeRequest
<1>3. CASE ReadHistory(r)
  BY <1>3 DEF ReadHistory
<1>4. CASE HistoryDiffers(r)
  BY <1>4 DEF HistoryDiffers
<1>5. CASE InsertSession(r)
  BY <1>5 DEF Holder, InsertSession
<1>6. CASE InsertFails(r)
  BY <1>6 DEF Holder, InsertFails
<1>7. CASE SaveSnapshot(r)
  BY <1>7 DEF ActiveKeepsSession, Holder, Notified, RunAtPhase, Save, SaveSnapshot
<1>8. CASE FirstSaveFails(r)
  BY <1>8 DEF FirstSaveFails, Raises
<1>9. CASE Complete(r)
  BY <1>9 DEF Complete, Notified
<1>10. CASE StoreAnswer(r)
  BY <1>10 DEF Holder, RunAtPhase, Save, StoreAnswer
<1>11. CASE StoreAnswerFails(r)
  BY <1>11 DEF Raises, StoreAnswerFails
<1>12. CASE SetError(r)
  BY <1>12 DEF ActiveKeepsSession, Holder, Raises, RunAtPhase, Save, SetError,
     TerminalStates
<1>13. CASE LastEvent(r)
  BY <1>13 DEF Holder, LastEvent, Notified, Raises, RunAtPhase, Save
<1>14. ASSUME NEW state \in {"failed", "cancelled"}, Terminate(r, state)
       PROVE BornStep(r) /\ TouchedStep
  BY <1>14 DEF ActiveKeepsSession, Holder, Notified, Raises, RunAtPhase, Save,
     TerminalRow, TerminalStates, Terminate
<1> QED
  BY <1>1, <1>2, <1>3, <1>4, <1>5, <1>6, <1>7, <1>8, <1>9, <1>10, <1>11, <1>12, <1>13,
     <1>14 DEF Thread

\* What a restart makes of the order of updates.
LEMMA RestartOrders ==
  ASSUME RunTypes, RunAtPhase, Orders, Restart
  PROVE  Orders'
<1> DEFINE untouched == Without(touched, Interrupted)
           failed == Without(born, Runs \ Interrupted)
           order == untouched \o failed
<1>1. /\ born' = born
      /\ phase' = [r \in Runs |-> IF phase[r] = "new" THEN "new" ELSE "ended"]
  BY DEF Restart
<1>2. PICK Expired :
        /\ row' = [r \in Runs |-> IF r \in Expired THEN "none"
                                  ELSE IF r \in Interrupted THEN "failed"
                                  ELSE row[r]]
        /\ touched' = Without(order, Expired)
  <2> HIDE DEF Orders, RunTypes, RunAtPhase
  <2> QED
    BY Zenon DEF Restart
<1>3. /\ untouched \in Seq(Runs) /\ IsInjective(untouched)
      /\ Range(untouched) = Range(touched) \ Interrupted
  BY WithoutProperties DEF Orders
<1>4. /\ failed \in Seq(Runs) /\ IsInjective(failed)
      /\ Range(failed) = Range(born) \ (Runs \ Interrupted)
  BY WithoutProperties DEF Orders
<1>5. \A r \in Range(born) : r \in Runs
  BY RangeOfSeq DEF Orders
<1>6. \A r \in Interrupted : r \in Runs /\ r \in Range(born) /\ row[r] # "none"
  BY DEF Interrupted, Listed, Orders, RunAtPhase
<1>7. Range(failed) = Interrupted
  BY <1>4, <1>5, <1>6
<1> HIDE DEF untouched, failed
<1>8. /\ order \in Seq(Runs) /\ IsInjective(order)
      /\ Range(order) = Range(untouched) \cup Interrupted
  <2>1. order \in Seq(Runs)
    BY <1>3, <1>4, ConcatProperties
  <2>2. IsInjective(order)
    BY <1>3, <1>4, <1>7, ConcatInjective
  <2>3. Range(order) = Range(untouched) \cup Range(failed)
    BY <1>3, <1>4, RangeConcatenation
  <2> QED
    BY <1>7, <2>1, <2>2, <2>3
<1> HIDE DEF order
<1>9. /\ touched' \in Seq(Runs) /\ IsInjective(touched')
      /\ Range(touched') = Range(order) \ Expired
  BY <1>2, <1>8, WithoutProperties
<1>10. Listed'
  <2> SUFFICES ASSUME NEW r \in Runs
               PROVE  /\ r \in Range(born') <=> phase'[r] # "new"
                      /\ r \in Range(touched') <=> row'[r] # "none"
    BY DEF Listed
  <2>1. r \in Range(born') <=> phase'[r] # "new"
    BY <1>1 DEF Listed, Orders
  <2>2. r \in Range(touched) <=> row[r] # "none"
    BY DEF Listed, Orders
  <2>3. r \in Range(touched') <=> row'[r] # "none"
    BY <1>2, <1>3, <1>6, <1>8, <1>9, <2>2
  <2> QED
    BY <2>1, <2>3
<1> QED
  BY <1>1, <1>9, <1>10 DEF Orders

\* Every step keeps the orders.
LEMMA OrdersStep ==
  RunTypes /\ RunAtPhase /\ ActiveKeepsSession /\ Orders /\ [Next]_vars => Orders'
<1> SUFFICES ASSUME RunTypes, RunAtPhase, ActiveKeepsSession, Orders, [Next]_vars
             PROVE  Orders'
  OBVIOUS
<1>1. ASSUME NEW r \in Runs, Thread(r) PROVE Orders'
  <2>1. BornStep(r) /\ TouchedStep
    BY <1>1, ThreadOrders
  <2>2. /\ born' \in Seq(Runs) /\ IsInjective(born')
        /\ \A q \in Runs : q \in Range(born') <=> phase'[q] # "new"
    <3>1. CASE born' = born /\ \A q \in Runs : phase'[q] = "new" <=> phase[q] = "new"
      BY <3>1 DEF Listed, Orders
    <3>2. CASE /\ born' = Append(born, r) /\ phase[r] = "new"
               /\ \A q \in Runs : phase'[q] = "new" <=> phase[q] = "new" /\ q # r
      <4>1. r \notin Range(born)
        BY <3>2 DEF Listed, Orders
      <4>2. /\ Append(born, r) \in Seq(Runs) /\ IsInjective(Append(born, r))
            /\ Range(Append(born, r)) = Range(born) \cup {r}
        BY <4>1, AppendNew DEF Orders
      <4> QED
        BY <3>2, <4>2 DEF Listed, Orders
    <3> QED
      BY <2>1, <3>1, <3>2 DEF BornStep
  <2>3. /\ touched' \in Seq(Runs) /\ IsInjective(touched')
        /\ \A q \in Runs : q \in Range(touched') <=> row'[q] # "none"
    <3>1. CASE touched' = touched /\ \A q \in Runs : row'[q] = "none" <=> row[q] = "none"
      BY <3>1 DEF Listed, Orders
    <3>2. ASSUME NEW p \in Runs, touched' = Touch(touched, p), row'[p] # "none",
                 \A q \in Runs \ {p} : row'[q] = row[q]
          PROVE  /\ touched' \in Seq(Runs) /\ IsInjective(touched')
                 /\ \A q \in Runs : q \in Range(touched') <=> row'[q] # "none"
      <4>1. /\ Touch(touched, p) \in Seq(Runs) /\ IsInjective(Touch(touched, p))
            /\ Range(Touch(touched, p)) = Range(touched) \cup {p}
        BY TouchProperties DEF Orders
      <4> QED
        BY <3>2, <4>1 DEF Listed, Orders
    <3> QED
      BY <2>1, <3>1, <3>2 DEF TouchedStep
  <2> QED
    BY <2>2, <2>3 DEF Listed, Orders
<1>2. ASSUME NEW c \in Conversations, DeleteConversation(c) PROVE Orders'
  <2>1. /\ born' = born /\ phase' = phase /\ touched' = Without(touched, Stored(c))
        /\ row' = [r \in Runs |-> IF r \in Stored(c) THEN "none" ELSE row[r]]
    BY <1>2 DEF DeleteConversation
  <2>2. /\ touched' \in Seq(Runs) /\ IsInjective(touched')
        /\ Range(touched') = Range(touched) \ Stored(c)
    BY <2>1, WithoutProperties DEF Orders
  <2> QED
    BY <2>1, <2>2 DEF Listed, Orders
<1>3. CASE ForgetRuns
  BY <1>3 DEF ForgetRuns, Listed, Orders
<1>4. ASSUME NEW r \in Runs, Prune(r) PROVE Orders'
  BY <1>4 DEF Listed, Orders, Prune
<1>5. CASE Restart
  BY <1>5, RestartOrders
<1>6. CASE UNCHANGED vars
  BY <1>6 DEF Listed, Orders, vars
<1> QED
  BY <1>1, <1>2, <1>3, <1>4, <1>5, <1>6 DEF Next

\* The types of what the first part leaves out, but for the orders.
MessageTypes ==
  /\ id \in [Runs -> Ids]
  /\ conv \in [Runs -> Conversations]
  /\ parent \in [Runs -> Ids \cup {NoRun}]
  /\ sent \in [Runs -> Seq(Messages)]
  /\ seen \in [Runs -> Nat]
  /\ msgs \in [Runs -> Seq(Messages)]
  /\ answered \subseteq Runs
  /\ forget \subseteq Ids
  /\ unsaved \subseteq Runs
  /\ overwritten \subseteq Runs

\* The types, part by part.
LEMMA Types == TypeOK <=> RunTypes /\ MessageTypes /\
                 /\ born \in Seq(Runs) /\ IsInjective(born)
                 /\ touched \in Seq(Runs) /\ IsInjective(touched)
  BY DEF MessageTypes, RunTypes, TypeOK

\* A message is added at the end.
LEMMA MessageAdded ==
  ASSUME NEW s \in Seq(Messages), NEW author \in {"user", "assistant"}, NEW r \in Runs
  PROVE  /\ Append(s, <<author, r>>) \in Seq(Messages)
         /\ Range(Append(s, <<author, r>>)) = Range(s) \cup {<<author, r>>}
         /\ Append(s, <<author, r>>) # <<>> /\ Last(Append(s, <<author, r>>)) = <<author, r>>
<1> DEFINE m == <<author, r>>
<1>1. m \in Messages
  BY DEF Messages
<1> HIDE DEF m
<1>2. Append(s, m) \in Seq(Messages) /\ Range(Append(s, m)) = Range(s) \cup {m}
  BY <1>1, AppendNew
<1>3. Append(s, m) # <<>> /\ Last(Append(s, m)) = m
  <2>1. Len(Append(s, m)) = Len(s) + 1 /\ Append(s, m)[Len(s) + 1] = m
    BY <1>1, AppendProperties
  <2> QED
    BY <1>1, <2>1, AppendProperties DEF Last
<1> QED
  BY <1>2, <1>3 DEF m

\* A resume sends messages of the history.
LEMMA ResumeFromHistory ==
  ASSUME TypeOK, NEW c
  PROVE  /\ ResumeMessages(c) \in Seq(Messages)
         /\ Range(ResumeMessages(c)) \subseteq Range(History(c))
<1> DEFINE h == History(c)
<1>1. h \in Seq(Messages)
  BY HistoryMessages
<1>2. ResumeMessages(c) = h \/ (h # <<>> /\ ResumeMessages(c) = SubSeq(h, 1, Len(h) - 1))
  BY DEF Front, ResumeMessages
<1> HIDE DEF h
<1>3. ASSUME h # <<>>
      PROVE  /\ SubSeq(h, 1, Len(h) - 1) \in Seq(Messages)
             /\ Range(SubSeq(h, 1, Len(h) - 1)) \subseteq Range(h)
  <2>1. 1 \in Nat \ {0} /\ Len(h) - 1 \in 0..Len(h)
    BY <1>1, <1>3, EmptySeq
  <2> QED
    BY <1>1, <2>1, SubSeqRange
<1> QED
  BY <1>1, <1>2, <1>3 DEF h

\* What a request sends: its answers are from the store.
LEMMA SentMessages ==
  ASSUME TypeOK, NEW r \in Runs, Request(r) \/ ResumeRequest(r)
  PROVE  \E new \in Seq(Messages) :
           /\ sent' = [sent EXCEPT ![r] = new]
           /\ \A q \in Runs : <<"assistant", q>> \in Range(new) =>
                \E p \in Runs : <<"assistant", q>> \in Range(msgs[p])
<1> DEFINE h == History(conv[r])
<1>1. h \in Seq(Messages) /\ \A m \in Range(h) : \E p \in Runs : m \in Range(msgs[p])
  BY HistoryMessages
<1>2. CASE Request(r)
  <2>1. PICK n \in 0..Len(h) :
          sent' = [sent EXCEPT ![r] = Append(SubSeq(h, 1, n), <<"user", r>>)]
    BY <1>2 DEF Request
  <2> HIDE DEF h
  <2>2. SubSeq(h, 1, n) \in Seq(Messages) /\ Range(SubSeq(h, 1, n)) \subseteq Range(h)
    <3>1. 1 \in Nat \ {0}
      OBVIOUS
    <3> QED
      BY <1>1, <3>1, SubSeqRange
  <2>4. /\ Append(SubSeq(h, 1, n), <<"user", r>>) \in Seq(Messages)
        /\ Range(Append(SubSeq(h, 1, n), <<"user", r>>))
             = Range(SubSeq(h, 1, n)) \cup {<<"user", r>>}
    BY <2>2, MessageAdded
  <2>5. \A q \in Runs : <<"assistant", q>> # <<"user", r>>
    OBVIOUS
  <2>6. \A q \in Runs : <<"assistant", q>> \in Range(Append(SubSeq(h, 1, n), <<"user", r>>)) =>
          \E p \in Runs : <<"assistant", q>> \in Range(msgs[p])
    BY <1>1, <2>2, <2>4, <2>5, Zenon
  <2> QED
    BY <2>1, <2>4, <2>6
<1>3. CASE ResumeRequest(r)
  <2>1. sent' = [sent EXCEPT ![r] = ResumeMessages(conv[r])]
    BY <1>3 DEF ResumeRequest
  <2>2. /\ ResumeMessages(conv[r]) \in Seq(Messages)
        /\ Range(ResumeMessages(conv[r])) \subseteq Range(h)
    BY ResumeFromHistory
  <2> HIDE DEF h
  <2> QED
    BY <1>1, <2>1, <2>2
<1> QED
  BY <1>2, <1>3

\* What is stored with a session: a part of what was sent.
LEMMA InsertedMessages ==
  ASSUME TypeOK, NEW r \in Runs
  PROVE  /\ SubSeq(sent[r], seen[r] + 1, Len(sent[r])) \in Seq(Messages)
         /\ Range(SubSeq(sent[r], seen[r] + 1, Len(sent[r]))) \subseteq Range(sent[r])
<1>1. sent[r] \in Seq(Messages) /\ seen[r] + 1 \in Nat \ {0} /\ Len(sent[r]) \in 0..Len(sent[r])
  BY LenProperties DEF TypeOK
<1> QED
  BY <1>1, SubSeqRange

\* What a restart does to messages.
RestartMessages ==
  /\ id' = id /\ conv' = conv /\ overwritten' = overwritten
  /\ unsaved' = {} /\ forget' = {} /\ answered' \subseteq answered
  /\ sent' = [r \in Runs |-> <<>>] /\ seen' = [r \in Runs |-> 0]
  /\ phase' = [r \in Runs |-> IF phase[r] = "new" THEN "new" ELSE "ended"]
  /\ \E rs :
       /\ msgs' = [r \in Runs |-> IF r \in rs THEN <<>> ELSE msgs[r]]
       /\ answered' = answered \ rs
       /\ parent' = [r \in Runs |-> IF row[r] # "none" /\ parent[r] \in {id[q] : q \in rs}
                                     THEN NoRun ELSE parent[r]]

\* Every restart is of that kind.
LEMMA RestartKeeps == Restart => RestartMessages
<1> SUFFICES ASSUME Restart PROVE RestartMessages
  OBVIOUS
<1>1. PICK rs : DeleteRows(rs)
  BY Zenon DEF Restart
<1>2. /\ id' = id /\ conv' = conv /\ overwritten' = overwritten
      /\ unsaved' = {} /\ forget' = {}
      /\ sent' = [r \in Runs |-> <<>>] /\ seen' = [r \in Runs |-> 0]
      /\ phase' = [r \in Runs |-> IF phase[r] = "new" THEN "new" ELSE "ended"]
  BY DEF Restart
<1>3. answered' \subseteq answered
  BY <1>1 DEF DeleteRows
<1> QED
  BY <1>1, <1>2, <1>3, Zenon DEF DeleteRows, RestartMessages

\* Every step keeps the types of messages.
LEMMA MessageStep ==
  TypeOK /\ Listed /\ [Next]_vars => MessageTypes'
<1> SUFFICES ASSUME TypeOK, Listed, [Next]_vars PROVE MessageTypes'
  OBVIOUS
<1>m. MessageTypes
  BY Types
<1>e. \A s \in {<<>>} : s \in Seq(Messages)
  OBVIOUS
<1>1. ASSUME NEW r \in Runs, Thread(r) PROVE MessageTypes'
  <2>1. CASE Request(r)
    <3>1. PICK new \in Seq(Messages) : sent' = [sent EXCEPT ![r] = new]
      BY <2>1, SentMessages
    <3> QED
      BY <1>m, <2>1, <3>1 DEF MessageTypes, Request
  <2>2. CASE ResumeRequest(r)
    <3>1. PICK new \in Seq(Messages) : sent' = [sent EXCEPT ![r] = new]
      BY <2>2, SentMessages
    <3>2. id[Latest(conv[r])] \in Ids
      BY <1>m, <2>2, LatestIsRun DEF MessageTypes, Resumable, ResumeRequest, Stored
    <3> QED
      BY <1>m, <2>2, <3>1, <3>2 DEF MessageTypes, ResumeRequest
  <2>3. CASE ReadHistory(r)
    <3>1. Len(History(conv[r])) \in Nat
      BY HistoryMessages, LenProperties
    <3> QED
      BY <1>m, <2>3, <3>1 DEF MessageTypes, ReadHistory
  <2>4. CASE HistoryDiffers(r)
    BY <1>m, <1>e, <2>4 DEF HistoryDiffers, MessageTypes
  <2>5. CASE InsertSession(r)
    BY <1>m, <1>e, <2>5, InsertedMessages DEF InsertSession, MessageTypes
  <2>6. CASE InsertFails(r)
    BY <1>m, <1>e, <2>6 DEF InsertFails, MessageTypes
  <2>7. CASE SaveSnapshot(r)
    BY <1>m, <2>7 DEF Holder, MessageTypes, Notified, Save, SaveSnapshot
  <2>8. CASE FirstSaveFails(r)
    BY <1>m, <2>8 DEF FirstSaveFails, MessageTypes
  <2>9. CASE Complete(r)
    BY <1>m, <2>9 DEF Complete, MessageTypes, Notified
  <2>10. CASE StoreAnswer(r)
    <3>1. \A q \in Runs : Append(msgs[q], <<"assistant", r>>) \in Seq(Messages)
      BY <1>m, MessageAdded DEF MessageTypes
    <3>2. msgs' \in [Runs -> Seq(Messages)]
      BY <1>m, <2>10, <3>1 DEF MessageTypes, StoreAnswer
    <3> QED
      BY <1>m, <2>10, <3>2 DEF Holder, MessageTypes, Save, StoreAnswer
  <2>11. CASE StoreAnswerFails(r)
    BY <1>m, <2>11 DEF MessageTypes, StoreAnswerFails
  <2>12. CASE SetError(r)
    BY <1>m, <2>12 DEF Holder, MessageTypes, Save, SetError
  <2>13. CASE LastEvent(r)
    BY <1>m, <2>13 DEF Holder, LastEvent, MessageTypes, Notified, Save
  <2>14. ASSUME NEW state \in {"failed", "cancelled"}, Terminate(r, state)
         PROVE MessageTypes'
    BY <1>m, <2>14 DEF Holder, MessageTypes, Notified, Save, TerminalRow, Terminate
  <2> QED
    BY <1>1, <2>1, <2>2, <2>3, <2>4, <2>5, <2>6, <2>7, <2>8, <2>9, <2>10, <2>11,
       <2>12, <2>13, <2>14 DEF Thread
<1>2. ASSUME NEW c \in Conversations, DeleteConversation(c) PROVE MessageTypes'
  <2>1. Stored(c) \subseteq Runs
    BY DEF Stored
  <2>2. /\ id' = id /\ conv' = conv /\ sent' = sent /\ seen' = seen /\ unsaved' = unsaved
        /\ overwritten' = overwritten
    BY <1>2 DEF DeleteConversation
  <2>3. /\ msgs' = [r \in Runs |-> IF r \in Stored(c) THEN <<>> ELSE msgs[r]]
        /\ answered' = answered \ Stored(c)
        /\ forget' = forget \cup {id[r] : r \in Stored(c)}
    BY <1>2 DEF DeleteConversation, DeleteRows
  <2>4. parent' = [r \in Runs |-> IF row[r] # "none" /\ parent[r] \in {id[q] : q \in Stored(c)}
                                  THEN NoRun ELSE parent[r]]
    BY <1>2 DEF DeleteConversation, DeleteRows
  <2> QED
    BY <1>m, <1>e, <2>1, <2>2, <2>3, <2>4 DEF MessageTypes
<1>3. CASE ForgetRuns
  BY <1>m, <1>3 DEF ForgetRuns, MessageTypes
<1>4. ASSUME NEW r \in Runs, Prune(r) PROVE MessageTypes'
  BY <1>m, <1>4 DEF MessageTypes, Prune
<1>5. CASE Restart
  <2>1. RestartMessages
    BY <1>5, RestartKeeps
  <2>2. PICK rs :
          /\ msgs' = [r \in Runs |-> IF r \in rs THEN <<>> ELSE msgs[r]]
          /\ answered' = answered \ rs
          /\ parent' = [r \in Runs |-> IF row[r] # "none" /\ parent[r] \in {id[q] : q \in rs}
                                       THEN NoRun ELSE parent[r]]
    BY <2>1 DEF RestartMessages
  <2>3. parent' \in [Runs -> Ids \cup {NoRun}]
    BY <1>m, <2>2 DEF MessageTypes
  <2>4. msgs' \in [Runs -> Seq(Messages)]
    BY <1>m, <1>e, <2>2 DEF MessageTypes
  <2>5. sent' \in [Runs -> Seq(Messages)] /\ seen' \in [Runs -> Nat]
    BY <1>e, <2>1 DEF RestartMessages
  <2> QED
    BY <1>m, <2>1, <2>3, <2>4, <2>5 DEF MessageTypes, RestartMessages
<1>6. CASE UNCHANGED vars
  BY <1>m, <1>6 DEF MessageTypes, vars
<1> QED
  BY <1>1, <1>2, <1>3, <1>4, <1>5, <1>6 DEF Next

\* A run that has ended stays so.
LEMMA EndedKept ==
  ASSUME RunTypes, [Next]_vars, NEW q \in Runs, phase[q] = "ended"
  PROVE  phase'[q] = "ended"
<1> USE DEF RunTypes
<1>1. ASSUME NEW r \in Runs, Thread(r) PROVE phase'[q] = "ended"
  BY <1>1 DEF Thread, Request, ResumeRequest, ReadHistory, HistoryDiffers, InsertSession,
     InsertFails, SaveSnapshot, FirstSaveFails, Complete, StoreAnswer, StoreAnswerFails,
     SetError, LastEvent, Terminate
<1>2. ASSUME NEW c \in Conversations, DeleteConversation(c) PROVE phase'[q] = "ended"
  BY <1>2 DEF DeleteConversation
<1>3. CASE ForgetRuns
  BY <1>3 DEF ForgetRuns
<1>4. ASSUME NEW r \in Runs, Prune(r) PROVE phase'[q] = "ended"
  BY <1>4 DEF Prune
<1>5. CASE Restart
  BY <1>5 DEF Restart
<1>6. CASE UNCHANGED vars
  BY <1>6 DEF vars
<1> QED
  BY <1>1, <1>2, <1>3, <1>4, <1>5, <1>6 DEF Next

\* Every step keeps answers in the past.
LEMMA AnswersOldStep ==
  TypeOK /\ AnswersOld /\ [Next]_vars => AnswersOld'
<1> SUFFICES ASSUME TypeOK, AnswersOld, [Next]_vars,
                    NEW p \in Runs, NEW q \in Runs,
                    <<"assistant", q>> \in Range(sent'[p]) \cup Range(msgs'[p])
             PROVE  phase'[q] = "ended"
  BY DEF AnswersOld
<1>m. RunTypes /\ MessageTypes
  BY Types
<1>k. phase[q] = "ended" => phase'[q] = "ended"
  BY <1>m, EndedKept
<1>e. <<"assistant", q>> \notin Range(<<>>)
  BY DEF Range
<1>u. \A t \in Runs :
        <<"assistant", q>> \in Range(sent[t]) \cup Range(msgs[t]) => phase'[q] = "ended"
  BY <1>k DEF AnswersOld
<1>1. ASSUME NEW r \in Runs, Thread(r) PROVE phase'[q] = "ended"
  <2>1. CASE Request(r) \/ ResumeRequest(r)
    <3>1. PICK new \in Seq(Messages) :
            /\ sent' = [sent EXCEPT ![r] = new]
            /\ \A t \in Runs : <<"assistant", t>> \in Range(new) =>
                 \E s \in Runs : <<"assistant", t>> \in Range(msgs[s])
      BY <2>1, SentMessages
    <3>2. msgs' = msgs
      BY <2>1 DEF Request, ResumeRequest
    <3>3. CASE p = r /\ <<"assistant", q>> \in Range(new)
      BY <1>u, <3>1, <3>3
    <3>4. CASE ~ (p = r /\ <<"assistant", q>> \in Range(new))
      BY <1>m, <1>u, <3>1, <3>2, <3>4 DEF MessageTypes
    <3> QED
      BY <3>3, <3>4
  <2>2. CASE InsertSession(r)
    <3>1. /\ msgs' = [msgs EXCEPT ![r] = SubSeq(sent[r], seen[r] + 1, Len(sent[r]))]
          /\ sent' = [sent EXCEPT ![r] = <<>>]
      BY <2>2 DEF InsertSession
    <3>2. Range(SubSeq(sent[r], seen[r] + 1, Len(sent[r]))) \subseteq Range(sent[r])
      BY InsertedMessages
    <3>3. \/ <<"assistant", q>> \in Range(sent[p]) \cup Range(msgs[p])
          \/ <<"assistant", q>> \in Range(sent[r]) \cup Range(msgs[r])
      BY <1>m, <1>e, <3>1, <3>2 DEF MessageTypes
    <3> QED
      BY <1>u, <3>3
  <2>3. CASE StoreAnswer(r)
    <3>1. /\ msgs'[p] = msgs[p] \/ msgs'[p] = Append(msgs[p], <<"assistant", r>>)
          /\ sent' = sent /\ phase' = [phase EXCEPT ![r] = "ended"]
      BY <2>3 DEF StoreAnswer
    <3>2. Range(Append(msgs[p], <<"assistant", r>>)) = Range(msgs[p]) \cup {<<"assistant", r>>}
      BY <1>m, MessageAdded DEF MessageTypes
    <3>3. \/ <<"assistant", q>> \in Range(sent[p]) \cup Range(msgs[p])
          \/ <<"assistant", q>> = <<"assistant", r>>
      BY <1>m, <3>1, <3>2 DEF MessageTypes
    <3>4. CASE <<"assistant", q>> = <<"assistant", r>>
      <4>1. q = r
        BY <3>4
      <4> QED
        BY <1>m, <3>1, <4>1 DEF RunTypes
    <3> QED
      BY <1>u, <3>3, <3>4
  <2>4. CASE HistoryDiffers(r) \/ InsertFails(r)
    <3>1. msgs' = msgs /\ sent' = [sent EXCEPT ![r] = <<>>]
      BY <2>4 DEF HistoryDiffers, InsertFails
    <3> QED
      BY <1>m, <1>e, <1>u, <3>1 DEF MessageTypes
  <2>5. CASE msgs' = msgs /\ sent' = sent
    BY <1>u, <2>5
  <2>6. ASSUME NEW state \in {"failed", "cancelled"}, Terminate(r, state)
        PROVE  msgs' = msgs /\ sent' = sent
    BY <2>6 DEF Terminate
  <2>7. ASSUME \/ ReadHistory(r) \/ SaveSnapshot(r) \/ FirstSaveFails(r) \/ Complete(r)
               \/ StoreAnswerFails(r) \/ SetError(r) \/ LastEvent(r)
        PROVE  msgs' = msgs /\ sent' = sent
    BY <2>7 DEF ReadHistory, SaveSnapshot, FirstSaveFails, Complete, StoreAnswerFails, SetError,
                LastEvent
  <2> QED
    BY <1>1, <2>1, <2>2, <2>3, <2>4, <2>5, <2>6, <2>7 DEF Thread
<1>2. ASSUME NEW c \in Conversations, DeleteConversation(c) PROVE phase'[q] = "ended"
  <2>1. sent' = sent /\ msgs' = [r \in Runs |-> IF r \in Stored(c) THEN <<>> ELSE msgs[r]]
    BY <1>2 DEF DeleteConversation, DeleteRows
  <2> QED
    BY <1>e, <1>u, <2>1
<1>3. CASE ForgetRuns
  BY <1>u, <1>3 DEF ForgetRuns
<1>4. ASSUME NEW r \in Runs, Prune(r) PROVE phase'[q] = "ended"
  BY <1>u, <1>4 DEF Prune
<1>5. CASE Restart
  BY <1>e, <1>u, <1>5, RestartKeeps DEF RestartMessages
<1>6. CASE UNCHANGED vars
  BY <1>u, <1>6 DEF vars
<1> QED
  BY <1>1, <1>2, <1>3, <1>4, <1>5, <1>6 DEF Next

\* The answer of a run is its last message.
AnswerIsLast ==
  \A r \in Runs \ overwritten :
    r \in answered <=> msgs[r] # <<>> /\ Last(msgs[r]) = <<"assistant", r>>

\* A row that has been overwritten counts as such for good.
LEMMA OverwrittenKept == [Next]_vars => overwritten \subseteq overwritten'
<1> SUFFICES ASSUME [Next]_vars PROVE overwritten \subseteq overwritten'
  OBVIOUS
<1>1. ASSUME NEW r \in Runs, Thread(r) PROVE overwritten \subseteq overwritten'
  BY <1>1 DEF Complete, FirstSaveFails, HistoryDiffers, InsertFails, InsertSession,
     LastEvent, Notified, ReadHistory, Request, ResumeRequest, Save, SaveSnapshot,
     SetError, StoreAnswer, StoreAnswerFails, Terminate, TerminalRow, Thread
<1>2. ASSUME NEW c \in Conversations, DeleteConversation(c)
      PROVE  overwritten \subseteq overwritten'
  BY <1>2 DEF DeleteConversation
<1>3. CASE ForgetRuns
  BY <1>3 DEF ForgetRuns
<1>4. ASSUME NEW r \in Runs, Prune(r) PROVE overwritten \subseteq overwritten'
  BY <1>4 DEF Prune
<1>5. CASE Restart
  BY <1>5 DEF Restart
<1>6. CASE UNCHANGED vars
  BY <1>6 DEF vars
<1> QED
  BY <1>1, <1>2, <1>3, <1>4, <1>5, <1>6 DEF Next

\* Every step keeps answers last.
LEMMA AnswerIsLastStep ==
  TypeOK /\ AnswersOld /\ Invariant /\ AnswerIsLast /\ [Next]_vars => AnswerIsLast'
<1> SUFFICES ASSUME TypeOK, AnswersOld, Invariant, AnswerIsLast, [Next]_vars,
                    NEW q \in Runs, q \notin overwritten'
             PROVE  q \in answered' <=> msgs'[q] # <<>> /\ Last(msgs'[q]) = <<"assistant", q>>
  BY DEF AnswerIsLast
<1> DEFINE Kept == (q \in answered' <=> q \in answered) /\ msgs'[q] = msgs[q]
           Goal == q \in answered' <=> msgs'[q] # <<>> /\ Last(msgs'[q]) = <<"assistant", q>>
<1>m. RunTypes /\ MessageTypes
  BY Types
<1>o. q \notin overwritten
  BY OverwrittenKept
<1>k. Kept => Goal
  BY <1>o DEF AnswerIsLast
<1>1. ASSUME NEW r \in Runs, Thread(r) PROVE Goal
  <2>1. CASE InsertSession(r)
    <3> DEFINE new == SubSeq(sent[r], seen[r] + 1, Len(sent[r]))
    <3>1. msgs' = [msgs EXCEPT ![r] = new] /\ answered' = answered /\ phase[r] = "insert"
      BY <2>1 DEF InsertSession
    <3>2. new \in Seq(Messages) /\ Range(new) \subseteq Range(sent[r])
      BY InsertedMessages
    <3>3. q = r => q \notin answered
      BY <1>o, <3>1 DEF AnsweredCompleted, Invariant, RunAtPhase
    <3>4. <<"assistant", r>> \notin Range(sent[r])
      BY <3>1 DEF AnswersOld
    <3> HIDE DEF new
    <3>5. new # <<>> => Last(new) \in Range(new)
      BY <3>2, EmptySeq DEF Last, Range
    <3>6. ~ (new # <<>> /\ Last(new) = <<"assistant", r>>)
      BY <3>2, <3>4, <3>5
    <3> QED
      BY <1>k, <1>m, <3>1, <3>3, <3>6 DEF MessageTypes
  <2>2. CASE StoreAnswer(r)
    <3> DEFINE new == Append(msgs[q], <<"assistant", r>>)
    <3>1. /\ msgs'[q] = IF q \in Holder(r) THEN new ELSE msgs[q]
          /\ answered' = answered \cup Holder(r)
      BY <2>2 DEF StoreAnswer
    <3>2. new # <<>> /\ Last(new) = <<"assistant", r>>
      BY <1>m, MessageAdded DEF MessageTypes
    <3>3. q \in Holder(r) => q = r
      BY <2>2 DEF Holder, IdsApart, Invariant, Save, StoreAnswer
    <3> HIDE DEF new
    <3> QED
      BY <1>k, <3>1, <3>2, <3>3
  <2>3. ASSUME NEW state \in {"failed", "cancelled"}, Terminate(r, state)
        PROVE  Kept
    BY <2>3 DEF Terminate
  <2>4. ASSUME \/ Request(r) \/ ResumeRequest(r) \/ ReadHistory(r) \/ HistoryDiffers(r)
               \/ InsertFails(r) \/ SaveSnapshot(r) \/ FirstSaveFails(r) \/ Complete(r)
               \/ StoreAnswerFails(r) \/ SetError(r) \/ LastEvent(r)
        PROVE  Kept
    BY <2>4 DEF Request, ResumeRequest, ReadHistory, HistoryDiffers, InsertFails, SaveSnapshot,
       FirstSaveFails, Complete, StoreAnswerFails, SetError, LastEvent
  <2> QED
    BY <1>1, <1>k, <2>1, <2>2, <2>3, <2>4 DEF Thread
<1>2. ASSUME NEW c \in Conversations, DeleteConversation(c) PROVE Goal
  <2>1. /\ msgs' = [r \in Runs |-> IF r \in Stored(c) THEN <<>> ELSE msgs[r]]
        /\ answered' = answered \ Stored(c)
    BY <1>2 DEF DeleteConversation, DeleteRows
  <2> QED
    BY <1>o, <2>1 DEF AnswerIsLast
<1>3. CASE ForgetRuns
  BY <1>k, <1>3 DEF ForgetRuns
<1>4. ASSUME NEW r \in Runs, Prune(r) PROVE Goal
  BY <1>k, <1>4 DEF Prune
<1>5. CASE Restart
  BY <1>5, <1>o, RestartKeeps DEF AnswerIsLast, RestartMessages
<1>6. CASE UNCHANGED vars
  BY <1>k, <1>6 DEF vars
<1> QED
  BY <1>1, <1>2, <1>3, <1>4, <1>5, <1>6 DEF Next

\* The second inductive invariant, which holds in states of the first.
Contents ==
  /\ MessageTypes
  /\ Orders
  /\ AnswersOld
  /\ AnswerIsLast

\* It holds at first.
LEMMA ContentsInit == Init => Contents
<1> SUFFICES ASSUME Init PROVE Contents
  OBVIOUS
<1>1. <<>> \in Seq(Messages) /\ <<>> \in Seq(Runs) /\ IsInjective(<<>>) /\ Range(<<>>) = {}
  BY DEF IsInjective, Range
<1>2. MessageTypes
  BY <1>1 DEF Init, MessageTypes
<1>3. Orders
  BY <1>1 DEF Init, Listed, Orders
<1>4. AnswersOld
  BY <1>1 DEF AnswersOld, Init
<1>5. AnswerIsLast
  BY DEF AnswerIsLast, Init
<1> QED
  BY <1>2, <1>3, <1>4, <1>5 DEF Contents

\* Together with the first it holds the types of all variables.
LEMMA ContentsTypes == Invariant /\ Contents => TypeOK
  BY Types DEF Contents, Invariant, Orders

\* Every step keeps it.
LEMMA ContentsStep == Invariant /\ Contents /\ [Next]_vars => Contents'
<1> SUFFICES ASSUME Invariant, Contents, [Next]_vars PROVE Contents'
  OBVIOUS
<1>1. TypeOK
  BY ContentsTypes
<1>2. Orders /\ Listed /\ AnswersOld /\ AnswerIsLast
  BY DEF Contents, Orders
<1>3. Orders'
  BY <1>2, OrdersStep DEF Invariant
<1>4. MessageTypes'
  BY <1>1, <1>2, MessageStep
<1>5. AnswersOld'
  BY <1>1, <1>2, AnswersOldStep
<1>6. AnswerIsLast'
  BY <1>1, <1>2, AnswerIsLastStep
<1> QED
  BY <1>3, <1>4, <1>5, <1>6 DEF Contents
-----------------------------------------------------------------------------
\* The inductive invariant holds in every reachable state.
THEOREM InvariantHolds == Spec => []Invariant
  BY InvariantInit, InvariantStep, PTL DEF Spec

\* A session that is terminal in the store has the state its run has in memory, also
\* when its run_id is used again.
THEOREM StoreFollows == Spec => []StoreFollowsMemory
<1>1. Invariant => StoreFollowsMemory
  BY DEF Invariant
<1> QED
  BY <1>1, InvariantHolds, PTL

\* A run that has saves to make keeps its session, whatever is deleted and whoever
\* else has its run_id.
THEOREM ActiveSessionsKept == Spec => []ActiveKeepsSession
<1>1. Invariant => ActiveKeepsSession
  BY DEF Invariant
<1> QED
  BY <1>1, InvariantHolds, PTL

\* The session of a run that has ended is closed, unless the store has failed it
\* since the last start; a restart closes it too.
THEOREM EndedSessionsClosed == Spec => []EndedRunsClosed
<1>1. Invariant => EndedRunsClosed
  BY DEF Invariant
<1> QED
  BY <1>1, InvariantHolds, PTL

\* After a deletion no run whose session was deleted is found in memory.
THEOREM DeletionForgets == Spec => []DeletedForgotten
<1>1. Invariant => DeletedForgotten
  BY DEF Invariant
<1> QED
  BY <1>1, InvariantHolds, PTL

\* The second invariant holds in every reachable state too.
THEOREM ContentsHold == Spec => []Contents
  BY ContentsInit, ContentsStep, InvariantHolds, PTL DEF Spec

\* The variables have their types, and the orders of runs list each run once.
THEOREM TypeCorrect == Spec => []TypeOK
  BY ContentsTypes, ContentsHold, InvariantHolds, PTL

\* A session is completed exactly when its answer is stored, as final_answer and
\* as its last message.
THEOREM CompletedAnswered == Spec => []CompletedHasAnswer
<1>1. Invariant /\ Contents => CompletedHasAnswer
  BY DEF AnswerIsLast, AnsweredCompleted, CompletedHasAnswer, Contents, Invariant
<1> QED
  BY <1>1, ContentsHold, InvariantHolds, PTL

\* Terminal sessions are final and deleted ones stay away, across restarts.
THEOREM SessionsAreFinal == Spec => SessionsFinal
<1>1. Invariant /\ [Next]_vars => [FinalStep]_vars
  BY FinalKept DEF Invariant
<1> QED
  BY <1>1, InvariantHolds, PTL DEF FinalStep, SessionsFinal, Spec
=============================================================================
