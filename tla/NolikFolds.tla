------------------------------ MODULE NolikFolds ------------------------------
(***************************************************************************)
(* What the folds of the model compute: FoldLeft over a sequence that has  *)
(* been extended is one more step of the operator that is folded, and      *)
(* FlattenSeq of one more sequence appends it.  Both come from induction   *)
(* over sets of numbers and of sequences, which is stated here too.  The   *)
(* operator is a parameter, and the proofs about a component instantiate   *)
(* this module once per fold of the component.                             *)
(***************************************************************************)
EXTENDS SequencesExt, SequenceTheorems, WellFoundedInduction, TLAPS

CONSTANT Op(_, _)

Fold(base, seq) == FoldLeft(Op, base, seq)

-----------------------------------------------------------------------------
(* Induction, with a set in the place of a predicate *)

\* A set that holds 0 and is closed under successor holds every number.
LEMMA NatInductionSet ==
  ASSUME NEW T, 0 \in T, \A n \in Nat : n \in T => n + 1 \in T
  PROVE  \A n \in Nat : n \in T
<1> DEFINE Bad == Nat \ T
           R == OpToRel(<, Nat)
<1>1. SUFFICES ASSUME Bad # {} PROVE FALSE
  OBVIOUS
<1>2. IsWellFoundedOn(R, Nat)
  BY NatLessThanWellFounded
<1>3. \A i, j \in Nat : i < j => <<i, j>> \in R
  BY DEF OpToRel
<1>4. Bad \subseteq Nat
  OBVIOUS
<1> HIDE DEF R
<1>5. PICK x \in Bad : \A y \in Bad : ~(<<y, x>> \in R)
  BY ONLY <1>1, <1>2, <1>4, WFMin
<1>6. x \in Nat /\ x # 0
  BY <1>5
<1>7. x - 1 \in Nat /\ x - 1 < x /\ (x - 1) + 1 = x
  BY <1>6
<1>8. x - 1 \in Bad
  BY <1>5, <1>7
<1>9. QED
  BY <1>3, <1>5, <1>6, <1>7, <1>8

\* The same for sequences: a set that holds the empty sequence and the
\* extensions of its members holds every sequence.
LEMMA SeqInductionSet ==
  ASSUME NEW S, NEW T, << >> \in T,
         \A s \in Seq(S) : s \in T => \A x \in S : Append(s, x) \in T
  PROVE  \A s \in Seq(S) : s \in T
<1> DEFINE L == {n \in Nat : \A s \in Seq(S) : Len(s) = n => s \in T}
<1>1. 0 \in L
  BY EmptySeq
<1>2. ASSUME NEW n \in Nat, n \in L PROVE n + 1 \in L
  <2> SUFFICES ASSUME NEW s \in Seq(S), Len(s) = n + 1 PROVE s \in T
    OBVIOUS
  <2>1. s # << >>
    BY EmptySeq
  <2>2. PICK r \in Seq(S), x \in S : s = Append(r, x)
    BY <2>1, SequenceEmptyOrAppend
  <2>3. Len(r) = n
    BY <2>2, AppendProperties, LenProperties
  <2>4. QED
    BY <1>2, <2>2, <2>3
<1> HIDE DEF L
<1>3. \A n \in Nat : n \in L
  BY <1>1, <1>2, NatInductionSet
<1>4. QED
  BY <1>3, LenProperties DEF L

-----------------------------------------------------------------------------
(* The function that the definition of FoldLeft chooses *)

LEMMA MaxOfSome ==
  ASSUME NEW n \in Nat, NEW s \in SUBSET (1 .. n), s # {}
  PROVE  Max(s) \in s /\ \A y \in s : Max(s) >= y
<1> DEFINE T == {m \in Nat : \A t \in SUBSET (1 .. m) :
                               t # {} => \E x \in t : \A y \in t : x >= y}
<1>1. 0 \in T
  <2>1. \A t \in SUBSET (1 .. 0) : t = {}
    OBVIOUS
  <2>2. QED
    BY <2>1
<1>2. ASSUME NEW m \in Nat, m \in T PROVE m + 1 \in T
  <2> SUFFICES ASSUME NEW t \in SUBSET (1 .. m + 1), t # {}
               PROVE  \E x \in t : \A y \in t : x >= y
    OBVIOUS
  <2>1. CASE m + 1 \in t
    BY <2>1
  <2>2. CASE m + 1 \notin t
    <3>1. t \in SUBSET (1 .. m)
      BY <2>2
    <3>2. QED
      BY <1>2, <3>1
  <2>3. QED
    BY <2>1, <2>2
<1> HIDE DEF T
<1>3. \A m \in Nat : m \in T
  BY <1>1, <1>2, NatInductionSet
<1>4. \E x \in s : \A y \in s : x >= y
  BY <1>3 DEF T
<1>5. QED
  BY <1>4 DEF Max

\* The whole of an initial segment.
LEMMA Segment ==
  ASSUME NEW m \in Nat
  PROVE  /\ 1 .. m + 1 \in SUBSET (1 .. m + 1) /\ 1 .. m + 1 # {}
         /\ Max(1 .. m + 1) = m + 1
         /\ (1 .. m + 1) \ {m + 1} = 1 .. m
<1>1. m + 1 \in Nat /\ 1 .. m + 1 \in SUBSET (1 .. m + 1) /\ m + 1 \in 1 .. m + 1
  OBVIOUS
<1>2. Max(1 .. m + 1) \in 1 .. m + 1 /\ Max(1 .. m + 1) >= m + 1
  BY <1>1, MaxOfSome
<1>3. QED
  BY <1>1, <1>2

Step(f, base, seq, s) ==
  IF s = {} THEN base ELSE Op(f[s \ {Max(s)}], seq[Max(s)])
IsIter(f, base, seq, n) == f = [s \in SUBSET (1 .. n) |-> Step(f, base, seq, s)]

LEMMA IterExists ==
  ASSUME NEW base, NEW seq, NEW n \in Nat
  PROVE  \E f : IsIter(f, base, seq, n)
<1> DEFINE T == {m \in Nat : \E f : IsIter(f, base, seq, m)}
<1>1. 0 \in T
  <2> DEFINE f == [s \in SUBSET (1 .. 0) |-> base]
  <2>1. \A s \in SUBSET (1 .. 0) : Step(f, base, seq, s) = base
    BY DEF Step
  <2>2. IsIter(f, base, seq, 0)
    BY <2>1 DEF IsIter
  <2>3. QED
    BY <2>2
<1>2. ASSUME NEW m \in Nat, m \in T PROVE m + 1 \in T
  <2>1. PICK f : IsIter(f, base, seq, m)
    BY <1>2
  <2> DEFINE value(s) == IF m + 1 \in s THEN Op(f[s \ {m + 1}], seq[m + 1]) ELSE f[s]
             g == [s \in SUBSET (1 .. m + 1) |-> value(s)]
  <2>2. ASSUME NEW s \in SUBSET (1 .. m) PROVE s \in SUBSET (1 .. m + 1) /\ g[s] = f[s]
    <3>1. s \in SUBSET (1 .. m + 1) /\ m + 1 \notin s
      OBVIOUS
    <3>2. QED
      BY <3>1
  <2>3. ASSUME NEW s \in SUBSET (1 .. m + 1) PROVE value(s) = Step(g, base, seq, s)
    <3>1. CASE m + 1 \in s
      <4>1. Max(s) \in s /\ \A y \in s : Max(s) >= y
        <5>1. m + 1 \in Nat /\ s # {}
          BY <3>1
        <5>2. QED
          BY <5>1, MaxOfSome
      <4>2. Max(s) = m + 1
        <5>1. Max(s) >= m + 1 /\ Max(s) \in 1 .. m + 1
          BY <3>1, <4>1
        <5>2. QED
          BY <5>1
      <4>3. s \ {m + 1} \in SUBSET (1 .. m)
        OBVIOUS
      <4>4. g[s \ {m + 1}] = f[s \ {m + 1}]
        BY <2>2, <4>3
      <4> HIDE DEF g
      <4>5. QED
        BY <3>1, <4>2, <4>4 DEF Step
    <3>2. CASE m + 1 \notin s
      <4>1. s \in SUBSET (1 .. m)
        BY <3>2
      <4>2. f[s] = Step(f, base, seq, s)
        BY <2>1, <4>1 DEF IsIter
      <4>3. CASE s = {}
        BY <3>2, <4>2, <4>3 DEF Step
      <4>4. CASE s # {}
        <5>1. s \ {Max(s)} \in SUBSET (1 .. m)
          BY <4>1
        <5>2. g[s \ {Max(s)}] = f[s \ {Max(s)}]
          BY <2>2, <5>1
        <5> HIDE DEF g
        <5>3. QED
          BY <3>2, <4>2, <4>4, <5>2 DEF Step
      <4>5. QED
        BY <4>3, <4>4
    <3>3. QED
      BY <3>1, <3>2
  <2>4. g = [s \in SUBSET (1 .. m + 1) |-> Step(g, base, seq, s)]
    <3> HIDE DEF value
    <3>1. QED
      BY <2>3
  <2>5. IsIter(g, base, seq, m + 1)
    BY <2>4 DEF IsIter
  <2> HIDE DEF g
  <2>6. QED
    BY <2>5
<1> HIDE DEF T
<1>3. \A m \in Nat : m \in T
  BY <1>1, <1>2, NatInductionSet
<1>4. QED
  BY <1>3 DEF T

\* The functions for two sequences agree as far as the sequences do.
LEMMA IterStable ==
  ASSUME NEW base, NEW seq, NEW other, NEW n \in Nat, NEW m \in Nat, n <= m,
         NEW f, IsIter(f, base, seq, n), NEW g, IsIter(g, base, other, m),
         \A i \in 1 .. n : seq[i] = other[i]
  PROVE  f[1 .. n] = g[1 .. n]
<1> DEFINE T == {k \in Nat : k <= n => f[1 .. k] = g[1 .. k]}
<1>1. 0 \in T
  <2>1. 1 .. 0 = {} /\ {} \in SUBSET (1 .. n) /\ {} \in SUBSET (1 .. m)
    OBVIOUS
  <2>2. f[{}] = base /\ g[{}] = base
    BY <2>1 DEF IsIter, Step
  <2>3. QED
    BY <2>1, <2>2
<1>2. ASSUME NEW k \in Nat, k \in T PROVE k + 1 \in T
  <2> SUFFICES ASSUME k + 1 <= n PROVE f[1 .. k + 1] = g[1 .. k + 1]
    OBVIOUS
  <2>1. 1 .. k + 1 \in SUBSET (1 .. n) /\ 1 .. k + 1 \in SUBSET (1 .. m)
    OBVIOUS
  <2>2. f[1 .. k + 1] = Op(f[1 .. k], seq[k + 1])
    <3>1. f[1 .. k + 1] = Step(f, base, seq, 1 .. k + 1)
      BY <2>1 DEF IsIter
    <3>2. QED
      BY <3>1, Segment DEF Step
  <2>3. g[1 .. k + 1] = Op(g[1 .. k], other[k + 1])
    <3>1. g[1 .. k + 1] = Step(g, base, other, 1 .. k + 1)
      BY <2>1 DEF IsIter
    <3>2. QED
      BY <3>1, Segment DEF Step
  <2>4. f[1 .. k] = g[1 .. k] /\ seq[k + 1] = other[k + 1]
    BY <1>2
  <2>5. QED
    BY <2>2, <2>3, <2>4
<1> HIDE DEF T
<1>3. n \in T
  BY <1>1, <1>2, NatInductionSet
<1>4. QED
  BY <1>3 DEF T

LEMMA FoldIter ==
  ASSUME NEW base, NEW seq, NEW n \in Nat, DOMAIN seq = 1 .. n
  PROVE  \E f : IsIter(f, base, seq, n) /\ Fold(base, seq) = f[1 .. n]
<1> DEFINE Iter == CHOOSE f : f = [s \in SUBSET DOMAIN seq |->
                       IF s = {} THEN base ELSE Op(f[s \ {Max(s)}], seq[Max(s)])]
<1>1. Fold(base, seq) = Iter[DOMAIN seq]
  BY DEF Fold, FoldLeft, MapThenFoldSet
<1>2. IsIter(Iter, base, seq, n)
  <2>1. \E f : f = [s \in SUBSET DOMAIN seq |->
                       IF s = {} THEN base ELSE Op(f[s \ {Max(s)}], seq[Max(s)])]
    <3>1. PICK f : IsIter(f, base, seq, n)
      BY IterExists
    <3>2. f = [s \in SUBSET DOMAIN seq |->
                 IF s = {} THEN base ELSE Op(f[s \ {Max(s)}], seq[Max(s)])]
      BY <3>1 DEF IsIter, Step
    <3> HIDE DEF Iter
    <3>3. QED
      BY <3>2
  <2>2. Iter = [s \in SUBSET DOMAIN seq |->
                  IF s = {} THEN base ELSE Op(Iter[s \ {Max(s)}], seq[Max(s)])]
    BY <2>1
  <2> HIDE DEF Iter
  <2>3. QED
    BY <2>2 DEF IsIter, Step
<1> HIDE DEF Iter
<1>3. QED
  BY <1>1, <1>2

-----------------------------------------------------------------------------

\* Folding nothing gives the base.
THEOREM FoldEmpty ==
  ASSUME NEW base
  PROVE  Fold(base, << >>) = base
<1>1. PICK f : IsIter(f, base, << >>, 0) /\ Fold(base, << >>) = f[1 .. 0]
  <2>1. DOMAIN << >> = 1 .. 0
    OBVIOUS
  <2>2. QED
    BY <2>1, FoldIter
<1>2. 1 .. 0 = {} /\ {} \in SUBSET (1 .. 0)
  OBVIOUS
<1>3. QED
  BY <1>1, <1>2 DEF IsIter, Step

\* One more element is one more step.
THEOREM FoldAppend ==
  ASSUME NEW base, NEW S, NEW seq \in Seq(S), NEW x \in S
  PROVE  Fold(base, Append(seq, x)) = Op(Fold(base, seq), x)
<1> DEFINE n == Len(seq)
           long == Append(seq, x)
<1>1. /\ n \in Nat /\ DOMAIN seq = 1 .. n /\ DOMAIN long = 1 .. n + 1
      /\ \A i \in 1 .. n : seq[i] = long[i]
      /\ long[n + 1] = x
  BY AppendProperties, LenProperties
<1> HIDE DEF long, n
<1>2. PICK f : IsIter(f, base, seq, n) /\ Fold(base, seq) = f[1 .. n]
  BY <1>1, FoldIter
<1>3. PICK g : IsIter(g, base, long, n + 1) /\ Fold(base, long) = g[1 .. n + 1]
  BY <1>1, FoldIter
<1>4. f[1 .. n] = g[1 .. n]
  BY <1>1, <1>2, <1>3, IterStable
<1>5. g[1 .. n + 1] = Op(g[1 .. n], x)
  <2>1. g[1 .. n + 1] = Step(g, base, long, 1 .. n + 1)
    BY <1>1, <1>3, Segment DEF IsIter
  <2>2. QED
    BY <1>1, <2>1, Segment DEF Step
<1>6. QED
  BY <1>2, <1>3, <1>4, <1>5 DEF long

\* What the base has and every step keeps, the result has.
THEOREM FoldInvariant ==
  ASSUME NEW S, NEW R, NEW base \in R, NEW seq \in Seq(S),
         \A r \in R, x \in S : Op(r, x) \in R
  PROVE  Fold(base, seq) \in R
<1> DEFINE T == {s \in Seq(S) : Fold(base, s) \in R}
<1>1. << >> \in T
  BY FoldEmpty, EmptySeq
<1>2. ASSUME NEW s \in Seq(S), s \in T, NEW x \in S PROVE Append(s, x) \in T
  BY <1>2, FoldAppend, AppendProperties
<1> HIDE DEF T
<1>3. seq \in T
  BY <1>1, <1>2, SeqInductionSet
<1>4. QED
  BY <1>3 DEF T

-----------------------------------------------------------------------------
(* FlattenSeq, which its module defines by a recursive function *)

IsFlat(f, seqs, n) ==
  f = [i \in 1 .. n |-> IF i = 1 THEN seqs[i] ELSE f[i - 1] \o seqs[i]]

LEMMA FlatValue ==
  ASSUME NEW f, NEW seqs, NEW n, IsFlat(f, seqs, n), NEW i \in 1 .. n
  PROVE  f[i] = IF i = 1 THEN seqs[i] ELSE f[i - 1] \o seqs[i]
<1> DEFINE value(j) == IF j = 1 THEN seqs[j] ELSE f[j - 1] \o seqs[j]
<1>1. f = [j \in 1 .. n |-> value(j)]
  BY DEF IsFlat
<1> HIDE DEF value
<1>2. f[i] = value(i)
  BY <1>1
<1>3. QED
  BY <1>2 DEF value

LEMMA FlatExists ==
  ASSUME NEW seqs, NEW n \in Nat
  PROVE  \E f : IsFlat(f, seqs, n)
<1> DEFINE T == {m \in Nat : \E f : IsFlat(f, seqs, m)}
<1>1. 0 \in T
  <2> DEFINE f == [i \in 1 .. 0 |-> seqs[i]]
  <2>1. IsFlat(f, seqs, 0)
    BY DEF IsFlat
  <2>2. QED
    BY <2>1
<1>2. ASSUME NEW m \in Nat, m \in T PROVE m + 1 \in T
  <2>1. PICK f : IsFlat(f, seqs, m)
    BY <1>2
  <2> DEFINE value(i) == IF i = 1 THEN seqs[i] ELSE f[i - 1] \o seqs[i]
             g == [i \in 1 .. m + 1 |-> value(i)]
  <2>2. ASSUME NEW i \in 1 .. m PROVE g[i] = f[i]
    <3>1. f[i] = value(i)
      BY <2>1, FlatValue
    <3>2. i \in 1 .. m + 1
      OBVIOUS
    <3> HIDE DEF value
    <3>3. QED
      BY <3>1, <3>2
  <2>3. ASSUME NEW i \in 1 .. m + 1
        PROVE  value(i) = IF i = 1 THEN seqs[i] ELSE g[i - 1] \o seqs[i]
    <3>1. CASE i = 1
      BY <3>1
    <3>2. CASE i # 1
      <4>1. i - 1 \in 1 .. m
        BY <3>2
      <4>2. g[i - 1] = f[i - 1]
        BY <2>2, <4>1
      <4> HIDE DEF g
      <4>3. QED
        BY <3>2, <4>2
    <3>3. QED
      BY <3>1, <3>2
  <2>4. g = [i \in 1 .. m + 1 |-> IF i = 1 THEN seqs[i] ELSE g[i - 1] \o seqs[i]]
    <3> HIDE DEF value
    <3>1. QED
      BY <2>3
  <2>5. IsFlat(g, seqs, m + 1)
    BY <2>4 DEF IsFlat
  <2> HIDE DEF g
  <2>6. QED
    BY <2>5
<1> HIDE DEF T
<1>3. \A m \in Nat : m \in T
  BY <1>1, <1>2, NatInductionSet
<1>4. QED
  BY <1>3 DEF T

LEMMA FlattenFlat ==
  ASSUME NEW S, NEW seqs \in Seq(S), Len(seqs) # 0
  PROVE  \E f : IsFlat(f, seqs, Len(seqs)) /\ FlattenSeq(seqs) = f[Len(seqs)]
<1> DEFINE n == Len(seqs)
           Flat == CHOOSE f : f = [i \in 1 .. n |->
                       IF i = 1 THEN seqs[i] ELSE f[i - 1] \o seqs[i]]
<1>1. n \in Nat
  BY LenProperties
<1>2. FlattenSeq(seqs) = Flat[n]
  BY DEF FlattenSeq
<1>3. IsFlat(Flat, seqs, n)
  <2>1. \E f : f = [i \in 1 .. n |-> IF i = 1 THEN seqs[i] ELSE f[i - 1] \o seqs[i]]
    BY <1>1, FlatExists DEF IsFlat
  <2>2. Flat = [i \in 1 .. n |-> IF i = 1 THEN seqs[i] ELSE Flat[i - 1] \o seqs[i]]
    BY <2>1
  <2> HIDE DEF Flat
  <2>3. QED
    BY <2>2 DEF IsFlat
<1> HIDE DEF Flat
<1>4. QED
  BY <1>2, <1>3

Agree(S, seqs, other, n) == \A i \in 1 .. n : seqs[i] \in Seq(S) /\ seqs[i] = other[i]

LEMMA FlatStable ==
  ASSUME NEW S, NEW n \in Nat, NEW m \in Nat, n <= m,
         NEW seqs, NEW other, NEW f, IsFlat(f, seqs, n), NEW g, IsFlat(g, other, m),
         Agree(S, seqs, other, n)
  PROVE  \A i \in 1 .. n : f[i] = g[i] /\ f[i] \in Seq(S)
<1> DEFINE T == {k \in Nat : k \in 1 .. n => f[k] = g[k] /\ f[k] \in Seq(S)}
<1>1. 0 \in T
  OBVIOUS
<1>2. ASSUME NEW k \in Nat, k \in T PROVE k + 1 \in T
  <2> SUFFICES ASSUME k + 1 \in 1 .. n
               PROVE  f[k + 1] = g[k + 1] /\ f[k + 1] \in Seq(S)
    OBVIOUS
  <2>1. seqs[k + 1] = other[k + 1] /\ seqs[k + 1] \in Seq(S) /\ k + 1 \in 1 .. m
    BY DEF Agree
  <2>2. /\ f[k + 1] = IF k + 1 = 1 THEN seqs[k + 1] ELSE f[k + 1 - 1] \o seqs[k + 1]
        /\ g[k + 1] = IF k + 1 = 1 THEN other[k + 1] ELSE g[k + 1 - 1] \o other[k + 1]
    BY <2>1, FlatValue
  <2>3. CASE k = 0
    BY <2>1, <2>2, <2>3
  <2>4. CASE k # 0
    <3>1. k \in 1 .. n /\ k + 1 - 1 = k /\ k + 1 # 1
      BY <2>4
    <3>2. f[k] = g[k] /\ f[k] \in Seq(S)
      BY <1>2, <3>1
    <3>3. f[k + 1] = f[k] \o seqs[k + 1] /\ g[k + 1] = f[k] \o seqs[k + 1]
      BY <2>1, <2>2, <3>1, <3>2
    <3>4. f[k] \o seqs[k + 1] \in Seq(S)
      BY <2>1, <3>2, ConcatProperties
    <3>5. QED
      BY <3>3, <3>4
  <2>5. QED
    BY <2>3, <2>4
<1> HIDE DEF T
<1>3. \A k \in Nat : k \in T
  BY <1>1, <1>2, NatInductionSet
<1>4. QED
  BY <1>3 DEF T

\* Flattening one more sequence appends it.
THEOREM FlattenAppend ==
  ASSUME NEW S, NEW seqs \in Seq(Seq(S)), NEW s \in Seq(S)
  PROVE  /\ FlattenSeq(seqs) \in Seq(S)
         /\ FlattenSeq(Append(seqs, s)) = FlattenSeq(seqs) \o s
<1> DEFINE n == Len(seqs)
           long == Append(seqs, s)
<1>1. /\ n \in Nat /\ long \in Seq(Seq(S)) /\ Len(long) = n + 1
      /\ \A i \in 1 .. n : seqs[i] = long[i] /\ seqs[i] \in Seq(S)
      /\ long[n + 1] = s
  BY AppendProperties, LenProperties, ElementOfSeq
<1> HIDE DEF long
<1>2. PICK g : IsFlat(g, long, n + 1) /\ FlattenSeq(long) = g[n + 1]
  <2>1. Len(long) # 0
    BY <1>1
  <2>2. \E g : IsFlat(g, long, Len(long)) /\ FlattenSeq(long) = g[Len(long)]
    BY <1>1, <2>1, FlattenFlat
  <2>3. QED
    BY <1>1, <2>2
<1>3. g[n + 1] = IF n + 1 = 1 THEN s ELSE g[n] \o s
  <2>1. n + 1 \in 1 .. n + 1 /\ n + 1 - 1 = n
    BY <1>1
  <2>2. QED
    BY <1>1, <1>2, <2>1, FlatValue
<1>4. CASE n = 0
  <2>1. FlattenSeq(seqs) = << >>
    BY <1>4, EmptySeq DEF FlattenSeq
  <2>2. g[n + 1] = s
    BY <1>3, <1>4
  <2>3. QED
    BY <1>2, <2>1, <2>2, EmptySeq, ConcatEmptySeq DEF long
<1>5. CASE n # 0
  <2>1. PICK f : IsFlat(f, seqs, n) /\ FlattenSeq(seqs) = f[n]
    BY <1>5, FlattenFlat
  <2>2. n \in 1 .. n /\ n <= n + 1 /\ n + 1 \in Nat /\ n + 1 # 1
    BY <1>1, <1>5
  <2>3. f[n] = g[n] /\ f[n] \in Seq(S)
    <3> HIDE DEF n
    <3>1. Agree(S, seqs, long, n)
      BY <1>1 DEF Agree
    <3>2. \A i \in 1 .. n : f[i] = g[i] /\ f[i] \in Seq(S)
      <4>1. n \in Nat /\ n + 1 \in Nat /\ n <= n + 1
        BY <1>1, <2>2
      <4>2. IsFlat(f, seqs, n) /\ IsFlat(g, long, n + 1)
        BY <1>2, <2>1
      <4>3. QED
        BY <3>1, <4>1, <4>2, FlatStable
    <3>3. QED
      BY <2>2, <3>2
  <2>4. QED
    BY <1>2, <1>3, <2>1, <2>2, <2>3 DEF long
<1>6. QED
  BY <1>4, <1>5

=============================================================================
