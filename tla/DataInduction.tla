--------------------------- MODULE DataInduction ---------------------------
(***************************************************************************)
(* Induction over numbers, finite sets and folds, in a form that           *)
(* first-order provers can use: where the induction principles of the      *)
(* library take a predicate, these take the SET of the values it holds of. *)
(* The folds of the community modules are recursive functions chosen by    *)
(* their equation; FoldExists shows that the equation has a solution.      *)
(***************************************************************************)
EXTENDS Integers, Sequences, FiniteSets, FiniteSetsExt, SequencesExt, Functions,
        FiniteSetTheorems, SequenceTheorems, WellFoundedInduction, TLAPS

NatLess == {ss \in Nat \X Nat : ss[1] < ss[2]}

(* The order of the naturals, as a set of pairs, is well founded.          *)
LEMMA NatLessWellFounded == IsWellFoundedOn(NatLess, Nat)
<1>1. NatLess = OpToRel(<, Nat)
  BY DEF OpToRel, NatLess
<1> QED
  BY <1>1, NatLessThanWellFounded

(* A set of naturals has a least element.                                  *)
LEMMA LeastNatural ==
  ASSUME NEW T \in SUBSET Nat, T # {}
  PROVE  \E x \in T : \A y \in T : x <= y
<1>1. \E x \in T : \A y \in T : ~(<<y, x>> \in NatLess)
  BY NatLessWellFounded, WFMin
<1>2. PICK x \in T : \A y \in T : ~(<<y, x>> \in NatLess)
  BY <1>1
<1>3. ASSUME NEW y \in T PROVE x <= y
  <2>1. <<y, x>> \notin NatLess
    BY <1>2
  <2>2. ~(y < x)
    BY <2>1 DEF NatLess
  <2> QED
    BY <2>2
<1> QED
  BY <1>3

(* A set of naturals that holds 0 and the successor of each of its members *)
(* holds them all.                                                         *)
LEMMA SetInduction ==
  ASSUME NEW T, 0 \in T, \A n \in Nat : n \in T => n + 1 \in T
  PROVE  Nat \subseteq T
<1> SUFFICES ASSUME Nat \ T # {} PROVE FALSE
  OBVIOUS
<1>1. PICK x \in Nat \ T : \A y \in Nat \ T : x <= y
  BY LeastNatural
<1>2. x - 1 \in Nat /\ x - 1 \in T
  BY <1>1
<1>3. (x - 1) + 1 \in T
  BY <1>2
<1> QED
  BY <1>3

(* The same up to a bound.                                                 *)
LEMMA BoundedInduction ==
  ASSUME NEW T, NEW n \in Nat, 0 \in T,
         \A i \in 0..(n - 1) : i \in T => i + 1 \in T
  PROVE  0..n \subseteq T
<1> DEFINE U == {i \in Nat : i \in 0..n => i \in T}
<1>1. 0 \in U
  OBVIOUS
<1>2. ASSUME NEW i \in Nat, i \in U PROVE i + 1 \in U
  BY <1>2
<1> HIDE DEF U
<1>3. Nat \subseteq U
  BY <1>1, <1>2, SetInduction
<1> QED
  BY <1>3 DEF U

(* A family of sets that holds the empty set, and with a subset of S that  *)
(* subset with one more element of S, holds the finite set S.              *)
LEMMA FiniteSetInduction ==
  ASSUME NEW S, IsFiniteSet(S), NEW F, {} \in F,
         \A T \in SUBSET S : \A x \in S \ T : T \in F => T \cup {x} \in F
  PROVE  S \in F
<1> DEFINE N == {n \in Nat : \A T \in SUBSET S : Cardinality(T) = n => T \in F}
<1>1. 0 \in N
  BY FS_EmptySet, FS_Subset
<1>2. ASSUME NEW n \in Nat, n \in N PROVE n + 1 \in N
  <2> SUFFICES ASSUME NEW T \in SUBSET S, Cardinality(T) = n + 1 PROVE T \in F
    OBVIOUS
  <2> HIDE DEF N
  <2>1. IsFiniteSet(T)
    BY FS_Subset
  <2>2. T # {}
    <3>1. Cardinality({}) = 0
      BY FS_EmptySet
    <3> QED
      BY <3>1
  <2>3. PICK x \in T : TRUE
    BY <2>2
  <2>4. Cardinality(T \ {x}) = Cardinality(T) - 1
    BY <2>1, <2>3, FS_RemoveElement
  <2>5. T \ {x} \in F
    BY <1>2, <2>4 DEF N
  <2>6. (T \ {x}) \cup {x} \in F
    BY <2>3, <2>5
  <2>7. (T \ {x}) \cup {x} = T
    BY <2>3
  <2> QED
    BY <2>6, <2>7
<1> HIDE DEF N
<1>3. Cardinality(S) \in N
  BY <1>1, <1>2, SetInduction, FS_CardinalityType
<1> QED
  BY <1>3 DEF N

(* The equation of a fold over the subsets of S: b for the empty one, and  *)
(* otherwise what the step of the element chosen first makes of the rest.  *)
Chooses(ch, S) == \A s \in SUBSET S : s # {} => ch[s] \in s
FoldOf(h, S, b, F, ch) ==
  \A s \in SUBSET S : h[s] = IF s = {} THEN b ELSE F[ch[s]][h[s \ {ch[s]}]]

(* The equation has a solution when each step keeps values in V.           *)
LEMMA FoldExists ==
  ASSUME NEW S, IsFiniteSet(S), NEW V, NEW b \in V, NEW F \in [S -> [V -> V]],
         NEW ch, Chooses(ch, S)
  PROVE  \E h \in [SUBSET S -> V] : FoldOf(h, S, b, F, ch)
<1> DEFINE Step(h, s) == IF s = {} THEN b ELSE F[ch[s]][h[s \ {ch[s]}]]
           Upto(h, n) == \A s \in SUBSET S : Cardinality(s) <= n => h[s] = Step(h, s)
           N == {n \in Nat : \E h \in [SUBSET S -> V] : Upto(h, n)}
<1>1. ASSUME NEW s \in SUBSET S, s # {}
      PROVE  /\ Cardinality(s) \in Nat /\ Cardinality(s \ {ch[s]}) = Cardinality(s) - 1
             /\ s \ {ch[s]} \in SUBSET S /\ ch[s] \in S
  <2>1. IsFiniteSet(s) /\ ch[s] \in s
    BY <1>1, FS_Subset DEF Chooses
  <2> QED
    BY <2>1, FS_RemoveElement, FS_CardinalityType
<1>2. Cardinality({}) = 0 /\ {} \in SUBSET S
  BY FS_EmptySet
<1>3. ASSUME NEW h \in [SUBSET S -> V], NEW s \in SUBSET S PROVE Step(h, s) \in V
  <2>1. CASE s = {}
    BY <2>1
  <2>2. CASE s # {}
    <3>1. s \ {ch[s]} \in SUBSET S /\ ch[s] \in S
      BY <1>1, <2>2
    <3>2. h[s \ {ch[s]}] \in V /\ F[ch[s]] \in [V -> V]
      BY <3>1
    <3> QED
      BY <2>2, <3>2
  <2> QED
    BY <2>1, <2>2
<1>4. 0 \in N
  <2> DEFINE h == [s \in SUBSET S |-> b]
  <2>1. ASSUME NEW s \in SUBSET S, Cardinality(s) <= 0 PROVE s = {}
    <3>1. CASE s # {}
      <4>1. Cardinality(s) \in Nat /\ Cardinality(s \ {ch[s]}) = Cardinality(s) - 1
        BY <1>1, <3>1
      <4>2. Cardinality(s \ {ch[s]}) \in Nat
        BY <1>1, <3>1, FS_Subset, FS_CardinalityType
      <4> QED
        BY <2>1, <4>1, <4>2
    <3> QED
      BY <3>1
  <2>2. Upto(h, 0)
    BY <2>1
  <2>3. h \in [SUBSET S -> V]
    OBVIOUS
  <2> QED
    BY <2>2, <2>3
<1>5. ASSUME NEW n \in Nat, n \in N PROVE n + 1 \in N
  <2>1. PICK h \in [SUBSET S -> V] : Upto(h, n)
    BY <1>5
  <2> DEFINE g == [s \in SUBSET S |-> IF Cardinality(s) = n + 1 THEN Step(h, s) ELSE h[s]]
  <2>2. g \in [SUBSET S -> V]
    BY <1>3
  <2>3. ASSUME NEW s \in SUBSET S, Cardinality(s) <= n + 1 PROVE g[s] = Step(g, s)
    <3>1. CASE s = {}
      <4>1. h[s] = b
        <5>1. Cardinality(s) <= n
          BY <1>2, <3>1
        <5>2. h[s] = Step(h, s)
          BY <2>1, <5>1
        <5> QED
          BY <3>1, <5>2
      <4>2. g[s] = h[s]
        BY <1>2, <3>1
      <4> QED
        BY <3>1, <4>1, <4>2
    <3>2. CASE s # {}
      <4>1. /\ Cardinality(s) \in Nat /\ Cardinality(s \ {ch[s]}) = Cardinality(s) - 1
            /\ s \ {ch[s]} \in SUBSET S
        BY <1>1, <3>2
      <4>2. g[s \ {ch[s]}] = h[s \ {ch[s]}]
        BY <2>3, <4>1
      <4>3. Step(g, s) = Step(h, s)
        BY <3>2, <4>2
      <4>4. g[s] = Step(h, s)
        <5>1. CASE Cardinality(s) = n + 1
          BY <5>1
        <5>2. CASE Cardinality(s) <= n
          BY <2>1, <4>1, <5>2
        <5> QED
          BY <2>3, <4>1, <5>1, <5>2
      <4> QED
        BY <4>3, <4>4
    <3> QED
      BY <3>1, <3>2
  <2>4. Upto(g, n + 1)
    BY <2>3
  <2> HIDE DEF Upto, g
  <2> QED
    BY <2>2, <2>4
<1> HIDE DEF N
<1>6. Cardinality(S) \in Nat /\ Nat \subseteq N
  BY <1>4, <1>5, SetInduction, FS_CardinalityType
<1>7. PICK h \in [SUBSET S -> V] : Upto(h, Cardinality(S))
  BY <1>6 DEF N
<1>8. ASSUME NEW s \in SUBSET S PROVE h[s] = Step(h, s)
  <2>1. Cardinality(s) <= Cardinality(S)
    BY FS_Subset
  <2> QED
    BY <1>7, <2>1
<1> QED
  BY <1>8 DEF FoldOf

(* The sum of integers over a finite set is an integer.                    *)
LEMMA SumIsInt ==
  ASSUME NEW S, IsFiniteSet(S), NEW f, \A x \in S : f[x] \in Int
  PROVE  SumFunctionOnSet(f, S) \in Int
<1> DEFINE ch   == [s \in SUBSET S |-> CHOOSE x \in s : TRUE]
           F    == [x \in S |-> [v \in Int |-> f[x] + v]]
           IsSum(h) == h = [s \in SUBSET S |->
             IF s = {} THEN 0
             ELSE f[CHOOSE x \in s : TRUE] + h[s \ {CHOOSE x \in s : TRUE}]]
           sum  == CHOOSE h : IsSum(h)
<1>1. SumFunctionOnSet(f, S) = sum[S]
  BY DEF SumFunctionOnSet, FoldFunctionOnSet, MapThenFoldSet
<1>2. ASSUME NEW s \in SUBSET S, s # {} PROVE ch[s] \in s
  BY <1>2
<1>3. F \in [S -> [Int -> Int]]
  OBVIOUS
<1>4. Chooses(ch, S)
  BY <1>2 DEF Chooses
<1>5. PICK h \in [SUBSET S -> Int] : FoldOf(h, S, 0, F, ch)
  <2> HIDE DEF ch, F
  <2>1. 0 \in Int
    OBVIOUS
  <2> QED
    BY <1>3, <1>4, <2>1, FoldExists
<1>6. ASSUME NEW s \in SUBSET S
      PROVE  h[s] = IF s = {} THEN 0
                    ELSE f[CHOOSE x \in s : TRUE] + h[s \ {CHOOSE x \in s : TRUE}]
  <2>1. CASE s = {}
    BY <1>5, <2>1 DEF FoldOf
  <2>2. CASE s # {}
    <3>1. ch[s] \in S /\ s \ {ch[s]} \in SUBSET S
      BY <1>2, <2>2
    <3>2. h[s] = F[ch[s]][h[s \ {ch[s]}]]
      BY <1>5, <2>2 DEF FoldOf
    <3>3. h[s \ {ch[s]}] \in Int
      BY <3>1
    <3> QED
      BY <2>2, <3>1, <3>2, <3>3
  <2> QED
    BY <2>1, <2>2
<1>7. IsSum(h)
  BY <1>6
<1>8. IsSum(sum)
  BY <1>7
<1>9. sum[S] \in Int
  <2>1. sum = [s \in SUBSET S |->
             IF s = {} THEN 0
             ELSE f[CHOOSE x \in s : TRUE] + sum[s \ {CHOOSE x \in s : TRUE}]]
    BY <1>8
  <2> HIDE DEF sum
  <2> DEFINE N == {n \in Nat : \A s \in SUBSET S : Cardinality(s) = n => sum[s] \in Int}
  <2>2. 0 \in N
    <3>1. ASSUME NEW s \in SUBSET S, Cardinality(s) = 0 PROVE s = {}
      BY <3>1, FS_Subset, FS_EmptySet
    <3> QED
      BY <2>1, <3>1
  <2>3. ASSUME NEW n \in Nat, n \in N PROVE n + 1 \in N
    <3> SUFFICES ASSUME NEW s \in SUBSET S, Cardinality(s) = n + 1 PROVE sum[s] \in Int
      OBVIOUS
    <3> DEFINE x == CHOOSE x \in s : TRUE
    <3>1. s # {}
      <4>1. Cardinality({}) = 0
        BY FS_EmptySet
      <4> QED
        BY <4>1
    <3>2. x \in s
      BY <3>1
    <3>3. IsFiniteSet(s)
      BY FS_Subset
    <3>4. Cardinality(s \ {x}) = Cardinality(s) - 1
      BY <3>2, <3>3, FS_RemoveElement
    <3>5. sum[s \ {x}] \in Int
      BY <2>3, <3>4
    <3>6. sum[s] = f[x] + sum[s \ {x}]
      BY <2>1, <3>1
    <3> QED
      BY <3>2, <3>5, <3>6
  <2> HIDE DEF N
  <2>4. Cardinality(S) \in N
    BY <2>2, <2>3, SetInduction, FS_CardinalityType
  <2> QED
    BY <2>4 DEF N
<1> QED
  BY <1>1, <1>9

(* FoldLeft folds the subsets of 1..n by their greatest elements, so that  *)
(* its values on prefixes are what matters.                                *)
MaxOf(n) == [s \in SUBSET (1..n) |-> Max(s)]

(* The prefix 1..i is the prefix before it and i.                          *)
LEMMA PrefixMax ==
  ASSUME NEW i \in Nat \ {0}
  PROVE  Max(1..i) = i /\ (1..i) \ {i} = 1..(i - 1) /\ 1..i # {}
<1>1. \A y \in 1..i : i >= y
  OBVIOUS
<1>2. \A x \in 1..i : (\A y \in 1..i : x >= y) => x = i
  OBVIOUS
<1>3. i \in 1..i
  OBVIOUS
<1>4. Max(1..i) = i
  BY <1>1, <1>2, <1>3 DEF Max
<1>5. \A k : k \in (1..i) \ {i} <=> k \in 1..(i - 1)
  OBVIOUS
<1>6. (1..i) \ {i} = 1..(i - 1)
  BY <1>5
<1>7. 1..i # {}
  BY <1>3
<1> QED
  BY <1>4, <1>6, <1>7

(* A set of numbers of 1..n has a greatest element.                        *)
LEMMA MaxChooses ==
  ASSUME NEW n \in Nat
  PROVE  Chooses(MaxOf(n), 1..n) /\ IsFiniteSet(1..n)
<1>1. IsFiniteSet(1..n)
  BY FS_Interval
<1>2. ASSUME NEW s \in SUBSET (1..n), s # {} PROVE Max(s) \in s
  <2> DEFINE T == {n - x : x \in s}
  <2>a. PICK a \in s : TRUE
    BY <1>2
  <2>b. n - a \in T
    BY <2>a
  <2>c. \A z \in T : z \in Nat
    <3> SUFFICES ASSUME NEW x \in s PROVE n - x \in Nat
      OBVIOUS
    <3>1. x \in 1..n
      OBVIOUS
    <3> QED
      BY <3>1
  <2>1. T \in SUBSET Nat /\ T # {}
    BY <2>b, <2>c
  <2>2. PICK y \in T : \A z \in T : y <= z
    BY <2>1, LeastNatural
  <2>3. PICK m \in s : y = n - m
    BY <2>2
  <2>4. ASSUME NEW x \in s PROVE m >= x
    <3>1. n - x \in T
      OBVIOUS
    <3>2. y <= n - x
      BY <2>2, <3>1
    <3>3. x \in 1..n /\ m \in 1..n
      OBVIOUS
    <3> QED
      BY <2>3, <3>2, <3>3
  <2> QED
    BY <2>4 DEF Max
<1> QED
  BY <1>1, <1>2 DEF Chooses, MaxOf

(* The equation of FoldLeft over a sequence of n elements, and that it has *)
(* a solution.                                                             *)
LeftFold(h, n, V, b, F) ==
  \A s \in SUBSET (1..n) :
    IF s = {} THEN h[s] = b
    ELSE /\ Max(s) \in 1..n /\ h[s \ {Max(s)}] \in V
         /\ h[s] = F[Max(s)][h[s \ {Max(s)}]]

LEMMA LeftFoldExists ==
  ASSUME NEW n \in Nat, NEW V, NEW b \in V, NEW F \in [1..n -> [V -> V]]
  PROVE  \E h \in [SUBSET (1..n) -> V] : LeftFold(h, n, V, b, F)
<1>1. Chooses(MaxOf(n), 1..n) /\ IsFiniteSet(1..n)
  BY MaxChooses
<1>2. PICK h \in [SUBSET (1..n) -> V] : FoldOf(h, 1..n, b, F, MaxOf(n))
  BY <1>1, FoldExists
<1>3. ASSUME NEW s \in SUBSET (1..n)
      PROVE  IF s = {} THEN h[s] = b
             ELSE /\ Max(s) \in 1..n /\ h[s \ {Max(s)}] \in V
                  /\ h[s] = F[Max(s)][h[s \ {Max(s)}]]
  <2>1. CASE s = {}
    BY <1>2, <2>1 DEF FoldOf
  <2>2. CASE s # {}
    <3>1. MaxOf(n)[s] = Max(s)
      BY DEF MaxOf
    <3>2. Max(s) \in s
      BY <1>1, <2>2, <3>1 DEF Chooses
    <3>3. h[s] = F[MaxOf(n)[s]][h[s \ {MaxOf(n)[s]}]]
      BY <1>2, <2>2 DEF FoldOf
    <3>4. s \ {Max(s)} \in SUBSET (1..n)
      OBVIOUS
    <3> QED
      BY <2>2, <3>1, <3>2, <3>3, <3>4
  <2> QED
    BY <2>1, <2>2
<1> QED
  BY <1>3 DEF LeftFold

(* FlattenSeq through its prefixes: p[i] is what the first i give.         *)
Flattens(p, q) == p[0] = <<>> /\ \A i \in 1..Len(q) : p[i] = p[i - 1] \o q[i]

LEMMA PrefixesExist ==
  ASSUME NEW Y, NEW q \in Seq(Seq(Y))
  PROVE  \E p \in [0..Len(q) -> Seq(Y)] : Flattens(p, q)
<1> DEFINE n == Len(q)
           T == {k \in 0..n : \E p \in [0..n -> Seq(Y)] : p[0] = <<>> /\ \A i \in 1..k : p[i] = p[i - 1] \o q[i]}
<1>0. n \in Nat /\ <<>> \in Seq(Y)
  OBVIOUS
<1>1. 0 \in T
  <2> DEFINE p == [i \in 0..n |-> <<>>]
  <2>1. p \in [0..n -> Seq(Y)] /\ p[0] = <<>> /\ 0 \in 0..n
    BY <1>0
  <2>2. \A i \in 1..0 : p[i] = p[i - 1] \o q[i]
    OBVIOUS
  <2> HIDE DEF p
  <2> QED
    BY <2>1, <2>2
<1>2. ASSUME NEW k \in 0..(n - 1), k \in T PROVE k + 1 \in T
  <2>1. PICK p \in [0..n -> Seq(Y)] : p[0] = <<>> /\ \A i \in 1..k : p[i] = p[i - 1] \o q[i]
    BY <1>2
  <2> DEFINE e == p[k] \o q[k + 1]
             g == [p EXCEPT ![k + 1] = e]
  <2>2. k \in 0..n /\ k + 1 \in 0..n /\ k + 1 \in 1..n /\ k \in Nat
    BY <1>0
  <2>3. p[k] \in Seq(Y) /\ q[k + 1] \in Seq(Y)
    <3>1. p \in [0..n -> Seq(Y)] /\ k \in 0..n
      BY <2>2
    <3>2. q \in Seq(Seq(Y)) /\ k + 1 \in 1..Len(q)
      BY <2>2
    <3> HIDE DEF n
    <3>3. p[k] \in Seq(Y)
      BY ONLY <3>1
    <3>4. q[k + 1] \in Seq(Y)
      BY ONLY <3>2
    <3> QED
      BY <3>3, <3>4
  <2>4. e \in Seq(Y)
    BY <2>3
  <2> HIDE DEF e
  <2>5. g \in [0..n -> Seq(Y)] /\ g[k + 1] = e /\ \A j \in 0..n : j # k + 1 => g[j] = p[j]
    BY <2>2, <2>4
  <2> HIDE DEF g
  <2>6. g[0] = <<>>
    BY <1>0, <2>1, <2>2, <2>5
  <2>7. ASSUME NEW i \in 1..(k + 1) PROVE g[i] = g[i - 1] \o q[i]
    <3>1. CASE i = k + 1
      <4>1. i - 1 = k /\ k # k + 1
        BY <2>2, <3>1
      <4>2. g[i - 1] = p[k]
        BY <2>2, <2>5, <4>1
      <4> QED
        BY <2>5, <3>1, <4>1, <4>2 DEF e
    <3>2. CASE i # k + 1
      <4>1. i \in 1..k /\ i \in 0..n /\ i - 1 \in 0..n /\ i - 1 # k + 1
        BY <1>0, <2>2, <3>2
      <4>2. g[i] = p[i] /\ g[i - 1] = p[i - 1]
        BY <2>5, <3>2, <4>1
      <4> QED
        BY <2>1, <4>1, <4>2
    <3> QED
      BY <3>1, <3>2
  <2> QED
    BY <2>2, <2>5, <2>6, <2>7
<1> HIDE DEF T
<1>3. 0..n \subseteq T
  BY <1>0, <1>1, <1>2, BoundedInduction
<1>4. n \in T
  BY <1>0, <1>3
<1> QED
  BY <1>4 DEF T, Flattens

LEMMA FlattenIs ==
  ASSUME NEW Y, NEW q \in Seq(Seq(Y)), NEW p \in [0..Len(q) -> Seq(Y)], Flattens(p, q)
  PROVE  FlattenSeq(q) = p[Len(q)]
<1> DEFINE n == Len(q)
<1>0. n \in Nat
  OBVIOUS
<1>1. CASE n = 0
  <2>1. q = <<>> /\ FlattenSeq(q) = q
    BY <1>1, EmptySeq DEF FlattenSeq
  <2> QED
    BY <1>1, <2>1 DEF Flattens
<1>2. CASE n # 0
  <2> DEFINE IsFl(g) == g = [i \in 1..n |-> IF i = 1 THEN q[i] ELSE g[i - 1] \o q[i]]
             f  == CHOOSE g : IsFl(g)
             g0 == [i \in 1..n |-> p[i]]
  <2>1. FlattenSeq(q) = f[n]
    BY <1>2 DEF FlattenSeq
  <2>2. p[1] = q[1]
    <3>1. 1 \in 1..n /\ 1 - 1 = 0
      BY <1>0, <1>2
    <3>2. p[0] = <<>> /\ p[1] = p[1 - 1] \o q[1]
      BY <3>1 DEF Flattens
    <3>3. q[1] \in Seq(Y)
      BY <3>1
    <3>4. <<>> \o q[1] = q[1]
      BY <3>3, ConcatEmptySeq
    <3> QED
      BY <3>1, <3>2, <3>4
  <2>3. IsFl(g0)
    <3>1. ASSUME NEW i \in 1..n PROVE p[i] = IF i = 1 THEN q[i] ELSE g0[i - 1] \o q[i]
      <4>1. CASE i = 1
        BY <2>2, <4>1
      <4>2. CASE i # 1
        <5>1. i - 1 \in 1..n
          BY <1>0, <4>2
        <5>2. g0[i - 1] = p[i - 1]
          BY <5>1
        <5>3. p[i] = p[i - 1] \o q[i]
          BY DEF Flattens
        <5> QED
          BY <4>2, <5>2, <5>3
      <4> QED
        BY <4>1, <4>2
    <3>2. \A i \in 1..n : p[i] = IF i = 1 THEN q[i] ELSE g0[i - 1] \o q[i]
      BY <3>1
    <3> HIDE DEF n
    <3> QED
      BY <3>2
  <2>4. IsFl(f)
    BY <2>3
  <2> HIDE DEF f, g0
  <2>5. \A i \in 1..n : f[i] = IF i = 1 THEN q[i] ELSE f[i - 1] \o q[i]
    BY <2>4
  <2> DEFINE T == {k \in 0..n : k = 0 \/ f[k] = p[k]}
  <2>6. 0 \in T
    BY <1>0
  <2>7. ASSUME NEW k \in 0..(n - 1), k \in T PROVE k + 1 \in T
    <3>1. k + 1 \in 1..n /\ k + 1 \in 0..n /\ (k + 1) - 1 = k
      BY <1>0
    <3>2. CASE k = 0
      BY <2>2, <2>5, <3>1, <3>2
    <3>3. CASE k # 0
      <4>1. f[k] = p[k] /\ k + 1 # 1
        BY <2>7, <3>3
      <4>2. f[k + 1] = f[k] \o q[k + 1]
        BY <2>5, <3>1, <4>1
      <4>3. p[k + 1] = p[k] \o q[k + 1]
        BY <3>1 DEF Flattens
      <4> QED
        BY <3>1, <4>1, <4>2, <4>3
    <3> QED
      BY <3>2, <3>3
  <2> HIDE DEF T
  <2>8. 0..n \subseteq T
    BY <1>0, <2>6, <2>7, BoundedInduction
  <2>9. n \in T
    BY <1>0, <2>8
  <2> QED
    BY <1>2, <2>1, <2>9 DEF T
<1> QED
  BY <1>1, <1>2

LEMMA FlattenType ==
  ASSUME NEW Y, NEW q \in Seq(Seq(Y))
  PROVE  FlattenSeq(q) \in Seq(Y)
<1>1. PICK p \in [0..Len(q) -> Seq(Y)] : Flattens(p, q)
  BY PrefixesExist
<1>2. Len(q) \in 0..Len(q)
  OBVIOUS
<1> QED
  BY <1>1, <1>2, FlattenIs

LEMMA FlattenConcat ==
  ASSUME NEW Y, NEW a \in Seq(Seq(Y)), NEW b \in Seq(Seq(Y))
  PROVE  FlattenSeq(a \o b) = FlattenSeq(a) \o FlattenSeq(b)
<1> DEFINE m == Len(a)
           n == Len(b)
           c == a \o b
<1>0. m \in Nat /\ n \in Nat
  OBVIOUS
<1>1. PICK p \in [0..m -> Seq(Y)] : Flattens(p, a)
  BY PrefixesExist
<1>2. PICK r \in [0..n -> Seq(Y)] : Flattens(r, b)
  BY PrefixesExist
<1>3. /\ c \in Seq(Seq(Y)) /\ Len(c) = m + n
      /\ \A i \in 1..(m + n) : c[i] = IF i <= m THEN a[i] ELSE b[i - m]
  BY ConcatProperties
<1> HIDE DEF c
<1> DEFINE u == [i \in 0..(m + n) |-> IF i <= m THEN p[i] ELSE p[m] \o r[i - m]]
<1>a. m \in 0..m /\ p[m] \in Seq(Y) /\ r[0] = <<>>
  <2>1. m \in 0..m /\ r[0] = <<>>
    BY <1>0, <1>2 DEF Flattens
  <2> QED
    BY <1>1, <2>1
<1>b. p[m] \o <<>> = p[m]
  BY <1>a, ConcatEmptySeq
<1>4. u \in [0..(m + n) -> Seq(Y)]
  <2>1. ASSUME NEW i \in 0..(m + n) PROVE (IF i <= m THEN p[i] ELSE p[m] \o r[i - m]) \in Seq(Y)
    <3>1. CASE i <= m
      <4>1. i \in 0..m
        BY <1>0, <3>1
      <4> QED
        BY <3>1, <4>1
    <3>2. CASE ~(i <= m)
      <4>1. i - m \in 0..n
        BY <1>0, <3>2
      <4>2. r[i - m] \in Seq(Y)
        BY <4>1
      <4> QED
        BY <1>a, <3>2, <4>2
    <3> QED
      BY <3>1, <3>2
  <2> QED
    BY <2>1
<1>5. \A i \in 0..(m + n) : u[i] = IF i <= m THEN p[i] ELSE p[m] \o r[i - m]
  OBVIOUS
<1> HIDE DEF u
<1>6. u[0] = <<>> /\ u[m + n] = p[m] \o r[n]
  <2>1. 0 \in 0..(m + n) /\ m + n \in 0..(m + n) /\ 0 <= m /\ (m + n) - m = n
    BY <1>0
  <2>2. u[0] = p[0] /\ p[0] = <<>>
    BY <1>1, <1>5, <2>1 DEF Flattens
  <2>3. CASE n = 0
    BY <1>0, <1>5, <1>a, <1>b, <2>1, <2>2, <2>3
  <2>4. CASE n # 0
    <3>1. ~(m + n <= m)
      BY <1>0, <2>4
    <3> QED
      BY <1>5, <2>1, <2>2, <3>1
  <2> QED
    BY <2>3, <2>4
<1>7. ASSUME NEW i \in 1..(m + n) PROVE u[i] = u[i - 1] \o c[i]
  <2>1. i \in 0..(m + n) /\ i - 1 \in 0..(m + n)
    BY <1>0
  <2>2. CASE i <= m
    <3>1. i - 1 <= m /\ i \in 1..m
      BY <1>0, <2>2
    <3>2. p[i] = p[i - 1] \o a[i]
      BY <1>1, <3>1 DEF Flattens
    <3> QED
      BY <1>3, <1>5, <2>1, <2>2, <3>1, <3>2
  <2>3. CASE ~(i <= m)
    <3>1. i - m \in 1..n /\ (i - m) - 1 \in 0..n /\ (i - 1) - m = (i - m) - 1
      BY <1>0, <2>3
    <3>a. r[i - m] = r[(i - m) - 1] \o b[i - m]
      BY <1>2, <3>1 DEF Flattens
    <3>2. r[i - m] = r[(i - m) - 1] \o b[i - m] /\ b[i - m] \in Seq(Y) /\ r[(i - m) - 1] \in Seq(Y)
      <4>1. r[(i - m) - 1] \in Seq(Y)
        BY <1>2, <3>1
      <4>2. b[i - m] \in Seq(Y)
        BY <3>1
      <4> QED
        BY <3>a, <4>1, <4>2
    <3>3. u[i] = p[m] \o r[i - m] /\ c[i] = b[i - m]
      BY <1>3, <1>5, <2>1, <2>3
    <3>4. u[i - 1] = p[m] \o r[(i - m) - 1]
      <4>1. CASE i - 1 <= m
        <5>1. i - 1 = m /\ (i - m) - 1 = 0
          BY <1>0, <2>3, <4>1
        <5> QED
          BY <1>5, <1>a, <1>b, <2>1, <4>1, <5>1
      <4>2. CASE ~(i - 1 <= m)
        BY <1>5, <2>1, <3>1, <4>2
      <4> QED
        BY <4>1, <4>2
    <3> DEFINE x == r[(i - m) - 1]
               y == b[i - m]
    <3>5. (p[m] \o x) \o y = p[m] \o (x \o y)
      <4>1. x \in Seq(Y) /\ y \in Seq(Y)
        BY <3>2
      <4> HIDE DEF x, y
      <4> QED
        BY <1>a, <4>1, ConcatAssociative, SMTT(60)
    <3> QED
      BY <3>2, <3>3, <3>4, <3>5
  <2> QED
    BY <2>2, <2>3
<1>8. Flattens(u, c)
  BY <1>3, <1>6, <1>7 DEF Flattens
<1>9. FlattenSeq(c) = u[m + n]
  BY <1>3, <1>4, <1>8, FlattenIs
<1>10. FlattenSeq(a) = p[m] /\ FlattenSeq(b) = r[n]
  BY <1>1, <1>2, FlattenIs
<1> QED
  BY <1>6, <1>9, <1>10 DEF c

LEMMA FlattenOne ==
  ASSUME NEW Y, NEW x \in Seq(Y)
  PROVE  FlattenSeq(<<x>>) = x /\ FlattenSeq(<<>>) = <<>>
<1>1. <<x>> \in Seq(Seq(Y)) /\ Len(<<x>>) = 1 /\ <<x>>[1] = x
  OBVIOUS
<1> DEFINE q == <<x>>
           p == [i \in 0..1 |-> IF i = 0 THEN <<>> ELSE x]
<1>2. p \in [0..1 -> Seq(Y)] /\ p[0] = <<>> /\ p[1] = x
  <2>1. <<>> \in Seq(Y)
    OBVIOUS
  <2> QED
    BY <2>1
<1>3. <<>> \o x = x
  BY ConcatEmptySeq
<1> HIDE DEF p, q
<1>4. Flattens(p, q)
  <2>1. \A i \in 1..Len(q) : i = 1 /\ i - 1 = 0
    BY <1>1 DEF q
  <2> QED
    BY <1>1, <1>2, <1>3, <2>1 DEF Flattens, q
<1>5. FlattenSeq(q) = x
  BY <1>1, <1>2, <1>4, FlattenIs DEF q
<1>6. FlattenSeq(<<>>) = <<>>
  BY DEF FlattenSeq
<1> QED
  BY <1>5, <1>6 DEF q

LEMMA SubSeqType ==
  ASSUME NEW X, NEW s \in Seq(X), NEW i \in Nat \ {0}, NEW j \in 0..Len(s)
  PROVE  /\ SubSeq(s, i, j) \in Seq(X) /\ Len(SubSeq(s, i, j)) = IF i <= j THEN j - i + 1 ELSE 0
         /\ \A k \in 1..(j - i + 1) : SubSeq(s, i, j)[k] = s[i + k - 1]
<1>1. \A k \in i..j : s[k] \in X
  <2>1. \A k \in i..j : k \in 1..Len(s)
    OBVIOUS
  <2> QED
    BY <2>1
<1>2. i \in Int /\ j \in Int
  OBVIOUS
<1> QED
  BY <1>1, <1>2, SubSeqProperties

LEMMA GreatestNatural ==
  ASSUME NEW n \in Nat, NEW T \in SUBSET (1..n), T # {}
  PROVE  \E x \in T : \A y \in T : y <= x
<1> DEFINE U == {n - x : x \in T}
<1>1. U \in SUBSET Nat /\ U # {}
  <2>1. U \in SUBSET Nat
    OBVIOUS
  <2>2. PICK x \in T : TRUE
    OBVIOUS
  <2>3. n - x \in U
    OBVIOUS
  <2> QED
    BY <2>1, <2>3
<1>2. PICK u \in U : \A v \in U : u <= v
  <2> HIDE DEF U
  <2> QED
    BY <1>1, LeastNatural
<1>3. PICK x \in T : u = n - x
  OBVIOUS
<1>4. ASSUME NEW y \in T PROVE y <= x
  <2>1. n - y \in U
    OBVIOUS
  <2>2. n - x <= n - y
    BY <1>2, <1>3, <2>1
  <2> QED
    BY <2>2
<1> QED
  BY <1>4
=============================================================================
