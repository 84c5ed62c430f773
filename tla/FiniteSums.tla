----------------------------- MODULE FiniteSums -----------------------------
(***************************************************************************)
(* Induction over numbers, and sums of numbers over finite sets as         *)
(* MapThenSumSet of the community modules defines them.  The library's     *)
(* induction theorems have an operator as parameter, which the provers     *)
(* cannot instantiate; SetInduction says the same of a set of numbers.     *)
(***************************************************************************)
EXTENDS Naturals, FiniteSets, FiniteSetsExt, FiniteSetTheorems, WellFoundedInduction, TLAPS

-----------------------------------------------------------------------------
(* Induction *)

\* A set of numbers that is not empty has a least one.
LEMMA LeastNumber ==
    ASSUME NEW T, T \subseteq Nat, T # {}
    PROVE  \E x \in T : \A y \in T : x <= y
<1>1. PICK x \in T : \A y \in T : <<y, x>> \notin OpToRel(<, Nat)
    <2> HIDE DEF OpToRel
    <2> QED
        BY NatLessThanWellFounded, WFMin
<1>2. OpToRel(<, Nat) = {ss \in Nat \X Nat : ss[1] < ss[2]}
    BY DEF OpToRel
<1>3. ASSUME NEW y \in T
      PROVE  x <= y
    <2>1. <<y, x>> \notin {ss \in Nat \X Nat : ss[1] < ss[2]}
        BY <1>1, <1>2
    <2> QED
        BY <2>1
<1> QED
    BY <1>3

\* Induction for sets: what holds of zero and is passed on holds of every number.
LEMMA SetInduction ==
    ASSUME NEW S, 0 \in S, \A n \in Nat : n \in S => n + 1 \in S
    PROVE  Nat \subseteq S
<1> DEFINE T == {n \in Nat : n \notin S}
<1> SUFFICES ASSUME T # {} PROVE FALSE
    OBVIOUS
<1>1. PICK x \in T : \A y \in T : x <= y
    <2>1. T \subseteq Nat
        OBVIOUS
    <2> HIDE DEF T
    <2> QED
        BY <2>1, LeastNumber
<1>2. x # 0 /\ x \in Nat
    OBVIOUS
<1>3. x - 1 \in Nat /\ x - 1 \notin T
    BY <1>1, <1>2
<1> QED
    BY <1>2, <1>3

\* The least of some numbers is one of them.
LEMMA MinIsMember ==
    ASSUME NEW T, T \subseteq Nat, T # {}
    PROVE  Min(T) \in T
<1>1. \E x \in T : \A y \in T : x =< y
    BY LeastNumber
<1> QED
    BY <1>1 DEF Min

-----------------------------------------------------------------------------
(* Sums over finite sets *)

Some(s) == CHOOSE x \in s : TRUE
\* The recursive function in MapThenSumSet, on the subsets of S in D.
IsSumOn(f, D, w) ==
    f = [s \in D |-> IF s = {} THEN 0 ELSE w[Some(s)] + f[s \ {Some(s)}]]
\* The subsets of S of at most n elements.
UpTo(S, n) == {s \in SUBSET S : Cardinality(s) <= n}

\* A subset without some member of it is smaller.
LEMMA Smaller ==
    ASSUME NEW S, IsFiniteSet(S), NEW n \in Nat, NEW s \in UpTo(S, n + 1), s # {}
    PROVE  Some(s) \in s /\ s \ {Some(s)} \in UpTo(S, n)
<1>1. Some(s) \in s
    BY DEF Some
<1>2. IsFiniteSet(s) /\ Cardinality(s) \in Nat
    BY FS_Subset, FS_CardinalityType DEF UpTo
<1>3. Cardinality(s \ {Some(s)}) = Cardinality(s) - 1
    BY <1>1, <1>2, FS_RemoveElement
<1> QED
    BY <1>1, <1>2, <1>3 DEF UpTo

\* It exists up to every size.
LEMMA SumExists ==
    ASSUME NEW S, IsFiniteSet(S), NEW w
    PROVE  \E f : IsSumOn(f, SUBSET S, w)
<1> DEFINE G == {n \in Nat : \E f : IsSumOn(f, UpTo(S, n), w)}
<1>1. 0 \in G
    <2> DEFINE f == [s \in UpTo(S, 0) |-> 0]
    <2>1. ASSUME NEW s \in UpTo(S, 0)
          PROVE  s = {}
        BY FS_Subset, FS_CardinalityType, FS_EmptySet DEF UpTo
    <2>2. f = [s \in UpTo(S, 0) |-> IF s = {} THEN 0 ELSE w[Some(s)] + f[s \ {Some(s)}]]
        BY <2>1
    <2> HIDE DEF f
    <2> QED
        BY <2>2 DEF IsSumOn
<1>2. ASSUME NEW n \in Nat, n \in G
      PROVE  n + 1 \in G
    <2>1. PICK f : IsSumOn(f, UpTo(S, n), w)
        BY <1>2
    <2> DEFINE g == [s \in UpTo(S, n + 1) |->
                        IF s = {} THEN 0 ELSE w[Some(s)] + f[s \ {Some(s)}]]
    <2>2. ASSUME NEW s \in UpTo(S, n)
          PROVE  s \in UpTo(S, n + 1) /\ g[s] = f[s]
        <3>1. s \in UpTo(S, n + 1)
            BY FS_Subset, FS_CardinalityType DEF UpTo
        <3> QED
            BY <2>1, <3>1 DEF IsSumOn
    <2>3. ASSUME NEW s \in UpTo(S, n + 1), s # {}
          PROVE  g[s \ {Some(s)}] = f[s \ {Some(s)}]
        BY <2>3, <2>2, Smaller
    <2>4. g = [s \in UpTo(S, n + 1) |-> IF s = {} THEN 0 ELSE w[Some(s)] + g[s \ {Some(s)}]]
        BY <2>3
    <2>5. IsSumOn(g, UpTo(S, n + 1), w)
        BY <2>4 DEF IsSumOn
    <2> HIDE DEF g
    <2> QED
        BY <2>5
<1>3. Nat \subseteq G
    <2> HIDE DEF G
    <2> QED
        BY <1>1, <1>2, SetInduction
<1>4. UpTo(S, Cardinality(S)) = SUBSET S
    BY FS_Subset DEF UpTo
<1>5. Cardinality(S) \in G
    BY <1>3, FS_CardinalityType
<1>6. \E f : IsSumOn(f, UpTo(S, Cardinality(S)), w)
    BY <1>5
<1> QED
    BY <1>4, <1>6

\* A sum of numbers is a number.
LEMMA SumIsNumber ==
    ASSUME NEW S, IsFiniteSet(S), NEW w \in [S -> Nat], NEW f, IsSumOn(f, SUBSET S, w)
    PROVE  \A s \in SUBSET S : f[s] \in Nat
<1> DEFINE G == {n \in Nat : \A s \in UpTo(S, n) : f[s] \in Nat}
<1>1. 0 \in G
    <2>1. ASSUME NEW s \in UpTo(S, 0)
          PROVE  s = {}
        BY FS_Subset, FS_CardinalityType, FS_EmptySet DEF UpTo
    <2> QED
        BY <2>1 DEF IsSumOn
<1>2. ASSUME NEW n \in Nat, n \in G
      PROVE  n + 1 \in G
    <2> SUFFICES ASSUME NEW s \in UpTo(S, n + 1) PROVE f[s] \in Nat
        OBVIOUS
    <2>5. CASE s = {}
        <3>1. s \in SUBSET S
            BY DEF UpTo
        <3> QED
            BY <2>5, <3>1 DEF IsSumOn
    <2> SUFFICES ASSUME s # {} PROVE f[s] \in Nat
        BY <2>5
    <2>1. Some(s) \in s /\ s \ {Some(s)} \in UpTo(S, n) /\ s \in SUBSET S
        BY Smaller DEF UpTo
    <2>2. f[s \ {Some(s)}] \in Nat
        BY <1>2, <2>1
    <2>3. w[Some(s)] \in Nat
        BY <2>1
    <2>4. f[s] = w[Some(s)] + f[s \ {Some(s)}]
        BY <2>1 DEF IsSumOn
    <2> QED
        BY <2>2, <2>3, <2>4
<1>3. Nat \subseteq G
    <2> HIDE DEF G
    <2> QED
        BY <1>1, <1>2, SetInduction
<1>4. UpTo(S, Cardinality(S)) = SUBSET S
    BY FS_Subset DEF UpTo
<1> QED
    BY <1>3, <1>4, FS_CardinalityType

\* Any member of a set can be the one that is added last.
LEMMA SumSplits ==
    ASSUME NEW S, IsFiniteSet(S), NEW w \in [S -> Nat], NEW f, IsSumOn(f, SUBSET S, w)
    PROVE  \A s \in SUBSET S : \A x \in s : f[s] = w[x] + f[s \ {x}]
<1> DEFINE G == {n \in Nat : \A s \in UpTo(S, n) : \A x \in s : f[s] = w[x] + f[s \ {x}]}
<1>1. 0 \in G
    <2>1. ASSUME NEW s \in UpTo(S, 0)
          PROVE  s = {}
        BY FS_Subset, FS_CardinalityType, FS_EmptySet DEF UpTo
    <2> QED
        BY <2>1
<1>2. ASSUME NEW n \in Nat, n \in G
      PROVE  n + 1 \in G
    <2> SUFFICES ASSUME NEW s \in UpTo(S, n + 1), NEW x \in s
                 PROVE  f[s] = w[x] + f[s \ {x}]
        OBVIOUS
    <2> DEFINE y == Some(s)
               r == (s \ {y}) \ {x}
    <2>1. y \in s /\ s \ {y} \in UpTo(S, n) /\ s \in SUBSET S
        BY Smaller DEF UpTo
    <2>2. f[s] = w[y] + f[s \ {y}]
        BY <2>1 DEF IsSumOn
    <2>3. CASE x = y
        BY <2>2, <2>3
    <2>4. CASE x # y
        <3>1. f[s \ {y}] = w[x] + f[r]
            BY <1>2, <2>1, <2>4
        <3>2. s \ {x} \in UpTo(S, n)
            <4>1. IsFiniteSet(s) /\ Cardinality(s) \in Nat /\ Cardinality(s) <= n + 1
                BY <2>1, FS_Subset, FS_CardinalityType DEF UpTo
            <4>2. Cardinality(s \ {x}) = Cardinality(s) - 1
                BY <4>1, FS_RemoveElement
            <4> QED
                BY <2>1, <4>1, <4>2 DEF UpTo
        <3>3. (s \ {x}) \ {y} = r /\ y \in s \ {x}
            BY <2>1, <2>4
        <3>4. f[s \ {x}] = w[y] + f[r]
            BY <1>2, <3>2, <3>3
        <3>5. w[x] \in Nat /\ w[y] \in Nat /\ f[r] \in Nat
            <4>1. r \in SUBSET S /\ x \in S /\ y \in S
                BY <2>1
            <4> QED
                BY <4>1, SumIsNumber
        <3> HIDE DEF y, r
        <3> QED
            BY <2>2, <3>1, <3>4, <3>5
    <2> QED
        BY <2>3, <2>4
<1>3. Nat \subseteq G
    <2> HIDE DEF G
    <2> QED
        BY <1>1, <1>2, SetInduction
<1>4. UpTo(S, Cardinality(S)) = SUBSET S
    BY FS_Subset DEF UpTo
<1> QED
    BY <1>3, <1>4, FS_CardinalityType

\* More summands, a larger sum.
LEMMA SumGrows ==
    ASSUME NEW S, IsFiniteSet(S), NEW w \in [S -> Nat], NEW f, IsSumOn(f, SUBSET S, w)
    PROVE  \A r, s \in SUBSET S : r \subseteq s => f[r] <= f[s]
<1> DEFINE G == {n \in Nat : \A s \in UpTo(S, n), r \in SUBSET S : r \subseteq s => f[r] <= f[s]}
<1>0. \A s \in SUBSET S : f[s] \in Nat
    BY SumIsNumber
<1>1. 0 \in G
    <2>1. ASSUME NEW s \in UpTo(S, 0)
          PROVE  s = {}
        BY FS_Subset, FS_CardinalityType, FS_EmptySet DEF UpTo
    <2>2. f[{}] \in Nat
        BY <1>0
    <2> QED
        BY <2>1, <2>2
<1>2. ASSUME NEW n \in Nat, n \in G
      PROVE  n + 1 \in G
    <2> SUFFICES ASSUME NEW s \in UpTo(S, n + 1), NEW r \in SUBSET S, r \subseteq s
                 PROVE  f[r] <= f[s]
        OBVIOUS
    <2>1. s \in SUBSET S
        BY DEF UpTo
    <2>2. CASE r = s
        BY <2>2, <2>1, <1>0
    <2>3. ASSUME NEW x \in s \ r
          PROVE  f[r] <= f[s]
        <3>1. f[s] = w[x] + f[s \ {x}]
            BY <2>1, SumSplits
        <3>2. s \ {x} \in UpTo(S, n)
            <4>1. IsFiniteSet(s) /\ Cardinality(s) \in Nat /\ Cardinality(s) <= n + 1
                BY <2>1, FS_Subset, FS_CardinalityType DEF UpTo
            <4>2. Cardinality(s \ {x}) = Cardinality(s) - 1
                BY <4>1, FS_RemoveElement
            <4> QED
                BY <2>1, <4>1, <4>2 DEF UpTo
        <3>3. f[r] <= f[s \ {x}]
            BY <1>2, <3>2
        <3>4. f[r] \in Nat /\ f[s \ {x}] \in Nat /\ w[x] \in Nat
            BY <1>0, <2>1
        <3> QED
            BY <3>1, <3>3, <3>4
    <2> QED
        BY <2>2, <2>3
<1>3. Nat \subseteq G
    <2> HIDE DEF G
    <2> QED
        BY <1>1, <1>2, SetInduction
<1>4. UpTo(S, Cardinality(S)) = SUBSET S
    BY FS_Subset DEF UpTo
<1> QED
    BY <1>3, <1>4, FS_CardinalityType

\* The sum over a set is the same, whatever larger set it is seen in.
AgreeOn(v, w, S) == \A x \in S : v[x] = w[x]
LEMMA SumAgrees ==
    ASSUME NEW T, IsFiniteSet(T), NEW S \in SUBSET T, NEW v, NEW w, AgreeOn(v, w, S),
           NEW f, IsSumOn(f, SUBSET S, v), NEW g, IsSumOn(g, SUBSET T, w)
    PROVE  f[S] = g[S]
<1>0. IsFiniteSet(S) /\ \A x \in S : v[x] = w[x]
    BY FS_Subset DEF AgreeOn
<1> DEFINE G == {n \in Nat : \A s \in UpTo(S, n) : f[s] = g[s]}
<1>1. 0 \in G
    <2>1. ASSUME NEW s \in UpTo(S, 0)
          PROVE  s = {}
        BY <1>0, FS_Subset, FS_CardinalityType, FS_EmptySet DEF UpTo
    <2>2. f[{}] = 0 /\ g[{}] = 0
        BY DEF IsSumOn
    <2> QED
        BY <2>1, <2>2
<1>2. ASSUME NEW n \in Nat, n \in G
      PROVE  n + 1 \in G
    <2> SUFFICES ASSUME NEW s \in UpTo(S, n + 1) PROVE f[s] = g[s]
        OBVIOUS
    <2>1. s \in SUBSET S /\ s \in SUBSET T
        BY DEF UpTo
    <2>2. CASE s = {}
        BY <2>1, <2>2 DEF IsSumOn
    <2>3. CASE s # {}
        <3> DEFINE y == Some(s)
        <3>1. y \in s /\ s \ {y} \in UpTo(S, n)
            BY <1>0, <2>3, Smaller
        <3>2. f[s] = v[y] + f[s \ {y}] /\ g[s] = w[y] + g[s \ {y}]
            BY <2>1, <2>3 DEF IsSumOn
        <3> HIDE DEF y
        <3>3. v[y] = w[y] /\ f[s \ {y}] = g[s \ {y}]
            BY <1>0, <1>2, <2>1, <3>1
        <3> QED
            BY <3>2, <3>3
    <2> QED
        BY <2>2, <2>3
<1>3. Nat \subseteq G
    <2> HIDE DEF G
    <2> QED
        BY <1>1, <1>2, SetInduction
<1>4. UpTo(S, Cardinality(S)) = SUBSET S
    BY <1>0, FS_Subset DEF UpTo
<1> QED
    BY <1>0, <1>3, <1>4, FS_CardinalityType
=============================================================================
