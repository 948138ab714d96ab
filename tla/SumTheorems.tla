----------------------------- MODULE SumTheorems -----------------------------
(***************************************************************************)
(* How a total over a finite set of counters changes when one counter      *)
(* changes, and how it splits.  The provers cannot instantiate an          *)
(* induction principle with a predicate, so induction is stated for sets:  *)
(* a set of numbers that has 0 and is closed under successor has them all. *)
(***************************************************************************)
EXTENDS Sums, FiniteSetTheorems, WellFoundedInduction, TLAPS

\* Induction over the natural numbers, from the least number not in T.
LEMMA NatSetInduction ==
  ASSUME NEW T, 0 \in T, \A n \in Nat : n \in T => n + 1 \in T
  PROVE  \A n \in Nat : n \in T
<1> SUFFICES ASSUME NEW n \in Nat, n \notin T PROVE FALSE
  OBVIOUS
<1> DEFINE U == Nat \ T
<1>1. U \subseteq Nat /\ U # {}
  OBVIOUS
<1>2. PICK m \in U : \A y \in U : <<y, m>> \notin OpToRel(<, Nat)
  BY <1>1, WFMin, NatLessThanWellFounded
<1>3. m # 0 /\ m - 1 \in Nat /\ m - 1 < m
  OBVIOUS
<1>4. <<m - 1, m>> \in OpToRel(<, Nat)
  BY <1>3 DEF OpToRel
<1>5. m - 1 \in T
  BY <1>2, <1>3, <1>4
<1> QED
  BY <1>3, <1>5

\* Induction over the subsets of a finite set, one element at a time.
LEMMA FiniteSetInduction ==
  ASSUME NEW S, IsFiniteSet(S), NEW T, {} \in T,
         \A s \in SUBSET S : \A x \in S \ s : s \in T => s \cup {x} \in T
  PROVE  S \in T
<1> DEFINE N == {n \in Nat : \A s \in SUBSET S : Cardinality(s) = n => s \in T}
<1>1. ASSUME NEW s \in SUBSET S
      PROVE  IsFiniteSet(s) /\ Cardinality(s) \in Nat
  BY FS_Subset, FS_CardinalityType
<1>2. 0 \in N
  <2>1. \A s \in SUBSET S : Cardinality(s) = 0 => s = {}
    BY <1>1, FS_EmptySet
  <2> QED BY <2>1
<1>3. ASSUME NEW n \in Nat, n \in N
      PROVE  n + 1 \in N
  <2> SUFFICES ASSUME NEW s \in SUBSET S, Cardinality(s) = n + 1
               PROVE  s \in T
    OBVIOUS
  <2>0. s # {}
    <3>1. n + 1 # 0 /\ Cardinality({}) = 0
      BY FS_EmptySet
    <3> QED BY <3>1
  <2>1. PICK x \in s : TRUE
    BY <2>0
  <2>2. Cardinality(s \ {x}) = n
    <3>1. Cardinality(s \ {x}) = Cardinality(s) - 1
      BY <1>1, <2>1, FS_RemoveElement
    <3> QED BY <3>1
  <2>3. s \ {x} \in T
    BY <1>3, <2>2
  <2>4. (s \ {x}) \cup {x} = s /\ x \in S \ (s \ {x})
    OBVIOUS
  <2> QED BY <2>3, <2>4
<1>4. \A n \in Nat : n \in N
  <2> HIDE DEF N
  <2> QED BY <1>2, <1>3, NatSetInduction
<1> QED BY <1>1, <1>4

-----------------------------------------------------------------------------
(* The fold behind Total *)

\* The element a fold takes out of a set first.
First(s) == CHOOSE x \in s : TRUE

\* One unfolding of the fold, with g for the totals of the smaller sets.
Unfolded(f, g, s) == IF s = {} THEN 0 ELSE f[First(s)] + g[s \ {First(s)}]

\* g has the totals of f over every subset of S.
IsFold(f, S, g) == g = [s \in SUBSET S |-> Unfolded(f, g, s)]

LEMMA TotalIsFold ==
  ASSUME NEW f, NEW S
  PROVE  Total(f, S) = (CHOOSE g : IsFold(f, S, g))[S]
BY DEF Total, MapThenSumSet, MapThenFoldSet, IsFold, Unfolded, First

\* Taking the first element out of a non-empty set leaves a smaller one.
LEMMA WithoutFirst ==
  ASSUME NEW s, IsFiniteSet(s), s # {}
  PROVE  /\ First(s) \in s
         /\ IsFiniteSet(s \ {First(s)})
         /\ Cardinality(s \ {First(s)}) = Cardinality(s) - 1
         /\ Cardinality(s) \in Nat /\ Cardinality(s) - 1 \in Nat
<1>1. First(s) \in s
  BY DEF First
<1>2. /\ IsFiniteSet(s \ {First(s)})
      /\ Cardinality(s \ {First(s)}) = Cardinality(s) - 1
  BY <1>1, FS_RemoveElement
<1> QED BY <1>1, <1>2, FS_CardinalityType

\* The totals exist: those of the sets of at most n elements, for every n.
LEMMA FoldExists ==
  ASSUME NEW f, NEW S, IsFiniteSet(S)
  PROVE  \E g : IsFold(f, S, g)
<1> DEFINE Small(n) == {s \in SUBSET S : Cardinality(s) <= n}
           N == {n \in Nat : \E g : /\ g = [s \in SUBSET S |-> g[s]]
                                    /\ \A s \in Small(n) : g[s] = Unfolded(f, g, s)}
<1>1. ASSUME NEW s \in SUBSET S
      PROVE  IsFiniteSet(s) /\ Cardinality(s) \in Nat /\ Cardinality(s) <= Cardinality(S)
  BY FS_Subset, FS_CardinalityType
<1>2. 0 \in N
  <2> DEFINE g == [s \in SUBSET S |-> 0]
  <2>1. \A s \in Small(0) : s = {}
    BY <1>1, FS_EmptySet
  <2>2. \A s \in Small(0) : g[s] = Unfolded(f, g, s)
    BY <2>1 DEF Unfolded
  <2>3. g = [s \in SUBSET S |-> g[s]]
    OBVIOUS
  <2> QED BY <2>2, <2>3
<1>3. ASSUME NEW n \in Nat, n \in N
      PROVE  n + 1 \in N
  <2>1. PICK g : /\ g = [s \in SUBSET S |-> g[s]]
                 /\ \A s \in Small(n) : g[s] = Unfolded(f, g, s)
    BY <1>3
  <2> DEFINE h == [s \in SUBSET S |-> IF s \in Small(n) THEN g[s]
                                      ELSE Unfolded(f, g, s)]
  <2>2. ASSUME NEW s \in Small(n + 1)
        PROVE  h[s] = Unfolded(f, h, s)
    <3>1. CASE s = {}
      BY <2>1, <3>1 DEF Unfolded
    <3>2. CASE s # {}
      <4>1. s \ {First(s)} \in Small(n)
        BY <1>1, <3>2, WithoutFirst
      <4>2. h[s \ {First(s)}] = g[s \ {First(s)}]
        BY <4>1
      <4>3. Unfolded(f, h, s) = Unfolded(f, g, s)
        BY <3>2, <4>2 DEF Unfolded
      <4> QED BY <2>1, <4>3
    <3> QED BY <3>1, <3>2
  <2>3. h = [s \in SUBSET S |-> h[s]]
    OBVIOUS
  <2> QED
    <3> HIDE DEF h
    <3>1. \E k : /\ k = [s \in SUBSET S |-> k[s]]
                 /\ \A s \in Small(n + 1) : k[s] = Unfolded(f, k, s)
      BY <2>2, <2>3
    <3>2. n + 1 \in Nat
      OBVIOUS
    <3> HIDE DEF Small
    <3> QED BY <3>1, <3>2
<1>4. \A n \in Nat : n \in N
  <2> HIDE DEF N
  <2> QED BY <1>2, <1>3, NatSetInduction
<1>5. Cardinality(S) \in N
  BY <1>4, FS_CardinalityType
<1>6. PICK g : /\ g = [s \in SUBSET S |-> g[s]]
               /\ \A s \in Small(Cardinality(S)) : g[s] = Unfolded(f, g, s)
  BY <1>5
<1>7. \A s \in SUBSET S : g[s] = Unfolded(f, g, s)
  BY <1>1, <1>6
<1>8. IsFold(f, S, g)
  BY <1>6, <1>7 DEF IsFold
<1> QED BY <1>8

\* There is one total: folds over two sets agree on what they share.
LEMMA FoldsAgree ==
  ASSUME NEW f, NEW S, IsFiniteSet(S), NEW R \in SUBSET S,
         NEW g, IsFold(f, S, g), NEW h, IsFold(f, R, h)
  PROVE  g[R] = h[R]
<1> DEFINE N == {n \in Nat : \A s \in SUBSET R : Cardinality(s) = n => g[s] = h[s]}
<1>1. ASSUME NEW s \in SUBSET R
      PROVE  /\ IsFiniteSet(s) /\ Cardinality(s) \in Nat /\ s \in SUBSET S
             /\ g[s] = Unfolded(f, g, s) /\ h[s] = Unfolded(f, h, s)
  <2>1. IsFiniteSet(s) /\ Cardinality(s) \in Nat /\ s \in SUBSET S
    BY FS_Subset, FS_CardinalityType
  <2>2. g[s] = [q \in SUBSET S |-> Unfolded(f, g, q)][s]
    BY DEF IsFold
  <2>3. h[s] = [q \in SUBSET R |-> Unfolded(f, h, q)][s]
    BY DEF IsFold
  <2> QED BY <2>1, <2>2, <2>3
<1>2. 0 \in N
  <2>1. \A s \in SUBSET R : Cardinality(s) = 0 => s = {}
    BY <1>1, FS_EmptySet
  <2> QED BY <1>1, <2>1 DEF Unfolded
<1>3. ASSUME NEW n \in Nat, n \in N
      PROVE  n + 1 \in N
  <2> SUFFICES ASSUME NEW s \in SUBSET R, Cardinality(s) = n + 1
               PROVE  g[s] = h[s]
    OBVIOUS
  <2>1. s # {}
    BY FS_EmptySet
  <2>2. s \ {First(s)} \in SUBSET R /\ Cardinality(s \ {First(s)}) = n
    BY <1>1, <2>1, WithoutFirst
  <2>3. g[s \ {First(s)}] = h[s \ {First(s)}]
    BY <1>3, <2>2
  <2> QED BY <1>1, <2>1, <2>3 DEF Unfolded
<1>4. \A n \in Nat : n \in N
  <2> HIDE DEF N
  <2> QED BY <1>2, <1>3, NatSetInduction
<1>5. IsFiniteSet(R) /\ Cardinality(R) \in Nat
  BY FS_Subset, FS_CardinalityType
<1> QED BY <1>4, <1>5

-----------------------------------------------------------------------------
(* Totals *)

\* Nothing adds up to nothing; otherwise the fold takes one counter out.
LEMMA TotalFirst ==
  ASSUME NEW f, NEW S, IsFiniteSet(S)
  PROVE  Total(f, S) = IF S = {} THEN 0
                       ELSE f[First(S)] + Total(f, S \ {First(S)})
<1>1. ASSUME NEW R \in SUBSET S
      PROVE  IsFold(f, R, CHOOSE g : IsFold(f, R, g))
  BY FoldExists, FS_Subset
<1> DEFINE F(R) == CHOOSE g : IsFold(f, R, g)
<1>2. ASSUME NEW R \in SUBSET S
      PROVE  F(S)[R] = Total(f, R)
  <2>1. IsFold(f, S, F(S)) /\ IsFold(f, R, F(R))
    BY <1>1
  <2> HIDE DEF F
  <2>2. F(S)[R] = F(R)[R]
    BY <2>1, FoldsAgree
  <2> USE DEF F
  <2> QED BY <2>2, TotalIsFold
<1>3. F(S)[S] = Unfolded(f, F(S), S)
  <2>1. IsFold(f, S, F(S))
    BY <1>1
  <2> HIDE DEF F
  <2>2. F(S)[S] = [s \in SUBSET S |-> Unfolded(f, F(S), s)][S]
    BY <2>1 DEF IsFold
  <2> QED BY <2>2
<1> HIDE DEF F
<1> QED BY <1>2, <1>3 DEF Unfolded

LEMMA TotalEmpty ==
  ASSUME NEW f
  PROVE  Total(f, {}) = 0
BY TotalFirst, FS_EmptySet

\* A total is the kind of number its counters are.
LEMMA TotalClosed ==
  ASSUME NEW S, IsFiniteSet(S), NEW V, 0 \in V, \A a, b \in V : a + b \in V,
         NEW f, \A x \in S : f[x] \in V
  PROVE  Total(f, S) \in V
<1> DEFINE N == {n \in Nat : \A s \in SUBSET S :
                                Cardinality(s) = n => Total(f, s) \in V}
<1>1. ASSUME NEW s \in SUBSET S
      PROVE  IsFiniteSet(s) /\ Cardinality(s) \in Nat
  BY FS_Subset, FS_CardinalityType
<1>2. 0 \in N
  <2>1. \A s \in SUBSET S : Cardinality(s) = 0 => s = {}
    BY <1>1, FS_EmptySet
  <2> QED BY <2>1, TotalEmpty
<1>3. ASSUME NEW n \in Nat, n \in N
      PROVE  n + 1 \in N
  <2> SUFFICES ASSUME NEW s \in SUBSET S, Cardinality(s) = n + 1
               PROVE  Total(f, s) \in V
    OBVIOUS
  <2>1. s # {}
    BY FS_EmptySet
  <2>2. /\ First(s) \in s /\ s \ {First(s)} \in SUBSET S
        /\ Cardinality(s \ {First(s)}) = n
    BY <1>1, <2>1, WithoutFirst
  <2>3. Total(f, s \ {First(s)}) \in V /\ f[First(s)] \in V
    BY <1>3, <2>2
  <2> QED BY <1>1, <2>1, <2>3, TotalFirst
<1>4. \A n \in Nat : n \in N
  <2> HIDE DEF N
  <2> QED BY <1>2, <1>3, NatSetInduction
<1> QED BY <1>1, <1>4

LEMMA TotalInt ==
  ASSUME NEW S, IsFiniteSet(S), NEW f, \A x \in S : f[x] \in Int
  PROVE  Total(f, S) \in Int
<1>1. 0 \in Int /\ \A a, b \in Int : a + b \in Int
  OBVIOUS
<1> QED BY <1>1, TotalClosed

LEMMA TotalNat ==
  ASSUME NEW S, IsFiniteSet(S), NEW f, \A x \in S : f[x] \in Nat
  PROVE  Total(f, S) \in Nat
<1>1. 0 \in Nat /\ \A a, b \in Nat : a + b \in Nat
  OBVIOUS
<1> QED BY <1>1, TotalClosed

\* Any counter can be taken out of a total first.
LEMMA TotalSplit ==
  ASSUME NEW S, IsFiniteSet(S), NEW f, \A x \in S : f[x] \in Int
  PROVE  \A x \in S : Total(f, S) = f[x] + Total(f, S \ {x})
<1> DEFINE Good(s) == \A x \in s : Total(f, s) = f[x] + Total(f, s \ {x})
           N == {n \in Nat : \A s \in SUBSET S : Cardinality(s) = n => Good(s)}
<1>1. ASSUME NEW s \in SUBSET S
      PROVE  IsFiniteSet(s) /\ Cardinality(s) \in Nat /\ Total(f, s) \in Int
  BY FS_Subset, FS_CardinalityType, TotalInt
<1>2. 0 \in N
  <2>1. \A s \in SUBSET S : Cardinality(s) = 0 => s = {}
    BY <1>1, FS_EmptySet
  <2> QED BY <2>1
<1>3. ASSUME NEW n \in Nat, n \in N
      PROVE  n + 1 \in N
  <2> SUFFICES ASSUME NEW s \in SUBSET S, Cardinality(s) = n + 1
               PROVE  Good(s)
    OBVIOUS
  <2>1. s # {}
    BY FS_EmptySet
  <2>2. ASSUME NEW x \in s
        PROVE  s \ {x} \in SUBSET S /\ Good(s \ {x}) /\ f[x] \in Int
    <3>1. Cardinality(s \ {x}) = Cardinality(s) - 1
      BY <1>1, FS_RemoveElement
    <3>2. Cardinality(s \ {x}) = n /\ s \ {x} \in SUBSET S
      BY <3>1
    <3> HIDE DEF Good
    <3> QED BY <1>3, <3>2
  <2> DEFINE c == First(s)
  <2>3. c \in s
    BY <2>1 DEF First
  <2>4. Total(f, s) = f[c] + Total(f, s \ {c})
    BY <1>1, <2>1, TotalFirst
  <2> HIDE DEF c
  <2>5. ASSUME NEW x \in s, x # c
        PROVE  Total(f, s) = f[x] + Total(f, s \ {x})
    <3>1. Total(f, s \ {c}) = f[x] + Total(f, (s \ {c}) \ {x})
      BY <2>2, <2>3, <2>5
    <3>2. Total(f, s \ {x}) = f[c] + Total(f, (s \ {x}) \ {c})
      BY <2>2, <2>3, <2>5
    <3>3. (s \ {c}) \ {x} = (s \ {x}) \ {c} /\ (s \ {x}) \ {c} \in SUBSET S
      OBVIOUS
    <3>4. f[x] \in Int /\ f[c] \in Int /\ Total(f, (s \ {x}) \ {c}) \in Int
      BY <1>1, <2>2, <2>3, <3>3
    <3>5. Total(f, s \ {c}) = f[x] + Total(f, (s \ {x}) \ {c})
      BY <3>1, <3>3, Zenon
    <3> QED BY <2>4, <3>2, <3>4, <3>5
  <2> QED BY <2>4, <2>5
<1>4. \A n \in Nat : n \in N
  <2> HIDE DEF N
  <2> QED BY <1>2, <1>3, NatSetInduction
<1>5. Cardinality(S) \in N
  BY <1>1, <1>4
<1> QED BY <1>5

\* One more counter adds its value.
LEMMA TotalAdd ==
  ASSUME NEW S, IsFiniteSet(S), NEW x, x \notin S,
         NEW f, \A y \in S \cup {x} : f[y] \in Int
  PROVE  Total(f, S \cup {x}) = f[x] + Total(f, S)
<1>1. IsFiniteSet(S \cup {x}) /\ (S \cup {x}) \ {x} = S /\ x \in S \cup {x}
  BY FS_AddElement
<1> QED BY <1>1, TotalSplit

\* A total only depends on the counters it is over.
LEMMA TotalAgree ==
  ASSUME NEW S, IsFiniteSet(S), NEW f, NEW g,
         \A x \in S : f[x] \in Int /\ g[x] = f[x]
  PROVE  Total(g, S) = Total(f, S)
<1> DEFINE T == {s \in SUBSET S : Total(g, s) = Total(f, s)}
<1>1. {} \in T
  BY TotalEmpty
<1>2. ASSUME NEW s \in SUBSET S, NEW x \in S \ s, s \in T
      PROVE  s \cup {x} \in T
  <2>1. IsFiniteSet(s)
    BY FS_Subset
  <2>2. /\ Total(f, s \cup {x}) = f[x] + Total(f, s)
        /\ Total(g, s \cup {x}) = g[x] + Total(g, s)
    BY <2>1, TotalAdd
  <2> QED BY <1>2, <2>2
<1>3. S \in T
  <2> HIDE DEF T
  <2> QED BY <1>1, <1>2, FiniteSetInduction
<1> QED BY <1>3

\* Changing one counter changes the total by as much.
LEMMA TotalUpdate ==
  ASSUME NEW S, IsFiniteSet(S), NEW f, \A x \in S : f[x] \in Int,
         NEW g, NEW x \in S, g[x] \in Int, \A y \in S \ {x} : g[y] = f[y]
  PROVE  Total(g, S) = Total(f, S) + g[x] - f[x]
<1>1. IsFiniteSet(S \ {x})
  BY FS_RemoveElement
<1>2. Total(g, S \ {x}) = Total(f, S \ {x}) /\ Total(f, S \ {x}) \in Int
  BY <1>1, TotalAgree, TotalInt
<1>3. \A y \in S : g[y] \in Int
  OBVIOUS
<1>4. Total(g, S) = g[x] + Total(g, S \ {x})
  BY <1>3, TotalSplit
<1>5. Total(f, S) = f[x] + Total(f, S \ {x})
  BY TotalSplit
<1> QED BY <1>2, <1>4, <1>5

\* The total over two disjoint sets of counters.
LEMMA TotalUnion ==
  ASSUME NEW S, IsFiniteSet(S), NEW R, IsFiniteSet(R), R \cap S = {},
         NEW f, \A x \in S \cup R : f[x] \in Int
  PROVE  Total(f, R \cup S) = Total(f, R) + Total(f, S)
<1> DEFINE T == {s \in SUBSET S : Total(f, R \cup s) = Total(f, R) + Total(f, s)}
<1>0. Total(f, R) \in Int
  BY TotalInt
<1>1. {} \in T
  <2>1. R \cup {} = R /\ Total(f, {}) = 0
    BY TotalEmpty
  <2> QED BY <1>0, <2>1
<1>2. ASSUME NEW s \in SUBSET S, NEW x \in S \ s, s \in T
      PROVE  s \cup {x} \in T
  <2>1. IsFiniteSet(s) /\ IsFiniteSet(R \cup s)
    BY FS_Subset, FS_Union
  <2>2. /\ Total(f, s \cup {x}) = f[x] + Total(f, s)
        /\ Total(f, (R \cup s) \cup {x}) = f[x] + Total(f, R \cup s)
    BY <2>1, TotalAdd
  <2>3. Total(f, s) \in Int /\ f[x] \in Int /\ (R \cup s) \cup {x} = R \cup (s \cup {x})
    BY <2>1, TotalInt
  <2>4. /\ Total(f, R \cup (s \cup {x})) = f[x] + Total(f, R \cup s)
        /\ Total(f, R \cup s) = Total(f, R) + Total(f, s)
    BY <1>2, <2>2, <2>3, Zenon
  <2>5. Total(f, R \cup (s \cup {x})) = Total(f, R) + Total(f, s \cup {x})
    BY <1>0, <2>2, <2>3, <2>4
  <2> QED BY <2>5
<1>3. S \in T
  <2> HIDE DEF T
  <2> QED BY <1>1, <1>2, FiniteSetInduction
<1> QED BY <1>3

\* Fewer counters that never go below zero add up to no more.
LEMMA TotalSubset ==
  ASSUME NEW S, IsFiniteSet(S), NEW R \in SUBSET S,
         NEW f, \A x \in S : f[x] \in Nat
  PROVE  Total(f, R) <= Total(f, S)
<1>1. IsFiniteSet(R) /\ IsFiniteSet(S \ R) /\ R \cap (S \ R) = {}
      /\ R \cup (S \ R) = S
  BY FS_Subset
<1>2. Total(f, S) = Total(f, R) + Total(f, S \ R)
  <2>1. \A x \in R \cup (S \ R) : f[x] \in Int
    OBVIOUS
  <2> QED BY <1>1, <2>1, TotalUnion
<1>3. Total(f, R) \in Nat /\ Total(f, S \ R) \in Nat
  BY <1>1, TotalNat
<1> QED BY <1>2, <1>3

\* Counters that are no lower add up to no less.
LEMMA TotalLeq ==
  ASSUME NEW S, IsFiniteSet(S), NEW f, NEW g,
         \A x \in S : f[x] \in Int /\ g[x] \in Int /\ f[x] <= g[x]
  PROVE  Total(f, S) <= Total(g, S)
<1> DEFINE T == {s \in SUBSET S : Total(f, s) <= Total(g, s)}
<1>1. {} \in T
  BY TotalEmpty
<1>2. ASSUME NEW s \in SUBSET S, NEW x \in S \ s, s \in T
      PROVE  s \cup {x} \in T
  <2>1. IsFiniteSet(s)
    BY FS_Subset
  <2>2. /\ Total(f, s \cup {x}) = f[x] + Total(f, s)
        /\ Total(g, s \cup {x}) = g[x] + Total(g, s)
    BY <2>1, TotalAdd
  <2>3. Total(f, s) \in Int /\ Total(g, s) \in Int
    BY <2>1, TotalInt
  <2> QED BY <1>2, <2>2, <2>3
<1>3. S \in T
  <2> HIDE DEF T
  <2> QED BY <1>1, <1>2, FiniteSetInduction
<1> QED BY <1>3

\* Counters at zero add up to zero.
LEMMA TotalZero ==
  ASSUME NEW S, IsFiniteSet(S), NEW f, \A x \in S : f[x] = 0
  PROVE  Total(f, S) = 0
<1>1. 0 \in {0} /\ \A a, b \in {0} : a + b \in {0}
  OBVIOUS
<1>2. Total(f, S) \in {0}
  BY <1>1, TotalClosed
<1> QED BY <1>2
=============================================================================
