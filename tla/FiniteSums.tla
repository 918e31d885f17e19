----------------------------- MODULE FiniteSums -----------------------------
(***************************************************************************)
(* What SumFunctionOnSet of the community modules computes for a finite    *)
(* set of indices: the facts about sums that the proofs about the model    *)
(* accounting rest on.                                                     *)
(***************************************************************************)
EXTENDS Functions, FiniteSets, Integers, FiniteSetTheorems, WellFoundedInduction, TLAPS

\* Every set of natural numbers has a least element.
LEMMA LeastExists ==
  ASSUME NEW T \in SUBSET Nat, T # {}
  PROVE  \E n \in T : \A m \in T : n <= m
<1> DEFINE Less == OpToRel(<, Nat)
<1>1. \A x, y \in Nat : x < y => <<x, y>> \in Less
  BY DEF OpToRel
<1>2. IsWellFoundedOn(Less, Nat)
  BY NatLessThanWellFounded, Zenon
<1> HIDE DEF Less
<1>3. PICK n \in T : \A m \in T : ~(<<m, n>> \in Less)
  <2>1. T \subseteq Nat
    OBVIOUS
  <2> QED
    BY <1>2, <2>1, WFMin
<1>4. ASSUME NEW m \in T PROVE n <= m
  <2>1. ~(m < n)
    BY <1>1, <1>3
  <2> QED
    BY <2>1
<1> QED
  BY <1>4

\* Induction in the form the provers can use: about a set, not an operator.
LEMMA SetInduction ==
  ASSUME NEW T \in SUBSET Nat, 0 \in T, \A n \in T : n + 1 \in T
  PROVE  \A n \in Nat : n \in T
<1>1. SUFFICES ASSUME Nat \ T # {} PROVE FALSE
  OBVIOUS
<1>2. PICK n \in Nat \ T : \A m \in Nat \ T : n <= m
  BY <1>1, LeastExists
<1>3. n # 0 /\ n - 1 \in Nat /\ n - 1 < n
  BY <1>2
<1>4. n - 1 \in T
  BY <1>2, <1>3
<1> QED
  BY <1>2, <1>3, <1>4

\* Induction over the subsets of a finite set, each from the sets with one element less.
LEMMA SubsetInduction ==
  ASSUME NEW S, IsFiniteSet(S), NEW G, {} \in G,
         \A s \in SUBSET S : s # {} /\ (\A x \in s : s \ {x} \in G) => s \in G
  PROVE  S \in G
<1> DEFINE T == {n \in Nat : \A s \in SUBSET S : Cardinality(s) = n => s \in G}
<1>0. ASSUME NEW s \in SUBSET S
      PROVE  /\ IsFiniteSet(s) /\ Cardinality(s) \in Nat
             /\ \A x \in s : Cardinality(s \ {x}) = Cardinality(s) - 1
  BY FS_Subset, FS_CardinalityType, FS_RemoveElement
<1>1. 0 \in T
  <2> SUFFICES ASSUME NEW s \in SUBSET S, Cardinality(s) = 0
               PROVE  s \in G
    OBVIOUS
  <2>1. IsFiniteSet(s)
    BY <1>0
  <2>2. s = {}
    BY <2>1, FS_EmptySet
  <2> QED
    BY <2>2
<1>2. ASSUME NEW n \in T PROVE n + 1 \in T
  <2> SUFFICES ASSUME NEW s \in SUBSET S, Cardinality(s) = n + 1
               PROVE  s \in G
    OBVIOUS
  <2>1. s # {}
    BY FS_EmptySet
  <2>2. ASSUME NEW x \in s PROVE s \ {x} \in G
    <3>1. Cardinality(s \ {x}) = Cardinality(s) - 1
      BY <1>0
    <3>2. Cardinality(s \ {x}) = n
      BY <3>1
    <3>3. s \ {x} \in SUBSET S
      OBVIOUS
    <3> QED
      BY <3>2, <3>3
  <2> QED
    BY <2>1, <2>2
<1>3. Cardinality(S) \in T
  <2>1. Cardinality(S) \in Nat
    BY FS_CardinalityType
  <2> HIDE DEF T
  <2>2. T \in SUBSET Nat
    BY DEF T
  <2> QED
    BY <1>1, <1>2, <2>1, <2>2, SetInduction
<1> QED
  BY <1>3

(***************************************************************************)
(* The recursion equation of the fold.                                     *)
(***************************************************************************)
Picked(s) == CHOOSE x \in s : TRUE

\* The value of the fold for s, from its values for smaller sets.
FoldStep(g, f, s) == IF s = {} THEN 0 ELSE f[Picked(s)] + g[s \ {Picked(s)}]

IsFold(g, f, S) == g = [s \in SUBSET S |-> FoldStep(g, f, s)]

LEMMA PickedIn == \A s : s # {} => Picked(s) \in s
  BY DEF Picked

LEMMA FoldExists ==
  ASSUME NEW S, IsFiniteSet(S), NEW f
  PROVE  \E g : IsFold(g, f, S)
<1> DEFINE UpTo(g, n) == \A s \in SUBSET S : Cardinality(s) <= n => g[s] = FoldStep(g, f, s)
           T == {n \in Nat : \E g : UpTo(g, n)}
<1>0. \A s \in SUBSET S : /\ IsFiniteSet(s) /\ Cardinality(s) \in Nat
                          /\ Cardinality(s) <= Cardinality(S)
                          /\ s # {} => Cardinality(s \ {Picked(s)}) = Cardinality(s) - 1
  BY FS_Subset, FS_CardinalityType, FS_RemoveElement, PickedIn
<1>1. 0 \in T
  <2>1. UpTo([s \in SUBSET S |-> 0], 0)
    <3> SUFFICES ASSUME NEW s \in SUBSET S, Cardinality(s) <= 0
                 PROVE  0 = FoldStep([t \in SUBSET S |-> 0], f, s)
      OBVIOUS
    <3>0. Cardinality(s) \in Nat /\ IsFiniteSet(s)
      BY <1>0, Zenon
    <3>1. Cardinality(s) = 0 /\ IsFiniteSet(s)
      BY <3>0
    <3>2. s = {}
      BY <3>1, FS_EmptySet
    <3> QED
      BY <3>2 DEF FoldStep
  <2> QED
    BY <2>1
<1>2. ASSUME NEW n \in T PROVE n + 1 \in T
  <2>1. PICK g : UpTo(g, n)
    BY <1>2
  <2> DEFINE h == [s \in SUBSET S |-> FoldStep(g, f, s)]
  <2>2. ASSUME NEW s \in SUBSET S, Cardinality(s) <= n + 1
        PROVE  h[s] = FoldStep(h, f, s)
    <3>1. CASE s = {}
      BY <3>1 DEF FoldStep
    <3>2. CASE s # {}
      <4> DEFINE r == s \ {Picked(s)}
      <4>1. r \in SUBSET S /\ Cardinality(r) <= n
        BY <1>0, <2>2, <3>2
      <4>2. g[r] = h[r]
        BY <2>1, <4>1
      <4> QED
        BY <3>2, <4>2 DEF FoldStep
    <3> QED
      BY <3>1, <3>2
  <2> HIDE DEF h
  <2>3. UpTo(h, n + 1)
    BY <2>2
  <2> QED
    BY <2>3
<1>3. Cardinality(S) \in T
  <2> HIDE DEF T
  <2>1. T \in SUBSET Nat
    BY DEF T
  <2> QED
    BY <1>0, <1>1, <1>2, <2>1, SetInduction
<1>4. PICK g : UpTo(g, Cardinality(S))
  BY <1>3
<1> DEFINE h == [s \in SUBSET S |-> g[s]]
<1>5. ASSUME NEW s \in SUBSET S PROVE g[s] = FoldStep(h, f, s)
  <2>1. g[s] = FoldStep(g, f, s)
    BY <1>0, <1>4
  <2>2. s \ {Picked(s)} \in SUBSET S
    OBVIOUS
  <2> QED
    BY <2>1, <2>2 DEF FoldStep
<1>6. h = [s \in SUBSET S |-> FoldStep(h, f, s)]
  BY <1>5
<1> QED
  BY <1>6 DEF IsFold

LEMMA SumIsFold ==
  ASSUME NEW S, IsFiniteSet(S), NEW f
  PROVE  \E g : IsFold(g, f, S) /\ SumFunctionOnSet(f, S) = g[S]
<1> DEFINE g == CHOOSE h : IsFold(h, f, S)
<1>1. IsFold(g, f, S)
  BY FoldExists
<1>2. SumFunctionOnSet(f, S) = g[S]
  BY DEF SumFunctionOnSet, FoldFunctionOnSet, MapThenFoldSet, IsFold, FoldStep, Picked
<1> QED
  BY <1>1, <1>2
\* The folds for two sets of indices agree where both are defined.
LEMMA FoldsAgree ==
  ASSUME NEW S, NEW U, NEW f, NEW g, NEW h, IsFiniteSet(S), IsFold(g, f, S), IsFold(h, f, U),
         NEW s \in SUBSET (S \cap U)
  PROVE  g[s] = h[s]
<1> DEFINE G == {t \in SUBSET s : g[t] = h[t]}
<1>1. ASSUME NEW t \in SUBSET s
      PROVE  g[t] = FoldStep(g, f, t) /\ h[t] = FoldStep(h, f, t)
  <2>1. t \in SUBSET S /\ t \in SUBSET U
    OBVIOUS
  <2>2. g[t] = FoldStep(g, f, t)
    BY <2>1, Zenon DEF IsFold
  <2>3. h[t] = FoldStep(h, f, t)
    BY <2>1, Zenon DEF IsFold
  <2> QED
    BY <2>2, <2>3
<1>2. {} \in G
  <2>1. {} \in SUBSET s
    OBVIOUS
  <2>2. g[{}] = FoldStep(g, f, {}) /\ h[{}] = FoldStep(h, f, {})
    BY <1>1, <2>1
  <2> QED
    BY <2>1, <2>2 DEF FoldStep
<1>3. ASSUME NEW t \in SUBSET s, t # {}, \A x \in t : t \ {x} \in G
      PROVE  t \in G
  <2>1. g[t] = FoldStep(g, f, t) /\ h[t] = FoldStep(h, f, t)
    BY <1>1
  <2>2. Picked(t) \in t
    BY <1>3, PickedIn
  <2>3. g[t \ {Picked(t)}] = h[t \ {Picked(t)}]
    BY <1>3, <2>2
  <2> QED
    BY <1>3, <2>1, <2>3 DEF FoldStep
<1>4. IsFiniteSet(s)
  BY FS_Subset
<1>5. s \in G
  <2> HIDE DEF G
  <2> QED
    BY <1>2, <1>3, <1>4, SubsetInduction
<1> QED
  BY <1>5

(***************************************************************************)
(* Sums of natural numbers.                                                *)
(***************************************************************************)
LEMMA SumEmpty ==
  ASSUME NEW f
  PROVE  SumFunctionOnSet(f, {}) = 0
<1>1. IsFiniteSet({})
  BY FS_EmptySet
<1>2. PICK g : IsFold(g, f, {}) /\ SumFunctionOnSet(f, {}) = g[{}]
  BY <1>1, SumIsFold
<1>3. g[{}] = FoldStep(g, f, {})
  <2>1. {} \in SUBSET {}
    OBVIOUS
  <2> QED
    BY <1>2, <2>1, Zenon DEF IsFold
<1> QED
  BY <1>2, <1>3 DEF FoldStep

LEMMA SumPicked ==
  ASSUME NEW S, IsFiniteSet(S), S # {}, NEW f
  PROVE  SumFunctionOnSet(f, S) = f[Picked(S)] + SumFunctionOnSet(f, S \ {Picked(S)})
<1> DEFINE R == S \ {Picked(S)}
<1>1. IsFiniteSet(R)
  BY FS_Subset
<1>2. PICK g : IsFold(g, f, S) /\ SumFunctionOnSet(f, S) = g[S]
  BY SumIsFold
<1>3. PICK h : IsFold(h, f, R) /\ SumFunctionOnSet(f, R) = h[R]
  BY <1>1, SumIsFold
<1>4. R \in SUBSET (S \cap R)
  OBVIOUS
<1>5. g[R] = h[R]
  BY <1>2, <1>3, <1>4, FoldsAgree
<1>6. g[S] = FoldStep(g, f, S)
  <2>1. S \in SUBSET S
    OBVIOUS
  <2> QED
    BY <1>2, <2>1, Zenon DEF IsFold
<1> QED
  BY <1>2, <1>3, <1>5, <1>6 DEF FoldStep

LEMMA SumInt ==
  ASSUME NEW S, IsFiniteSet(S), NEW f, \A i \in S : f[i] \in Int
  PROVE  SumFunctionOnSet(f, S) \in Int
<1> DEFINE G == {s \in SUBSET S : SumFunctionOnSet(f, s) \in Int}
<1>1. {} \in G
  BY SumEmpty
<1>2. ASSUME NEW s \in SUBSET S, s # {}, \A x \in s : s \ {x} \in G
      PROVE  s \in G
  <2>1. Picked(s) \in s
    BY <1>2, PickedIn
  <2>2. f[Picked(s)] \in Int /\ SumFunctionOnSet(f, s \ {Picked(s)}) \in Int
    BY <1>2, <2>1
  <2>3. SumFunctionOnSet(f, s) = f[Picked(s)] + SumFunctionOnSet(f, s \ {Picked(s)})
    BY <1>2, SumPicked, FS_Subset
  <2> QED
    BY <2>2, <2>3
<1>3. S \in G
  <2> HIDE DEF G
  <2> QED
    BY <1>1, <1>2, SubsetInduction
<1> QED
  BY <1>3

LEMMA SumNat ==
  ASSUME NEW S, IsFiniteSet(S), NEW f, \A i \in S : f[i] \in Nat
  PROVE  SumFunctionOnSet(f, S) \in Nat
<1> DEFINE G == {s \in SUBSET S : SumFunctionOnSet(f, s) \in Nat}
<1>1. {} \in G
  BY SumEmpty
<1>2. ASSUME NEW s \in SUBSET S, s # {}, \A x \in s : s \ {x} \in G
      PROVE  s \in G
  <2>1. Picked(s) \in s
    BY <1>2, PickedIn
  <2>2. f[Picked(s)] \in Nat /\ SumFunctionOnSet(f, s \ {Picked(s)}) \in Nat
    BY <1>2, <2>1
  <2>3. SumFunctionOnSet(f, s) = f[Picked(s)] + SumFunctionOnSet(f, s \ {Picked(s)})
    BY <1>2, SumPicked, FS_Subset
  <2> QED
    BY <2>2, <2>3
<1>3. S \in G
  <2> HIDE DEF G
  <2> QED
    BY <1>1, <1>2, SubsetInduction
<1> QED
  BY <1>3

LEMMA Exchange ==
  ASSUME NEW a \in Int, NEW b \in Int, NEW c \in Int
  PROVE  a + (b + c) = b + (a + c)
  OBVIOUS

\* Any index may be taken out first.
LEMMA SumRestInt ==
  ASSUME NEW S, IsFiniteSet(S), NEW f, \A i \in S : f[i] \in Int, NEW x \in S
  PROVE  SumFunctionOnSet(f, S) = f[x] + SumFunctionOnSet(f, S \ {x})
<1> DEFINE G == {s \in SUBSET S :
                   \A i \in s : SumFunctionOnSet(f, s) = f[i] + SumFunctionOnSet(f, s \ {i})}
<1>1. {} \in G
  OBVIOUS
<1>2. ASSUME NEW s \in SUBSET S, s # {}, \A i \in s : s \ {i} \in G, NEW i \in s
      PROVE  SumFunctionOnSet(f, s) = f[i] + SumFunctionOnSet(f, s \ {i})
  <2> DEFINE p == Picked(s)
  <2>1. p \in s
    BY <1>2, PickedIn
  <2>2. SumFunctionOnSet(f, s) = f[p] + SumFunctionOnSet(f, s \ {p})
    BY <1>2, SumPicked, FS_Subset
  <2> HIDE DEF p
  <2>3. CASE i = p
    BY <2>2, <2>3
  <2>4. CASE i # p
    <3>1. SumFunctionOnSet(f, s \ {p}) = f[i] + SumFunctionOnSet(f, (s \ {p}) \ {i})
      BY <1>2, <2>1, <2>4
    <3>2. SumFunctionOnSet(f, s \ {i}) = f[p] + SumFunctionOnSet(f, (s \ {i}) \ {p})
      BY <1>2, <2>1, <2>4
    <3>3. (s \ {p}) \ {i} = (s \ {i}) \ {p}
      OBVIOUS
    <3>4. f[i] \in Int /\ f[p] \in Int /\ SumFunctionOnSet(f, (s \ {i}) \ {p}) \in Int
      <4>1. IsFiniteSet((s \ {i}) \ {p})
        BY FS_Subset
      <4>2. \A j \in (s \ {i}) \ {p} : f[j] \in Int
        OBVIOUS
      <4> QED
        BY <2>1, <4>1, <4>2, SumInt
    <3>5. f[p] + (f[i] + SumFunctionOnSet(f, (s \ {i}) \ {p}))
          = f[i] + (f[p] + SumFunctionOnSet(f, (s \ {i}) \ {p}))
      BY <3>4, Exchange
    <3> QED
      BY <2>2, <3>1, <3>2, <3>3, <3>5
  <2> QED
    BY <2>3, <2>4
<1>3. S \in G
  <2>1. ASSUME NEW s \in SUBSET S, s # {}, \A i \in s : s \ {i} \in G
        PROVE  s \in G
    BY <1>2, <2>1
  <2> HIDE DEF G
  <2> QED
    BY <1>1, <2>1, SubsetInduction
<1> QED
  BY <1>3

LEMMA SumRest ==
  ASSUME NEW S, IsFiniteSet(S), NEW f, \A i \in S : f[i] \in Nat, NEW x \in S
  PROVE  SumFunctionOnSet(f, S) = f[x] + SumFunctionOnSet(f, S \ {x})
<1>1. \A i \in S : f[i] \in Int
  OBVIOUS
<1> QED
  BY <1>1, SumRestInt

LEMMA SumMonotone ==
  ASSUME NEW S, IsFiniteSet(S), NEW f, NEW g,
         \A i \in S : f[i] \in Nat /\ g[i] \in Nat /\ f[i] <= g[i]
  PROVE  SumFunctionOnSet(f, S) <= SumFunctionOnSet(g, S)
<1> DEFINE G == {s \in SUBSET S : SumFunctionOnSet(f, s) <= SumFunctionOnSet(g, s)}
<1>1. {} \in G
  BY SumEmpty
<1>2. ASSUME NEW s \in SUBSET S, s # {}, \A x \in s : s \ {x} \in G
      PROVE  s \in G
  <2>1. PICK x \in s : TRUE
    BY <1>2
  <2>2. IsFiniteSet(s) /\ IsFiniteSet(s \ {x})
    BY FS_Subset
  <2>3. \A i \in s : f[i] \in Nat /\ g[i] \in Nat
    OBVIOUS
  <2>4. SumFunctionOnSet(f, s) = f[x] + SumFunctionOnSet(f, s \ {x})
    BY <2>2, <2>3, SumRest
  <2>5. SumFunctionOnSet(g, s) = g[x] + SumFunctionOnSet(g, s \ {x})
    BY <2>2, <2>3, SumRest
  <2>6. SumFunctionOnSet(f, s \ {x}) \in Nat /\ SumFunctionOnSet(g, s \ {x}) \in Nat
    BY <2>2, <2>3, SumNat
  <2>7. SumFunctionOnSet(f, s \ {x}) <= SumFunctionOnSet(g, s \ {x})
    BY <1>2
  <2>8. f[x] \in Nat /\ g[x] \in Nat /\ f[x] <= g[x]
    OBVIOUS
  <2> QED
    BY <2>4, <2>5, <2>6, <2>7, <2>8
<1>3. S \in G
  <2> HIDE DEF G
  <2> QED
    BY <1>1, <1>2, SubsetInduction
<1> QED
  BY <1>3

\* The sum depends only on the values at the indices.
LEMMA SumSame ==
  ASSUME NEW S, IsFiniteSet(S), NEW f, NEW g, \A i \in S : f[i] = g[i]
  PROVE  SumFunctionOnSet(f, S) = SumFunctionOnSet(g, S)
<1> DEFINE G == {s \in SUBSET S : SumFunctionOnSet(f, s) = SumFunctionOnSet(g, s)}
<1>1. {} \in G
  BY SumEmpty
<1>2. ASSUME NEW s \in SUBSET S, s # {}, \A x \in s : s \ {x} \in G
      PROVE  s \in G
  <2>1. Picked(s) \in s
    BY <1>2, PickedIn
  <2>2. IsFiniteSet(s)
    BY FS_Subset
  <2>3. /\ SumFunctionOnSet(f, s) = f[Picked(s)] + SumFunctionOnSet(f, s \ {Picked(s)})
        /\ SumFunctionOnSet(g, s) = g[Picked(s)] + SumFunctionOnSet(g, s \ {Picked(s)})
    BY <1>2, <2>2, SumPicked
  <2>4. SumFunctionOnSet(f, s \ {Picked(s)}) = SumFunctionOnSet(g, s \ {Picked(s)})
    BY <1>2, <2>1
  <2>5. f[Picked(s)] = g[Picked(s)]
    BY <2>1
  <2> QED
    BY <2>3, <2>4, <2>5
<1>3. S \in G
  <2> HIDE DEF G
  <2> QED
    BY <1>1, <1>2, SubsetInduction
<1> QED
  BY <1>3

\* One more index.
LEMMA SumMore ==
  ASSUME NEW S, IsFiniteSet(S), NEW f, NEW x, x \notin S, \A i \in S \cup {x} : f[i] \in Int
  PROVE  SumFunctionOnSet(f, S \cup {x}) = f[x] + SumFunctionOnSet(f, S)
<1>1. IsFiniteSet(S \cup {x})
  BY FS_AddElement
<1>2. (S \cup {x}) \ {x} = S
  OBVIOUS
<1> QED
  BY <1>1, <1>2, SumRestInt

\* The sums of two sets that share no index.
LEMMA SumOfBoth ==
  ASSUME NEW S, NEW U, IsFiniteSet(S), IsFiniteSet(U), S \cap U = {},
         NEW f, \A i \in S \cup U : f[i] \in Int
  PROVE  SumFunctionOnSet(f, S \cup U) = SumFunctionOnSet(f, S) + SumFunctionOnSet(f, U)
<1> DEFINE Both(s) == SumFunctionOnSet(f, S \cup s) = SumFunctionOnSet(f, S) + SumFunctionOnSet(f, s)
           G == {s \in SUBSET U : Both(s)}
<1>0. SumFunctionOnSet(f, S) \in Int
  BY SumInt
<1>1. {} \in G
  <2>1. S \cup {} = S
    OBVIOUS
  <2> QED
    BY <1>0, <2>1, SumEmpty
<1>2. ASSUME NEW s \in SUBSET U, s # {}, \A x \in s : s \ {x} \in G
      PROVE  s \in G
  <2>1. PICK x \in s : TRUE
    BY <1>2
  <2>2. IsFiniteSet(s) /\ IsFiniteSet(s \ {x}) /\ IsFiniteSet(S \cup s)
    BY FS_Subset, FS_Union
  <2>3. /\ SumFunctionOnSet(f, S \cup s) = f[x] + SumFunctionOnSet(f, (S \cup s) \ {x})
        /\ SumFunctionOnSet(f, s) = f[x] + SumFunctionOnSet(f, s \ {x})
    BY <2>2, SumRestInt
  <2>4. (S \cup s) \ {x} = S \cup (s \ {x})
    OBVIOUS
  <2>5. Both(s \ {x})
    BY <1>2
  <2>6. f[x] \in Int /\ SumFunctionOnSet(f, s \ {x}) \in Int
    BY <2>2, SumInt
  <2>7. f[x] + (SumFunctionOnSet(f, S) + SumFunctionOnSet(f, s \ {x}))
        = SumFunctionOnSet(f, S) + (f[x] + SumFunctionOnSet(f, s \ {x}))
    BY <1>0, <2>6, Exchange
  <2> QED
    BY <2>3, <2>4, <2>5, <2>7
<1>3. U \in G
  <2> HIDE DEF G
  <2> QED
    BY <1>1, <1>2, SubsetInduction
<1> QED
  BY <1>3
=============================================================================
