------------------------------- MODULE SumLemmas -------------------------------
(***************************************************************************)
(* Sums over finite sets, for the modules whose amounts are sums.  The     *)
(* community modules define a sum by a recursive function; that such a     *)
(* function exists, and what it computes, is derived here from the         *)
(* well-foundedness of the strict subsets of a finite set (WFMin), which   *)
(* is about sets and takes no operator.                                    *)
(***************************************************************************)
EXTENDS Integers, Functions, FiniteSetTheorems, WellFoundedInduction, TLAPS

Small(S, n) == {t \in SUBSET S : Cardinality(t) <= n}
First(t) == CHOOSE x \in t : TRUE
Rest(t) == t \ {First(t)}

(* g adds up f over the sets of D, one element after the other.            *)
Adds(g, f, D) == g = [t \in D |-> IF t = {} THEN 0 ELSE f[First(t)] + g[Rest(t)]]
Table(f, S) == CHOOSE g : Adds(g, f, SUBSET S)

-----------------------------------------------------------------------------
(* Induction, as the existence of a smallest counterexample. *)
LEMMA SmallestSet ==
  ASSUME NEW S, NEW T, T \subseteq FiniteSubsetsOf(S), T # {}
  PROVE  \E t \in T : \A u \in T : ~(u \subseteq t /\ u # t)
<1>1. PICK t \in T : \A u \in T : ~(<<u, t>> \in StrictSubsetOrdering(S))
  BY WFMin, FS_StrictSubsetOrderingWellFounded
<1>2. \A u \in T : u \in SUBSET S
  BY DEF FiniteSubsetsOf
<1>3. ASSUME NEW u \in T, u \subseteq t, u # t PROVE FALSE
  <2>1. <<u, t>> \in (SUBSET S) \X (SUBSET S)
    BY <1>2
  <2> QED
    BY <1>1, <1>3, <2>1 DEF StrictSubsetOrdering
<1> QED
  BY <1>3

LEMMA SetInduction ==
  ASSUME NEW S, IsFiniteSet(S), NEW Good,
         \A t \in SUBSET S : (\A u \in SUBSET t : u # t => u \in Good) => t \in Good
  PROVE  \A t \in SUBSET S : t \in Good
<1>1. SUFFICES ASSUME NEW t \in SUBSET S, t \notin Good PROVE FALSE
  OBVIOUS
<1> DEFINE Bad == {u \in SUBSET S : u \notin Good}
<1>2. Bad \subseteq FiniteSubsetsOf(S)
  BY FS_Subset DEF FiniteSubsetsOf
<1>3. Bad # {}
  BY <1>1
<1> HIDE DEF Bad
<1>4. PICK b \in Bad : \A u \in Bad : ~(u \subseteq b /\ u # b)
  BY <1>2, <1>3, SmallestSet
<1>5. b \in SUBSET S /\ b \notin Good
  BY DEF Bad
<1>6. \A u \in SUBSET b : u # b => u \in Good
  BY <1>4, <1>5 DEF Bad
<1> QED
  BY <1>5, <1>6

LEMMA Counting ==
  ASSUME NEW P, 0 \in P, \A n \in Nat : n \in P => n + 1 \in P
  PROVE  Nat \subseteq P
<1>1. SUFFICES ASSUME Nat \ P # {} PROVE FALSE
  OBVIOUS
<1>2. PICK n \in Nat \ P : \A m \in Nat \ P : ~(<<m, n>> \in OpToRel(<, Nat))
  BY <1>1, WFMin, NatLessThanWellFounded
<1>3. n # 0 /\ n - 1 \in Nat /\ n - 1 \notin P
  <2>1. n \in Nat /\ n \notin P /\ n # 0
    BY <1>2
  <2>2. n - 1 \in Nat /\ (n - 1) + 1 = n
    BY <2>1
  <2> QED
    BY <2>1, <2>2
<1>4. <<n - 1, n>> \in OpToRel(<, Nat)
  BY <1>3 DEF OpToRel
<1> QED
  BY <1>2, <1>3, <1>4

-----------------------------------------------------------------------------
(* The recursive function that computes a sum exists. *)
LEMMA FirstOf == ASSUME NEW t, t # {} PROVE First(t) \in t
  BY DEF First

LEMMA RestIsSmaller ==
  ASSUME NEW t, t # {}, IsFiniteSet(t)
  PROVE  /\ IsFiniteSet(Rest(t)) /\ Rest(t) \subseteq t /\ Rest(t) # t
         /\ Cardinality(Rest(t)) = Cardinality(t) - 1
  BY FirstOf, FS_RemoveElement DEF Rest

LEMMA AddsSome ==
  ASSUME NEW f, NEW S, IsFiniteSet(S)
  PROVE  \A n \in Nat : \E g : Adds(g, f, Small(S, n))
<1> DEFINE P == {n \in Nat : \E g : Adds(g, f, Small(S, n))}
<1>0. \A t \in SUBSET S : IsFiniteSet(t) /\ Cardinality(t) \in Nat
  BY FS_Subset, FS_CardinalityType
<1>1. 0 \in P
  <2> DEFINE g == [t \in Small(S, 0) |-> 0]
  <2>1. \A t \in Small(S, 0) : t = {}
    BY <1>0, FS_EmptySet DEF Small
  <2>2. g = [t \in Small(S, 0) |-> IF t = {} THEN 0 ELSE f[First(t)] + g[Rest(t)]]
    BY <2>1
  <2>3. Adds(g, f, Small(S, 0))
    BY <2>2 DEF Adds
  <2> QED
    BY <2>3
<1>2. ASSUME NEW n \in Nat, n \in P PROVE n + 1 \in P
  <2>1. PICK g : Adds(g, f, Small(S, n))
    BY <1>2
  <2> DEFINE h == [t \in Small(S, n + 1) |-> IF t = {} THEN 0 ELSE f[First(t)] + g[Rest(t)]]
  <2>2. ASSUME NEW t \in Small(S, n + 1), t # {} PROVE h[Rest(t)] = g[Rest(t)]
    <3>1. Rest(t) \in SUBSET S /\ Cardinality(Rest(t)) <= n
      BY <1>0, <2>2, RestIsSmaller DEF Small
    <3>2. Rest(t) \in Small(S, n) /\ Rest(t) \in Small(S, n + 1)
      BY <1>0, <3>1 DEF Small
    <3> QED
      BY <2>1, <3>2 DEF Adds
  <2>3. h = [t \in Small(S, n + 1) |-> IF t = {} THEN 0 ELSE f[First(t)] + h[Rest(t)]]
    BY <2>2
  <2>4. Adds(h, f, Small(S, n + 1))
    BY <2>3 DEF Adds
  <2> QED
    BY <2>4
<1> HIDE DEF P
<1>3. Nat \subseteq P
  BY <1>1, <1>2, Counting
<1> QED
  BY <1>3 DEF P

LEMMA TableAdds ==
  ASSUME NEW f, NEW S, IsFiniteSet(S)
  PROVE  \A t \in SUBSET S :
           Table(f, S)[t] = IF t = {} THEN 0 ELSE f[First(t)] + Table(f, S)[Rest(t)]
<1>1. Small(S, Cardinality(S)) = SUBSET S /\ Cardinality(S) \in Nat
  BY FS_Subset, FS_CardinalityType DEF Small
<1>2. \E g : Adds(g, f, SUBSET S)
  <2>1. \E g : Adds(g, f, Small(S, Cardinality(S)))
    BY <1>1, AddsSome
  <2> QED
    BY <1>1, <2>1
<1>3. Adds(Table(f, S), f, SUBSET S)
  BY <1>2 DEF Table
<1> HIDE DEF Table
<1> QED
  BY <1>3 DEF Adds

LEMMA SumIsTable == ASSUME NEW f, NEW S PROVE SumFunctionOnSet(f, S) = Table(f, S)[S]
  BY DEF SumFunctionOnSet, FoldFunctionOnSet, MapThenFoldSet, Table, Adds, First, Rest

(* The table of a set gives the sum of each of its subsets.                *)
LEMMA TableOfSubset ==
  ASSUME NEW f, NEW S, IsFiniteSet(S)
  PROVE  \A t \in SUBSET S : Table(f, S)[t] = SumFunctionOnSet(f, t)
<1> DEFINE Good == {t \in SUBSET S : \A A, B \in SUBSET S :
                      t \subseteq A /\ t \subseteq B => Table(f, A)[t] = Table(f, B)[t]}
<1>1. ASSUME NEW t \in SUBSET S, \A u \in SUBSET t : u # t => u \in Good
      PROVE  t \in Good
  <2>1. SUFFICES ASSUME NEW A \in SUBSET S, NEW B \in SUBSET S, t \subseteq A, t \subseteq B
                 PROVE  Table(f, A)[t] = Table(f, B)[t]
    OBVIOUS
  <2>2. IsFiniteSet(A) /\ IsFiniteSet(B) /\ IsFiniteSet(t)
    BY FS_Subset
  <2>3. /\ Table(f, A)[t] = IF t = {} THEN 0 ELSE f[First(t)] + Table(f, A)[Rest(t)]
        /\ Table(f, B)[t] = IF t = {} THEN 0 ELSE f[First(t)] + Table(f, B)[Rest(t)]
    BY <2>1, <2>2, TableAdds
  <2>4. CASE t = {}
    BY <2>3, <2>4
  <2>5. CASE t # {}
    <3>1. Rest(t) \in Good /\ Rest(t) \subseteq A /\ Rest(t) \subseteq B
      BY <1>1, <2>1, <2>2, <2>5, RestIsSmaller
    <3>2. Table(f, A)[Rest(t)] = Table(f, B)[Rest(t)]
      BY <3>1
    <3> QED
      BY <2>3, <2>5, <3>2
  <2> QED
    BY <2>4, <2>5
<1> HIDE DEF Good
<1>2. \A t \in SUBSET S : t \in Good
  BY <1>1, SetInduction
<1>3. ASSUME NEW t \in SUBSET S PROVE Table(f, S)[t] = Table(f, t)[t]
  BY <1>2 DEF Good
<1> QED
  BY <1>3, SumIsTable

-----------------------------------------------------------------------------
(* What a sum is. *)
LEMMA SumEmpty == ASSUME NEW f PROVE SumFunctionOnSet(f, {}) = 0
<1>1. Table(f, {})[{}] = 0
  BY TableAdds, FS_EmptySet
<1> QED
  BY <1>1, SumIsTable

LEMMA SumFirst ==
  ASSUME NEW f, NEW S, IsFiniteSet(S), S # {}
  PROVE  SumFunctionOnSet(f, S) = f[First(S)] + SumFunctionOnSet(f, Rest(S))
<1>1. Table(f, S)[S] = f[First(S)] + Table(f, S)[Rest(S)]
  BY TableAdds
<1>2. Rest(S) \in SUBSET S
  BY DEF Rest
<1> QED
  BY <1>1, <1>2, SumIsTable, TableOfSubset

(* A sum depends only on the values summed.                                *)
LEMMA SumEqual ==
  ASSUME NEW S, IsFiniteSet(S), NEW f, NEW g, \A x \in S : f[x] = g[x]
  PROVE  SumFunctionOnSet(f, S) = SumFunctionOnSet(g, S)
<1> DEFINE Good == {t \in SUBSET S : SumFunctionOnSet(f, t) = SumFunctionOnSet(g, t)}
<1>1. ASSUME NEW t \in SUBSET S, \A u \in SUBSET t : u # t => u \in Good
      PROVE  t \in Good
  <2>1. IsFiniteSet(t)
    BY FS_Subset
  <2>2. CASE t = {}
    BY <2>2, SumEmpty
  <2>3. CASE t # {}
    <3>1. Rest(t) \in Good /\ First(t) \in S
      BY <1>1, <2>1, <2>3, RestIsSmaller, FirstOf
    <3>2. /\ SumFunctionOnSet(f, t) = f[First(t)] + SumFunctionOnSet(f, Rest(t))
          /\ SumFunctionOnSet(g, t) = g[First(t)] + SumFunctionOnSet(g, Rest(t))
      BY <2>1, <2>3, SumFirst
    <3> QED
      BY <3>1, <3>2
  <2> QED
    BY <2>2, <2>3
<1> HIDE DEF Good
<1>2. S \in Good
  BY <1>1, SetInduction
<1> QED
  BY <1>2 DEF Good

LEMMA SumIn ==
  ASSUME NEW S, IsFiniteSet(S), NEW T, 0 \in T, \A m, n \in T : m + n \in T,
         NEW f, \A x \in S : f[x] \in T
  PROVE  SumFunctionOnSet(f, S) \in T
<1> DEFINE Good == {t \in SUBSET S : SumFunctionOnSet(f, t) \in T}
<1>1. ASSUME NEW t \in SUBSET S, \A u \in SUBSET t : u # t => u \in Good
      PROVE  t \in Good
  <2>1. IsFiniteSet(t)
    BY FS_Subset
  <2>2. CASE t = {}
    BY <2>2, SumEmpty
  <2>3. CASE t # {}
    <3>1. Rest(t) \in Good /\ First(t) \in S
      BY <1>1, <2>1, <2>3, RestIsSmaller, FirstOf
    <3>2. SumFunctionOnSet(f, t) = f[First(t)] + SumFunctionOnSet(f, Rest(t))
      BY <2>1, <2>3, SumFirst
    <3> QED
      BY <3>1, <3>2
  <2> QED
    BY <2>2, <2>3
<1> HIDE DEF Good
<1>2. S \in Good
  BY <1>1, SetInduction
<1> QED
  BY <1>2 DEF Good

LEMMA SumInt ==
  ASSUME NEW S, IsFiniteSet(S), NEW f, \A x \in S : f[x] \in Int
  PROVE  SumFunctionOnSet(f, S) \in Int
<1>1. 0 \in Int /\ \A m, n \in Int : m + n \in Int
  OBVIOUS
<1> QED
  BY <1>1, SumIn

LEMMA SumNat ==
  ASSUME NEW S, IsFiniteSet(S), NEW f, \A x \in S : f[x] \in Nat
  PROVE  SumFunctionOnSet(f, S) \in Nat
<1>1. 0 \in Nat /\ \A m, n \in Nat : m + n \in Nat
  OBVIOUS
<1> QED
  BY <1>1, SumIn

LEMMA SumZero ==
  ASSUME NEW S, IsFiniteSet(S), NEW f, \A x \in S : f[x] = 0
  PROVE  SumFunctionOnSet(f, S) = 0
<1>1. 0 \in {0} /\ (\A m, n \in {0} : m + n \in {0}) /\ \A x \in S : f[x] \in {0}
  OBVIOUS
<1>2. SumFunctionOnSet(f, S) \in {0}
  BY <1>1, SumIn
<1> QED
  BY <1>2

(* The order of the elements does not matter.                              *)
LEMMA SumRemove ==
  ASSUME NEW S, IsFiniteSet(S), NEW f, \A x \in S : f[x] \in Int, NEW x \in S
  PROVE  SumFunctionOnSet(f, S) = f[x] + SumFunctionOnSet(f, S \ {x})
<1> DEFINE Sum(t) == SumFunctionOnSet(f, t)
           Good == {t \in SUBSET S : \A y \in t : Sum(t) = f[y] + Sum(t \ {y})}
<1>0. \A t \in SUBSET S : IsFiniteSet(t) /\ Sum(t) \in Int
  BY FS_Subset, SumInt
<1>1. ASSUME NEW t \in SUBSET S, \A u \in SUBSET t : u # t => u \in Good
      PROVE  t \in Good
  <2>1. SUFFICES ASSUME NEW y \in t PROVE Sum(t) = f[y] + Sum(t \ {y})
    OBVIOUS
  <2>2. First(t) \in t /\ Rest(t) = t \ {First(t)}
    BY FirstOf DEF Rest
  <2>3. Sum(t) = f[First(t)] + Sum(Rest(t))
    BY <1>0, SumFirst
  <2>4. CASE y = First(t)
    BY <2>2, <2>3, <2>4
  <2>5. CASE y # First(t)
    <3> DEFINE p == First(t)
    <3>1. t \ {p} \in Good /\ t \ {y} \in Good /\ y \in t \ {p} /\ p \in t \ {y}
      BY <1>1, <2>2, <2>5
    <3>2. Sum(t \ {p}) = f[y] + Sum((t \ {p}) \ {y}) /\ Sum(t \ {y}) = f[p] + Sum((t \ {y}) \ {p})
      BY <3>1
    <3>3. (t \ {p}) \ {y} = (t \ {y}) \ {p}
      OBVIOUS
    <3>4. f[p] \in Int /\ f[y] \in Int /\ Sum((t \ {y}) \ {p}) \in Int
      BY <1>0, <2>2
    <3>5. Sum(t) = f[p] + Sum(t \ {p})
      BY <2>2, <2>3
    <3> HIDE DEF p, Sum
    <3>6. Sum(t) = f[p] + (f[y] + Sum((t \ {y}) \ {p})) /\ Sum(t \ {y}) = f[p] + Sum((t \ {y}) \ {p})
      BY <3>2, <3>3, <3>5
    <3>7. f[p] + (f[y] + Sum((t \ {y}) \ {p})) = f[y] + (f[p] + Sum((t \ {y}) \ {p}))
      BY <3>4
    <3> QED
      BY <3>6, <3>7
  <2> QED
    BY <2>4, <2>5
<1> HIDE DEF Good, Sum
<1>2. S \in Good
  BY <1>1, SetInduction
<1> QED
  BY <1>2 DEF Good, Sum

LEMMA SumAdd ==
  ASSUME NEW S, IsFiniteSet(S), NEW f, NEW x, x \notin S, \A y \in S \cup {x} : f[y] \in Int
  PROVE  SumFunctionOnSet(f, S \cup {x}) = f[x] + SumFunctionOnSet(f, S)
<1>1. IsFiniteSet(S \cup {x}) /\ x \in S \cup {x} /\ (S \cup {x}) \ {x} = S
  BY FS_AddElement
<1> QED
  BY <1>1, SumRemove

(* What x adds to the sum of f over S. *)
Share(f, S, x) == IF x \in S THEN f[x] ELSE 0

(* One element changes its value, enters or leaves. *)
LEMMA SumMoves ==
  ASSUME NEW S, IsFiniteSet(S), NEW f, NEW g, NEW x \in S,
         \A y \in S : f[y] \in Int /\ g[y] \in Int,
         \A y \in S : y # x => g[y] = f[y],
         NEW A \in SUBSET S, NEW B \in SUBSET S, A \ {x} = B \ {x}
  PROVE  /\ SumFunctionOnSet(f, A) \in Int /\ SumFunctionOnSet(g, B) \in Int
         /\ SumFunctionOnSet(g, B) = SumFunctionOnSet(f, A)
              + Share(g, B, x) - Share(f, A, x)
<1> DEFINE rest == SumFunctionOnSet(f, A \ {x})
<1>1. IsFiniteSet(A) /\ IsFiniteSet(B) /\ IsFiniteSet(A \ {x})
  BY FS_Subset
<1>2. rest \in Int /\ SumFunctionOnSet(g, B \ {x}) = rest
  BY <1>1, SumInt, SumEqual
<1>3. SumFunctionOnSet(f, A) = (IF x \in A THEN f[x] ELSE 0) + rest
  <2>1. CASE x \in A
    <3>1. \A y \in A : f[y] \in Int
      OBVIOUS
    <3> QED
      BY <1>1, <2>1, <3>1, SumRemove
  <2>2. CASE x \notin A
    <3>1. A \ {x} = A
      BY <2>2
    <3> QED
      BY <1>2, <2>2, <3>1
  <2> QED
    BY <2>1, <2>2
<1>4. SumFunctionOnSet(g, B) = (IF x \in B THEN g[x] ELSE 0) + rest
  <2>1. CASE x \in B
    <3>1. \A y \in B : g[y] \in Int
      OBVIOUS
    <3>2. SumFunctionOnSet(g, B) = g[x] + SumFunctionOnSet(g, B \ {x})
      BY <1>1, <2>1, <3>1, SumRemove
    <3> QED
      BY <1>2, <2>1, <3>2
  <2>2. CASE x \notin B
    <3>1. B \ {x} = B
      BY <2>2
    <3>2. SumFunctionOnSet(g, B) = rest
      BY <1>2, <3>1
    <3> HIDE DEF rest
    <3> QED
      BY <1>2, <2>2, <3>2
  <2> QED
    BY <2>1, <2>2
<1>5. Share(f, A, x) \in Int /\ Share(g, B, x) \in Int
  BY DEF Share
<1>6. SumFunctionOnSet(f, A) = Share(f, A, x) + rest /\ SumFunctionOnSet(g, B) = Share(g, B, x) + rest
  BY <1>3, <1>4 DEF Share
<1> HIDE DEF rest
<1> QED
  BY <1>2, <1>5, <1>6

(* A set and what is left of a larger one. *)
LEMMA SumSplit ==
  ASSUME NEW S, IsFiniteSet(S), NEW f, \A x \in S : f[x] \in Int, NEW A \in SUBSET S
  PROVE  SumFunctionOnSet(f, S) = SumFunctionOnSet(f, A) + SumFunctionOnSet(f, S \ A)
<1> DEFINE Sum(t) == SumFunctionOnSet(f, t)
           Good == {t \in SUBSET S : Sum(S) = Sum(t) + Sum(S \ t)}
<1>0. \A t \in SUBSET S : IsFiniteSet(t) /\ Sum(t) \in Int
  BY FS_Subset, SumInt
<1>1. ASSUME NEW t \in SUBSET S, \A u \in SUBSET t : u # t => u \in Good
      PROVE  t \in Good
  <2>1. CASE t = {}
    <3>1. S \ t = S /\ Sum(t) = 0 /\ Sum(S) \in Int
      BY <1>0, <2>1, SumEmpty
    <3>2. Sum(S \ t) = Sum(S)
      BY <3>1
    <3> HIDE DEF Sum
    <3>3. Sum(S) = Sum(t) + Sum(S \ t)
      BY <3>1, <3>2
    <3> QED
      BY <3>3
  <2>2. CASE t # {}
    <3>1. PICK x \in t : TRUE
      BY <2>2
    <3> DEFINE u == t \ {x}
    <3>2. u \in Good /\ (S \ u) \ {x} = S \ t /\ x \in S \ u
      BY <1>1, <3>1
    <3>3. Sum(t) = f[x] + Sum(u)
      BY <1>0, SumRemove
    <3>4. Sum(S \ u) = f[x] + Sum((S \ u) \ {x})
      <4>1. IsFiniteSet(S \ u) /\ x \in S \ u /\ \A y \in S \ u : f[y] \in Int
        BY <1>0, <3>2
      <4> HIDE DEF u
      <4> QED
        BY <4>1, SumRemove
    <3>5. Sum(S) = Sum(u) + Sum(S \ u)
      BY <3>2
    <3>6. f[x] \in Int /\ Sum(u) \in Int /\ Sum(S \ t) \in Int
      BY <1>0
    <3> HIDE DEF u, Sum
    <3>7. Sum(S \ u) = f[x] + Sum(S \ t)
      BY <3>2, <3>4
    <3>8. Sum(S) = Sum(t) + Sum(S \ t)
      BY <3>3, <3>5, <3>6, <3>7
    <3> QED
      BY <3>8
  <2> QED
    BY <2>1, <2>2
<1> HIDE DEF Good
<1>2. A \in Good
  BY <1>1, SetInduction
<1> QED
  BY <1>2 DEF Good

(* Sums of natural numbers grow with the set. *)
LEMMA SumGrows ==
  ASSUME NEW S, IsFiniteSet(S), NEW f, \A x \in S : f[x] \in Nat, NEW A \in SUBSET S
  PROVE  SumFunctionOnSet(f, A) <= SumFunctionOnSet(f, S)
<1>1. SumFunctionOnSet(f, A) \in Nat /\ SumFunctionOnSet(f, S \ A) \in Nat
  BY FS_Subset, SumNat
<1>2. SumFunctionOnSet(f, S) = SumFunctionOnSet(f, A) + SumFunctionOnSet(f, S \ A)
  BY SumSplit
<1> QED
  BY <1>1, <1>2
=============================================================================
