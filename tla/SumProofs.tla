------------------------------ MODULE SumProofs ------------------------------
(***************************************************************************)
(* Induction, and sums over finite sets (SumFunctionOnSet of the community *)
(* modules), for the proofs about the control stream, the scheduler and    *)
(* the examples.                                                           *)
(* The library's theorems of induction have an operator as a parameter;    *)
(* those here have sets.                                                   *)
(***************************************************************************)
EXTENDS Integers, FiniteSets, Functions, FiniteSetTheorems, WellFoundedInduction, TLAPS

\* A set of numbers has a least one.
LEMMA Least ==
    ASSUME NEW T \in SUBSET Nat, T # {}
    PROVE  \E x \in T : \A y \in T : x <= y
<1>1. PICK x \in T : \A y \in T : ~ (<<y, x>> \in OpToRel(<, Nat))
  BY NatLessThanWellFounded, WFMin
<1>2. \A y \in T : ~ (y < x)
  BY <1>1 DEF OpToRel
<1> QED
  BY <1>2

\* A set that has 0, and with a number the next one up to n, has them all.
LEMMA Induction ==
    ASSUME NEW n \in Nat, NEW T, 0 \in T, \A i \in 1 .. n : i - 1 \in T => i \in T
    PROVE  0 .. n \subseteq T
<1> DEFINE B == (0 .. n) \ T
<1> SUFFICES ASSUME B # {} PROVE FALSE
  OBVIOUS
<1>1. PICK x \in B : \A y \in B : x <= y
  <2>1. B \in SUBSET Nat
    OBVIOUS
  <2> HIDE DEF B
  <2> QED
    BY <2>1, Least
<1>2. x \in 1 .. n /\ x \notin T
  BY <1>1
<1>3. x - 1 \notin B
  BY <1>1, <1>2
<1> QED
  BY <1>2, <1>3

-----------------------------------------------------------------------------
(* A sum counts the pairs of an index x and a number from 1 to f[x]. *)

Pairs(f, s) == UNION {{x} \X (1 .. f[x]) : x \in s}

LEMMA PairsFacts ==
    ASSUME NEW f, NEW s, IsFiniteSet(s), \A x \in s : f[x] \in Nat
    PROVE  /\ IsFiniteSet(Pairs(f, s))
           /\ \A x \in s : Cardinality(Pairs(f, s)) = f[x] + Cardinality(Pairs(f, s \ {x}))
<1>1. ASSUME NEW t \in SUBSET s PROVE IsFiniteSet(Pairs(f, t))
  <2> DEFINE g == [x \in t |-> {x} \X (1 .. f[x])]
             R == {{x} \X (1 .. f[x]) : x \in t}
  <2>1. g \in Surjection(t, R)
    BY DEF Surjection
  <2>2. ASSUME NEW x \in t PROVE IsFiniteSet({x} \X (1 .. f[x]))
    <3>1. IsFiniteSet(1 .. f[x])
      BY FS_Interval
    <3>2. IsFiniteSet({x})
      BY FS_Singleton
    <3> QED
      BY <3>1, <3>2, FS_Product
  <2>6. \A u \in R : IsFiniteSet(u)
    BY <2>2
  <2>3. IsFiniteSet(t)
    BY FS_Subset
  <2> HIDE DEF g, R
  <2>4. IsFiniteSet(R)
    BY <2>1, <2>3, FS_Surjection
  <2>5. IsFiniteSet(UNION R)
    BY <2>4, <2>6, FS_UNION
  <2> QED
    BY <2>5 DEF Pairs, R
<1>2. ASSUME NEW x \in s
      PROVE  Cardinality(Pairs(f, s)) = f[x] + Cardinality(Pairs(f, s \ {x}))
  <2> DEFINE A == {x} \X (1 .. f[x])
             B == Pairs(f, s \ {x})
  <2>1. Pairs(f, s) = A \cup B /\ A \cap B = {}
    BY DEF Pairs
  <2>2. IsFiniteSet(A) /\ Cardinality(A) = f[x]
    <3>1. IsFiniteSet(1 .. f[x]) /\ Cardinality(1 .. f[x]) = f[x]
      BY FS_Interval
    <3>2. IsFiniteSet({x}) /\ Cardinality({x}) = 1
      BY FS_Singleton
    <3>3. IsFiniteSet(A) /\ Cardinality(A) = Cardinality({x}) * Cardinality(1 .. f[x])
      BY <3>1, <3>2, FS_Product
    <3> QED
      BY <3>1, <3>2, <3>3
  <2>3. IsFiniteSet(B)
    BY <1>1
  <2> HIDE DEF A, B
  <2>4. Cardinality(A \cup B) = Cardinality(A) + Cardinality(B) - Cardinality(A \cap B)
    BY <2>2, <2>3, FS_Union
  <2>5. Cardinality(A \cap B) = 0 /\ Cardinality(B) \in Nat
    BY <2>1, <2>3, FS_EmptySet, FS_CardinalityType
  <2>6. Cardinality(A \cup B) = f[x] + Cardinality(B)
    BY <2>2, <2>4, <2>5
  <2> QED
    BY <2>1, <2>6 DEF B
<1> QED
  BY <1>1, <1>2

LEMMA SumIsCount ==
    ASSUME NEW f, NEW S, IsFiniteSet(S), \A x \in S : f[x] \in Nat
    PROVE  SumFunctionOnSet(f, S) = Cardinality(Pairs(f, S))
<1> DEFINE Pick(s) == CHOOSE x \in s : TRUE
           Def(h) == [s \in SUBSET S |-> IF s = {} THEN 0
                                         ELSE f[Pick(s)] + h[s \ {Pick(s)}]]
           count == [s \in SUBSET S |-> Cardinality(Pairs(f, s))]
<1>1. ASSUME NEW s \in SUBSET S, s # {} PROVE Pick(s) \in s
  BY <1>1
<1> HIDE DEF Pick
<1>2. Cardinality(Pairs(f, {})) = 0
  <2>1. Pairs(f, {}) = {}
    BY DEF Pairs
  <2> QED
    BY <2>1, FS_EmptySet
<1>3. ASSUME NEW s \in SUBSET S, s # {}
      PROVE  count[s] = f[Pick(s)] + count[s \ {Pick(s)}]
  <2>1. IsFiniteSet(s)
    BY FS_Subset
  <2>2. Cardinality(Pairs(f, s)) = f[Pick(s)] + Cardinality(Pairs(f, s \ {Pick(s)}))
    BY <1>1, <1>3, <2>1, PairsFacts
  <2> QED
    BY <2>2
<1>4. count = Def(count)
  BY <1>2, <1>3
<1>5. PICK iter : /\ iter = Def(iter)
                  /\ SumFunctionOnSet(f, S) = iter[S]
  <2> DEFINE iter == CHOOSE h : h = Def(h)
  <2>1. iter = Def(iter)
    BY <1>4
  <2>2. SumFunctionOnSet(f, S) = iter[S]
    BY DEF SumFunctionOnSet, FoldFunctionOnSet, MapThenFoldSet, Pick
  <2> HIDE DEF iter
  <2> QED
    BY <2>1, <2>2
<1>6. ASSUME NEW s \in SUBSET S PROVE iter[s] = count[s]
  <2> DEFINE Wrong == {t \in SUBSET S : iter[t] # count[t]}
             Sizes == {Cardinality(t) : t \in Wrong}
  <2> SUFFICES ASSUME s \in Wrong PROVE FALSE
    OBVIOUS
  <2>1. \A t \in SUBSET S : IsFiniteSet(t) /\ Cardinality(t) \in Nat
    BY FS_Subset, FS_CardinalityType
  <2>2. Sizes \in SUBSET Nat /\ Sizes # {}
    BY <2>1
  <2>3. PICK n \in Sizes : \A m \in Sizes : n <= m
    <3> HIDE DEF Sizes
    <3> QED
      BY <2>2, Least
  <2>4. PICK t \in Wrong : \A u \in Wrong : Cardinality(t) <= Cardinality(u)
    BY <2>3
  <2>5. t # {}
    <3>1. iter[{}] = 0 /\ count[{}] = 0
      BY <1>2, <1>5
    <3> QED
      BY <3>1
  <2> DEFINE u == t \ {Pick(t)}
  <2>6. u \in SUBSET S /\ Cardinality(u) = Cardinality(t) - 1
    BY <1>1, <2>1, <2>5, FS_RemoveElement
  <2>7. u \notin Wrong
    <3>1. Cardinality(t) \in Nat
      BY <2>1
    <3>2. ~ (Cardinality(t) <= Cardinality(u))
      BY <2>6, <3>1
    <3> QED
      BY <2>4, <3>2
  <2>8. iter[t] = f[Pick(t)] + iter[u]
    BY <1>5, <2>5
  <2>9. count[t] = f[Pick(t)] + count[u]
    BY <1>3, <2>5
  <2> QED
    BY <2>6, <2>7, <2>8, <2>9
<1> QED
  BY <1>5, <1>6

\* The sum over no indices, and over one index more.
LEMMA SumFacts ==
    ASSUME NEW f, NEW S, IsFiniteSet(S), \A x \in S : f[x] \in Nat
    PROVE  /\ SumFunctionOnSet(f, S) \in Nat
           /\ S = {} => SumFunctionOnSet(f, S) = 0
           /\ \A x \in S : SumFunctionOnSet(f, S) = f[x] + SumFunctionOnSet(f, S \ {x})
<1>1. SumFunctionOnSet(f, S) = Cardinality(Pairs(f, S))
  BY SumIsCount
<1>2. ASSUME NEW x \in S
      PROVE  SumFunctionOnSet(f, S \ {x}) = Cardinality(Pairs(f, S \ {x}))
  <2>1. IsFiniteSet(S \ {x}) /\ \A y \in S \ {x} : f[y] \in Nat
    BY FS_RemoveElement
  <2> QED
    BY <2>1, SumIsCount
<1>3. S = {} => Pairs(f, S) = {}
  BY DEF Pairs
<1>4. Cardinality(Pairs(f, S)) \in Nat
  BY PairsFacts, FS_CardinalityType
<1> QED
  BY <1>1, <1>2, <1>3, <1>4, PairsFacts, FS_EmptySet

\* The sum depends only on the values at the indices.
LEMMA SumSame ==
    ASSUME NEW f, NEW g, NEW S, IsFiniteSet(S), \A x \in S : f[x] \in Nat /\ g[x] = f[x]
    PROVE  SumFunctionOnSet(g, S) = SumFunctionOnSet(f, S)
<1>1. Pairs(g, S) = Pairs(f, S)
  BY DEF Pairs
<1>2. \A x \in S : f[x] \in Nat
  OBVIOUS
<1>3. \A x \in S : g[x] \in Nat
  OBVIOUS
<1>4. SumFunctionOnSet(f, S) = Cardinality(Pairs(f, S))
  BY <1>2, SumIsCount
<1>5. SumFunctionOnSet(g, S) = Cardinality(Pairs(g, S))
  BY <1>3, SumIsCount
<1> QED
  BY <1>1, <1>4, <1>5

\* A sum in which only the value at x changes.
LEMMA SumChange ==
    ASSUME NEW f, NEW g, NEW S, IsFiniteSet(S), NEW x \in S,
           \A y \in S : f[y] \in Nat /\ g[y] \in Nat /\ (y # x => g[y] = f[y])
    PROVE  SumFunctionOnSet(g, S) = SumFunctionOnSet(f, S) - f[x] + g[x]
<1> PICK rest : rest = SumFunctionOnSet(f, S \ {x})
  OBVIOUS
<1>1. IsFiniteSet(S \ {x})
  BY FS_RemoveElement
<1>2. SumFunctionOnSet(g, S \ {x}) = rest /\ rest \in Nat
  <2>1. \A y \in S \ {x} : f[y] \in Nat /\ g[y] = f[y]
    OBVIOUS
  <2>2. \A y \in S \ {x} : f[y] \in Nat
    OBVIOUS
  <2> QED
    BY <1>1, <2>1, <2>2, SumSame, SumFacts
<1>3. (\A y \in S : f[y] \in Nat) /\ (\A y \in S : g[y] \in Nat)
  OBVIOUS
<1>4. SumFunctionOnSet(f, S) = f[x] + rest
  BY <1>3, SumFacts
<1>5. SumFunctionOnSet(g, S) = g[x] + SumFunctionOnSet(g, S \ {x})
  BY <1>3, SumFacts
<1> QED
  BY <1>2, <1>3, <1>4, <1>5
=============================================================================
