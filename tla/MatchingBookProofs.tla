------------------------- MODULE MatchingBookProofs --------------------------
(***************************************************************************)
(* Proofs about the book the matching engine keeps in its memory, for any  *)
(* pool, prices, quantities and sequence of calls: the counter of a price  *)
(* level is the sum over its orders, the cached best prices are exact,     *)
(* nothing is gained or lost in matching, no block leaves the pool, every  *)
(* list is in the order of arrival, and all this together implements the   *)
(* price-time priority book.                                               *)
(*                                                                         *)
(* It rests on the memory proofs; the new part is to add up: sums over     *)
(* finite sets come first, then the book.                                  *)
(***************************************************************************)
EXTENDS MatchingEngineProofs, FiniteSetTheorems

\* The first-order prover, unless a step names another.
USE Zenon

------------------------------------------------------------------------------
(* Sums over finite sets                                                    *)

\* The element that is taken away first.
First(S) == CHOOSE x \in S : TRUE

\* it is the sum of f over each of the sets in D.
Sums(it, f, D) ==
    it = [S \in D |-> IF S = {} THEN 0 ELSE f[First(S)] + it[S \ {First(S)}]]

Parts(S) == SUBSET S
SameOn(f, g, S) == \A x \in S : f[x] = g[x]
Unfolds(it, f, S) == S # {} => it[S] = f[First(S)] + it[S \ {First(S)}]

------------------------------------------------------------------------------
(* Least elements                                                           *)

\* A nonempty collection of subsets of a finite set has a minimal one.
LEMMA LeastSubset ==
    ASSUME NEW S, IsFiniteSet(S), NEW B, B \subseteq SUBSET S, B # {}
    PROVE  \E T \in B : \A U \in B : U \subseteq T => U = T
<1>1. FiniteSubsetsOf(S) = SUBSET S
  BY FS_FiniteSubsetsOfFinite
<1>2. IsWellFoundedOn(StrictSubsetOrdering(S), SUBSET S)
  BY <1>1, FS_StrictSubsetOrderingWellFounded
<1>3. PICK T \in B : \A U \in B : ~ (<<U, T>> \in StrictSubsetOrdering(S))
  BY <1>2, WFMin
<1>4. ASSUME NEW U \in B, U \subseteq T, U # T PROVE FALSE
  <2>1. <<U, T>> \in StrictSubsetOrdering(S)
    BY SMT, <1>4 DEF StrictSubsetOrdering
  <2>. QED
    BY <1>3, <2>1
<1>. QED
  BY <1>4

------------------------------------------------------------------------------
(* The definition                                                           *)

\* The first element is one of the set.
LEMMA FirstIn ==
    ASSUME NEW S, S # {}
    PROVE  First(S) \in S /\ S = (S \ {First(S)}) \cup {First(S)}
<1>1. First(S) \in S
  BY DEF First
<1>. QED
  BY SMT, <1>1

\* What a sum over sets gives.
LEMMA SumsValue ==
    ASSUME NEW it, NEW f, NEW D, Sums(it, f, D)
    PROVE  \A S \in D : /\ S = {} => it[S] = 0
                        /\ S # {} => it[S] = f[First(S)] + it[S \ {First(S)}]
BY DEF Sums

\* The same, in one word.
LEMMA SumsUnfold ==
    ASSUME NEW it, NEW f, NEW D, Sums(it, f, D), NEW S \in D
    PROVE  Unfolds(it, f, S)
BY DEF Sums, Unfolds

\* There is such a function: on the sets of at most n elements for every n.
LEMMA SumsExist ==
    ASSUME NEW f, NEW S, IsFiniteSet(S)
    PROVE  \E it : Sums(it, f, Parts(S))
<1>. DEFINE D(n) == {T \in SUBSET S : Cardinality(T) <= n}
            B == {n \in Nat : ~ \E it : Sums(it, f, D(n))}
<1>1. ASSUME NEW T \in SUBSET S, T # {}
      PROVE  /\ Cardinality(T) \in Nat \ {0}
             /\ T \ {First(T)} \in SUBSET S
             /\ Cardinality(T \ {First(T)}) = Cardinality(T) - 1
  <2>1. IsFiniteSet(T)
    BY FS_Subset
  <2>. USE <2>1
  <2>2. First(T) \in T
    BY <1>1, FirstIn
  <2>3. Cardinality(T \ {First(T)}) = Cardinality(T) - 1
    BY SMT, <2>2, FS_RemoveElement
  <2>4. Cardinality(T) \in Nat /\ Cardinality(T) # 0
    BY <1>1, FS_CardinalityType, FS_EmptySet
  <2>. QED
    BY SMT, <2>3, <2>4
<1>2. B = {}
  <2>1. SUFFICES ASSUME B # {} PROVE FALSE
    OBVIOUS
  <2>2. B \subseteq Nat
    BY SMT
  <2>3. PICK n \in B : \A m \in B : n <= m
    <3>. HIDE DEF B
    <3>. QED
      BY <2>1, <2>2, LeastNatural
  <2>4. n \in Nat /\ ~ \E it : Sums(it, f, D(n))
    BY <2>3
  <2>5. CASE n = 0
    <3>1. PICK it : it = [T \in D(n) |-> 0]
      OBVIOUS
    <3>2. ASSUME NEW T \in D(n) PROVE T = {}
      <4>1. T \in SUBSET S /\ Cardinality(T) <= 0
        BY <2>5
      <4>. USE <4>1
      <4>2. T # {} => Cardinality(T) \in Nat \ {0}
        BY <1>1
      <4>. QED
        BY SMT, <4>2
    <3>3. it = [T \in D(n) |-> IF T = {} THEN 0 ELSE f[First(T)] + it[T \ {First(T)}]]
      <4>. HIDE DEF D
      <4>. QED
        BY SMT, <3>1, <3>2
    <3>. QED
      BY <2>4, <3>3 DEF Sums
  <2>6. CASE n # 0
    <3>1. n - 1 \in Nat /\ n - 1 \notin B
      <4>. HIDE DEF B
      <4>. QED
        BY SMT, <2>3, <2>4, <2>6
    <3>2. PICK g : Sums(g, f, D(n - 1))
      BY <3>1
    <3>3. PICK h : h = [T \in D(n) |-> IF T = {} THEN 0 ELSE f[First(T)] + g[T \ {First(T)}]]
      OBVIOUS
    <3>4. ASSUME NEW T \in D(n), T # {} PROVE h[T \ {First(T)}] = g[T \ {First(T)}]
      <4>1. PICK r : r = T \ {First(T)}
        OBVIOUS
      <4>. USE <4>1
      <4>2. r \in D(n) /\ r \in D(n - 1)
        BY SMT, <1>1, <2>4, <3>1, <3>4
      <4>. USE <4>2
      <4>3. h[r] = IF r = {} THEN 0 ELSE f[First(r)] + g[r \ {First(r)}]
        BY <3>3
      <4>4. /\ r = {} => g[r] = 0
            /\ r # {} => g[r] = f[First(r)] + g[r \ {First(r)}]
        <5>. HIDE DEF D
        <5>1. \A R \in D(n - 1) : /\ R = {} => g[R] = 0
                                  /\ R # {} => g[R] = f[First(R)] + g[R \ {First(R)}]
          BY <3>2 DEF Sums
        <5>. QED
          BY <5>1
      <4>. QED
        BY <4>3, <4>4
    <3>5. h = [T \in D(n) |-> IF T = {} THEN 0 ELSE f[First(T)] + h[T \ {First(T)}]]
      <4>. HIDE DEF D
      <4>. QED
        BY <3>3, <3>4
    <3>. QED
      BY <2>4, <3>5 DEF Sums
  <2>. QED
    BY <2>5, <2>6
<1>3. Cardinality(S) \in Nat
  BY FS_CardinalityType
<1>4. D(Cardinality(S)) = Parts(S)
  BY SMT, FS_Subset DEF Parts
<1>5. \E it : Sums(it, f, D(Cardinality(S)))
  <2>. HIDE DEF D
  <2>. QED
    BY <1>2, <1>3
<1>. QED
  <2>. HIDE DEF D
  <2>. QED
    BY <1>4, <1>5

\* And they agree where their functions and sets do.
LEMMA SumsAgree ==
    ASSUME NEW S, NEW T \in Parts(S), IsFiniteSet(S), NEW f, NEW g, SameOn(f, g, T),
           NEW it, Sums(it, f, Parts(S)), NEW jt, Sums(jt, g, Parts(T))
    PROVE  SameOn(it, jt, {T})
<1>. DEFINE B == {U \in SUBSET T : it[U] # jt[U]}
<1>1. SUFFICES ASSUME B # {} PROVE FALSE
  <2>1. SUFFICES it[T] = jt[T]
    BY DEF SameOn
  <2>. QED
    OBVIOUS
<1>2. IsFiniteSet(T) /\ B \subseteq SUBSET T
  BY SMT, FS_Subset DEF Parts
<1>3. PICK U \in B : \A V \in B : V \subseteq U => V = U
  <2>. HIDE DEF B
  <2>. QED
    BY SMT, <1>1, <1>2, LeastSubset
<1>4. U \in SUBSET T /\ U \in Parts(T) /\ U \in Parts(S) /\ it[U] # jt[U]
  BY <1>3 DEF Parts
<1>. USE <1>4
<1>5. U # {}
  BY SumsValue
<1>6. PICK x, V : x \in U /\ x = First(U) /\ V = U \ {x}
  BY <1>5, FirstIn
<1>. USE <1>6
<1>7. V \subseteq U /\ V # U /\ V \in SUBSET T
  BY SMT
<1>8. it[V] = jt[V]
  BY <1>3, <1>7
<1>9. it[U] = f[x] + it[V] /\ jt[U] = g[x] + jt[V]
  <2>1. Unfolds(it, f, U) /\ Unfolds(jt, g, U)
    BY SumsUnfold
  <2>. QED
    BY <1>5, <2>1 DEF Unfolds
<1>10. f[x] = g[x]
  BY SMT DEF SameOn
<1>. QED
  BY <1>8, <1>9, <1>10

------------------------------------------------------------------------------
(* What the sum over a set is                                               *)

\* The sum over a subset is one value of the function that sums over all.
LEMMA SumOfSubset ==
    ASSUME NEW S, NEW T \in Parts(S), IsFiniteSet(S), NEW f, NEW it, Sums(it, f, Parts(S))
    PROVE  SumFunctionOnSet(f, T) = it[T]
<1>1. IsFiniteSet(T)
  BY SMT, FS_Subset DEF Parts
<1>2. PICK jt : jt = CHOOSE kt : Sums(kt, f, Parts(T))
  OBVIOUS
<1>3. Sums(jt, f, Parts(T))
  BY <1>1, <1>2, SumsExist
<1>4. SumFunctionOnSet(f, T) = jt[T]
  BY SMT, <1>2 DEF SumFunctionOnSet, FoldFunctionOnSet, MapThenFoldSet, Sums, First, Parts
<1>5. SameOn(f, f, T)
  BY SMT DEF SameOn
<1>6. SameOn(it, jt, {T})
  BY <1>3, <1>5, SumsAgree
<1>. QED
  BY <1>4, <1>6 DEF SameOn

\* The sum over nothing.
LEMMA SumEmpty ==
    ASSUME NEW f
    PROVE  SumFunctionOnSet(f, {}) = 0
<1>1. IsFiniteSet({}) /\ {} \in Parts({})
  BY SMT, FS_EmptySet DEF Parts
<1>. USE <1>1
<1>2. PICK it : Sums(it, f, Parts({}))
  BY SumsExist
<1>. USE <1>2
<1>3. it[{}] = 0
  BY SumsValue
<1>4. SumFunctionOnSet(f, {}) = it[{}]
  BY SumOfSubset
<1>. QED
  BY <1>3, <1>4

\* The first element is added to the sum of the others.
LEMMA SumFirst ==
    ASSUME NEW S, IsFiniteSet(S), S # {}, NEW f
    PROVE  SumFunctionOnSet(f, S) = f[First(S)] + SumFunctionOnSet(f, S \ {First(S)})
<1>1. PICK it : Sums(it, f, Parts(S))
  BY SumsExist
<1>. USE <1>1
<1>2. S \in Parts(S) /\ S \ {First(S)} \in Parts(S)
  BY SMT DEF Parts
<1>. USE <1>2
<1>3. it[S] = f[First(S)] + it[S \ {First(S)}]
  <2>1. Unfolds(it, f, S)
    BY SumsUnfold
  <2>. QED
    BY <2>1 DEF Unfolds
<1>. QED
  BY <1>3, SumOfSubset

\* The sum depends on the values in the set only.
LEMMA SumSame ==
    ASSUME NEW S, IsFiniteSet(S), NEW f, NEW g, \A x \in S : f[x] = g[x]
    PROVE  SumFunctionOnSet(f, S) = SumFunctionOnSet(g, S)
<1>1. PICK it, jt : Sums(it, f, Parts(S)) /\ Sums(jt, g, Parts(S))
  BY SumsExist
<1>. USE <1>1
<1>2. S \in Parts(S) /\ SameOn(f, g, S)
  BY SMT DEF Parts, SameOn
<1>. USE <1>2
<1>3. SameOn(it, jt, {S})
  BY SumsAgree
<1>4. SumFunctionOnSet(f, S) = it[S]
  BY SumOfSubset
<1>5. SumFunctionOnSet(g, S) = jt[S]
  BY SumOfSubset
<1>. QED
  BY <1>3, <1>4, <1>5 DEF SameOn

\* Sums of integers are integers.
LEMMA SumInt ==
    ASSUME NEW S, IsFiniteSet(S), NEW f, \A x \in S : f[x] \in Int
    PROVE  \A T \in SUBSET S : SumFunctionOnSet(f, T) \in Int
<1>. DEFINE B == {T \in SUBSET S : SumFunctionOnSet(f, T) \notin Int}
<1>1. SUFFICES ASSUME B # {} PROVE FALSE
  OBVIOUS
<1>2. PICK T \in B : \A U \in B : U \subseteq T => U = T
  <2>1. B \subseteq SUBSET S
    OBVIOUS
  <2>. HIDE DEF B
  <2>. QED
    BY SMT, <1>1, <2>1, LeastSubset
<1>3. T \in SUBSET S /\ SumFunctionOnSet(f, T) \notin Int /\ IsFiniteSet(T)
  BY <1>2, FS_Subset
<1>. USE <1>3
<1>4. T # {}
  <2>1. 0 \in Int
    BY SMT
  <2>. QED
    BY <2>1, SumEmpty
<1>5. PICK x, U : x \in T /\ x = First(T) /\ U = T \ {x}
  BY <1>4, FirstIn
<1>. USE <1>5
<1>6. U \subseteq T /\ U # T /\ U \in SUBSET S /\ f[x] \in Int
  BY SMT
<1>. USE <1>6
<1>7. SumFunctionOnSet(f, U) \in Int
  BY <1>2
<1>8. SumFunctionOnSet(f, T) = f[x] + SumFunctionOnSet(f, U)
  BY <1>4, SumFirst
<1>. QED
  BY SMT, <1>7, <1>8

\* The order does not matter: any element is added to the sum of the others.
LEMMA SumRemove ==
    ASSUME NEW S, IsFiniteSet(S), NEW f, \A x \in S : f[x] \in Int
    PROVE  \A T \in SUBSET S : \A x \in T :
              SumFunctionOnSet(f, T) = f[x] + SumFunctionOnSet(f, T \ {x})
<1>. DEFINE Sum(T) == SumFunctionOnSet(f, T)
            B == {T \in SUBSET S : \E x \in T : Sum(T) # f[x] + Sum(T \ {x})}
<1>1. SUFFICES ASSUME B # {} PROVE FALSE
  <2>1. SUFFICES \A T \in SUBSET S : \A x \in T : Sum(T) = f[x] + Sum(T \ {x})
    OBVIOUS
  <2>. HIDE DEF Sum
  <2>. QED
    BY <1>1
<1>2. PICK T \in B : \A U \in B : U \subseteq T => U = T
  <2>1. B \subseteq SUBSET S
    <3>. HIDE DEF Sum
    <3>. QED
      OBVIOUS
  <2>. HIDE DEF B
  <2>. QED
    BY SMT, <1>1, <2>1, LeastSubset
<1>3. PICK x \in T : Sum(T) # f[x] + Sum(T \ {x})
  <2>. HIDE DEF Sum
  <2>. QED
    BY <1>2
<1>4. T \in SUBSET S /\ IsFiniteSet(T) /\ T # {} /\ IsFiniteSet(T \ {x})
  <2>1. T \in SUBSET S
    <3>. HIDE DEF Sum
    <3>. QED
      BY <1>2
  <2>. QED
    BY <1>3, <2>1, FS_Subset, FS_RemoveElement
<1>5. PICK c \in T : c = First(T)
  BY <1>4, FirstIn
<1>6. Sum(T) = f[c] + Sum(T \ {c})
  BY <1>4, <1>5, SumFirst
<1>7. x # c
  BY <1>3, <1>6
<1>8. PICK U, V, W : U = T \ {c} /\ V = T \ {x} /\ W = T \ {x, c}
  OBVIOUS
<1>9. /\ U \in SUBSET S /\ V \in SUBSET S /\ W \in SUBSET S /\ x \in U /\ c \in V
      /\ U \subseteq T /\ U # T /\ V \subseteq T /\ V # T /\ U \ {x} = W /\ V \ {c} = W
  BY SMT, <1>3, <1>4, <1>5, <1>7, <1>8
<1>. USE <1>9
<1>10. Sum(U) = f[x] + Sum(W) /\ Sum(V) = f[c] + Sum(W)
  <2>1. U \notin B /\ V \notin B
    <3>. HIDE DEF B
    <3>. QED
      BY <1>2
  <2>. HIDE DEF Sum
  <2>. QED
    BY <2>1
<1>11. Sum(W) \in Int /\ f[x] \in Int /\ f[c] \in Int
  BY <1>4, <1>5, SumInt
<1>. HIDE DEF Sum
<1>. QED
  BY SMT, <1>3, <1>6, <1>8, <1>10, <1>11

\* In particular from the whole set.
LEMMA SumWithout ==
    ASSUME NEW S, IsFiniteSet(S), NEW f, \A y \in S : f[y] \in Int, NEW x \in S
    PROVE  SumFunctionOnSet(f, S) = f[x] + SumFunctionOnSet(f, S \ {x})
<1>1. S \in SUBSET S
  BY SMT
<1>. QED
  BY SMT, <1>1, SumRemove

\* Sums of naturals bounded by M are naturals, are 0 when all values are, and
\* are bounded by M for each element.
LEMMA SumBounds ==
    ASSUME NEW S, IsFiniteSet(S), NEW M \in Nat, NEW f, \A x \in S : f[x] \in 0 .. M
    PROVE  /\ SumFunctionOnSet(f, S) \in Nat
           /\ SumFunctionOnSet(f, S) <= M * Cardinality(S)
           /\ \A x \in S : f[x] <= SumFunctionOnSet(f, S)
<1>. DEFINE Sum(T) == SumFunctionOnSet(f, T)
            Good(T) == Sum(T) \in Nat /\ Sum(T) <= M * Cardinality(T)
            B == {T \in SUBSET S : ~ Good(T)}
<1>0. \A k \in Nat : M * (k + 1) = M * k + M /\ M * k \in Nat
  BY SMT
<1>1. B = {}
  <2>1. SUFFICES ASSUME B # {} PROVE FALSE
    OBVIOUS
  <2>2. PICK T \in B : \A U \in B : U \subseteq T => U = T
    <3>1. B \subseteq SUBSET S
      <4>. HIDE DEF Good
      <4>. QED
        OBVIOUS
    <3>. HIDE DEF B
    <3>. QED
      BY SMT, <2>1, <3>1, LeastSubset
  <2>3. T \in SUBSET S /\ ~ Good(T) /\ IsFiniteSet(T)
    <3>1. T \in SUBSET S /\ ~ Good(T)
      <4>. HIDE DEF Good
      <4>. QED
        BY <2>2
    <3>. QED
      BY <3>1, FS_Subset
  <2>. USE <2>3
  <2>4. T # {}
    <3>1. Sum({}) = 0 /\ Cardinality({}) = 0
      BY SumEmpty, FS_EmptySet
    <3>. HIDE DEF Sum
    <3>. QED
      BY SMT, <3>1
  <2>5. PICK x, U : x \in T /\ x = First(T) /\ U = T \ {x}
    BY <2>4, FirstIn
  <2>6. U \subseteq T /\ U # T /\ U \in SUBSET S /\ f[x] \in 0 .. M
    BY SMT, <2>5
  <2>. USE <2>6
  <2>7. Good(U)
    <3>. HIDE DEF Good
    <3>. QED
      BY <2>2
  <2>8. Sum(T) = f[x] + Sum(U)
    BY <2>4, <2>5, SumFirst
  <2>9. Cardinality(U) \in Nat /\ Cardinality(T) = Cardinality(U) + 1
    <3>1. IsFiniteSet(U) /\ Cardinality(T) \in Nat /\ Cardinality(U) \in Nat
      BY FS_Subset, FS_CardinalityType
    <3>. QED
      BY SMT, <2>5, <3>1, FS_RemoveElement
  <2>. USE <2>9
  <2>10. M * (Cardinality(U) + 1) = M * Cardinality(U) + M /\ M * Cardinality(U) \in Nat
    BY <1>0
  <2>. HIDE DEF Sum
  <2>. QED
    BY SMT, <2>7, <2>8, <2>10
<1>2. \A T \in SUBSET S : Good(T)
  <2>. HIDE DEF Good
  <2>. QED
    BY <1>1
<1>. USE <1>2
<1>3. ASSUME NEW x \in S PROVE f[x] <= Sum(S)
  <2>1. S \in SUBSET S /\ S \ {x} \in SUBSET S /\ \A y \in S : f[y] \in Int
    BY SMT
  <2>. USE <2>1
  <2>2. Sum(S) = f[x] + Sum(S \ {x})
    BY SMT, SumRemove
  <2>. HIDE DEF Sum
  <2>. QED
    BY SMT, <2>2
<1>. QED
  BY <1>3

------------------------------------------------------------------------------
(* The book                                                                 *)

\* What an order has left, by its block.
Qtys == [b \in Blocks |-> mem[b].qty]

\* total_qty is the sum over the level, below the modulus of its type.
Totals == \A s \in Sides, p \in Levels : level[s][p].total = SumFunctionOnSet(Qtys, At(s, p))

\* The fills so far and what is left are the quantity asked for.
FillQtys == [n \in DOMAIN fills |-> fills[n][2]]
Counted ==
    /\ fills \in Seq(Levels \X (0 .. MaxQty))
    /\ pc = "idle" => fills = <<>>
    /\ pc \in {"scan", "match", "finish"} =>
          mem[incoming].qty + SumFunctionOnSet(FillQtys, DOMAIN fills) = asked

\* All that is known of the book.
BookInv == Totals /\ Prices /\ Counted /\ QuantityConserved

------------------------------------------------------------------------------
(* The counter of a price level                                             *)

\* What the orders of a level have left together fits in the counter.
LEMMA Counter ==
    ASSUME NEW S, S \subseteq Blocks, NEW f, \A b \in S : f[b] \in 0 .. MaxQty
    PROVE  /\ IsFiniteSet(S) /\ \A b \in S : f[b] \in Int
           /\ SumFunctionOnSet(f, S) \in Nat /\ SumFunctionOnSet(f, S) < QtyModulus
           /\ \A b \in S : f[b] <= SumFunctionOnSet(f, S)
<1>1. IsFiniteSet(Blocks) /\ Cardinality(Blocks) = PoolSize
  BY SMT, Constants, FS_Interval DEF Blocks
<1>2. IsFiniteSet(S) /\ Cardinality(S) \in Nat /\ Cardinality(S) <= PoolSize
  BY SMT, <1>1, FS_Subset, FS_CardinalityType
<1>3. \A b \in S : f[b] \in Int
  BY SMT, Constants
<1>4. PICK c, t \in Nat : c = Cardinality(S) /\ t = SumFunctionOnSet(f, S) /\ t <= MaxQty * c
  BY SMT, <1>2, SumBounds, Constants
<1>. USE <1>4
<1>5. \A b \in S : f[b] <= SumFunctionOnSet(f, S)
  BY SMT, <1>2, SumBounds, Constants
<1>6. t < QtyModulus
  <2>1. MaxQty \in Nat /\ PoolSize \in Nat /\ QtyModulus \in Nat /\ PoolSize * MaxQty < QtyModulus /\ c <= PoolSize
    BY SMT, <1>2, Constants, QtyFits
  <2>. USE <2>1
  <2>2. MaxQty * c <= MaxQty * PoolSize
    BY SMT
  <2>3. MaxQty * PoolSize = PoolSize * MaxQty
    BY SMT
  <2>4. MaxQty * c \in Int /\ MaxQty * PoolSize \in Int
    BY SMT
  <2>. QED
    BY SMT, <2>2, <2>3, <2>4
<1>. QED
  BY <1>2, <1>3, <1>5, <1>6

\* The counter follows the sum.
LEMMA CounterMoves ==
    ASSUME NEW S, S \subseteq Blocks, NEW f, \A b \in S : f[b] \in 0 .. MaxQty,
           NEW t \in Int, NEW d \in Int, SumFunctionOnSet(f, S) = t + d
    PROVE  (t + d) % QtyModulus = SumFunctionOnSet(f, S)
<1>1. PICK n \in Nat : n = SumFunctionOnSet(f, S) /\ n < QtyModulus
  BY Counter
<1>. USE <1>1
<1>2. n % QtyModulus = n
  BY SMT, Constants
<1>. QED
  BY <1>2

\* The orders of a level before and after a step.
LEMMA LevelOrders ==
    ASSUME MemInv, MemInv', NEW s, NEW p
    PROVE  /\ At(s, p) \subseteq Resting /\ At(s, p) \subseteq Blocks
           /\ At(s, p)' \subseteq Resting' /\ At(s, p)' \subseteq Blocks
           /\ \A b \in Blocks : /\ Qtys[b] = mem[b].qty /\ Qtys[b] \in 0 .. MaxQty
                                /\ Qtys'[b] = mem'[b].qty /\ Qtys'[b] \in 0 .. MaxQty
<1>1. mem' \in [Blocks -> Cells] /\ mem \in [Blocks -> Cells]
  BY DEF MemInv, TypeOK, Cells, Ids
<1>2. \A b \in Blocks : mem[b].qty \in 0 .. MaxQty /\ mem'[b].qty \in 0 .. MaxQty
  BY <1>1 DEF Cells
<1>3. Resting \subseteq Blocks /\ Resting' \subseteq Blocks
  BY SMT DEF MemInv, TypeOK, Resting
<1>4. At(s, p) \subseteq Resting /\ At(s, p)' \subseteq Resting'
  BY DEF At
<1>. QED
  BY <1>2, <1>3, <1>4 DEF Qtys

\* The counter of a level is 0 exactly when the level has no order.
LEMMA LevelsLive == MemInv /\ Totals => LiveLevels
<1>1. SUFFICES ASSUME MemInv, Totals, NEW s \in Sides, NEW p \in Levels
               PROVE  level[s][p].total # 0 <=> At(s, p) # {}
  BY DEF LiveLevels
<1>2. PICK S, f : S = At(s, p) /\ f = Qtys /\ level[s][p].total = SumFunctionOnSet(f, S)
  BY <1>1 DEF Totals
<1>3. S \subseteq Blocks /\ \A b \in S : f[b] \in 0 .. MaxQty /\ f[b] > 0
  BY <1>1, <1>2, CellTypes DEF MemInv, Registered, At, Qtys
<1>4. CASE S = {}
  BY <1>2, <1>4, SumEmpty
<1>5. CASE S # {}
  <2>. USE <1>5
  <2>1. PICK b \in S : TRUE
    OBVIOUS
  <2>2. f[b] <= SumFunctionOnSet(f, S) /\ SumFunctionOnSet(f, S) \in Nat /\ f[b] \in Int /\ f[b] > 0
    BY <1>3, <2>1, Counter
  <2>3. SumFunctionOnSet(f, S) # 0
    BY SMT, <2>2
  <2>. QED
    BY <1>2, <2>3
<1>. QED
  BY <1>4, <1>5

\* The same after a step.
LEMMA LevelsLiveAfter == (MemInv /\ Totals)' => LiveLevels'
BY LevelsLive, PTL

\* The counters are the sums at every step.
LEMMA TotalsInv ==
    ASSUME MemInv, MemInv', Totals, [Next]_vars
    PROVE  Totals'
\* An order leaves the book.
<1>LeftTotals. ASSUME NEW b, LeftBook(b)
               PROVE  Totals'
  <2>. USE <1>LeftTotals
  <2>1. SUFFICES ASSUME NEW s \in Sides, NEW p \in Levels
                 PROVE  level'[s][p].total = SumFunctionOnSet(Qtys', At(s, p)')
    BY DEF Totals
  <2>2. PICK A, B, f, g : A = At(s, p) /\ B = At(s, p)' /\ f = Qtys /\ g = Qtys'
    OBVIOUS
  <2>3. /\ A \subseteq Blocks /\ A \subseteq Resting /\ B \subseteq Blocks /\ B \subseteq Resting'
        /\ \A x \in Blocks : /\ f[x] = mem[x].qty /\ f[x] \in 0 .. MaxQty
                             /\ g[x] = mem'[x].qty /\ g[x] \in 0 .. MaxQty
    BY <2>2, LevelOrders
  <2>4. PICK t \in Nat : t = SumFunctionOnSet(f, A) /\ level[s][p].total = t
    <3>1. SumFunctionOnSet(f, A) \in Nat
      BY <2>3, Counter
    <3>. QED
      BY <2>1, <2>2, <3>1 DEF Totals
  <2>5. B = A \ {b} /\ (b \in A <=> s = mem[b].side /\ p = mem[b].price)
    BY SMT, <2>2 DEF LeftBook, SameOrder, At
  <2>6. \A x \in B : f[x] = g[x]
    <3>1. \A x \in Resting \ {b} : mem'[x].qty = mem[x].qty
      BY DEF LeftBook, SameQty
    <3>. QED
      BY <2>3, <2>5, <3>1
  <2>7. IsFiniteSet(A) /\ IsFiniteSet(B) /\ \A x \in A : f[x] \in Int
    BY <2>3, Counter
  <2>8. SumFunctionOnSet(g, B) = SumFunctionOnSet(f, B)
    BY SMT, <2>6, <2>7, SumSame
  <2>9. CASE b \in A
    <3>1. t = f[b] + SumFunctionOnSet(f, B) /\ SumFunctionOnSet(f, B) \in Int /\ f[b] \in Int
      BY SMT, <2>4, <2>5, <2>7, <2>9, SumRemove, SumInt
    <3>2. SumFunctionOnSet(g, B) = t + (- f[b]) /\ (- f[b]) \in Int /\ t \in Int
      BY SMT, <2>8, <3>1
    <3>3. level'[s][p].total = (t + (- f[b])) % QtyModulus
      <4>1. f[b] = mem[b].qty /\ s = mem[b].side /\ p = mem[b].price
        BY <2>3, <2>5, <2>9
      <4>2. TotalsMove(s, p, - f[b])
        BY <4>1 DEF LeftBook
      <4>. QED
        BY <2>4, <4>2 DEF TotalsMove
    <3>4. (t + (- f[b])) % QtyModulus = SumFunctionOnSet(g, B)
      BY <2>3, <3>2, CounterMoves
    <3>. QED
      BY <2>2, <3>3, <3>4
  <2>10. CASE b \notin A
    <3>. USE <2>5, <2>10
    <3>1. B = A
      OBVIOUS
    <3>2. level'[s][p].total = level[s][p].total
      BY DEF LeftBook, TotalsMove
    <3>. QED
      BY <2>2, <2>4, <2>8, <3>1, <3>2
  <2>. QED
    BY <2>9, <2>10
\* A resting order is filled in part.
<1>ShrunkTotals. ASSUME NEW b, NEW q \in Int, ShrunkBook(b, q)
                 PROVE  Totals'
  <2>. USE <1>ShrunkTotals
  <2>1. SUFFICES ASSUME NEW s \in Sides, NEW p \in Levels
                 PROVE  level'[s][p].total = SumFunctionOnSet(Qtys', At(s, p)')
    BY DEF Totals
  <2>2. PICK A, f, g : A = At(s, p) /\ f = Qtys /\ g = Qtys'
    OBVIOUS
  <2>3. A = At(s, p)' /\ (b \in A <=> s = mem[b].side /\ p = mem[b].price)
    BY SMT, <2>2 DEF ShrunkBook, SameOrder, At
  <2>4. /\ A \subseteq Blocks /\ A \subseteq Resting
        /\ \A x \in Blocks : /\ f[x] = mem[x].qty /\ f[x] \in 0 .. MaxQty
                             /\ g[x] = mem'[x].qty /\ g[x] \in 0 .. MaxQty
    BY <2>2, LevelOrders
  <2>5. PICK t \in Nat : t = SumFunctionOnSet(f, A) /\ level[s][p].total = t
    <3>1. SumFunctionOnSet(f, A) \in Nat
      BY <2>4, Counter
    <3>. QED
      BY <2>1, <2>2, <3>1 DEF Totals
  <2>6. \A x \in A \ {b} : f[x] = g[x]
    <3>1. \A x \in Resting \ {b} : mem'[x].qty = mem[x].qty
      BY DEF ShrunkBook, SameQty
    <3>. QED
      BY <2>4, <3>1
  <2>7. IsFiniteSet(A) /\ (\A x \in A : f[x] \in Int) /\ (\A x \in A : g[x] \in Int)
    BY <2>4, Counter
  <2>8. CASE b \in A
    <3>1. PICK R : R = A \ {b} /\ IsFiniteSet(R)
      BY <2>7, FS_RemoveElement
    <3>2. SumFunctionOnSet(f, R) = SumFunctionOnSet(g, R)
      BY SMT, <2>6, <3>1, SumSame
    <3>3. /\ SumFunctionOnSet(f, A) = f[b] + SumFunctionOnSet(f, R) /\ SumFunctionOnSet(f, R) \in Int
          /\ SumFunctionOnSet(g, A) = g[b] + SumFunctionOnSet(g, R) /\ f[b] \in Int /\ g[b] \in Int
      BY SMT, <2>7, <2>8, <3>1, SumRemove, SumInt
    <3>4. g[b] = f[b] - q
      BY <2>4, <2>8 DEF ShrunkBook
    <3>5. SumFunctionOnSet(g, A) = t + (- q) /\ (- q) \in Int /\ t \in Int
      BY SMT, <2>5, <3>2, <3>3, <3>4
    <3>6. level'[s][p].total = (t + (- q)) % QtyModulus
      <4>1. TotalsMove(s, p, - q)
        BY <2>3, <2>8 DEF ShrunkBook
      <4>. QED
        BY <2>5, <4>1 DEF TotalsMove
    <3>7. (t + (- q)) % QtyModulus = SumFunctionOnSet(g, A)
      BY <2>4, <3>5, CounterMoves
    <3>. QED
      BY <2>2, <2>3, <3>6, <3>7
  <2>9. CASE b \notin A
    <3>. USE <2>9, <2>3
    <3>1. SumFunctionOnSet(f, A) = SumFunctionOnSet(g, A)
      BY SMT, <2>6, <2>7, SumSame
    <3>2. level'[s][p].total = level[s][p].total
      BY DEF ShrunkBook, TotalsMove
    <3>. QED
      BY <2>2, <2>5, <3>1, <3>2
  <2>. QED
    BY <2>8, <2>9
\* An order joins the book.
<1>JoinedTotals. ASSUME NEW b \in Blocks, JoinedBook(b)
                 PROVE  Totals'
  <2>. USE <1>JoinedTotals
  <2>1. SUFFICES ASSUME NEW s \in Sides, NEW p \in Levels
                 PROVE  level'[s][p].total = SumFunctionOnSet(Qtys', At(s, p)')
    BY DEF Totals
  <2>2. PICK A, B, f, g : A = At(s, p) /\ B = At(s, p)' /\ f = Qtys /\ g = Qtys'
    OBVIOUS
  <2>3. /\ A \subseteq Blocks /\ A \subseteq Resting /\ B \subseteq Blocks /\ B \subseteq Resting'
        /\ \A x \in Blocks : /\ f[x] = mem[x].qty /\ f[x] \in 0 .. MaxQty
                             /\ g[x] = mem'[x].qty /\ g[x] \in 0 .. MaxQty
    BY <2>2, LevelOrders
  <2>4. PICK t \in Nat : t = SumFunctionOnSet(f, A) /\ level[s][p].total = t
    <3>1. SumFunctionOnSet(f, A) \in Nat
      BY <2>3, Counter
    <3>. QED
      BY <2>1, <2>2, <3>1 DEF Totals
  <2>5. A = B \ {b} /\ (b \in B <=> s = mem[b].side /\ p = mem[b].price)
    BY SMT, <2>2 DEF JoinedBook, SameOrder, At
  <2>6. \A x \in B : f[x] = g[x]
    <3>1. \A x \in Resting' : mem'[x].qty = mem[x].qty
      BY DEF JoinedBook, SameQty
    <3>. QED
      BY <2>3, <3>1
  <2>7. IsFiniteSet(A) /\ IsFiniteSet(B) /\ (\A x \in B : f[x] \in Int)
    BY <2>3, Counter
  <2>8. SumFunctionOnSet(g, B) = SumFunctionOnSet(f, B)
    BY SMT, <2>6, <2>7, SumSame
  <2>9. CASE b \in B
    <3>1. SumFunctionOnSet(f, B) = f[b] + t /\ f[b] \in Int /\ t \in Int
      BY SMT, <2>4, <2>5, <2>7, <2>9, SumRemove
    <3>2. SumFunctionOnSet(g, B) = t + f[b]
      BY SMT, <2>8, <3>1
    <3>3. level'[s][p].total = (t + f[b]) % QtyModulus
      <4>1. f[b] = mem[b].qty /\ s = mem[b].side /\ p = mem[b].price
        BY <2>3, <2>5, <2>9
      <4>2. TotalsMove(s, p, f[b])
        BY <4>1 DEF JoinedBook
      <4>. QED
        BY <2>4, <4>2 DEF TotalsMove
    <3>4. (t + f[b]) % QtyModulus = SumFunctionOnSet(g, B)
      BY <2>3, <3>1, <3>2, CounterMoves
    <3>. QED
      BY <2>2, <3>3, <3>4
  <2>10. CASE b \notin B
    <3>. USE <2>5, <2>10
    <3>1. B = A
      OBVIOUS
    <3>2. level'[s][p].total = level[s][p].total
      BY DEF JoinedBook, TotalsMove
    <3>. QED
      BY <2>2, <2>4, <2>8, <3>1, <3>2
  <2>. QED
    BY <2>9, <2>10
\* No order is touched.
<1>KeptTotals. ASSUME KeptBook
               PROVE  Totals'
  <2>. USE <1>KeptTotals
  <2>1. SUFFICES ASSUME NEW s \in Sides, NEW p \in Levels
                 PROVE  level'[s][p].total = SumFunctionOnSet(Qtys', At(s, p)')
    BY DEF Totals
  <2>2. PICK A, f, g : A = At(s, p) /\ f = Qtys /\ g = Qtys'
    OBVIOUS
  <2>. USE <2>2
  <2>3. A = At(s, p)' /\ A \subseteq Resting
    BY DEF KeptBook, At
  <2>4. /\ A \subseteq Blocks
        /\ \A x \in Blocks : f[x] = mem[x].qty /\ f[x] \in 0 .. MaxQty /\ g[x] = mem'[x].qty
    BY LevelOrders
  <2>5. \A x \in A : f[x] = g[x]
    BY <2>3, <2>4 DEF KeptBook
  <2>6. IsFiniteSet(A)
    BY <2>4, Counter
  <2>7. SumFunctionOnSet(f, A) = SumFunctionOnSet(g, A)
    BY SMT, <2>5, <2>6, SumSame
  <2>8. level'[s][p].total = SumFunctionOnSet(f, A)
    BY DEF KeptBook, Totals
  <2>. QED
    BY <2>3, <2>7, <2>8
<1>KeptUnchanged. ASSUME UNCHANGED <<mem, level, orders_>>
                  PROVE  KeptBook
  BY <1>KeptUnchanged DEF KeptBook, Resting
\* Every step leaves the book, takes an order out, reduces one or adds one.
<1>Effect. \/ KeptBook
           \/ \E b \in Blocks : LeftBook(b)
           \/ \E b \in Blocks : \E q \in Int : ShrunkBook(b, q)
           \/ \E b \in Blocks : JoinedBook(b)
  <2>1. ASSUME UNCHANGED vars PROVE KeptBook
    BY <2>1, <1>KeptUnchanged DEF vars
  <2>2. ASSUME NEW c \in Clients, NEW s \in Sides, NEW p \in Levels, NEW q \in 0 .. MaxQty, PlaceLimit(c, s, p, q)
        PROVE  KeptBook
    BY <2>2, PlaceLimitInv
  <2>3. CASE Scan \/ NextLevel \/ Return
    BY <2>3, <1>KeptUnchanged DEF Scan, NextLevel, Return, poolVars, bookVars
  <2>4. CASE Match /\ pc' = "scan"
    <3>1. ShrunkBook(cur, mem[incoming].qty) /\ cur \in Resting
      BY <2>4, MatchPartInv DEF ShrunkBook
    <3>2. cur \in Blocks
      BY <3>1, CellTypes DEF MemInv
    <3>3. mem[incoming].qty \in Int
      <4>1. pc = "match"
        BY <2>4 DEF Match
      <4>2. mem[incoming].qty \in 0 .. MaxQty
        BY <4>1, Scanning, CellTypes DEF MemInv
      <4>. QED
        BY SMT, <4>2, Constants
    <3>. QED
      BY <3>1, <3>2, <3>3
  <2>5. CASE Match /\ pc' # "scan"
    BY <2>5, MatchFullInv, CellTypes DEF LeftBook, MemInv
  <2>6. CASE RestIncoming
    <3>. USE <2>6
    <3>1. pc = "finish"
      BY DEF RestIncoming
    <3>. QED
      BY <3>1, RestIncomingInv, Scanning DEF MemInv
  <2>7. CASE FreeIncoming
    BY <2>7, FreeIncomingInv
  <2>8. ASSUME NEW id \in 0 .. MaxOrders, NEW c \in Clients \cup Strangers, Cancel(id, c)
        PROVE  \E b \in Blocks : LeftBook(b)
    <3>1. LeftBook(orders_[id])
      BY <2>8, CancelInv
    <3>2. Resting \subseteq Blocks
      BY CellTypes DEF MemInv
    <3>. QED
      BY <3>1, <3>2 DEF LeftBook
  <2>9. CASE Steps
    BY <2>3, <2>4, <2>5, <2>6, <2>7, <2>9 DEF Steps
  <2>10. ASSUME NEW p, NEW q, Reject(p, q) PROVE KeptBook
    BY <2>1, <2>10 DEF Reject
  <2>11. ASSUME NEW id, NEW c, CancelRefused(id, c) PROVE KeptBook
    BY <2>1, <2>11 DEF CancelRefused
  <2>. QED
    BY <2>1, <2>2, <2>8, <2>9, <2>10, <2>11 DEF Next
<1>. QED
  BY <1>Effect, <1>KeptTotals, <1>LeftTotals, <1>ShrunkTotals, <1>JoinedTotals

------------------------------------------------------------------------------
(* What an order is filled for and what is left of it                       *)

\* What the fills so far add up to.
Filling == SumFunctionOnSet(FillQtys, DOMAIN fills)

Accounts == Counted /\ QuantityConserved

\* Every step preserves the account of the order that is being placed.
LEMMA AccountsInv ==
    ASSUME MemInv, MemInv', Accounts, [Next]_vars
    PROVE  Accounts'
<1>FillsGrow. ASSUME fills \in Seq(Levels \X (0 .. MaxQty)), NEW p \in Levels,
                     NEW q \in 0 .. MaxQty, fills' = Append(fills, <<p, q>>)
              PROVE  /\ fills' \in Seq(Levels \X (0 .. MaxQty))
                     /\ Filling \in Int /\ Filling' = Filling + q
  <2>. USE <1>FillsGrow
  <2>1. PICK n \in Nat : n = Len(fills) /\ DOMAIN fills = 1 .. n
    BY SMT
  <2>2. /\ fills' \in Seq(Levels \X (0 .. MaxQty)) /\ DOMAIN fills' = 1 .. n + 1
        /\ fills'[n + 1] = <<p, q>> /\ \A k \in 1 .. n : fills'[k] = fills[k]
    BY SMT, <2>1
  <2>3. PICK f, g, S, T : f = FillQtys /\ g = FillQtys' /\ S = 1 .. n /\ T = 1 .. n + 1
    OBVIOUS
  <2>4. IsFiniteSet(S) /\ IsFiniteSet(T) /\ T \ {n + 1} = S /\ n + 1 \in T /\ S \in SUBSET T /\ S \in SUBSET S
        /\ T \in SUBSET T
    <3>. USE <2>1, <2>3
    <3>1. n \in Int /\ n + 1 \in Int /\ 1 \in Int
      BY SMT
    <3>2. IsFiniteSet(S) /\ IsFiniteSet(T)
      BY <3>1, FS_Interval
    <3>. QED
      BY SMT, <3>2
  <2>5. \A k \in S : f[k] = fills[k][2] /\ f[k] \in Int /\ g[k] = f[k]
    <3>. USE <2>1, <2>3
    <3>1. \A k \in 1 .. n : fills[k][2] \in 0 .. MaxQty
      BY SMT
    <3>2. \A k \in 1 .. n : f[k] = fills[k][2]
      BY SMT DEF FillQtys
    <3>3. \A k \in 1 .. n : g[k] = fills'[k][2]
      <4>1. \A k \in 1 .. n : k \in DOMAIN fills'
        BY SMT, <2>2
      <4>. QED
        BY SMT, <4>1 DEF FillQtys
    <3>. QED
      BY SMT, <2>2, <3>1, <3>2, <3>3, Constants
  <2>6. g[n + 1] = q
    <3>. USE <2>2
    <3>1. n + 1 \in DOMAIN fills'
      BY SMT, <2>1
    <3>. QED
      BY SMT, <2>3, <3>1 DEF FillQtys
  <2>7. \A k \in T : g[k] \in Int
    <3>1. \A k \in T : k \in S \/ k = n + 1
      BY SMT, <2>1, <2>3
    <3>. QED
      BY SMT, <2>5, <2>6, <3>1, Constants
  <2>8. SumFunctionOnSet(g, T) = g[n + 1] + SumFunctionOnSet(g, T \ {n + 1})
    BY <2>4, <2>7, SumWithout
  <2>9. SumFunctionOnSet(g, S) = SumFunctionOnSet(f, S)
    BY <2>4, <2>5, SumSame
  <2>10. SumFunctionOnSet(f, S) \in Int
    BY <2>4, <2>5, SumInt
  <2>11. Filling = SumFunctionOnSet(f, S) /\ Filling' = SumFunctionOnSet(g, T)
    BY SMT, <2>1, <2>2, <2>3 DEF Filling
  <2>12. PICK v, w : v = SumFunctionOnSet(f, S) /\ w = SumFunctionOnSet(g, T)
    OBVIOUS
  <2>13. v \in Int /\ w = q + v /\ Filling = v /\ Filling' = w
    BY <2>4, <2>6, <2>8, <2>9, <2>10, <2>11, <2>12
  <2>. USE <2>13
  <2>14. w = v + q
    BY SMT, Constants
  <2>. QED
    BY <2>2, <2>14
<1>PlaceLimitAccounts. ASSUME NEW c \in Clients, NEW s \in Sides, NEW p \in Levels,
                              NEW q \in 0 .. MaxQty, PlaceLimit(c, s, p, q)
                       PROVE  Accounts'
  <2>. USE <1>PlaceLimitAccounts
  <2>1. pc = "idle" /\ pc' = "scan" /\ fills' = fills /\ asked' = q
    BY DEF PlaceLimit
  <2>2. fills = <<>> /\ fills' \in Seq(Levels \X (0 .. MaxQty))
    BY <2>1 DEF Accounts, Counted
  <2>3. DOMAIN fills' = {}
    BY SMT, <2>1, <2>2
  <2>4. SumFunctionOnSet(FillQtys', DOMAIN fills') = 0
    BY <2>3, SumEmpty
  <2>5. mem'[incoming'].qty = q
    <3>1. mem'[incoming'] = [order_id |-> next_order_id_, client |-> c, side |-> s, price |-> p,
                             qty |-> q, prev |-> NULL, next |-> NULL]
      BY SMT, PlaceLimitInv
    <3>. QED
      BY SMT, <3>1
  <2>6. mem'[incoming'].qty + SumFunctionOnSet(FillQtys', DOMAIN fills') = q
    BY SMT, <2>4, <2>5
  <2>. QED
    BY <2>1, <2>2, <2>6 DEF Accounts, Counted, QuantityConserved
<1>MatchAccounts. ASSUME Match
                  PROVE  Accounts'
  <2>. USE <1>MatchAccounts
  <2>1. pc = "match" /\ pc' \in {"match", "scan"} /\ UNCHANGED <<incoming, asked>>
    BY DEF Match
  <2>2. /\ fills \in Seq(Levels \X (0 .. MaxQty)) /\ mem[incoming].qty + Filling = asked
    BY <2>1 DEF Accounts, Counted, Filling
  <2>3. incoming \in Blocks /\ mem[incoming].qty \in 0 .. MaxQty /\ ptr \in Levels
    BY <2>1, Scanning, CellTypes DEF MemInv, TypeOK
  <2>4. PICK q \in 0 .. MaxQty : /\ fills' = Append(fills, <<ptr, q>>)
                                 /\ mem'[incoming].qty = mem[incoming].qty - q
    <3>1. CASE pc' = "scan"
      <4>. USE <2>3
      <4>1. fills' = Append(fills, <<ptr, mem[incoming].qty>>) /\ mem'[incoming].qty = 0
        BY SMT, <3>1, MatchPartInv
      <4>. USE <4>1
      <4>2. mem'[incoming].qty = mem[incoming].qty - mem[incoming].qty
        BY SMT, Constants
      <4>. QED
        BY <4>2
    <3>2. CASE pc' # "scan"
      <4>. USE <3>2, MatchFullInv
      <4>1. fills' = Append(fills, <<ptr, mem[cur].qty>>) /\ mem'[incoming].qty = mem[incoming].qty - mem[cur].qty
        BY SMT
      <4>2. cur \in Resting
        BY DEF LeftBook
      <4>3. mem[cur].qty \in 0 .. MaxQty
        BY <4>2, CellTypes DEF MemInv
      <4>. QED
        BY <4>1, <4>3
    <3>. QED
      BY <3>1, <3>2
  <2>. USE <2>4
  <2>5. /\ fills' \in Seq(Levels \X (0 .. MaxQty)) /\ Filling \in Int /\ Filling' = Filling + q
    BY <2>2, <2>3, <1>FillsGrow
  <2>. USE <2>5
  <2>6. mem'[incoming].qty + Filling' = asked
    BY SMT, <2>2, <2>3, Constants
  <2>. QED
    BY <2>1, <2>6 DEF Accounts, Counted, QuantityConserved, Filling
<1>FinishAccounts. ASSUME RestIncoming \/ FreeIncoming
                   PROVE  Accounts'
  <2>. USE <1>FinishAccounts
  <2>1. /\ pc = "finish" /\ pc' = "return" /\ UNCHANGED <<next_order_id_, fills, asked>>
    BY DEF RestIncoming, FreeIncoming
  <2>. USE <2>1
  <2>2. /\ fills \in Seq(Levels \X (0 .. MaxQty)) /\ mem[incoming].qty + Filling = asked
    BY DEF Accounts, Counted, Filling
  <2>3. Filling' = Filling
    BY DEF Filling, FillQtys
  <2>4. PICK id : id = mem[incoming].order_id
    OBVIOUS
  <2>5. next_order_id_' - 1 = id /\ id \notin DOMAIN orders_ /\ incoming \in Blocks
    <3>1. id \in 1 .. MaxOrders /\ id + 1 = next_order_id_ /\ id \notin DOMAIN orders_ /\ incoming \in Blocks
      BY <2>4 DEF MemInv, Held
    <3>. QED
      BY SMT, <3>1, Constants
  <2>6. (IF id \in DOMAIN orders_' THEN mem'[orders_'[id]].qty ELSE 0) = mem[incoming].qty
    <3>1. CASE RestIncoming
      <4>1. JoinedBook(incoming) /\ orders_'[id] = incoming /\ id \in DOMAIN orders_'
        BY <2>4, <3>1, RestIncomingInv
      <4>. QED
        BY <4>1 DEF JoinedBook, SameQty
    <3>2. CASE FreeIncoming
      BY <2>5, <3>2 DEF FreeIncoming
    <3>. QED
      BY <3>1, <3>2
  <2>7. QuantityConserved'
    BY <2>2, <2>3, <2>5, <2>6 DEF QuantityConserved, Filling, FillQtys
  <2>8. Counted'
    BY <2>2 DEF Counted
  <2>. QED
    BY <2>7, <2>8 DEF Accounts
<1>1. ASSUME UNCHANGED vars PROVE Accounts'
  BY <1>1 DEF vars, Accounts, Counted, QuantityConserved, FillQtys
<1>2. ASSUME NEW c \in Clients, NEW s \in Sides, NEW p \in Levels, NEW q \in 0 .. MaxQty, PlaceLimit(c, s, p, q)
      PROVE  Accounts'
  BY <1>2, <1>PlaceLimitAccounts
<1>3. CASE Scan \/ NextLevel
  <2>1. /\ pc \in {"scan", "match"} /\ pc' \in {"scan", "match", "finish"}
        /\ UNCHANGED <<mem, incoming, fills, asked>>
    BY <1>3 DEF Scan, NextLevel, poolVars
  <2>. QED
    BY <2>1 DEF Accounts, Counted, QuantityConserved, FillQtys
<1>4. CASE Return
  <2>1. pc' = "idle" /\ fills' = <<>>
    BY <1>4 DEF Return
  <2>. USE <2>1
  <2>2. fills' \in Seq(Levels \X (0 .. MaxQty))
    BY SMT
  <2>. QED
    BY <2>2 DEF Accounts, Counted, QuantityConserved
<1>5. ASSUME NEW id, NEW c, Cancel(id, c) PROVE Accounts'
  <2>1. pc = "idle" /\ pc' = "idle" /\ fills' = fills
    BY <1>5 DEF Cancel, callVars
  <2>. QED
    BY <2>1 DEF Accounts, Counted, QuantityConserved
<1>6. ASSUME NEW p, NEW q, Reject(p, q) PROVE Accounts'
  BY <1>1, <1>6 DEF Reject
<1>7. ASSUME NEW id, NEW c, CancelRefused(id, c) PROVE Accounts'
  BY <1>1, <1>7 DEF CancelRefused
<1>. QED
  BY <1>1, <1>2, <1>3, <1>4, <1>5, <1>6, <1>7, <1>MatchAccounts, <1>FinishAccounts DEF Next, Steps

------------------------------------------------------------------------------
(* The book invariant                                                       *)

\* The empty book.
LEMMA InitBook == Init => BookInv
<1>1. SUFFICES ASSUME Init PROVE BookInv
  OBVIOUS
<1>2. pc = "idle" /\ fills = <<>> /\ best_bid_ = 0 /\ best_ask_ = MaxPrice + 1
  BY <1>1 DEF Init
<1>3. Resting = {}
  <2>1. DOMAIN orders_ = {}
    BY SMT, <1>1 DEF Init
  <2>. QED
    BY SMT, <2>1 DEF Resting
<1>4. Totals
  <2>1. SUFFICES ASSUME NEW s \in Sides, NEW p \in Levels
                 PROVE  level[s][p].total = SumFunctionOnSet(Qtys, At(s, p))
    BY DEF Totals
  <2>2. At(s, p) = {}
    BY <1>3 DEF At
  <2>3. SumFunctionOnSet(Qtys, At(s, p)) = 0
    BY <2>2, SumEmpty
  <2>4. level[s][p].total = 0
    <3>1. level[s][p] = [head |-> NULL, tail |-> NULL, total |-> 0]
      BY <1>1 DEF Init
    <3>. QED
      BY SMT, <3>1
  <2>. QED
    BY <2>3, <2>4
<1>5. Prices
  BY <1>2, <1>3 DEF Prices, BestBound, Uncrossed, Live, Swept
<1>6. Counted /\ QuantityConserved
  <2>. USE <1>2
  <2>1. fills \in Seq(Levels \X (0 .. MaxQty))
    BY SMT
  <2>. QED
    BY <2>1 DEF Counted, QuantityConserved
<1>. QED
  BY <1>4, <1>5, <1>6 DEF BookInv

\* The inductive invariant, on top of that of the lists.
THEOREM BookInvariance == Spec => []BookInv
<1>1. MemInv /\ MemInv' /\ BookInv /\ [Next]_vars => BookInv'
  <2>1. SUFFICES ASSUME MemInv, MemInv', BookInv, [Next]_vars PROVE BookInv'
    OBVIOUS
  <2>. USE <2>1
  <2>2. Totals'
    BY TotalsInv DEF BookInv
  <2>. USE <2>2
  <2>3. Prices'
    BY LevelsLiveAfter, PricesInv DEF BookInv
  <2>4. Accounts'
    BY AccountsInv DEF BookInv, Accounts
  <2>. QED
    BY <2>3, <2>4 DEF BookInv, Accounts
<1>. QED
  BY <1>1, InitBook, EngineInvariance, PTL DEF Spec

------------------------------------------------------------------------------
(* What follows                                                             *)

\* When place_limit returns, its fills and what rests add up to what was asked.
THEOREM NothingGainedOrLost == Spec => []QuantityConserved
<1>1. BookInv => QuantityConserved
  BY DEF BookInv
<1>. QED
  BY <1>1, BookInvariance, PTL

\* Between calls the cached best prices are the best prices of the book.
THEOREM BestPricesExact == Spec => []BestsExact
<1>1. MemInv /\ BookInv => BestsExact
  BY BestsAreExact DEF BookInv
<1>. QED
  BY <1>1, EngineInvariance, BookInvariance, PTL

\* Every block is on the free list, in the map or with place_limit, each in one place.
LEMMA BlocksAccounted ==
    ASSUME MemInv, FreeStack
    PROVE  NoBlockLostOrShared
\* There is one block per order in the map.
<1>OneBlockPerOrder. Cardinality(Resting) = Cardinality(DOMAIN orders_)
  <2>1. PICK D, R, f : D = DOMAIN orders_ /\ R = Resting /\ f = [id \in D |-> orders_[id]]
    OBVIOUS
  <2>2. IsFiniteSet(D)
    <3>1. D \subseteq 1 .. MaxOrders
      BY <2>1 DEF MemInv, TypeOK
    <3>2. 1 \in Int /\ MaxOrders \in Int
      BY SMT, Constants
    <3>3. IsFiniteSet(1 .. MaxOrders)
      BY <3>2, FS_Interval
    <3>. QED
      BY <3>1, <3>3, FS_Subset
  <2>3. \A id \in D : f[id] = orders_[id] /\ orders_[id] \in R
    BY <2>1 DEF Resting
  <2>4. \A b \in R : \E id \in D : f[id] = b
    BY <2>1, <2>3, RestingIds DEF MemInv
  <2>5. ASSUME NEW i \in D, NEW j \in D, f[i] = f[j] PROVE i = j
    <3>1. orders_[i] = orders_[j]
      BY <2>3, <2>5
    <3>2. mem[orders_[i]].order_id = i /\ mem[orders_[j]].order_id = j
      BY <2>1 DEF MemInv, Registered
    <3>. QED
      BY SMT, <3>1, <3>2
  <2>6. f \in [D -> R] /\ DOMAIN f = D
    BY SMT, <2>1, <2>3
  <2>7. f \in Bijection(D, R)
    BY SMT, <2>4, <2>5, <2>6 DEF Bijection, Injection, Surjection, IsInjective
  <2>8. ExistsBijection(D, R)
    BY <2>7 DEF ExistsBijection
  <2>. QED
    BY <2>1, <2>2, <2>8, FS_Bijection
<1>0. PICK n \in Nat : \E at : Stacked(n, at)
  BY DEF FreeStack
<1>1. PICK at : Stacked(n, at)
  BY <1>0
<1>2. /\ at \in [1 .. n -> FreeBlocks] /\ (\A b \in FreeBlocks : \E k \in 1 .. n : at[k] = b)
      /\ \A j, k \in 1 .. n : at[j] = at[k] => j = k
  BY <1>1 DEF Stacked
<1>3. n <= PoolSize
  <2>1. at \in [1 .. n -> Blocks]
    BY SMT, <1>2 DEF FreeBlocks
  <2>2. at \in Injection(1 .. n, Blocks)
    BY SMT, <1>2, <2>1 DEF Injection, IsInjective
  <2>3. IsFiniteSet(Blocks) /\ Cardinality(Blocks) = PoolSize
    BY SMT, Constants, FS_Interval DEF Blocks
  <2>4. Cardinality(1 .. n) <= PoolSize
    BY <2>2, <2>3, FS_Injection
  <2>5. Cardinality(1 .. n) = n
    BY SMT, FS_Interval
  <2>. QED
    BY <2>4, <2>5
<1>4. PICK w : w = FreeWalk /\ \A k \in 0 .. PoolSize : w[k] = IF k < n THEN at[n - k] ELSE NULL
  BY <1>1, <1>3, WalkStack
<1>5. PoolSize \in Nat /\ NULL \notin Blocks
  BY Constants
<1>6. w[PoolSize] = NULL
  <2>1. PoolSize \in 0 .. PoolSize /\ ~ (PoolSize < n)
    BY SMT, <1>3, <1>5
  <2>. QED
    BY <1>4, <2>1
<1>7. ASSUME NEW b \in FreeBlocks PROVE b # NULL /\ \E k \in 0 .. PoolSize : w[k] = b
  <2>. USE <1>5
  <2>1. PICK j \in 1 .. n : at[j] = b
    BY <1>2
  <2>2. PICK k \in 0 .. PoolSize : k = n - j /\ k < n /\ n - k = j
    BY SMT, <1>3
  <2>3. w[k] = b
    BY <1>4, <2>1, <2>2
  <2>. QED
    BY <2>3 DEF FreeBlocks
<1>8. ASSUME NEW k \in 0 .. PoolSize, w[k] # NULL PROVE w[k] \in FreeBlocks
  <2>1. k < n /\ w[k] = at[n - k]
    BY <1>4, <1>8
  <2>. USE <2>1
  <2>2. n - k \in 1 .. n
    BY SMT, <1>5
  <2>. QED
    BY <1>2, <2>2
<1>9. {w[k] : k \in 0 .. PoolSize} \ {NULL} = FreeBlocks
  BY SMT, <1>7, <1>8
<1>10. Resting \cap Working = {}
  BY DEF MemInv, Held, Working
<1>. QED
  BY <1>4, <1>6, <1>9, <1>10, <1>OneBlockPerOrder DEF NoBlockLostOrShared, FreeBlocks

\* No block of the pool is lost or in two places, and the free list ends.
THEOREM BlocksNeverLost == Spec => []NoBlockLostOrShared
<1>1. MemInv /\ FreeStack => NoBlockLostOrShared
  BY BlocksAccounted
<1>. QED
  BY <1>1, EngineInvariance, FreeListIsStack, PTL

------------------------------------------------------------------------------
(* The list of a price level is the level's orders in the order of arrival   *)

\* Following next from the head of a level visits its orders, oldest first, up to the tail.
LEMMA LevelIsSound ==
    ASSUME MemInv, Totals, NEW s \in Sides, NEW p \in Levels
    PROVE  LevelSound(s, p)
<1>Ends. ASSUME NEW T, T \subseteq 1 .. MaxOrders, NEW m \in T
         PROVE  /\ (\A i \in T : m <= i) => Min(T) = m
                /\ (\A i \in T : m >= i) => Max(T) = m
  <2>. USE <1>Ends
  <2>1. MaxOrders \in Nat /\ 1 \in Nat /\ T # {}
    BY SMT, Constants
  <2>2. Min(T) \in T /\ \A z \in T : Min(T) <= z
    BY <2>1, Extremes
  <2>3. Max(T) \in T /\ \A z \in T : Max(T) >= z
    BY <2>1, Extremes
  <2>4. PICK x, y \in T : x = Min(T) /\ y = Max(T) /\ x <= m /\ y >= m
    BY <2>2, <2>3
  <2>. USE <2>4
  <2>5. x \in Int /\ y \in Int /\ m \in Int
    BY SMT, <2>1
  <2>. USE <2>5
  <2>6. ASSUME \A i \in T : m <= i PROVE x = m
    BY SMT, <2>6
  <2>7. ASSUME \A i \in T : m >= i PROVE y = m
    BY SMT, <2>7
  <2>. QED
    BY <2>6, <2>7
<1>. DEFINE ids == {id \in DOMAIN orders_ : mem[orders_[id]].side = s /\ mem[orders_[id]].price = p}
            first(S) == IF S = {} THEN NULL ELSE orders_[Min(S)]
            last(S) == IF S = {} THEN NULL ELSE orders_[Max(S)]
            here(x) == x \in Resting /\ mem[x].side = s /\ mem[x].price = p
<1>1. \A id \in ids : here(orders_[id]) /\ IdOf(orders_[id]) = id
  BY DEF MemInv, Registered, Resting, IdOf
<1>2. \A x : here(x) => IdOf(x) \in ids /\ orders_[IdOf(x)] = x
  BY RestingIds DEF MemInv, IdOf
<1>3. ids \subseteq 1 .. MaxOrders
  BY DEF MemInv, TypeOK
<1>4. \A x, y : here(x) /\ here(y) => SameLevel(x, y) /\ LevelOf(x) = level[s][p]
  BY DEF SameLevel, LevelOf
<1>5. \A x, y : here(x) /\ SameLevel(y, x) /\ y \in Resting => here(y)
  BY DEF SameLevel
<1>6. ASSUME NEW x, here(x), NEW T, T \subseteq ids, IdOf(x) \in T
      PROVE  /\ (\A i \in T : IdOf(x) <= i) => first(T) = x
             /\ (\A i \in T : IdOf(x) >= i) => last(T) = x
  <2>1. T \subseteq 1 .. MaxOrders /\ T # {} /\ orders_[IdOf(x)] = x
    BY <1>2, <1>3, <1>6
  <2>. USE <2>1
  <2>2. PICK m \in T : m = IdOf(x)
    BY <1>6
  <2>3. (\A i \in T : m <= i) => Min(T) = m
    BY <1>Ends
  <2>4. (\A i \in T : m >= i) => Max(T) = m
    BY <1>Ends
  <2>. QED
    BY <2>2, <2>3, <2>4
<1>7. \A i \in ids : i \in Nat
  BY SMT, <1>3, Constants
<1>. HIDE DEF ids, first, last, here
<1>8. level[s][p].head = first(ids) /\ level[s][p].tail = last(ids)
  <2>1. CASE ids = {}
    <3>1. EndsLinked(s, p)
      BY DEF MemInv, Linked
    <3>. USE <3>1
    <3>2. level[s][p].head # NULL => here(level[s][p].head)
      BY DEF EndsLinked, here
    <3>3. level[s][p].tail # NULL => here(level[s][p].tail)
      BY DEF EndsLinked, here
    <3>. QED
      BY <1>2, <2>1, <3>2, <3>3 DEF first, last
  <2>2. CASE ids # {}
    <3>1. PICK b : here(b)
      BY <1>1, <2>2
    <3>2. PICK h, t : h = level[s][p].head /\ t = level[s][p].tail
      OBVIOUS
    <3>3. here(h) /\ \A i \in ids : IdOf(h) <= i
      <4>1. \A x : here(x) => h \in Resting /\ SameLevel(h, x) /\ IdOf(h) <= IdOf(x)
        BY <1>4, <3>2, HeadFirst DEF HeadIsOldest, IdOf, here
      <4>. QED
        BY <1>1, <1>5, <3>1, <4>1
    <3>4. here(t) /\ \A i \in ids : i <= IdOf(t)
      <4>1. \A x : here(x) => t \in Resting /\ SameLevel(t, x) /\ IdOf(x) <= IdOf(t)
        BY <1>4, <3>2, TailLast DEF here
      <4>. QED
        BY <1>1, <1>5, <3>1, <4>1
    <3>. USE <3>4
    <3>5. IdOf(h) \in ids /\ IdOf(t) \in ids /\ ids \subseteq ids
      BY <1>2, <3>3
    <3>. USE <3>5
    <3>6. \A i \in ids : IdOf(t) >= i
      BY SMT, <1>7
    <3>. QED
      BY <1>6, <3>2, <3>3, <3>6
  <2>. QED
    BY <2>1, <2>2
<1>9. ASSUME NEW id \in ids, NEW x, x = orders_[id]
      PROVE  /\ mem[x].order_id = id /\ mem[x].qty > 0
             /\ mem[x].prev = last({i \in ids : i < id})
             /\ mem[x].next = first({i \in ids : i > id})
  <2>1. here(x) /\ IdOf(x) = id /\ x \in Resting
    BY <1>1, <1>9 DEF here
  <2>2. mem[x].order_id = id /\ mem[x].qty > 0
    BY <2>1 DEF MemInv, Registered, IdOf
  <2>3. PICK L, G : L = {i \in ids : i < id} /\ G = {i \in ids : i > id}
    OBVIOUS
  <2>4. mem[x].prev = last(L)
    <3>1. CASE mem[x].prev = NULL
      <4>1. LevelOf(x).head = x
        BY <2>1, <3>1 DEF MemInv, Linked, PrevLinked
      <4>2. \A y : here(y) => id <= IdOf(y)
        BY <1>4, <2>1, <4>1, HeadFirst DEF HeadIsOldest, IdOf, here
      <4>3. \A i \in ids : id <= i
        BY <1>1, <4>2
      <4>4. L = {}
        BY SMT, <1>7, <2>3, <4>3
      <4>. QED
        BY <3>1, <4>4 DEF last
    <3>2. CASE mem[x].prev # NULL
      <4>. USE <2>1
      <4>1. PICK a : a = mem[x].prev /\ a \in Resting /\ SameLevel(a, x) /\ IdOf(a) < id
        BY <2>2, <3>2 DEF MemInv, Linked, PrevLinked, IdOf
      <4>. USE <4>1
      <4>2. here(a) /\ IdOf(a) \in ids
        BY <1>2, <1>5
      <4>3. \A i \in ids : ~ (IdOf(a) < i /\ i < id)
        <5>1. ASSUME NEW c, here(c) PROVE ~ (IdOf(a) < IdOf(c) /\ IdOf(c) < id)
          <6>1. SameLevel(c, x) /\ c \in Resting
            BY <1>4, <5>1 DEF here
          <6>. QED
            BY <6>1, Adjacent
        <5>. QED
          BY <1>1, <5>1
      <4>4. IdOf(a) \in L /\ L \subseteq ids /\ \A i \in L : IdOf(a) >= i
        BY SMT, <1>7, <2>3, <4>2, <4>3
      <4>. QED
        BY <1>6, <4>2, <4>4
    <3>. QED
      BY <3>1, <3>2
  <2>5. mem[x].next = first(G)
    <3>. USE <2>1
    <3>1. CASE mem[x].next = NULL
      <4>1. LevelOf(x).tail = x
        BY <3>1 DEF MemInv, Linked, NextLinked
      <4>2. ASSUME NEW y, here(y) PROVE IdOf(y) <= id
        <5>1. LevelOf(y).tail = x /\ y \in Resting
          BY <1>4, <4>1, <4>2 DEF here
        <5>. QED
          BY <5>1, TailLast
      <4>3. \A i \in ids : i <= id
        BY <1>1, <4>2
      <4>4. G = {}
        BY SMT, <1>7, <2>3, <4>3
      <4>. QED
        BY <3>1, <4>4 DEF first
    <3>2. CASE mem[x].next # NULL
      <4>1. PICK a : a = mem[x].next /\ a \in Resting /\ SameLevel(a, x) /\ mem[a].prev = x
        BY <3>2 DEF MemInv, Linked, NextLinked
      <4>. USE <4>1
      <4>2. here(a) /\ IdOf(a) \in ids
        BY <1>2, <1>5
      <4>3. id < IdOf(a)
        <5>1. x # NULL
          BY RestingIds, Constants DEF MemInv
        <5>. QED
          BY <5>1 DEF MemInv, Linked, PrevLinked, IdOf
      <4>4. \A i \in ids : ~ (id < i /\ i < IdOf(a))
        <5>1. ASSUME NEW c, here(c) PROVE ~ (id < IdOf(c) /\ IdOf(c) < IdOf(a))
          <6>1. SameLevel(c, a) /\ c \in Resting
            BY <1>4, <4>2, <5>1 DEF here
          <6>. QED
            BY <6>1, Adjacent
        <5>. QED
          BY <1>1, <5>1
      <4>5. IdOf(a) \in G /\ G \subseteq ids /\ \A i \in G : IdOf(a) <= i
        BY SMT, <1>7, <2>3, <4>2, <4>3, <4>4
      <4>. QED
        BY <1>6, <4>2, <4>5
    <3>. QED
      BY <3>1, <3>2
  <2>. QED
    BY <2>2, <2>3, <2>4, <2>5
<1>10. level[s][p].total = SumFunctionOnSet([b \in Blocks |-> mem[b].qty], {orders_[id] : id \in ids})
  <2>1. {orders_[id] : id \in ids} = At(s, p)
    <3>1. \A id \in ids : orders_[id] \in At(s, p)
      BY <1>1 DEF At, here
    <3>2. \A x \in At(s, p) : \E id \in ids : x = orders_[id]
      BY <1>2 DEF At, here
    <3>. QED
      BY SMT, <3>1, <3>2
  <2>. QED
    BY <2>1 DEF Totals, Qtys
<1>11. \A id \in ids : /\ mem[orders_[id]].order_id = id /\ mem[orders_[id]].qty > 0
                       /\ mem[orders_[id]].prev = last({i \in ids : i < id})
                       /\ mem[orders_[id]].next = first({i \in ids : i > id})
  BY <1>9
<1>. QED
  BY <1>8, <1>10, <1>11 DEF LevelSound, ids, first, last

\* The list of every price level is, both ways, its orders in the order of
\* arrival, and total_qty is what they have left.
THEOREM ListsInArrivalOrder == Spec => []LevelsSound
<1>1. MemInv /\ BookInv => LevelsSound
  BY LevelIsSound DEF BookInv, LevelsSound
<1>. QED
  BY <1>1, EngineInvariance, BookInvariance, PTL

------------------------------------------------------------------------------
(* The engine implements the abstract book                                  *)

\* What the abstract book sees of the engine's memory.
View == {AsOrder(b) : b \in Resting}
Taker == IF Working = {} THEN NULL ELSE AsOrder(incoming)

\* The order place_limit holds is a client's.
Owned == pc \in {"scan", "match", "finish"} => mem[incoming].client \in Clients

\* What the abstract book sees of a block.
LEMMA Seen ==
    ASSUME NEW b
    PROVE  /\ AsOrder(b).id = mem[b].order_id /\ AsOrder(b).side = mem[b].side
           /\ AsOrder(b).price = mem[b].price /\ AsOrder(b).qty = mem[b].qty
BY SMT DEF AsOrder

\* A block that keeps its order is seen the same, but for the quantity.
LEMMA SeenSame ==
    ASSUME NEW b, SameOrder(b)
    PROVE  /\ SameQty(b) => AsOrder(b)' = AsOrder(b)
           /\ AsOrder(b)' = [AsOrder(b) EXCEPT !.qty = mem'[b].qty]
BY SMT DEF SameOrder, SameQty, AsOrder

\* Different blocks are seen as different orders.
LEMMA SeenIds ==
    ASSUME MemInv, NEW b \in Resting, NEW c \in Resting, AsOrder(b) = AsOrder(c)
    PROVE  b = c
<1>1. mem[b].order_id = mem[c].order_id
  BY SMT, Seen
<1>. QED
  BY <1>1, RestingIds DEF MemInv

\* Steps that leave the book alone, in the view.
LEMMA KeptView ==
    ASSUME KeptBook
    PROVE  View' = View
<1>1. \A b \in Resting : AsOrder(b)' = AsOrder(b)
  BY DEF KeptBook, AsOrder
<1>2. Resting' = Resting
  BY DEF KeptBook
<1>. QED
  BY SMT, <1>1, <1>2 DEF View

\* An order leaves the book, in the view.
LEMMA LeftView ==
    ASSUME MemInv, NEW b, LeftBook(b)
    PROVE  AsOrder(b) \in View /\ View' = View \ {AsOrder(b)}
<1>1. b \in Resting /\ Resting' = Resting \ {b} /\ \A x \in Resting \ {b} : SameOrder(x) /\ SameQty(x)
  BY DEF LeftBook
<1>. USE <1>1
<1>2. \A x \in Resting' : AsOrder(x)' = AsOrder(x)
  BY SMT, SeenSame
<1>3. \A x \in Resting : AsOrder(x) = AsOrder(b) => x = b
  BY SeenIds
<1>4. View' = {AsOrder(x) : x \in Resting \ {b}}
  BY SMT, <1>2 DEF View
<1>. QED
  BY <1>3, <1>4 DEF View

\* An order is filled in part, in the view.
LEMMA ShrunkView ==
    ASSUME MemInv, NEW b, NEW q, ShrunkBook(b, q)
    PROVE  /\ AsOrder(b) \in View
           /\ View' = (View \ {AsOrder(b)}) \cup {[AsOrder(b) EXCEPT !.qty = AsOrder(b).qty - q]}
<1>1. /\ b \in Resting /\ Resting' = Resting /\ mem'[b].qty = mem[b].qty - q
      /\ \A x \in Resting : SameOrder(x) /\ (x # b => SameQty(x))
  BY DEF ShrunkBook
<1>. USE <1>1
<1>2. \A x \in Resting \ {b} : AsOrder(x)' = AsOrder(x)
  BY SMT, SeenSame
<1>3. AsOrder(b)' = [AsOrder(b) EXCEPT !.qty = AsOrder(b).qty - q]
  BY SMT, SeenSame, Seen
<1>4. \A x \in Resting : AsOrder(x) = AsOrder(b) => x = b
  BY SeenIds
<1>5. PICK n : n = [AsOrder(b) EXCEPT !.qty = AsOrder(b).qty - q]
  OBVIOUS
<1>. USE <1>5
<1>6. View' = {AsOrder(x) : x \in Resting \ {b}} \cup {n}
  BY SMT, <1>2, <1>3 DEF View
<1>7. {AsOrder(x) : x \in Resting \ {b}} = View \ {AsOrder(b)}
  BY SMT, <1>4 DEF View
<1>8. AsOrder(b) \in View
  BY DEF View
<1>. QED
  BY <1>6, <1>7, <1>8

\* An order joins the book, in the view.
LEMMA JoinedView ==
    ASSUME NEW b, JoinedBook(b)
    PROVE  View' = View \cup {AsOrder(b)}
<1>1. Resting' = Resting \cup {b} /\ \A x \in Resting' : SameOrder(x) /\ SameQty(x)
  BY DEF JoinedBook
<1>. USE <1>1
<1>2. \A x \in Resting' : AsOrder(x)' = AsOrder(x)
  BY SMT, SeenSame
<1>. QED
  BY SMT, <1>2 DEF View

\* While place_limit works, the view has a taker.
LEMMA TakerHeld ==
    ASSUME MemInv, Owned, pc \in {"scan", "match", "finish"}
    PROVE  Taker = AsOrder(incoming) /\ Taker # NULL
<1>1. Working = {incoming}
  BY DEF Working
<1>2. Taker = AsOrder(incoming)
  BY <1>1 DEF Taker
<1>3. /\ mem[incoming].client \in Clients /\ mem[incoming].order_id \in 1 .. MaxOrders
      /\ incoming \in Blocks /\ mem[incoming].price # 0
  BY DEF Owned, MemInv, Held
<1>. USE <1>3
<1>4. mem[incoming].side \in Sides /\ mem[incoming].price \in 0 .. MaxPrice /\ mem[incoming].qty \in 0 .. MaxQty
  BY CellTypes DEF MemInv
<1>. USE <1>4
<1>5. mem[incoming].order_id \in Nat \ {0} /\ mem[incoming].price \in 1 .. MaxPrice
  BY SMT, Constants
<1>6. AsOrder(incoming) \in Book!Takers
  BY SMT, <1>5 DEF AsOrder, Book!Takers, Book!Sides, Book!Prices, Sides
<1>. QED
  BY <1>2, <1>6, NullAssumption

\* Only clients place orders.
LEMMA OwnedInv ==
    ASSUME MemInv, Owned, [Next]_vars
    PROVE  Owned'
<1>1. ASSUME UNCHANGED <<mem, incoming>>, pc \in {"scan", "match", "finish"} \/ pc' \notin {"scan", "match", "finish"}
      PROVE  Owned'
  BY <1>1 DEF Owned
<1>2. ASSUME UNCHANGED vars PROVE Owned'
  BY <1>2 DEF vars, Owned
<1>3. ASSUME NEW c \in Clients, NEW s \in Sides, NEW p \in Levels, NEW q \in 0 .. MaxQty, PlaceLimit(c, s, p, q)
      PROVE  Owned'
  <2>1. mem'[incoming'] = [order_id |-> next_order_id_, client |-> c, side |-> s, price |-> p,
                           qty |-> q, prev |-> NULL, next |-> NULL]
    BY Zenon, <1>3, PlaceLimitInv
  <2>2. mem'[incoming'].client = c
    BY SMT, <2>1
  <2>. QED
    BY <2>2 DEF Owned
<1>4. CASE Scan \/ NextLevel
  BY <1>1, <1>4 DEF Scan, NextLevel, poolVars
<1>5. CASE Match
  <2>. USE <1>5
  <2>1. SameOrder(incoming)
    BY MatchPartInv, MatchFullInv
  <2>2. incoming' = incoming /\ pc = "match"
    BY DEF Match
  <2>. QED
    BY <2>1, <2>2 DEF Owned, SameOrder
<1>6. CASE RestIncoming \/ FreeIncoming \/ Return
  <2>1. pc' \in {"return", "idle"}
    BY <1>6 DEF RestIncoming, FreeIncoming, Return
  <2>. QED
    BY <2>1 DEF Owned
<1>7. ASSUME NEW id, NEW c, Cancel(id, c) PROVE Owned'
  <2>1. pc' = "idle"
    BY <1>7 DEF Cancel, callVars
  <2>. QED
    BY <2>1 DEF Owned
<1>8. ASSUME NEW p, NEW q, Reject(p, q) PROVE Owned'
  BY <1>2, <1>8 DEF Reject
<1>9. ASSUME NEW id, NEW c, CancelRefused(id, c) PROVE Owned'
  BY <1>2, <1>9 DEF CancelRefused
<1>. QED
  BY <1>2, <1>3, <1>4, <1>5, <1>6, <1>7, <1>8, <1>9 DEF Next, Steps

\* A block is taken from the pool only while the book has room.
LEMMA ArriveStep ==
    ASSUME MemInv, NEW c \in Clients, NEW s \in Sides, NEW p \in Levels, NEW q \in 0 .. MaxQty,
           PlaceLimit(c, s, p, q)
    PROVE  Book!Next
<1>1. /\ pc = "idle" /\ pc' = "scan" /\ p \in 1 .. MaxPrice /\ q # 0
      /\ next_order_id_ <= MaxOrders /\ next_order_id_' = next_order_id_ + 1
  BY DEF PlaceLimit
<1>2. View' = View
  BY PlaceLimitInv, KeptView
<1>3. Taker = NULL
  BY <1>1 DEF Taker, Working
<1>4. Taker' = [id |-> next_order_id_, client |-> c, side |-> s, price |-> p, qty |-> q]
  <2>1. Taker' = AsOrder(incoming)'
    BY <1>1 DEF Taker, Working
  <2>2. mem'[incoming'] = [order_id |-> next_order_id_, client |-> c, side |-> s, price |-> p,
                           qty |-> q, prev |-> NULL, next |-> NULL]
    BY SMT, PlaceLimitInv
  <2>. QED
    BY SMT, <2>1, <2>2 DEF AsOrder
<1>5. Cardinality(View) < PoolSize
  <2>1. PICK R, S, f : R = Resting /\ S = Blocks \ {free_head_} /\ f = [b \in R |-> AsOrder(b)]
    OBVIOUS
  <2>2. R \in SUBSET S /\ free_head_ \in Blocks
    <3>1. free_head_ \in FreeBlocks /\ Resting \subseteq Blocks
      BY PlaceLimitInv, RestingIds DEF MemInv
    <3>. QED
      BY SMT, <2>1, <3>1 DEF FreeBlocks
  <2>3. IsFiniteSet(Blocks) /\ Cardinality(Blocks) = PoolSize
    BY SMT, Constants, FS_Interval DEF Blocks
  <2>4. IsFiniteSet(S) /\ Cardinality(S) = PoolSize - 1
    BY <2>1, <2>2, <2>3, FS_RemoveElement
  <2>5. IsFiniteSet(R) /\ Cardinality(R) <= PoolSize - 1
    BY <2>2, <2>4, FS_Subset
  <2>. USE <2>5
  <2>6. f \in Surjection(R, View)
    BY SMT, <2>1 DEF Surjection, View
  <2>7. IsFiniteSet(View) /\ Cardinality(View) <= Cardinality(R)
    BY <2>6, FS_Surjection
  <2>. USE <2>7
  <2>8. Cardinality(View) \in Nat /\ Cardinality(R) \in Nat /\ PoolSize \in Nat
    BY FS_CardinalityType, Constants
  <2>. QED
    BY SMT, <2>8
<1>6. q \in 1 .. MaxQty
  BY SMT, <1>1, Constants
<1>7. Book!Arrive(c, s, p, q)
  <2>1. Book!Cardinality(View) = Cardinality(View)
    BY DEF Book!Cardinality, Cardinality
  <2>2. Book!Cardinality(View) < PoolSize
    BY <1>5, <2>1
  <2>. QED
    BY <1>1, <1>2, <1>3, <1>4, <2>2 DEF Book!Arrive, View, Taker
<1>. QED
  BY <1>1, <1>6, <1>7 DEF Book!Next, Book!Prices, Book!Sides, Sides

\* The cursor is at the best order of the other side, and crosses.
LEMMA CursorBest ==
    ASSUME MemInv, Prices, Owned, Match
    PROVE  /\ Taker = AsOrder(incoming) /\ Taker # NULL /\ Taker.qty = mem[incoming].qty /\ Taker.qty > 0
           /\ cur \in Resting
           /\ Book!Crosses(Taker, AsOrder(cur)) /\ Book!Best(AsOrder(cur))
<1>1. pc = "match" /\ cur # NULL /\ mem[incoming].qty > 0
  BY DEF Match
<1>2. Taker = AsOrder(incoming) /\ Taker # NULL
  BY <1>1, TakerHeld
<1>3. PICK s, k, t : s = Side /\ k = cur /\ t = mem[incoming].price
  OBVIOUS
<1>4. /\ s \in Sides /\ Other(s) \in Sides /\ ptr \in Levels /\ t \in 1 .. MaxPrice
  BY <1>1, <1>3, Scanning DEF MemInv
<1>5. k = level[Other(s)][ptr].head /\ IF s = "YES" THEN ptr <= t ELSE ptr >= t
  BY <1>1, <1>3 DEF MemInv, Held, ScanOn
<1>6. k \in Resting /\ mem[k].side = Other(s) /\ mem[k].price = ptr
  <2>. USE <1>5
  <2>1. EndsLinked(Other(s), ptr) /\ level[Other(s)][ptr].head # NULL
    BY <1>1, <1>3, <1>4 DEF MemInv, Linked
  <2>2. PICK h : h = level[Other(s)][ptr].head /\ h \in Resting /\ mem[h].side = Other(s) /\ mem[h].price = ptr
    BY <2>1 DEF EndsLinked
  <2>. QED
    BY <2>2
<1>7. Taker.side = s /\ Taker.price = t /\ Taker.qty = mem[incoming].qty
  BY SMT, <1>2, <1>3, Seen DEF Side
<1>8. Book!Crosses(Taker, AsOrder(k))
  <2>1. AsOrder(k).side = Other(s) /\ AsOrder(k).price = ptr /\ s # Other(s)
    BY SMT, <1>4, <1>6, Seen DEF Other, Sides
  <2>. QED
    BY <1>5, <1>7, <2>1 DEF Book!Crosses
<1>9. ASSUME NEW x \in Resting, mem[x].side = Other(s)
      PROVE  AsOrder(x) = AsOrder(k) \/ Book!Better(AsOrder(k), AsOrder(x))
  <2>1. IF s = "YES" THEN mem[x].price >= ptr ELSE mem[x].price <= ptr
    BY <1>1, <1>3, <1>9 DEF Prices, Swept
  <2>2. mem[x].price \in Int /\ ptr \in Int
    <3>1. mem[x].price \in 0 .. MaxPrice
      BY RestingIds, CellTypes DEF MemInv
    <3>. QED
      BY SMT, <1>4, <3>1, Constants DEF Levels
  <2>3. CASE mem[x].price = ptr
    <3>1. LevelOf(x).head = k
      BY <1>5, <1>9, <2>3 DEF LevelOf
    <3>2. mem[k].order_id <= mem[x].order_id
      BY <3>1, HeadFirst DEF HeadIsOldest
    <3>3. mem[k].order_id \in Nat /\ mem[x].order_id \in Nat
      BY SMT, <1>6, RestingIds, Constants DEF MemInv
    <3>4. CASE mem[k].order_id = mem[x].order_id
      BY <1>6, <3>4, RestingIds DEF MemInv
    <3>5. CASE mem[k].order_id < mem[x].order_id
      <4>1. AsOrder(k).price = AsOrder(x).price /\ AsOrder(k).id < AsOrder(x).id
        BY SMT, <1>6, <2>3, <3>5, Seen
      <4>. QED
        BY <4>1 DEF Book!Better
    <3>. QED
      BY SMT, <3>2, <3>3, <3>4, <3>5
  <2>4. CASE mem[x].price # ptr
    <3>1. IF s = "YES" THEN ptr < mem[x].price ELSE ptr > mem[x].price
      BY SMT, <2>1, <2>2, <2>4
    <3>2. /\ AsOrder(k).side = Other(s) /\ AsOrder(k).price = ptr /\ AsOrder(x).price = mem[x].price
          /\ Other(s) = "YES" <=> s # "YES"
      BY SMT, <1>4, <1>6, Seen DEF Other, Sides
    <3>. QED
      BY <3>1, <3>2 DEF Book!Better
  <2>. QED
    BY <2>3, <2>4
<1>10. Book!Best(AsOrder(k))
  <2>1. AsOrder(k).side = Other(s) /\ \A x : AsOrder(x).side = mem[x].side
    BY SMT, <1>6, Seen
  <2>. QED
    BY SMT, <1>9, <2>1 DEF Book!Best
<1>. QED
  BY <1>1, <1>2, <1>3, <1>6, <1>7, <1>8, <1>10

\* One fill is one trade of the abstract book, with the best order.
LEMMA TradeStep ==
    ASSUME MemInv, Prices, Owned, Match
    PROVE  Book!Next
<1>1. PICK m, t : m = AsOrder(cur) /\ t = AsOrder(incoming)
  OBVIOUS
<1>2. /\ Taker = t /\ Taker # NULL /\ Taker.qty > 0
      /\ Book!Crosses(Taker, m) /\ Book!Best(m) /\ m \in View
  BY <1>1, CursorBest DEF View
<1>3. t.qty = mem[incoming].qty /\ m.qty = mem[cur].qty
  BY <1>1, Seen
<1>4. /\ SameOrder(incoming) /\ incoming' = incoming /\ next_order_id_' = next_order_id_
      /\ pc' \in {"match", "scan"} /\ pc = "match"
  BY MatchPartInv, MatchFullInv DEF Match
<1>5. Taker' = [t EXCEPT !.qty = mem'[incoming].qty]
  <2>. USE <1>4
  <2>2. PICK i : i = incoming
    OBVIOUS
  <2>. USE <2>2
  <2>3. AsOrder(i)' = [AsOrder(i) EXCEPT !.qty = mem'[i].qty]
    BY SeenSame
  <2>4. Taker' = AsOrder(i)'
    BY DEF Taker, Working
  <2>. QED
    BY SMT, <1>1, <2>3, <2>4
<1>6. CASE pc' = "scan"
  <2>1. ShrunkBook(cur, mem[incoming].qty) /\ mem'[incoming].qty = 0 /\ mem[incoming].qty < mem[cur].qty
    BY <1>6, MatchPartInv
  <2>. USE <2>1
  <2>2. View' = (View \ {m}) \cup {[m EXCEPT !.qty = m.qty - t.qty]}
    BY SMT, <1>1, <1>3, ShrunkView
  <2>3. t.qty < m.qty /\ Taker' = [t EXCEPT !.qty = 0]
    BY <1>3, <1>5
  <2>4. Book!Trade(m)
    BY <1>2, <1>4, <2>2, <2>3 DEF Book!Trade, View, Taker
  <2>. QED
    BY <1>2, <2>4 DEF Book!Next, View
<1>7. CASE pc' # "scan"
  <2>1. /\ LeftBook(cur) /\ mem'[incoming].qty = mem[incoming].qty - mem[cur].qty
        /\ mem[cur].qty <= mem[incoming].qty
    BY <1>7, MatchFullInv
  <2>. USE <2>1
  <2>2. View' = View \ {m}
    BY SMT, <1>1, LeftView
  <2>3. t.qty >= m.qty
    <3>1. mem[cur].qty \in 0 .. MaxQty /\ mem[incoming].qty \in 0 .. MaxQty
      BY <1>4, Scanning, RestingIds, CellTypes DEF MemInv, LeftBook
    <3>. QED
      BY SMT, <1>3, <3>1, Constants
  <2>4. Taker' = [t EXCEPT !.qty = t.qty - m.qty]
    BY <1>3, <1>5
  <2>5. Book!Trade(m)
    BY <1>2, <1>4, <2>2, <2>3, <2>4 DEF Book!Trade, View, Taker
  <2>. QED
    BY <1>2, <2>5 DEF Book!Next, View
<1>. QED
  BY <1>6, <1>7

\* What rests crosses nothing: the scan went past the limit.
LEMMA RestStep ==
    ASSUME MemInv, Prices, Owned, RestIncoming
    PROVE  Book!Next
<1>1. pc = "finish" /\ pc' = "return" /\ mem[incoming].qty > 0 /\ next_order_id_' = next_order_id_
  BY DEF RestIncoming
<1>2. PICK t : t = AsOrder(incoming) /\ Taker = t /\ Taker # NULL
  BY <1>1, TakerHeld
<1>3. PICK s, l : /\ s = Side /\ l = mem[incoming].price /\ s \in Sides /\ l \in 1 .. MaxPrice
                  /\ ptr \in Levels
  BY <1>1, Scanning DEF MemInv
<1>4. t.side = s /\ t.price = l /\ t.qty > 0
  BY SMT, <1>1, <1>2, <1>3, Seen DEF Side
<1>5. ASSUME NEW x \in Resting PROVE ~ Book!Crosses(t, AsOrder(x))
  <2>1. AsOrder(x).side = mem[x].side /\ AsOrder(x).price = mem[x].price
    BY SMT, Seen
  <2>2. CASE mem[x].side # Other(s)
    <3>1. mem[x].side \in Sides
      BY RestingIds, CellTypes DEF MemInv
    <3>2. mem[x].side = s
      BY SMT, <1>3, <2>2, <3>1 DEF Sides, Other
    <3>. QED
      BY <1>4, <2>1, <3>2 DEF Book!Crosses
  <2>3. CASE mem[x].side = Other(s)
    <3>. USE <1>3
    <3>1. /\ IF s = "YES" THEN mem[x].price >= ptr ELSE mem[x].price <= ptr
          /\ ~ IF s = "YES" THEN ptr <= l ELSE ptr >= l
      BY <1>1, <2>3 DEF Prices, Swept, ScanOn
    <3>2. mem[x].price \in 0 .. MaxPrice
      BY RestingIds, CellTypes DEF MemInv
    <3>3. ~ IF s = "YES" THEN mem[x].price <= l ELSE mem[x].price >= l
      BY SMT, <3>1, <3>2, Constants DEF Levels
    <3>. QED
      BY <1>4, <2>1, <3>3 DEF Book!Crosses
  <2>. QED
    BY <2>2, <2>3
<1>6. \A m \in View : ~ Book!Crosses(t, m)
  BY <1>5 DEF View
<1>7. View' = View \cup {t}
  <2>1. JoinedBook(incoming)
    BY RestIncomingInv
  <2>. QED
    BY SMT, <1>2, <2>1, JoinedView
<1>8. Taker' = NULL
  BY <1>1 DEF Taker, Working
<1>9. Book!Rest
  BY <1>1, <1>2, <1>4, <1>6, <1>7, <1>8 DEF Book!Rest, View, Taker
<1>. QED
  BY <1>9 DEF Book!Next

\* An order that is filled leaves nothing.
LEMMA FilledStep ==
    ASSUME MemInv, Owned, FreeIncoming
    PROVE  Book!Next
<1>1. pc = "finish" /\ pc' = "return" /\ mem[incoming].qty = 0 /\ next_order_id_' = next_order_id_
  BY DEF FreeIncoming
<1>. USE <1>1
<1>2. Taker = AsOrder(incoming) /\ Taker # NULL
  BY TakerHeld
<1>3. Taker.qty = 0
  BY <1>2, Seen
<1>4. View' = View
  BY FreeIncomingInv, KeptView
<1>5. Taker' = NULL
  BY DEF Taker, Working
<1>6. Book!Filled
  BY <1>2, <1>3, <1>4, <1>5 DEF Book!Filled, View, Taker
<1>. QED
  BY <1>6 DEF Book!Next

\* cancel is the cancellation of the abstract book.
LEMMA CancelStep ==
    ASSUME MemInv, NEW id \in 0 .. MaxOrders, NEW c, Cancel(id, c)
    PROVE  Book!Next
<1>1. pc = "idle" /\ pc' = "idle" /\ next_order_id_' = next_order_id_
  BY DEF Cancel, callVars
<1>2. PICK m : m \in View /\ View' = View \ {m}
  <2>1. LeftBook(orders_[id])
    BY CancelInv
  <2>. QED
    BY <2>1, LeftView
<1>. USE <1>2
<1>3. Taker = NULL /\ Taker' = NULL
  BY <1>1 DEF Taker, Working
<1>4. Book!Cancel(m)
  BY <1>1, <1>3 DEF Book!Cancel, View, Taker
<1>. QED
  BY <1>4 DEF Book!Next, View

\* Every step is a step of the abstract book, or none.
LEMMA StepImplements ==
    ASSUME MemInv, Prices, Owned, [Next]_vars
    PROVE  [Book!Next]_Book!vars
<1>1. ASSUME UNCHANGED <<mem, orders_, next_order_id_>>, Taker' = Taker PROVE UNCHANGED Book!vars
  <2>. USE <1>1
  <2>1. View' = View
    BY DEF View, AsOrder, Resting
  <2>. QED
    BY <2>1 DEF Book!vars, View, Taker
<1>2. ASSUME UNCHANGED vars PROVE UNCHANGED Book!vars
  <2>1. UNCHANGED <<mem, orders_, next_order_id_, pc, incoming>>
    BY <1>2 DEF vars
  <2>. USE <2>1
  <2>2. Taker' = Taker
    BY DEF Taker, Working, AsOrder
  <2>. QED
    BY <1>1, <2>2
<1>3. CASE Scan \/ NextLevel
  <2>1. /\ UNCHANGED <<mem, orders_, next_order_id_, incoming>>
        /\ pc \in {"scan", "match", "finish"} /\ pc' \in {"scan", "match", "finish"}
    BY <1>3 DEF Scan, NextLevel, poolVars, bookVars
  <2>. USE <2>1
  <2>2. Taker' = Taker
    BY DEF Taker, Working, AsOrder
  <2>. QED
    BY <1>1, <2>2
<1>4. CASE Return
  <2>1. /\ UNCHANGED <<mem, orders_, next_order_id_>> /\ pc = "return" /\ pc' = "idle"
    BY <1>4 DEF Return, poolVars, bookVars
  <2>. USE <2>1
  <2>2. Taker' = NULL /\ Taker = NULL
    BY DEF Taker, Working
  <2>. QED
    BY <1>1, <2>2
<1>5. ASSUME NEW c \in Clients, NEW s \in Sides, NEW p \in Levels, NEW q \in 0 .. MaxQty, PlaceLimit(c, s, p, q)
      PROVE  Book!Next
  BY <1>5, ArriveStep
<1>6. ASSUME NEW id \in 0 .. MaxOrders, NEW c, Cancel(id, c) PROVE Book!Next
  BY <1>6, CancelStep
<1>7. ASSUME NEW p, NEW q, Reject(p, q) PROVE UNCHANGED Book!vars
  BY <1>2, <1>7 DEF Reject
<1>8. ASSUME NEW id, NEW c, CancelRefused(id, c) PROVE UNCHANGED Book!vars
  BY <1>2, <1>8 DEF CancelRefused
<1>. QED
  BY <1>2, <1>3, <1>4, <1>5, <1>6, <1>7, <1>8, TradeStep, RestStep, FilledStep DEF Next, Steps

\* Down to its pointers, the matching engine is a price-time book: every fill is
\* with the oldest order at the best price, and what rests crosses nothing.
THEOREM EngineImplementsBook == Spec => Implements
<1>1. Init => Book!Init
  <2>1. SUFFICES ASSUME Init PROVE Book!Init
    OBVIOUS
  <2>2. DOMAIN orders_ = {} /\ pc = "idle" /\ next_order_id_ = 1
    BY SMT, <2>1 DEF Init
  <2>. USE <2>2
  <2>3. View = {}
    BY SMT DEF View, Resting
  <2>4. Taker = NULL
    BY DEF Taker, Working
  <2>. QED
    BY <2>3, <2>4 DEF Book!Init, View, Taker
<1>2. Init => Owned
  BY DEF Init, Owned
<1>3. MemInv /\ Owned /\ [Next]_vars => Owned'
  BY OwnedInv
<1>4. MemInv /\ BookInv /\ Owned /\ [Next]_vars => [Book!Next]_Book!vars
  BY StepImplements DEF BookInv
<1>. QED
  BY <1>1, <1>2, <1>3, <1>4, EngineInvariance, BookInvariance, PTL DEF Spec, Implements, Book!Spec
=============================================================================
