-------------------------------- MODULE Sums --------------------------------
(***************************************************************************)
(* Finite sums of a function's values over a set of arguments, and the     *)
(* facts about them that invariants of counters and balances need.         *)
(***************************************************************************)
EXTENDS Integers, Functions, FiniteSetTheorems, TLAPS


-----------------------------------------------------------------------------
(* Induction over the subsets of a finite set, with a set of subsets in the  *)
(* place of a predicate.                                                     *)

LEMMA LeastNat ==
  ASSUME NEW T \in SUBSET Nat, T # {}
  PROVE  \E n \in T : \A m \in T : n <= m
  <1> DEFINE R == OpToRel(<, Nat)
  <1>1. IsWellFoundedOn(R, Nat)
    BY NatLessThanWellFounded
  <1>2. \A m, n \in Nat : m < n => <<m, n>> \in R
    BY DEF OpToRel
  <1> HIDE DEF R
  <1>3. PICK n \in T : \A m \in T : ~ (<<m, n>> \in R)
    BY <1>1, WFMin
  <1>4. ASSUME NEW m \in T PROVE n <= m
    <2>1. m \in Nat /\ n \in Nat
      OBVIOUS
    <2>2. ~ (m < n)
      BY <1>2, <1>3, <2>1
    <2> QED
      BY <2>1, <2>2
  <1> QED
    BY <1>4

LEMMA SubsetInduction ==
  ASSUME NEW S, IsFiniteSet(S), NEW P,
         \A T \in SUBSET S : (\A U \in SUBSET T : U # T => U \in P) => T \in P
  PROVE  \A T \in SUBSET S : T \in P
  <1> DEFINE bad == {T \in SUBSET S : T \notin P}
             sizes == {Cardinality(T) : T \in bad}
  <1> SUFFICES ASSUME bad # {} PROVE FALSE
    OBVIOUS
  <1>1. \A T \in SUBSET S : IsFiniteSet(T) /\ Cardinality(T) \in Nat
    BY FS_Subset, FS_CardinalityType
  <1>2. sizes \in SUBSET Nat /\ sizes # {}
    BY <1>1
  <1>3. PICK n \in sizes : \A m \in sizes : n <= m
    BY <1>2, LeastNat
  <1>4. PICK T \in bad : n = Cardinality(T)
    BY <1>3
  <1>5. \A U \in SUBSET T : U # T => U \in P
    <2> SUFFICES ASSUME NEW U \in SUBSET T, U # T, U \notin P PROVE FALSE
      OBVIOUS
    <2>1. Cardinality(U) < Cardinality(T)
      BY <1>1, FS_Subset
    <2>2. Cardinality(U) \in sizes
      OBVIOUS
    <2>3. n <= Cardinality(U)
      BY <1>3, <2>2
    <2>4. Cardinality(U) \in Nat /\ Cardinality(T) \in Nat
      BY <1>1
    <2> QED
      BY <1>4, <2>1, <2>3, <2>4
  <1> QED
    BY <1>4, <1>5

-----------------------------------------------------------------------------
(* The recursion behind Sum.                                                 *)

\* The element a fold takes next, and what it adds up from there.
FirstOf(T) == CHOOSE x \in T : TRUE
SumBody(f, g, T) == IF T = {} THEN 0 ELSE f[FirstOf(T)] + g[T \ {FirstOf(T)}]
SumFold(f, S) == CHOOSE g : g = [T \in SUBSET S |-> SumBody(f, g, T)]

LEMMA SumIsFold ==
  ASSUME NEW f, NEW S
  PROVE  SumFunctionOnSet(f, S) = SumFold(f, S)[S]
  BY DEF SumFunctionOnSet, FoldFunctionOnSet, MapThenFoldSet, SumFold, SumBody, FirstOf

LEMMA NextIn ==
  ASSUME NEW T, T # {}
  PROVE  FirstOf(T) \in T
  BY DEF FirstOf

\* What is left after the next element is a smaller set.
LEMMA Smaller ==
  ASSUME NEW T, IsFiniteSet(T), NEW x \in T
  PROVE  /\ IsFiniteSet(T \ {x})
         /\ Cardinality(T) \in Nat
         /\ Cardinality(T \ {x}) = Cardinality(T) - 1
  BY FS_RemoveElement, FS_CardinalityType

\* The recursion has a solution: one for the subsets of at most n elements, for
\* every n.
LEMMA FoldIsDefined ==
  ASSUME NEW f, NEW S, IsFiniteSet(S)
  PROVE  \E g : g = SumFold(f, S) /\ g = [T \in SUBSET S |-> SumBody(f, g, T)]
  <1> DEFINE upTo(n) == \E g : \A T \in SUBSET S : Cardinality(T) <= n => g[T] = SumBody(f, g, T)
             bad == {n \in Nat : ~ upTo(n)}
  <1>1. \A T \in SUBSET S : IsFiniteSet(T) /\ Cardinality(T) \in Nat
    BY FS_Subset, FS_CardinalityType
  <1>2. upTo(0)
    <2> DEFINE g == [T \in SUBSET S |-> 0]
    <2>1. \A T \in SUBSET S : Cardinality(T) <= 0 => T = {}
      BY <1>1, FS_EmptySet
    <2>2. \A T \in SUBSET S : Cardinality(T) <= 0 => g[T] = SumBody(f, g, T)
      BY <2>1 DEF SumBody
    <2> HIDE DEF g
    <2> QED
      BY <2>2
  <1>3. ASSUME NEW n \in Nat, upTo(n) PROVE upTo(n + 1)
    <2>1. PICK g : \A T \in SUBSET S : Cardinality(T) <= n => g[T] = SumBody(f, g, T)
      BY <1>3
    <2> DEFINE h == [T \in SUBSET S |-> SumBody(f, g, T)]
    <2>2. ASSUME NEW T \in SUBSET S, Cardinality(T) <= n + 1
          PROVE  h[T] = SumBody(f, h, T)
      <3>1. CASE T = {}
        BY <3>1 DEF SumBody
      <3>2. CASE T # {}
        <4> DEFINE U == T \ {FirstOf(T)}
        <4>1. U \in SUBSET S /\ Cardinality(U) <= n
          BY <1>1, <2>2, <3>2, NextIn, Smaller
        <4>2. h[U] = g[U]
          BY <2>1, <4>1
        <4> HIDE DEF h
        <4>3. h[T] = f[FirstOf(T)] + g[U] 
          BY <3>2 DEF SumBody, h
        <4>4. SumBody(f, h, T) = f[FirstOf(T)] + h[U]
          BY <3>2 DEF SumBody
        <4> QED
          BY <4>2, <4>3, <4>4
      <3> QED
        BY <3>1, <3>2
    <2> HIDE DEF h
    <2> QED
      BY <2>2
  <1> HIDE DEF upTo
  <1>4. bad = {}
    <2> SUFFICES ASSUME bad # {} PROVE FALSE
      OBVIOUS
    <2>1. PICK n \in bad : \A m \in bad : n <= m
      BY LeastNat
    <2>2. n # 0
      BY <1>2
    <2>3. n - 1 \in Nat /\ n - 1 \notin bad
      BY <2>1, <2>2
    <2>4. upTo((n - 1) + 1)
      BY <1>3, <2>3
    <2> QED
      BY <2>3, <2>4
  <1>5. PICK g : \A T \in SUBSET S : Cardinality(T) <= Cardinality(S) => g[T] = SumBody(f, g, T)
    <2>1. upTo(Cardinality(S))
      BY <1>1, <1>4
    <2> QED
      BY <2>1 DEF upTo
  <1> DEFINE h == [T \in SUBSET S |-> g[T]]
  <1>6. \A T \in SUBSET S : g[T] = SumBody(f, g, T)
    BY <1>5, FS_Subset
  <1>7. \A T \in SUBSET S : SumBody(f, h, T) = SumBody(f, g, T)
    BY NextIn DEF SumBody
  <1>8. h = [T \in SUBSET S |-> SumBody(f, h, T)]
    BY <1>6, <1>7
  <1> HIDE DEF h
  <1>9. \E k : k = [T \in SUBSET S |-> SumBody(f, k, T)]
    BY <1>8
  <1>10. (CHOOSE k : k = [T \in SUBSET S |-> SumBody(f, k, T)])
          = [T \in SUBSET S |->
               SumBody(f, CHOOSE k : k = [U \in SUBSET S |-> SumBody(f, k, U)], T)]
    BY <1>9, Zenon
  <1> QED
    BY <1>10, Zenon DEF SumFold

LEMMA FoldStep ==
  ASSUME NEW f, NEW S, IsFiniteSet(S), NEW T \in SUBSET S
  PROVE  SumFold(f, S)[T] = SumBody(f, SumFold(f, S), T)
  <1>1. PICK g : g = SumFold(f, S) /\ g = [U \in SUBSET S |-> SumBody(f, g, U)]
    BY FoldIsDefined
  <1>2. g[T] = [U \in SUBSET S |-> SumBody(f, g, U)][T]
    BY <1>1
  <1>3. [U \in SUBSET S |-> SumBody(f, g, U)][T] = SumBody(f, g, T)
    OBVIOUS
  <1> QED
    BY <1>1, <1>2, <1>3

-----------------------------------------------------------------------------
(* What a sum is.                                                            *)

\* Folding a subset gives the same on the way to any larger set.
LEMMA FoldOfSubset ==
  ASSUME NEW f, NEW S, IsFiniteSet(S), NEW T \in SUBSET S
  PROVE  SumFunctionOnSet(f, T) = SumFold(f, S)[T]
  <1> DEFINE same == {U \in SUBSET T : SumFold(f, T)[U] = SumFold(f, S)[U]}
  <1>1. IsFiniteSet(T)
    BY FS_Subset
  <1> DEFINE g == SumFold(f, S)
             h == SumFold(f, T)
  <1>2. /\ \A U \in SUBSET S : g[U] = SumBody(f, g, U)
        /\ \A U \in SUBSET T : h[U] = SumBody(f, h, U)
    BY <1>1, FoldStep
  <1> HIDE DEF g, h
  <1>3. ASSUME NEW U \in SUBSET T, \A V \in SUBSET U : V # U => V \in same
        PROVE  U \in same
    <2>1. g[U] = SumBody(f, g, U) /\ h[U] = SumBody(f, h, U)
      BY <1>2
    <2>2. CASE U = {}
      BY <2>1, <2>2 DEF SumBody, g, h
    <2>3. CASE U # {}
      <3> DEFINE V == U \ {FirstOf(U)}
      <3>1. V \in SUBSET U /\ V # U
        BY <2>3, NextIn
      <3>2. g[V] = h[V]
        BY <1>3, <3>1 DEF g, h
      <3>3. SumBody(f, g, U) = SumBody(f, h, U)
        BY <2>3, <3>2 DEF SumBody
      <3> QED
        BY <2>1, <3>3 DEF g, h
    <2> QED
      BY <2>2, <2>3
  <1> HIDE DEF same
  <1>4. \A U \in SUBSET T : U \in same
    BY <1>1, <1>3, SubsetInduction
  <1>5. T \in same
    BY <1>4
  <1> QED
    BY <1>5, SumIsFold DEF same, g, h

THEOREM SumEmpty ==
  ASSUME NEW f
  PROVE  SumFunctionOnSet(f, {}) = 0
  <1>1. SumFold(f, {})[{}] = SumBody(f, SumFold(f, {}), {})
    BY FoldStep, FS_EmptySet
  <1>2. SumFold(f, {})[{}] = 0
    BY <1>1 DEF SumBody
  <1> QED
    BY <1>2, SumIsFold

\* The sum takes the next element first.
LEMMA SumNext ==
  ASSUME NEW f, NEW S, IsFiniteSet(S), S # {}
  PROVE  SumFunctionOnSet(f, S) = f[FirstOf(S)] + SumFunctionOnSet(f, S \ {FirstOf(S)})
  <1> DEFINE g == SumFold(f, S)
             T == S \ {FirstOf(S)}
  <1>1. SumFunctionOnSet(f, S) = g[S] /\ SumFunctionOnSet(f, T) = g[T]
    BY FoldOfSubset
  <1>2. g[S] = SumBody(f, g, S)
    BY FoldStep
  <1> HIDE DEF g
  <1>3. SumBody(f, g, S) = f[FirstOf(S)] + g[T]
    BY DEF SumBody
  <1> QED
    BY <1>1, <1>2, <1>3

\* A sum of numbers is a number.
THEOREM SumType ==
  ASSUME NEW f, NEW S, IsFiniteSet(S), \A x \in S : f[x] \in Int
  PROVE  SumFunctionOnSet(f, S) \in Int
  <1> DEFINE good == {T \in SUBSET S : SumFunctionOnSet(f, T) \in Int}
  <1>1. ASSUME NEW T \in SUBSET S, \A U \in SUBSET T : U # T => U \in good
        PROVE  T \in good
    <2>1. CASE T = {}
      BY <2>1, SumEmpty
    <2>2. CASE T # {}
      <3>1. FirstOf(T) \in T /\ IsFiniteSet(T)
        BY <2>2, NextIn, FS_Subset
      <3>2. T \ {FirstOf(T)} \in good
        BY <1>1, <3>1
      <3>3. SumFunctionOnSet(f, T) = f[FirstOf(T)] + SumFunctionOnSet(f, T \ {FirstOf(T)})
        BY <2>2, <3>1, SumNext
      <3> QED
        BY <3>1, <3>2, <3>3
    <2> QED
      BY <2>1, <2>2
  <1> HIDE DEF good
  <1>2. \A T \in SUBSET S : T \in good
    BY <1>1, SubsetInduction
  <1>3. S \in good
    BY <1>2
  <1> QED
    BY <1>3 DEF good

\* The order in which elements are taken does not matter.
THEOREM SumRemove ==
  ASSUME NEW f, NEW S, IsFiniteSet(S), \A x \in S : f[x] \in Int, NEW e \in S
  PROVE  SumFunctionOnSet(f, S) = f[e] + SumFunctionOnSet(f, S \ {e})
  <1> DEFINE good == {T \in SUBSET S : \A x \in T : SumFunctionOnSet(f, T) = f[x] + SumFunctionOnSet(f, T \ {x})}
  <1>1. ASSUME NEW T \in SUBSET S, \A U \in SUBSET T : U # T => U \in good
        PROVE  T \in good
    <2> SUFFICES ASSUME NEW x \in T
                 PROVE  SumFunctionOnSet(f, T) = f[x] + SumFunctionOnSet(f, T \ {x})
      OBVIOUS
    <2> DEFINE c == FirstOf(T)
    <2>1. c \in T /\ IsFiniteSet(T)
      BY NextIn, FS_Subset
    <2>2. SumFunctionOnSet(f, T) = f[c] + SumFunctionOnSet(f, T \ {c})
      BY <2>1, SumNext
    <2> HIDE DEF c
    <2>3. CASE c = x
      BY <2>2, <2>3
    <2>4. CASE c # x
      <3> DEFINE rest == T \ {c, x}
      <3>1. (T \ {c}) \ {x} = rest /\ (T \ {x}) \ {c} = rest
        OBVIOUS
      <3>2. T \ {c} \in good /\ T \ {x} \in good
        BY <1>1, <2>1
      <3>3. SumFunctionOnSet(f, T \ {c}) = f[x] + SumFunctionOnSet(f, rest)
        BY <2>4, <3>1, <3>2
      <3>4. SumFunctionOnSet(f, T \ {x}) = f[c] + SumFunctionOnSet(f, rest)
        BY <2>1, <2>4, <3>1, <3>2
      <3>5. SumFunctionOnSet(f, rest) \in Int
        BY <2>1, FS_Subset, SumType
      <3> HIDE DEF rest, good
      <3> QED
        BY <2>1, <2>2, <3>3, <3>4, <3>5
    <2> QED
      BY <2>3, <2>4
  <1> HIDE DEF good
  <1>2. \A T \in SUBSET S : T \in good
    BY <1>1, SubsetInduction
  <1>3. S \in good
    BY <1>2
  <1> QED
    BY <1>3 DEF good

THEOREM SumAdd ==
  ASSUME NEW f, NEW S, IsFiniteSet(S), \A x \in S : f[x] \in Int,
         NEW e, e \notin S, f[e] \in Int
  PROVE  /\ IsFiniteSet(S \cup {e})
         /\ SumFunctionOnSet(f, S \cup {e}) = SumFunctionOnSet(f, S) + f[e]
  <1>1. IsFiniteSet(S \cup {e}) /\ (S \cup {e}) \ {e} = S
    BY FS_AddElement
  <1>2. SumFunctionOnSet(f, S \cup {e}) = f[e] + SumFunctionOnSet(f, S)
    BY <1>1, SumRemove
  <1>3. SumFunctionOnSet(f, S) \in Int
    BY SumType
  <1> QED
    BY <1>1, <1>2, <1>3

\* A sum depends on the values it adds up only.
THEOREM SumSame ==
  ASSUME NEW f, NEW g, NEW S, IsFiniteSet(S),
         \A x \in S : f[x] = g[x] /\ f[x] \in Int
  PROVE  SumFunctionOnSet(f, S) = SumFunctionOnSet(g, S)
  <1> DEFINE good == {T \in SUBSET S : SumFunctionOnSet(f, T) = SumFunctionOnSet(g, T)}
  <1>1. ASSUME NEW T \in SUBSET S, \A U \in SUBSET T : U # T => U \in good
        PROVE  T \in good
    <2>1. CASE T = {}
      BY <2>1, SumEmpty
    <2>2. CASE T # {}
      <3>1. FirstOf(T) \in T /\ IsFiniteSet(T)
        BY <2>2, NextIn, FS_Subset
      <3>2. T \ {FirstOf(T)} \in good
        BY <1>1, <3>1
      <3>3. /\ SumFunctionOnSet(f, T) = f[FirstOf(T)] + SumFunctionOnSet(f, T \ {FirstOf(T)})
            /\ SumFunctionOnSet(g, T) = g[FirstOf(T)] + SumFunctionOnSet(g, T \ {FirstOf(T)})
        BY <2>2, <3>1, SumNext
      <3> QED
        BY <3>1, <3>2, <3>3
    <2> QED
      BY <2>1, <2>2
  <1> HIDE DEF good
  <1>2. \A T \in SUBSET S : T \in good
    BY <1>1, SubsetInduction
  <1>3. S \in good
    BY <1>2
  <1> QED
    BY <1>3 DEF good

\* Changing one value changes the sum by as much.
THEOREM SumChange ==
  ASSUME NEW f, NEW g, NEW S, IsFiniteSet(S), NEW e \in S,
         \A x \in S : f[x] \in Int /\ g[x] \in Int,
         \A x \in S \ {e} : f[x] = g[x]
  PROVE  SumFunctionOnSet(g, S) = SumFunctionOnSet(f, S) + g[e] - f[e]
  <1>1. IsFiniteSet(S \ {e})
    BY FS_Subset
  <1>2. SumFunctionOnSet(f, S \ {e}) = SumFunctionOnSet(g, S \ {e})
    BY <1>1, SumSame
  <1>3. /\ SumFunctionOnSet(f, S) = f[e] + SumFunctionOnSet(f, S \ {e})
        /\ SumFunctionOnSet(g, S) = g[e] + SumFunctionOnSet(g, S \ {e})
    BY SumRemove
  <1>4. SumFunctionOnSet(f, S \ {e}) \in Int
    BY <1>1, SumType
  <1> QED
    BY <1>2, <1>3, <1>4

\* Natural numbers add up to one, which no part of the sum exceeds.
THEOREM SumNat ==
  ASSUME NEW f, NEW S, IsFiniteSet(S), \A x \in S : f[x] \in Nat
  PROVE  /\ SumFunctionOnSet(f, S) \in Nat
         /\ \A x \in S : f[x] <= SumFunctionOnSet(f, S)
  <1> DEFINE good == {T \in SUBSET S : SumFunctionOnSet(f, T) \in Nat}
  <1>1. ASSUME NEW T \in SUBSET S, \A U \in SUBSET T : U # T => U \in good
        PROVE  T \in good
    <2>1. CASE T = {}
      BY <2>1, SumEmpty
    <2>2. CASE T # {}
      <3>1. FirstOf(T) \in T /\ IsFiniteSet(T)
        BY <2>2, NextIn, FS_Subset
      <3>2. T \ {FirstOf(T)} \in good
        BY <1>1, <3>1
      <3>3. SumFunctionOnSet(f, T) = f[FirstOf(T)] + SumFunctionOnSet(f, T \ {FirstOf(T)})
        BY <2>2, <3>1, SumNext
      <3> QED
        BY <3>1, <3>2, <3>3
    <2> QED
      BY <2>1, <2>2
  <1> HIDE DEF good
  <1>2. \A T \in SUBSET S : T \in good
    BY <1>1, SubsetInduction
  <1>3. \A T \in SUBSET S : SumFunctionOnSet(f, T) \in Nat
    BY <1>2 DEF good
  <1>4. ASSUME NEW x \in S PROVE f[x] <= SumFunctionOnSet(f, S)
    <2>1. SumFunctionOnSet(f, S) = f[x] + SumFunctionOnSet(f, S \ {x})
      BY SumRemove
    <2>2. SumFunctionOnSet(f, S \ {x}) \in Nat
      BY <1>3
    <2> QED
      BY <2>1, <2>2
  <1> QED
    BY <1>3, <1>4

\* What is zero outside of a part adds nothing to the part.
THEOREM SumZeros ==
  ASSUME NEW f, NEW S, IsFiniteSet(S), NEW T \in SUBSET S,
         \A x \in T : f[x] \in Int, \A x \in S \ T : f[x] = 0
  PROVE  SumFunctionOnSet(f, S) = SumFunctionOnSet(f, T)
  <1> DEFINE good == {U \in SUBSET (S \ T) :
                        SumFunctionOnSet(f, T \cup U) = SumFunctionOnSet(f, T)}
  <1>1. ASSUME NEW U \in SUBSET (S \ T), \A V \in SUBSET U : V # U => V \in good
        PROVE  U \in good
    <2>1. CASE U = {}
      <3>1. T \cup U = T
        BY <2>1
      <3> QED
        BY <2>1, <3>1
    <2>2. CASE U # {}
      <3>1. PICK x \in U : TRUE
        BY <2>2
      <3>2. U \ {x} \in good
        BY <1>1
      <3>3. (T \cup U) \ {x} = T \cup (U \ {x}) /\ x \in T \cup U /\ T \cup U \subseteq S
        OBVIOUS
      <3>4. IsFiniteSet(T \cup U) /\ \A y \in T \cup U : f[y] \in Int
        BY <3>3, FS_Subset
      <3>5. SumFunctionOnSet(f, T \cup U) = f[x] + SumFunctionOnSet(f, T \cup (U \ {x}))
        BY <3>3, <3>4, SumRemove
      <3>6. f[x] = 0 /\ SumFunctionOnSet(f, T) \in Int
        BY FS_Subset, SumType
      <3> QED
        BY <3>2, <3>5, <3>6
    <2> QED
      BY <2>1, <2>2
  <1> HIDE DEF good
  <1> DEFINE rest == S \ T
  <1>2. IsFiniteSet(rest)
    BY FS_Subset
  <1>5. \A U \in SUBSET rest : (\A V \in SUBSET U : V # U => V \in good) => U \in good
    BY <1>1
  <1> HIDE DEF rest
  <1>3. \A U \in SUBSET rest : U \in good
    BY <1>2, <1>5, SubsetInduction
  <1> USE DEF rest
  <1>4. S \ T \in good /\ T \cup (S \ T) = S
    BY <1>3
  <1> QED
    BY <1>4 DEF good

\* Two sums over the same set, term by term.
THEOREM SumPlus ==
  ASSUME NEW f, NEW g, NEW h, NEW S, IsFiniteSet(S),
         \A x \in S : f[x] \in Int /\ g[x] \in Int /\ h[x] = f[x] + g[x]
  PROVE  SumFunctionOnSet(h, S) = SumFunctionOnSet(f, S) + SumFunctionOnSet(g, S)
  <1> DEFINE good == {T \in SUBSET S : SumFunctionOnSet(h, T)
                        = SumFunctionOnSet(f, T) + SumFunctionOnSet(g, T)}
  <1>1. ASSUME NEW T \in SUBSET S, \A U \in SUBSET T : U # T => U \in good
        PROVE  T \in good
    <2>1. CASE T = {}
      BY <2>1, SumEmpty
    <2>2. CASE T # {}
      <3> DEFINE x == FirstOf(T)
                 U == T \ {x}
      <3>1. x \in T /\ IsFiniteSet(T) /\ IsFiniteSet(U)
        BY <2>2, NextIn, FS_Subset
      <3>2. U \in good
        BY <1>1, <3>1
      <3>3. /\ SumFunctionOnSet(f, T) = f[x] + SumFunctionOnSet(f, U)
            /\ SumFunctionOnSet(g, T) = g[x] + SumFunctionOnSet(g, U)
            /\ SumFunctionOnSet(h, T) = h[x] + SumFunctionOnSet(h, U)
        BY <2>2, <3>1, SumNext
      <3>4. SumFunctionOnSet(f, U) \in Int /\ SumFunctionOnSet(g, U) \in Int
        BY <3>1, SumType
      <3> HIDE DEF x, U
      <3> QED
        BY <3>1, <3>2, <3>3, <3>4
    <2> QED
      BY <2>1, <2>2
  <1> HIDE DEF good
  <1>2. \A T \in SUBSET S : T \in good
    BY <1>1, SubsetInduction
  <1>3. S \in good
    BY <1>2
  <1> QED
    BY <1>3 DEF good

\* A sum of larger terms is larger; and equal only if the terms are.
THEOREM SumMonotone ==
  ASSUME NEW f, NEW g, NEW S, IsFiniteSet(S),
         \A x \in S : f[x] \in Int /\ g[x] \in Int /\ f[x] <= g[x]
  PROVE  /\ SumFunctionOnSet(f, S) <= SumFunctionOnSet(g, S)
         /\ SumFunctionOnSet(f, S) = SumFunctionOnSet(g, S) => \A x \in S : f[x] = g[x]
  <1> DEFINE d == [x \in S |-> g[x] - f[x]]
  <1>1. \A x \in S : d[x] \in Nat /\ g[x] = f[x] + d[x]
    OBVIOUS
  <1> HIDE DEF d
  <1>2. SumFunctionOnSet(g, S) = SumFunctionOnSet(f, S) + SumFunctionOnSet(d, S)
    BY <1>1, SumPlus
  <1>3. SumFunctionOnSet(d, S) \in Nat /\ \A x \in S : d[x] <= SumFunctionOnSet(d, S)
    BY <1>1, SumNat
  <1>4. SumFunctionOnSet(f, S) \in Int
    BY SumType
  <1> QED
    BY <1>1, <1>2, <1>3, <1>4

\* Ones add up to the number of elements they are given to.
THEOREM SumCount ==
  ASSUME NEW S, IsFiniteSet(S), NEW T \in SUBSET S
  PROVE  SumFunctionOnSet([x \in S |-> IF x \in T THEN 1 ELSE 0], S) = Cardinality(T)
  <1> DEFINE f == [x \in S |-> IF x \in T THEN 1 ELSE 0]
             good == {U \in SUBSET T : SumFunctionOnSet(f, U) = Cardinality(U)}
  <1>1. /\ \A x \in T : f[x] = 1
        /\ \A x \in S \ T : f[x] = 0
        /\ \A x \in T : f[x] \in Int
    OBVIOUS
  <1> HIDE DEF f
  <1>2. IsFiniteSet(T)
    BY FS_Subset
  <1>3. ASSUME NEW U \in SUBSET T, \A V \in SUBSET U : V # U => V \in good
        PROVE  U \in good
    <2>1. CASE U = {}
      BY <2>1, SumEmpty, FS_EmptySet
    <2>2. CASE U # {}
      <3>1. PICK x \in U : TRUE
        BY <2>2
      <3>2. U \ {x} \in good
        BY <1>3
      <3>3. IsFiniteSet(U) /\ \A y \in U : f[y] \in Int
        BY <1>1, <1>2, FS_Subset
      <3>4. SumFunctionOnSet(f, U) = f[x] + SumFunctionOnSet(f, U \ {x})
        BY <3>3, SumRemove
      <3>5. Cardinality(U \ {x}) = Cardinality(U) - 1 /\ Cardinality(U) \in Nat
        BY <3>3, Smaller
      <3>6. f[x] = 1
        BY <1>1
      <3> QED
        BY <3>2, <3>4, <3>5, <3>6
    <2> QED
      BY <2>1, <2>2
  <1> HIDE DEF good
  <1>4. \A U \in SUBSET T : U \in good
    BY <1>2, <1>3, SubsetInduction
  <1>5. SumFunctionOnSet(f, T) = Cardinality(T)
    BY <1>4 DEF good
  <1> QED
    BY <1>1, <1>5, SumZeros DEF f

\* A sum over renamed arguments.
THEOREM SumImage ==
  ASSUME NEW f, NEW g, NEW h, NEW S, IsFiniteSet(S),
         \A x, y \in S : h[x] = h[y] => x = y,
         \A x \in S : f[x] \in Int /\ g[h[x]] = f[x]
  PROVE  SumFunctionOnSet(g, {h[x] : x \in S}) = SumFunctionOnSet(f, S)
  <1> DEFINE image(U) == {h[x] : x \in U}
             good == {U \in SUBSET S : SumFunctionOnSet(g, image(U)) = SumFunctionOnSet(f, U)}
  <1>1. ASSUME NEW U \in SUBSET S
        PROVE  IsFiniteSet(U) /\ IsFiniteSet(image(U)) /\ \A y \in image(U) : g[y] \in Int
    <2> DEFINE k == [x \in U |-> h[x]]
    <2>1. IsFiniteSet(U)
      BY FS_Subset
    <2>2. k \in Surjection(U, image(U))
      BY DEF Surjection
    <2>3. IsFiniteSet(image(U))
      <3> HIDE DEF k, image
      <3> QED BY <2>1, <2>2, FS_Surjection
    <2> QED
      BY <2>1, <2>3
  <1>2. ASSUME NEW U \in SUBSET S, \A V \in SUBSET U : V # U => V \in good
        PROVE  U \in good
    <2>1. CASE U = {}
      <3>1. image(U) = {}
        BY <2>1
      <3> QED
        BY <2>1, <3>1, SumEmpty
    <2>2. CASE U # {}
      <3>1. PICK x \in U : TRUE
        BY <2>2
      <3>2. U \ {x} \in good
        BY <1>2
      <3>3. image(U) \ {h[x]} = image(U \ {x}) /\ h[x] \in image(U)
        OBVIOUS
      <3>4. IsFiniteSet(U) /\ IsFiniteSet(image(U)) /\ \A y \in image(U) : g[y] \in Int
        BY <1>1
      <3>5. SumFunctionOnSet(g, image(U \ {x})) = SumFunctionOnSet(f, U \ {x})
        BY <3>2
      <3>6. /\ g[h[x]] = f[x]
            /\ \A y \in U : f[y] \in Int
        OBVIOUS
      <3> HIDE DEF image, good
      <3>7. SumFunctionOnSet(g, image(U)) = g[h[x]] + SumFunctionOnSet(g, image(U) \ {h[x]})
        BY <3>3, <3>4, SumRemove
      <3>8. SumFunctionOnSet(f, U) = f[x] + SumFunctionOnSet(f, U \ {x})
        BY <3>4, <3>6, SumRemove
      <3>9. SumFunctionOnSet(g, image(U)) = SumFunctionOnSet(f, U)
        BY <3>3, <3>5, <3>6, <3>7, <3>8
      <3> QED
        BY <3>9 DEF good
    <2> QED
      BY <2>1, <2>2
  <1> HIDE DEF good
  <1>3. \A U \in SUBSET S : U \in good
    BY <1>2, SubsetInduction
  <1>4. S \in good
    BY <1>3
  <1> QED
    BY <1>4 DEF good

=============================================================================
