---------------------------- MODULE SumTheorems -----------------------------
(***************************************************************************)
(* What the sum of a function over a finite set is, for the models whose   *)
(* invariants add up balances, messages or units, and the least element of *)
(* a set of naturals, by which the proofs do induction: the least size of  *)
(* a counterexample cannot be zero and cannot have a predecessor.          *)
(***************************************************************************)
EXTENDS Integers, FiniteSets, Functions, FiniteSetTheorems,
        WellFoundedInduction, TLAPS

Less == {p \in Nat \X Nat : p[1] < p[2]}

LEMMA LeastNatural ==
  ASSUME NEW T, T \subseteq Nat, T # {}
  PROVE  \E n \in T : \A m \in T : n <= m
  <1>1. IsWellFoundedOn(Less, Nat)
    BY NatLessThanWellFounded, Zenon DEF OpToRel, Less
  <1>2. PICK n \in T : \A m \in T : <<m, n>> \notin Less
    BY <1>1, WFMin
  <1>3. ASSUME NEW m \in T PROVE n <= m
    <2>1. m \in Nat /\ n \in Nat /\ <<m, n>> \notin Less
      BY <1>2
    <2> QED BY <2>1 DEF Less
  <1> QED BY <1>3

\* The least size among sets with something in common.
LEMMA SmallestSet ==
  ASSUME NEW T, T # {}, \A s \in T : IsFiniteSet(s)
  PROVE  \E s \in T : \A t \in T : Cardinality(s) <= Cardinality(t)
  <1> DEFINE N == {Cardinality(s) : s \in T}
  <1>1. N \subseteq Nat /\ N # {}
    BY FS_CardinalityType
  <1>2. PICK n \in N : \A m \in N : n <= m
    <2> HIDE DEF N
    <2> QED BY <1>1, LeastNatural
  <1> QED BY <1>2

-----------------------------------------------------------------------------
(***************************************************************************)
(* The recursion behind SumFunctionOnSet: a function on the subsets of S   *)
(* that takes out one element after the other.  Like every recursive       *)
(* function it is a CHOOSE, of which nothing is known before one is shown  *)
(* to exist.                                                               *)
(***************************************************************************)
Any(s) == CHOOSE x \in s : TRUE

Unfold(f, g, s) == IF s = {} THEN 0 ELSE f[Any(s)] + g[s \ {Any(s)}]

SubsetSums(f, S) == CHOOSE g : g = [s \in SUBSET S |-> Unfold(f, g, s)]

LEMMA SumIsSubsetSum ==
  ASSUME NEW f, NEW S
  PROVE  SumFunctionOnSet(f, S) = SubsetSums(f, S)[S]
  BY DEF SumFunctionOnSet, FoldFunctionOnSet, MapThenFoldSet, SubsetSums, Unfold, Any

LEMMA AnyOf ==
  ASSUME NEW s, IsFiniteSet(s), s # {}
  PROVE  /\ Any(s) \in s
         /\ IsFiniteSet(s \ {Any(s)})
         /\ Cardinality(s) \in Nat /\ Cardinality(s) # 0
         /\ Cardinality(s \ {Any(s)}) = Cardinality(s) - 1
  <1>1. Any(s) \in s
    BY DEF Any
  <1> QED BY <1>1, FS_RemoveElement, FS_CardinalityType, FS_EmptySet

\* The recursion can be followed up to any size.
FollowsUpTo(f, S, g, n) ==
  \A s \in SUBSET S : Cardinality(s) <= n => g[s] = Unfold(f, g, s)

LEMMA FollowedUpTo ==
  ASSUME NEW f, NEW S, IsFiniteSet(S)
  PROVE  \A n \in Nat : \E g : FollowsUpTo(f, S, g, n)
  <1> DEFINE T == {n \in Nat : ~ \E g : FollowsUpTo(f, S, g, n)}
  <1>1. SUFFICES ASSUME T # {} PROVE FALSE
    OBVIOUS
  <1>2. PICK n \in T : \A m \in T : n <= m
    BY <1>1, LeastNatural
  <1>3. \A s \in SUBSET S : IsFiniteSet(s) /\ Cardinality(s) \in Nat
    BY FS_Subset, FS_CardinalityType
  <1>4. n # 0
    <2>1. FollowsUpTo(f, S, [s \in SUBSET S |-> 0], 0)
      BY <1>3, FS_EmptySet DEF FollowsUpTo, Unfold
    <2> QED BY <1>2, <2>1
  <1>5. PICK g : FollowsUpTo(f, S, g, n - 1)
    BY <1>2, <1>4
  <1> DEFINE h == [s \in SUBSET S |-> IF Cardinality(s) <= n - 1 THEN g[s]
                                                                ELSE Unfold(f, g, s)]
  <1>6. ASSUME NEW s \in SUBSET S, Cardinality(s) <= n
        PROVE  h[s] = Unfold(f, h, s)
    <2>1. h[s] = Unfold(f, g, s)
      BY <1>5 DEF FollowsUpTo
    <2>2. CASE s = {}
      BY <2>1, <2>2 DEF Unfold
    <2>3. CASE s # {}
      <3>1. /\ s \ {Any(s)} \in SUBSET S
            /\ Cardinality(s \ {Any(s)}) <= n - 1
        BY <1>3, <1>6, <2>3, AnyOf
      <3>2. h[s \ {Any(s)}] = g[s \ {Any(s)}]
        BY <3>1
      <3> HIDE DEF h
      <3> QED BY <2>1, <2>3, <3>2 DEF Unfold
    <2> QED BY <2>2, <2>3
  <1> HIDE DEF h
  <1>7. FollowsUpTo(f, S, h, n)
    BY <1>6 DEF FollowsUpTo
  <1> QED BY <1>7

LEMMA SubsetSumsUnfold ==
  ASSUME NEW f, NEW S, IsFiniteSet(S), NEW s \in SUBSET S
  PROVE  SubsetSums(f, S)[s] = Unfold(f, SubsetSums(f, S), s)
  <1>1. PICK g : FollowsUpTo(f, S, g, Cardinality(S))
    BY FollowedUpTo, FS_CardinalityType
  <1> DEFINE h == [t \in SUBSET S |-> g[t]]
  <1>2. ASSUME NEW t \in SUBSET S PROVE h[t] = Unfold(f, h, t)
    <2>1. h[t] = Unfold(f, g, t)
      BY <1>1, FS_Subset DEF FollowsUpTo
    <2>2. t \ {Any(t)} \in SUBSET S
      OBVIOUS
    <2>3. h[t \ {Any(t)}] = g[t \ {Any(t)}]
      BY <2>2
    <2> HIDE DEF h
    <2> QED BY <2>1, <2>3 DEF Unfold
  <1>3. h = [t \in SUBSET S |-> Unfold(f, h, t)]
    BY <1>2
  <1> HIDE DEF h
  <1>4. SubsetSums(f, S) = [t \in SUBSET S |-> Unfold(f, SubsetSums(f, S), t)]
    BY <1>3 DEF SubsetSums
  <1> HIDE DEF SubsetSums
  <1> QED BY <1>4

-----------------------------------------------------------------------------
\* The sum of a set whose elements f agrees on with g is the same, whatever
\* larger sets the two recursions run over.
LEMMA SubsetSumsAgree ==
  ASSUME NEW f, NEW S, NEW g, NEW R, IsFiniteSet(S), IsFiniteSet(R),
         NEW s, s \subseteq S, s \subseteq R, \A x \in s : f[x] = g[x]
  PROVE  SubsetSums(f, S)[s] = SubsetSums(g, R)[s]
  <1> DEFINE T == {t \in SUBSET s : SubsetSums(f, S)[t] # SubsetSums(g, R)[t]}
  <1>1. SUFFICES ASSUME T # {} PROVE FALSE
    OBVIOUS
  <1>2. \A t \in T : IsFiniteSet(t)
    BY FS_Subset
  <1>3. PICK t \in T : \A u \in T : Cardinality(t) <= Cardinality(u)
    <2> HIDE DEF T
    <2> QED BY <1>1, <1>2, SmallestSet
  <1>4. t \in SUBSET S /\ t \in SUBSET R /\ t \in SUBSET s
    OBVIOUS
  <1>5. /\ SubsetSums(f, S)[t] = Unfold(f, SubsetSums(f, S), t)
        /\ SubsetSums(g, R)[t] = Unfold(g, SubsetSums(g, R), t)
    BY <1>4, SubsetSumsUnfold
  <1>6. t # {}
    BY <1>5 DEF Unfold
  <1>7. Any(t) \in t /\ t \ {Any(t)} \notin T
    BY <1>2, <1>3, <1>6, AnyOf
  <1>8. f[Any(t)] = g[Any(t)]
        /\ SubsetSums(f, S)[t \ {Any(t)}] = SubsetSums(g, R)[t \ {Any(t)}]
    BY <1>4, <1>7
  <1>9. SubsetSums(f, S)[t] = SubsetSums(g, R)[t]
    BY <1>5, <1>6, <1>8 DEF Unfold
  <1> QED BY <1>9

LEMMA SubsetSumsType ==
  ASSUME NEW f, NEW S, IsFiniteSet(S), \A x \in S : f[x] \in Int, NEW s \in SUBSET S
  PROVE  SubsetSums(f, S)[s] \in Int
  <1> DEFINE g == SubsetSums(f, S)
             T == {t \in SUBSET S : g[t] \notin Int}
  <1>1. SUFFICES ASSUME T # {} PROVE FALSE
    OBVIOUS
  <1>2. \A t \in T : IsFiniteSet(t)
    BY FS_Subset
  <1>3. PICK t \in T : \A u \in T : Cardinality(t) <= Cardinality(u)
    <2> HIDE DEF T
    <2> QED BY <1>1, <1>2, SmallestSet
  <1>4. g[t] = Unfold(f, g, t)
    BY SubsetSumsUnfold
  <1>5. t # {}
    BY <1>4 DEF Unfold
  <1>6. Any(t) \in t /\ t \ {Any(t)} \notin T
    BY <1>2, <1>3, <1>5, AnyOf
  <1>7. f[Any(t)] \in Int /\ g[t \ {Any(t)}] \in Int
    BY <1>6
  <1> HIDE DEF g
  <1>8. g[t] \in Int
    BY <1>4, <1>5, <1>7 DEF Unfold
  <1> QED BY <1>8

\* The recursion takes out an element of its choice, but any will do.
LEMMA SubsetSumsAdd ==
  ASSUME NEW f, NEW S, IsFiniteSet(S), \A x \in S : f[x] \in Int,
         NEW s \in SUBSET S, NEW a \in S \ s
  PROVE  SubsetSums(f, S)[s \cup {a}] = f[a] + SubsetSums(f, S)[s]
  <1> DEFINE g == SubsetSums(f, S)
             T == {t \in SUBSET S : \E b \in S \ t : g[t \cup {b}] # f[b] + g[t]}
  <1>1. SUFFICES ASSUME T # {} PROVE FALSE
    OBVIOUS
  <1>2. \A t \in T : IsFiniteSet(t)
    BY FS_Subset
  <1>3. PICK t \in T : \A u \in T : Cardinality(t) <= Cardinality(u)
    <2> HIDE DEF T
    <2> QED BY <1>1, <1>2, SmallestSet
  <1>4. PICK b \in S \ t : g[t \cup {b}] # f[b] + g[t]
    OBVIOUS
  <1> DEFINE u == t \cup {b}
             x == Any(u)
  <1>5. /\ u \in SUBSET S /\ u # {} /\ x \in u /\ g[u] = f[x] + g[u \ {x}]
        /\ IsFiniteSet(t) /\ Cardinality(t) \in Nat
    <2>1. IsFiniteSet(u) /\ IsFiniteSet(t)
      BY FS_Subset
    <2>2. g[u] = Unfold(f, g, u)
      BY SubsetSumsUnfold
    <2> QED BY <2>1, <2>2, AnyOf, FS_CardinalityType DEF Unfold
  <1>6. x # b
    <2>1. CASE x = b
      <3>1. u \ {x} = t
        BY <2>1
      <3> QED BY <1>4, <1>5, <2>1, <3>1
    <2> QED BY <2>1
  <1>7. x \in t /\ x \in S
    BY <1>5, <1>6
  <1> DEFINE r == t \ {x}
  <1>8. r \in SUBSET S /\ r \notin T
    <2>1. Cardinality(r) = Cardinality(t) - 1
      <3> HIDE DEF T
      <3> QED BY <1>5, <1>7, FS_RemoveElement
    <2>2. r \notin T
      <3> HIDE DEF T, r
      <3> QED BY <1>3, <1>5, <2>1
    <2> QED BY <2>2
  <1>9. g[r \cup {b}] = f[b] + g[r] /\ g[r \cup {x}] = f[x] + g[r]
    BY <1>7, <1>8
  <1>10. r \cup {b} = u \ {x} /\ r \cup {x} = t
    BY <1>6, <1>7
  <1>11. g[u] = f[x] + (f[b] + g[r]) /\ g[t] = f[x] + g[r]
    BY <1>5, <1>9, <1>10
  <1>12. f[x] \in Int /\ f[b] \in Int /\ g[r] \in Int
    BY <1>7, <1>8, SubsetSumsType
  <1> HIDE DEF g, r
  <1>13. g[u] = f[b] + g[t]
    BY <1>11, <1>12
  <1> QED BY <1>4, <1>13

-----------------------------------------------------------------------------
\* What the other modules use.
LEMMA SumEmpty == ASSUME NEW f PROVE SumFunctionOnSet(f, {}) = 0
  <1>1. SubsetSums(f, {})[{}] = Unfold(f, SubsetSums(f, {}), {})
    BY SubsetSumsUnfold, FS_EmptySet
  <1> QED BY <1>1, SumIsSubsetSum DEF Unfold

LEMMA SumType ==
  ASSUME NEW f, NEW S, IsFiniteSet(S), \A x \in S : f[x] \in Int
  PROVE  SumFunctionOnSet(f, S) \in Int
  BY SumIsSubsetSum, SubsetSumsType

LEMMA SumAgree ==
  ASSUME NEW f, NEW g, NEW S, IsFiniteSet(S), \A x \in S : f[x] = g[x]
  PROVE  SumFunctionOnSet(f, S) = SumFunctionOnSet(g, S)
  <1>1. SubsetSums(f, S)[S] = SubsetSums(g, S)[S]
    BY SubsetSumsAgree
  <1> QED BY <1>1, SumIsSubsetSum

LEMMA SumAdd ==
  ASSUME NEW f, NEW S, NEW a, IsFiniteSet(S), a \notin S,
         \A x \in S \cup {a} : f[x] \in Int
  PROVE  SumFunctionOnSet(f, S \cup {a}) = f[a] + SumFunctionOnSet(f, S)
  <1> DEFINE R == S \cup {a}
  <1>1. IsFiniteSet(R)
    BY FS_AddElement
  <1>2. SumFunctionOnSet(f, R) = SubsetSums(f, R)[R]
        /\ SumFunctionOnSet(f, S) = SubsetSums(f, S)[S]
    BY SumIsSubsetSum
  <1>3. S \in SUBSET R /\ a \in R \ S /\ S \cup {a} = R /\ \A x \in R : f[x] \in Int
    OBVIOUS
  <1> HIDE DEF R
  <1>4. SubsetSums(f, R)[R] = f[a] + SubsetSums(f, R)[S]
    BY <1>1, <1>3, SubsetSumsAdd
  <1>5. SubsetSums(f, R)[S] = SubsetSums(f, S)[S]
    BY <1>1, <1>3, SubsetSumsAgree
  <1> QED BY <1>2, <1>3, <1>4, <1>5

LEMMA SumRemove ==
  ASSUME NEW f, NEW S, NEW a \in S, IsFiniteSet(S), \A x \in S : f[x] \in Int
  PROVE  SumFunctionOnSet(f, S) = f[a] + SumFunctionOnSet(f, S \ {a})
  <1>1. IsFiniteSet(S \ {a}) /\ (S \ {a}) \cup {a} = S /\ a \notin S \ {a}
    BY FS_RemoveElement
  <1> QED BY <1>1, SumAdd

LEMMA SumTakeAny ==
  ASSUME NEW f, NEW S, IsFiniteSet(S), S # {}, \A x \in S : f[x] \in Int
  PROVE  SumFunctionOnSet(f, S) = f[Any(S)] + SumFunctionOnSet(f, S \ {Any(S)})
  <1>1. Any(S) \in S
    BY DEF Any
  <1>2. ASSUME NEW a \in S
        PROVE  SumFunctionOnSet(f, S) = f[a] + SumFunctionOnSet(f, S \ {a})
    <2>1. IsFiniteSet(S \ {a}) /\ (S \ {a}) \cup {a} = S /\ a \notin S \ {a}
      BY FS_RemoveElement
    <2> QED BY <2>1, SumAdd
  <1> QED BY <1>1, <1>2

\* Two functions that differ in one place.
LEMMA SumChange ==
  ASSUME NEW f, NEW g, NEW S, NEW a \in S, IsFiniteSet(S),
         \A x \in S : f[x] \in Int, g[a] \in Int,
         \A x \in S \ {a} : g[x] = f[x]
  PROVE  SumFunctionOnSet(g, S) = SumFunctionOnSet(f, S) - f[a] + g[a]
  <1>1. \A x \in S : g[x] \in Int
    OBVIOUS
  <1>2. SumFunctionOnSet(g, S) = g[a] + SumFunctionOnSet(g, S \ {a})
    BY <1>1, SumRemove
  <1>3. SumFunctionOnSet(f, S) = f[a] + SumFunctionOnSet(f, S \ {a})
    BY SumRemove
  <1>4. IsFiniteSet(S \ {a})
    BY FS_RemoveElement
  <1>5. SumFunctionOnSet(g, S \ {a}) = SumFunctionOnSet(f, S \ {a})
        /\ SumFunctionOnSet(f, S \ {a}) \in Int
    BY <1>4, SumAgree, SumType
  <1> QED BY <1>2, <1>3, <1>5

LEMMA SumOfNaturals ==
  ASSUME NEW f, NEW S, IsFiniteSet(S), \A x \in S : f[x] \in Nat
  PROVE  /\ SumFunctionOnSet(f, S) \in Nat
         /\ \A x \in S : f[x] <= SumFunctionOnSet(f, S)
  <1>1. ASSUME NEW R \in SUBSET S PROVE SumFunctionOnSet(f, R) \in Nat
    <2> DEFINE T == {s \in SUBSET S : SumFunctionOnSet(f, s) \notin Nat}
    <2>1. SUFFICES ASSUME T # {} PROVE FALSE
      OBVIOUS
    <2>2. \A s \in T : IsFiniteSet(s)
      BY FS_Subset
    <2>3. PICK s \in T : \A u \in T : Cardinality(s) <= Cardinality(u)
      <3> HIDE DEF T
      <3> QED BY <2>1, <2>2, SmallestSet
    <2>4. s # {}
      BY <2>3, SumEmpty
    <2>5. Any(s) \in s /\ s \ {Any(s)} \notin T
      BY <2>2, <2>3, <2>4, AnyOf
    <2>6. \A x \in s : f[x] \in Int
      OBVIOUS
    <2>7. SumFunctionOnSet(f, s) = f[Any(s)] + SumFunctionOnSet(f, s \ {Any(s)})
      BY <2>2, <2>4, <2>6, SumTakeAny
    <2>8. SumFunctionOnSet(f, s \ {Any(s)}) \in Nat /\ f[Any(s)] \in Nat
      BY <2>5
    <2>9. SumFunctionOnSet(f, s) \in Nat
      BY <2>7, <2>8
    <2> QED BY <2>9
  <1>2. ASSUME NEW x \in S PROVE f[x] <= SumFunctionOnSet(f, S)
    <2>1. SumFunctionOnSet(f, S) = f[x] + SumFunctionOnSet(f, S \ {x})
      BY SumRemove
    <2>2. SumFunctionOnSet(f, S \ {x}) \in Nat /\ f[x] \in Nat
      BY <1>1
    <2> QED BY <2>1, <2>2
  <1> QED BY <1>1, <1>2

LEMMA SumConstant ==
  ASSUME NEW f, NEW S, NEW n \in Nat, IsFiniteSet(S), \A x \in S : f[x] = n
  PROVE  SumFunctionOnSet(f, S) = Cardinality(S) * n
  <1> DEFINE T == {s \in SUBSET S : SumFunctionOnSet(f, s) # Cardinality(s) * n}
  <1>1. SUFFICES ASSUME T # {} PROVE FALSE
    OBVIOUS
  <1>2. \A s \in T : IsFiniteSet(s)
    BY FS_Subset
  <1>3. PICK s \in T : \A u \in T : Cardinality(s) <= Cardinality(u)
    <2> HIDE DEF T
    <2> QED BY <1>1, <1>2, SmallestSet
  <1>4. s # {}
    <2>1. Cardinality({}) * n = 0
      BY FS_EmptySet
    <2> QED BY <1>3, <2>1, SumEmpty
  <1>5. /\ Any(s) \in s /\ s \ {Any(s)} \notin T
        /\ Cardinality(s \ {Any(s)}) = Cardinality(s) - 1
        /\ Cardinality(s) \in Nat /\ Cardinality(s) # 0
    <2>1. IsFiniteSet(s)
      BY <1>2
    <2>2. /\ Any(s) \in s
          /\ Cardinality(s \ {Any(s)}) = Cardinality(s) - 1
          /\ Cardinality(s) \in Nat /\ Cardinality(s) # 0
      <3> HIDE DEF T
      <3> QED BY <1>4, <2>1, AnyOf
    <2>3. s \ {Any(s)} \notin T
      <3> HIDE DEF T
      <3> QED BY <1>3, <2>2
    <2> QED BY <2>2, <2>3
  <1>6. SumFunctionOnSet(f, s) = n + SumFunctionOnSet(f, s \ {Any(s)})
    <2>1. IsFiniteSet(s) /\ \A x \in s : f[x] \in Int
      BY <1>2
    <2>2. f[Any(s)] = n
      BY <1>5
    <2>3. SumFunctionOnSet(f, s) = f[Any(s)] + SumFunctionOnSet(f, s \ {Any(s)})
      BY <1>4, <2>1, SumTakeAny
    <2> QED BY <2>2, <2>3
  <1>7. SumFunctionOnSet(f, s \ {Any(s)}) = (Cardinality(s) - 1) * n
    BY <1>5
  <1>8. n + (Cardinality(s) - 1) * n = Cardinality(s) * n
    BY <1>5
  <1> QED BY <1>6, <1>7, <1>8

-----------------------------------------------------------------------------
\* Induction over the subsets of a finite set, for a set of subsets.
LEMMA SubsetInduction ==
  ASSUME NEW S, IsFiniteSet(S), NEW G, {} \in G,
         \A s \in SUBSET S : s \in G => \A a \in S \ s : s \cup {a} \in G
  PROVE  S \in G
  <1> DEFINE T == (SUBSET S) \ G
  <1>1. SUFFICES ASSUME T # {} PROVE FALSE
    OBVIOUS
  <1>2. \A s \in T : IsFiniteSet(s)
    BY FS_Subset
  <1>3. PICK s \in T : \A u \in T : Cardinality(s) <= Cardinality(u)
    <2> HIDE DEF T
    <2> QED BY <1>1, <1>2, SmallestSet
  <1>4. /\ Any(s) \in s /\ Cardinality(s \ {Any(s)}) = Cardinality(s) - 1
        /\ Cardinality(s) \in Nat
    <2>1. IsFiniteSet(s)
      <3> HIDE DEF T
      <3> QED BY <1>2, <1>3
    <2>2. s \notin G
      OBVIOUS
    <2> HIDE DEF T
    <2> QED BY <2>1, <2>2, AnyOf
  <1>5. s \ {Any(s)} \in G /\ s \ {Any(s)} \in SUBSET S
    <2>1. s \ {Any(s)} \notin T
      <3> HIDE DEF T
      <3> QED BY <1>3, <1>4
    <2> QED BY <2>1
  <1>6. (s \ {Any(s)}) \cup {Any(s)} \in G
    BY <1>3, <1>4, <1>5
  <1>7. (s \ {Any(s)}) \cup {Any(s)} = s
    BY <1>4
  <1>8. s \in G
    BY <1>6, <1>7
  <1> QED BY <1>8

\* Two sets with nothing in common.
LEMMA SumUnion ==
  ASSUME NEW f, NEW S, NEW R, IsFiniteSet(S), IsFiniteSet(R), S \cap R = {},
         \A x \in S \cup R : f[x] \in Int
  PROVE  SumFunctionOnSet(f, S \cup R) = SumFunctionOnSet(f, S) + SumFunctionOnSet(f, R)
  <1> DEFINE Good(s) == SumFunctionOnSet(f, S \cup s) =
                          SumFunctionOnSet(f, S) + SumFunctionOnSet(f, s)
             G == {s \in SUBSET R : Good(s)}
  <1>1. {} \in G
    <2>1. S \cup {} = S /\ SumFunctionOnSet(f, S) \in Int
      BY SumType
    <2> QED BY <2>1, SumEmpty
  <1>2. ASSUME NEW s \in SUBSET R, s \in G, NEW a \in R \ s PROVE s \cup {a} \in G
    <2>1. IsFiniteSet(s) /\ IsFiniteSet(S \cup s)
      BY FS_Subset, FS_Union
    <2>2. SumFunctionOnSet(f, s \cup {a}) = f[a] + SumFunctionOnSet(f, s)
      BY <2>1, SumAdd
    <2>3. SumFunctionOnSet(f, (S \cup s) \cup {a}) = f[a] + SumFunctionOnSet(f, S \cup s)
      BY <2>1, SumAdd
    <2>4. (S \cup s) \cup {a} = S \cup (s \cup {a})
      OBVIOUS
    <2>5. f[a] \in Int /\ SumFunctionOnSet(f, s) \in Int /\ SumFunctionOnSet(f, S) \in Int
      BY <2>1, SumType
    <2>6. SumFunctionOnSet(f, S \cup s) = SumFunctionOnSet(f, S) + SumFunctionOnSet(f, s)
      BY <1>2
    <2>7. SumFunctionOnSet(f, S \cup (s \cup {a})) = f[a] + SumFunctionOnSet(f, S \cup s)
      BY <2>3, <2>4
    <2>8. Good(s \cup {a})
      BY <2>2, <2>5, <2>6, <2>7
    <2> QED BY <2>8
  <1>3. R \in G
    <2> HIDE DEF G
    <2> QED BY <1>1, <1>2, SubsetInduction
  <1> QED BY <1>3

\* A sum of sums.
LEMMA SumPlus ==
  ASSUME NEW f, NEW g, NEW h, NEW S, IsFiniteSet(S),
         \A x \in S : f[x] \in Int /\ h[x] \in Int /\ g[x] = f[x] + h[x]
  PROVE  SumFunctionOnSet(g, S) = SumFunctionOnSet(f, S) + SumFunctionOnSet(h, S)
  <1> DEFINE Good(s) == SumFunctionOnSet(g, s) =
                          SumFunctionOnSet(f, s) + SumFunctionOnSet(h, s)
             G == {s \in SUBSET S : Good(s)}
  <1>1. {} \in G
    BY SumEmpty
  <1>2. ASSUME NEW s \in SUBSET S, s \in G, NEW a \in S \ s PROVE s \cup {a} \in G
    <2>1. IsFiniteSet(s)
      BY FS_Subset
    <2>2. \A x \in S : g[x] \in Int
      OBVIOUS
    <2>3. /\ SumFunctionOnSet(f, s \cup {a}) = f[a] + SumFunctionOnSet(f, s)
          /\ SumFunctionOnSet(h, s \cup {a}) = h[a] + SumFunctionOnSet(h, s)
          /\ SumFunctionOnSet(g, s \cup {a}) = g[a] + SumFunctionOnSet(g, s)
      BY <2>1, <2>2, SumAdd
    <2>4. SumFunctionOnSet(f, s) \in Int /\ SumFunctionOnSet(h, s) \in Int
      BY <2>1, SumType
    <2> QED BY <1>2, <2>3, <2>4
  <1>3. S \in G
    <2> HIDE DEF G
    <2> QED BY <1>1, <1>2, SubsetInduction
  <1> QED BY <1>3

\* What is added up by kind adds up to the same.
LEMMA SumByKind ==
  ASSUME NEW a, NEW I, IsFiniteSet(I), \A i \in I : a[i] \in Int,
         NEW K, IsFiniteSet(K), NEW kind, \A i \in I : kind[i] \in K,
         NEW g, \A k \in K : g[k] = SumFunctionOnSet(a, {i \in I : kind[i] = k})
  PROVE  SumFunctionOnSet(g, K) = SumFunctionOnSet(a, I)
  <1> DEFINE Of(s) == {i \in I : kind[i] \in s}
             Good(s) == SumFunctionOnSet(g, s) = SumFunctionOnSet(a, Of(s))
             G == {s \in SUBSET K : Good(s)}
  <1>1. {} \in G
    <2>1. Of({}) = {}
      OBVIOUS
    <2> QED BY <2>1, SumEmpty
  <1>2. ASSUME NEW s \in SUBSET K, s \in G, NEW k \in K \ s PROVE s \cup {k} \in G
    <2> DEFINE J == {i \in I : kind[i] = k}
    <2>1. IsFiniteSet(s) /\ IsFiniteSet(Of(s)) /\ IsFiniteSet(J)
      BY FS_Subset
    <2>2. Of(s \cup {k}) = Of(s) \cup J /\ Of(s) \cap J = {}
      OBVIOUS
    <2>3. SumFunctionOnSet(a, Of(s \cup {k})) =
            SumFunctionOnSet(a, Of(s)) + SumFunctionOnSet(a, J)
      BY <2>1, <2>2, SumUnion
    <2>4. ASSUME NEW x \in K PROVE g[x] \in Int
      <3>1. IsFiniteSet({i \in I : kind[i] = x})
        BY FS_Subset
      <3>2. SumFunctionOnSet(a, {i \in I : kind[i] = x}) \in Int
        BY <3>1, SumType
      <3> QED BY <3>2
    <2>5. SumFunctionOnSet(g, s \cup {k}) = g[k] + SumFunctionOnSet(g, s)
      BY <2>1, <2>4, SumAdd
    <2>6. SumFunctionOnSet(g, s) \in Int /\ g[k] \in Int /\ g[k] = SumFunctionOnSet(a, J)
      BY <2>1, <2>4, SumType
    <2> HIDE DEF Of, J
    <2> QED BY <1>2, <2>3, <2>5, <2>6
  <1>3. K \in G
    <2> HIDE DEF G
    <2> QED BY <1>1, <1>2, SubsetInduction
  <1>4. Of(K) = I
    OBVIOUS
  <1> QED BY <1>3, <1>4

LEMMA SumPart ==
  ASSUME NEW f, NEW S, NEW R, IsFiniteSet(S), R \subseteq S, \A x \in S : f[x] \in Nat
  PROVE  SumFunctionOnSet(f, R) <= SumFunctionOnSet(f, S)
  <1>1. IsFiniteSet(R) /\ IsFiniteSet(S \ R) /\ R \cup (S \ R) = S /\ R \cap (S \ R) = {}
    BY FS_Subset
  <1>2. \A x \in R \cup (S \ R) : f[x] \in Int
    OBVIOUS
  <1>3. SumFunctionOnSet(f, S) = SumFunctionOnSet(f, R) + SumFunctionOnSet(f, S \ R)
    BY <1>1, <1>2, SumUnion
  <1>4. SumFunctionOnSet(f, R) \in Nat /\ SumFunctionOnSet(f, S \ R) \in Nat
    BY <1>1, SumOfNaturals
  <1> QED BY <1>3, <1>4

=============================================================================
