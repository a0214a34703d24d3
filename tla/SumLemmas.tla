----------------------------- MODULE SumLemmas -----------------------------
(* What folds, sums, quotients and ranks compute, for every finite set: lemmas *)
(* cited by the proofs about the Hall's claims and about a plan's splits.      *)
(* SumFunctionOnSet is defined by recursion over a set; induction over the     *)
(* set comes from < being well-founded on Nat.                                *)
EXTENDS Integers, FiniteSets, Functions, FiniteSetTheorems, WellFoundedInduction, TLAPS

-----------------------------------------------------------------------------
(* Division.                                                                  *)

(* A floored quotient is the largest q with q * b <= a. *)
LEMMA DivFloor ==
    ASSUME NEW a \in Nat, NEW b \in Nat \ {0}
    PROVE  /\ a \div b \in Nat
           /\ b * (a \div b) <= a
           /\ a < b * (a \div b) + b
  BY SMT

\* Quotient and remainder.
LEMMA DivMod ==
    ASSUME NEW a \in Nat, NEW b \in Nat \ {0}
    PROVE  /\ a \div b \in Nat
           /\ a % b \in 0 .. b - 1
           /\ a = b * (a \div b) + (a % b)
  BY SMT

(* Whatever fits below a fraction fits below its floor.                    *)
LEMMA FitsFloor ==
    ASSUME NEW a \in Nat, NEW b \in Nat \ {0}, NEW q \in Int, b * q <= a
    PROVE  q <= a \div b
<1> DEFINE r == a \div b
<1>1. r \in Nat /\ a < b * r + b
  BY DivFloor
<1> HIDE DEF r
<1>2. SUFFICES ASSUME q >= r + 1 PROVE FALSE
  BY <1>1 DEF r
<1>3. b * q >= b * (r + 1) /\ b * (r + 1) = b * r + b
  BY <1>1, <1>2, SMT
<1>4. b * q \in Int /\ b * r \in Nat
  BY <1>1, SMT
<1>5. QED
  BY <1>1, <1>3, <1>4

\* A positive factor cancels.
LEMMA Cancels ==
    ASSUME NEW w \in Nat \ {0}, NEW x \in Int, NEW n \in Nat, 0 <= w * x, w * x <= w * n
    PROVE  x \in 0 .. n
<1>1. ~ (x <= -1)
  <2>1. SUFFICES ASSUME x <= -1 PROVE FALSE
    OBVIOUS
  <2>2. w * (0 - x) >= w /\ w * (0 - x) = 0 - w * x /\ w * x \in Int
    BY <2>1, SMT
  <2>3. QED
    BY <2>2
<1>2. ~ (x >= n + 1)
  <2>1. SUFFICES ASSUME x >= n + 1 PROVE FALSE
    OBVIOUS
  <2>2. w * (n + 1) <= w * x
    BY <2>1, SMT
  <2>3. w * (n + 1) = w * n + w /\ w * n \in Int /\ w * x \in Int
    BY SMT
  <2>4. QED
    BY <2>2, <2>3
<1>3. QED
  BY <1>1, <1>2

-----------------------------------------------------------------------------
(* Induction, and the members of a finite set one by one.                 *)

\* Induction, from < being well-founded on Nat: what holds of 0, and of n + 1
\* whenever of n, holds of every number.  A set stands for the property.
LEMMA NatsFromZero ==
    ASSUME NEW T, 0 \in T, \A n \in Nat : n \in T => n + 1 \in T
    PROVE  Nat \subseteq T
<1> DEFINE R == OpToRel(<, Nat)
           Missing == {n \in Nat : n \notin T}
<1>1. IsWellFoundedOn(R, Nat)
  BY NatLessThanWellFounded
<1>2. \A m, n \in Nat : n < m => <<n, m>> \in R
  BY DEF OpToRel
<1> HIDE DEF R
<1>3. SUFFICES ASSUME Missing # {} PROVE FALSE
  OBVIOUS
<1>4. PICK m \in Missing : \A n \in Missing : <<n, m>> \notin R
  <2>1. Missing \subseteq Nat
    OBVIOUS
  <2>2. QED
    BY <1>1, <1>3, <2>1, WFMin
<1>5. m \in Nat /\ m # 0 /\ m - 1 \in Nat
  OBVIOUS
<1>6. m - 1 \in Missing
  BY <1>5
<1>7. <<m - 1, m>> \in R
  BY <1>2, <1>5
<1>8. QED
  BY <1>4, <1>6, <1>7

\* The member the fold over a set takes first.
OneOf(s) == CHOOSE x \in s : TRUE

\* It is a member.
LEMMA FirstIsOne ==
    ASSUME NEW s, s # {} PROVE OneOf(s) \in s
  BY DEF OneOf

\* g solves the recursion a sum over the sets of D is defined by.
AddsUp(F, D, g) ==
    g = [s \in D |-> IF s = {} THEN 0 ELSE F[OneOf(s)] + g[s \ {OneOf(s)}]]

\* Partial sums: what the recursion says for subsets of up to n members.
LEMMA SumUpTo ==
    ASSUME NEW F, NEW S, IsFiniteSet(S), NEW n \in Nat,
           NEW D, D = {T \in SUBSET S : Cardinality(T) <= n}
    PROVE  \E g : AddsUp(F, D, g)
<1> DEFINE Small(k) == {T \in SUBSET S : Cardinality(T) <= k}
           Good == {k \in Nat : \E g : AddsUp(F, Small(k), g)}
<1>1. \A s \in SUBSET S : /\ IsFiniteSet(s) /\ Cardinality(s) \in Nat
                          /\ (Cardinality(s) = 0 <=> s = {})
  BY FS_Subset, FS_CardinalityType, FS_EmptySet
<1>2. \A k \in Nat : \A s \in Small(k + 1) : s # {} =>
          /\ OneOf(s) \in s /\ s \ {OneOf(s)} \in Small(k)
          /\ (s \in Small(k) => s \ {OneOf(s)} \in Small(k))
  <2>1. TAKE k \in Nat
  <2>6. TAKE s \in Small(k + 1)
  <2>2. HAVE s # {}
  <2>3. OneOf(s) \in s
    BY <2>2, FirstIsOne
  <2>4. Cardinality(s \ {OneOf(s)}) = Cardinality(s) - 1
    BY <1>1, <2>3, FS_RemoveElement
  <2>5. QED
    BY <1>1, <2>3, <2>4
<1>3. 0 \in Good
  <2>1. Small(0) = {{}}
    BY <1>1, FS_EmptySet
  <2>2. AddsUp(F, Small(0), [s \in Small(0) |-> 0])
    BY <2>1 DEF AddsUp
  <2>3. QED
    BY <2>2
<1>4. ASSUME NEW k \in Nat, k \in Good PROVE k + 1 \in Good
  <2>1. PICK g : AddsUp(F, Small(k), g)
    BY <1>4
  <2> DEFINE h == [s \in Small(k + 1) |-> IF s = {} THEN 0
                                          ELSE F[OneOf(s)] + g[s \ {OneOf(s)}]]
  <2>2. Small(k) \subseteq Small(k + 1)
    BY <1>1
  <2>3. \A s \in Small(k) : h[s] = g[s]
    BY <2>1, <2>2 DEF AddsUp
  <2>4. \A s \in Small(k + 1) : s # {} => h[s \ {OneOf(s)}] = g[s \ {OneOf(s)}]
    BY <1>2, <2>3
  <2>5. AddsUp(F, Small(k + 1), h)
    <3>1. \A s \in Small(k + 1) : h[s] = IF s = {} THEN 0
                                   ELSE F[OneOf(s)] + h[s \ {OneOf(s)}]
      <4> HIDE DEF Small
      <4>1. \A s \in Small(k + 1) : h[s] = IF s = {} THEN 0
                                   ELSE F[OneOf(s)] + g[s \ {OneOf(s)}]
        OBVIOUS
      <4> HIDE DEF h
      <4>2. QED
        BY <2>4, <4>1
    <3>2. h = [s \in Small(k + 1) |-> h[s]]
      OBVIOUS
    <3> HIDE DEF h, Small
    <3>3. QED
      BY <3>1, <3>2 DEF AddsUp
  <2>6. QED
    <3> HIDE DEF h, Small
    <3>1. QED
      BY <2>5
<1>5. n \in Good
  BY <1>3, <1>4, NatsFromZero
<1>6. QED
  BY <1>5

-----------------------------------------------------------------------------

\* Induction over a finite set: what holds of {}, and of a set whenever of it
\* without one member, holds of every subset.
LEMMA FromTheEmptySet ==
    ASSUME NEW S, IsFiniteSet(S), NEW T, {} \in T,
           \A s \in SUBSET S : s # {} /\ s \ {OneOf(s)} \in T => s \in T
    PROVE  SUBSET S \subseteq T
<1> DEFINE Sized == {n \in Nat : \A s \in SUBSET S : Cardinality(s) = n => s \in T}
<1>1. \A s \in SUBSET S : /\ IsFiniteSet(s) /\ Cardinality(s) \in Nat
                          /\ (Cardinality(s) = 0 <=> s = {})
  BY FS_Subset, FS_CardinalityType, FS_EmptySet
<1>2. 0 \in Sized
  BY <1>1
<1>3. ASSUME NEW n \in Nat, n \in Sized PROVE n + 1 \in Sized
  <2> SUFFICES ASSUME NEW s \in SUBSET S, Cardinality(s) = n + 1 PROVE s \in T
    OBVIOUS
  <2>1. s # {} /\ OneOf(s) \in s
    BY <1>1, FirstIsOne
  <2>2. Cardinality(s \ {OneOf(s)}) = n
    BY <1>1, <2>1, FS_RemoveElement
  <2>3. QED
    BY <1>3, <2>1, <2>2
<1>4. Nat \subseteq Sized
  BY <1>2, <1>3, NatsFromZero
<1>5. QED
  BY <1>1, <1>4

\* The solution the library's fold chooses.
PartialSum(F, S) == CHOOSE g : AddsUp(F, SUBSET S, g)

\* The library's sum is the solution at the whole set.
LEMMA PartialSums ==
    ASSUME NEW F, NEW S, IsFiniteSet(S)
    PROVE  /\ SumFunctionOnSet(F, S) = PartialSum(F, S)[S]
           /\ AddsUp(F, SUBSET S, PartialSum(F, S))
<1>1. SumFunctionOnSet(F, S) = PartialSum(F, S)[S]
  BY DEF SumFunctionOnSet, FoldFunctionOnSet, MapThenFoldSet, PartialSum, AddsUp, OneOf
<1>2. Cardinality(S) \in Nat /\ {T \in SUBSET S : Cardinality(T) <= Cardinality(S)} = SUBSET S
  BY FS_CardinalityType, FS_Subset
<1>3. \E g : AddsUp(F, SUBSET S, g)
  BY <1>2, SumUpTo
<1>4. QED
  BY <1>1, <1>3 DEF PartialSum

\* The recursion at one set.
LEMMA PartialAt ==
    ASSUME NEW F, NEW S, IsFiniteSet(S), NEW t \in SUBSET S
    PROVE  PartialSum(F, S)[t] = IF t = {} THEN 0
                              ELSE F[OneOf(t)] + PartialSum(F, S)[t \ {OneOf(t)}]
<1>1. \A g : AddsUp(F, SUBSET S, g)
               => g[t] = IF t = {} THEN 0 ELSE F[OneOf(t)] + g[t \ {OneOf(t)}]
  BY DEF AddsUp
<1>2. QED
  BY <1>1, PartialSums

\* Any two partial sums agree.
LEMMA PartialSumsAgree ==
    ASSUME NEW F, NEW S, IsFiniteSet(S), NEW s \in SUBSET S
    PROVE  PartialSum(F, S)[s] = SumFunctionOnSet(F, s)
<1> DEFINE Agreed == {t \in SUBSET S : t \subseteq s => PartialSum(F, S)[t] = PartialSum(F, s)[t]}
<1>1. IsFiniteSet(s)
  BY FS_Subset
<1>2. {} \in Agreed
  BY <1>1, PartialAt
<1>3. ASSUME NEW t \in SUBSET S, t # {}, t \ {OneOf(t)} \in Agreed PROVE t \in Agreed
  <2> SUFFICES ASSUME t \subseteq s PROVE PartialSum(F, S)[t] = PartialSum(F, s)[t]
    OBVIOUS
  <2>1. PartialSum(F, S)[t \ {OneOf(t)}] = PartialSum(F, s)[t \ {OneOf(t)}]
    BY <1>3
  <2>2. QED
    BY <1>1, <1>3, <2>1, PartialAt
<1>4. SUBSET S \subseteq Agreed
  <2> HIDE DEF Agreed
  <2>1. QED
    BY <1>2, <1>3, FromTheEmptySet
<1>5. QED
  BY <1>1, <1>4, PartialSums

\* SumFunctionOnSet is the sum its name says.
LEMMA SumOfNone ==
    ASSUME NEW F PROVE SumFunctionOnSet(F, {}) = 0
<1>1. IsFiniteSet({})
  BY FS_EmptySet
<1>2. SumFunctionOnSet(F, {}) = PartialSum(F, {})[{}]
  BY <1>1, PartialSums
<1>3. PartialSum(F, {})[{}] = 0
  BY <1>1, PartialAt
<1>4. QED
  BY <1>2, <1>3

\* One member, and the sum of the others.
LEMMA SumOfSome ==
    ASSUME NEW F, NEW S, IsFiniteSet(S), S # {}
    PROVE  SumFunctionOnSet(F, S) = F[OneOf(S)] + SumFunctionOnSet(F, S \ {OneOf(S)})
<1>1. PartialSum(F, S)[S] = F[OneOf(S)] + PartialSum(F, S)[S \ {OneOf(S)}]
  BY PartialAt
<1>2. QED
  BY <1>1, PartialSumsAgree

\* Integers add up to an integer.
LEMMA SumIsInt ==
    ASSUME NEW S, IsFiniteSet(S), NEW F, \A x \in S : F[x] \in Int, NEW s \in SUBSET S
    PROVE  SumFunctionOnSet(F, s) \in Int
<1> DEFINE Summed == {t \in SUBSET S : SumFunctionOnSet(F, t) \in Int}
<1>1. {} \in Summed
  BY SumOfNone
<1>2. ASSUME NEW t \in SUBSET S, t # {}, t \ {OneOf(t)} \in Summed PROVE t \in Summed
  <2>1. F[OneOf(t)] \in Int /\ IsFiniteSet(t)
    BY <1>2, FirstIsOne, FS_Subset
  <2>2. QED
    BY <1>2, <2>1, SumOfSome
<1>3. SUBSET S \subseteq Summed
  <2> HIDE DEF Summed
  <2>1. QED
    BY <1>1, <1>2, FromTheEmptySet
<1>4. QED
  BY <1>3

\* Kept apart from the sums, where the provers no longer find it.
LEMMA Distributes ==
    ASSUME NEW a \in Int, NEW b \in Int, NEW c \in Int
    PROVE  a * (b + c) = a * b + a * c
  OBVIOUS

\* A bound that holds of every member holds of the sums.
LEMMA SumsCompare ==
    ASSUME NEW S, IsFiniteSet(S), NEW A \in Int, NEW F, NEW G, NEW H,
           \A x \in S : /\ F[x] \in Int /\ G[x] \in Int /\ H[x] \in Int
                        /\ A * G[x] <= F[x] + H[x]
    PROVE  A * SumFunctionOnSet(G, S) <= SumFunctionOnSet(F, S) + SumFunctionOnSet(H, S)
<1> DEFINE Bounded == {s \in SUBSET S : A * SumFunctionOnSet(G, s)
                           <= SumFunctionOnSet(F, s) + SumFunctionOnSet(H, s)}
<1>1. {} \in Bounded
  BY SumOfNone
<1>2. ASSUME NEW s \in SUBSET S, s # {}, s \ {OneOf(s)} \in Bounded PROVE s \in Bounded
  <2> DEFINE x == OneOf(s)
             r == s \ {x}
  <2>1. x \in S /\ IsFiniteSet(s) /\ r \in SUBSET S
    BY <1>2, FirstIsOne, FS_Subset
  <2>2. /\ SumFunctionOnSet(F, s) = F[x] + SumFunctionOnSet(F, r)
        /\ SumFunctionOnSet(G, s) = G[x] + SumFunctionOnSet(G, r)
        /\ SumFunctionOnSet(H, s) = H[x] + SumFunctionOnSet(H, r)
    BY <1>2, <2>1, SumOfSome
  <2>3. /\ SumFunctionOnSet(F, r) \in Int
        /\ SumFunctionOnSet(G, r) \in Int
        /\ SumFunctionOnSet(H, r) \in Int
    BY <2>1, SumIsInt
  <2>4. A * SumFunctionOnSet(G, r) <= SumFunctionOnSet(F, r) + SumFunctionOnSet(H, r)
    BY <1>2
  <2>5. A * (G[x] + SumFunctionOnSet(G, r)) = A * G[x] + A * SumFunctionOnSet(G, r)
    BY <2>1, <2>3, Distributes
  <2>6. A * G[x] \in Int /\ A * SumFunctionOnSet(G, r) \in Int
    BY <2>1, <2>3
  <2> HIDE DEF x, r
  <2>7. QED
    BY <2>1, <2>2, <2>3, <2>4, <2>5, <2>6
<1>3. SUBSET S \subseteq Bounded
  <2> HIDE DEF Bounded
  <2>1. QED
    BY <1>1, <1>2, FromTheEmptySet
<1>4. QED
  BY <1>3

\* What one member adds to a sum of noughts.
LEMMA SumOfOne ==
    ASSUME NEW S, IsFiniteSet(S), NEW w, NEW d \in Int
    PROVE  SumFunctionOnSet([x \in S |-> IF x = w THEN d ELSE 0], S) = IF w \in S THEN d ELSE 0
<1> DEFINE F == [x \in S |-> IF x = w THEN d ELSE 0]
           Counted == {s \in SUBSET S : SumFunctionOnSet(F, s) = IF w \in s THEN d ELSE 0}
<1>1. {} \in Counted
  BY SumOfNone
<1>2. ASSUME NEW s \in SUBSET S, s # {}, s \ {OneOf(s)} \in Counted PROVE s \in Counted
  <2>1. OneOf(s) \in s /\ IsFiniteSet(s)
    BY <1>2, FirstIsOne, FS_Subset
  <2>2. SumFunctionOnSet(F, s) = F[OneOf(s)] + SumFunctionOnSet(F, s \ {OneOf(s)})
    BY <1>2, <2>1, SumOfSome
  <2>3. SumFunctionOnSet(F, s \ {OneOf(s)}) = IF w \in s \ {OneOf(s)} THEN d ELSE 0
    BY <1>2
  <2>4. F[OneOf(s)] = IF OneOf(s) = w THEN d ELSE 0
    BY <2>1
  <2> HIDE DEF F
  <2>5. QED
    BY <2>1, <2>2, <2>3, <2>4
<1>3. SUBSET S \subseteq Counted
  <2> HIDE DEF Counted
  <2>1. QED
    BY <1>1, <1>2, FromTheEmptySet
<1>4. QED
  BY <1>3

\* A scaled bound on every member bounds the scaled sum.
LEMMA ScaledSums ==
    ASSUME NEW S, IsFiniteSet(S), NEW A \in Int, NEW F, NEW G,
           \A x \in S : F[x] \in Int /\ G[x] \in Int /\ A * G[x] <= F[x]
    PROVE  A * SumFunctionOnSet(G, S) <= SumFunctionOnSet(F, S)
<1> DEFINE N == [x \in S |-> IF x = 0 THEN 0 ELSE 0]
<1>1. SumFunctionOnSet(N, S) = 0
  BY SumOfOne, 0 \in Int
<1>2. \A x \in S : N[x] = 0
  OBVIOUS
<1> HIDE DEF N
<1>3. \A x \in S : N[x] \in Int /\ A * G[x] <= F[x] + N[x]
  BY <1>2
<1>4. A * SumFunctionOnSet(G, S) <= SumFunctionOnSet(F, S) + SumFunctionOnSet(N, S)
  BY <1>3, SumsCompare
<1>5. SumFunctionOnSet(F, S) \in Int
  BY SumIsInt
<1>6. QED
  BY <1>1, <1>4, <1>5

\* When one member changes by at most d, and no other grows, nor does the sum
\* by more than d.
LEMMA OneMoves ==
    ASSUME NEW S, IsFiniteSet(S), NEW F, NEW G, NEW w \in S, NEW d \in Int,
           \A x \in S : F[x] \in Int /\ G[x] \in Int,
           G[w] <= F[w] + d, \A x \in S \ {w} : G[x] <= F[x]
    PROVE  SumFunctionOnSet(G, S) <= SumFunctionOnSet(F, S) + d
<1> DEFINE H == [x \in S |-> IF x = w THEN d ELSE 0]
<1>1. \A x \in S : H[x] \in Int /\ 1 * G[x] <= F[x] + H[x]
  OBVIOUS
<1>2. SumFunctionOnSet(H, S) = d
  BY SumOfOne
<1>3. SumFunctionOnSet(F, S) \in Int /\ SumFunctionOnSet(G, S) \in Int
  BY SumIsInt
<1> HIDE DEF H
<1>4. 1 * SumFunctionOnSet(G, S) <= SumFunctionOnSet(F, S) + SumFunctionOnSet(H, S)
  BY <1>1, SumsCompare
<1>5. QED
  BY <1>2, <1>3, <1>4

\* No part is larger than the sum.
LEMMA PartOfSum ==
    ASSUME NEW S, IsFiniteSet(S), NEW F, \A x \in S : F[x] \in Nat, NEW w \in S
    PROVE  F[w] <= SumFunctionOnSet(F, S)
<1> DEFINE G == [x \in S |-> IF x = w THEN F[w] ELSE 0]
<1>1. SumFunctionOnSet(G, S) = F[w]
  BY SumOfOne
<1>2. SumFunctionOnSet(F, S) \in Int /\ SumFunctionOnSet(G, S) \in Int
  BY SumIsInt
<1>3. /\ \A x \in S : F[x] \in Int /\ G[x] \in Int
      /\ G[w] <= F[w] + 0 /\ \A x \in S \ {w} : G[x] <= F[x]
  OBVIOUS
<1> HIDE DEF G
<1>4. SumFunctionOnSet(G, S) <= SumFunctionOnSet(F, S) + 0
  BY <1>3, OneMoves, 0 \in Int
<1>5. QED
  BY <1>1, <1>2, <1>4

(* Scaled member by member, and split in two, a sum is scaled and split.   *)
LEMMA SumsAdd ==
    ASSUME NEW S, IsFiniteSet(S), NEW A \in Int, NEW F, NEW G, NEW H,
           \A x \in S : /\ F[x] \in Int /\ G[x] \in Int /\ H[x] \in Int
                        /\ A * G[x] = F[x] + H[x]
    PROVE  A * SumFunctionOnSet(G, S) = SumFunctionOnSet(F, S) + SumFunctionOnSet(H, S)
<1> DEFINE Added == {s \in SUBSET S : A * SumFunctionOnSet(G, s)
                         = SumFunctionOnSet(F, s) + SumFunctionOnSet(H, s)}
<1>1. {} \in Added
  BY SumOfNone
<1>2. ASSUME NEW s \in SUBSET S, s # {}, s \ {OneOf(s)} \in Added PROVE s \in Added
  <2> DEFINE x == OneOf(s)
             r == s \ {x}
  <2>1. x \in S /\ IsFiniteSet(s) /\ r \in SUBSET S
    BY <1>2, FirstIsOne, FS_Subset
  <2>2. /\ SumFunctionOnSet(F, s) = F[x] + SumFunctionOnSet(F, r)
        /\ SumFunctionOnSet(G, s) = G[x] + SumFunctionOnSet(G, r)
        /\ SumFunctionOnSet(H, s) = H[x] + SumFunctionOnSet(H, r)
    BY <1>2, <2>1, SumOfSome
  <2>3. /\ SumFunctionOnSet(F, r) \in Int
        /\ SumFunctionOnSet(G, r) \in Int
        /\ SumFunctionOnSet(H, r) \in Int
    BY <2>1, SumIsInt
  <2>4. A * SumFunctionOnSet(G, r) = SumFunctionOnSet(F, r) + SumFunctionOnSet(H, r)
    BY <1>2
  <2>5. A * (G[x] + SumFunctionOnSet(G, r)) = A * G[x] + A * SumFunctionOnSet(G, r)
    BY <2>1, <2>3, Distributes
  <2>6. A * G[x] \in Int /\ A * SumFunctionOnSet(G, r) \in Int
    BY <2>1, <2>3
  <2>7. F[x] \in Int /\ G[x] \in Int /\ H[x] \in Int /\ A * G[x] = F[x] + H[x]
    BY <2>1
  <2> HIDE DEF x, r
  <2>8. A * SumFunctionOnSet(G, s) = A * G[x] + A * SumFunctionOnSet(G, r)
    BY <2>2, <2>5
  <2>9. A * SumFunctionOnSet(G, s) = SumFunctionOnSet(F, s) + SumFunctionOnSet(H, s)
    BY <2>2, <2>3, <2>4, <2>6, <2>7, <2>8
  <2>10. QED
    BY <2>9
<1>3. SUBSET S \subseteq Added
  <2> HIDE DEF Added
  <2>1. QED
    BY <1>1, <1>2, FromTheEmptySet
<1>4. QED
  BY <1>3

\* Scaled member by member, a sum is scaled.
LEMMA SumScales ==
    ASSUME NEW S, IsFiniteSet(S), NEW A \in Int, NEW F, NEW G,
           \A x \in S : F[x] \in Int /\ G[x] \in Int /\ A * G[x] = F[x]
    PROVE  A * SumFunctionOnSet(G, S) = SumFunctionOnSet(F, S)
<1> DEFINE none == [x \in S |-> IF x = 0 THEN 0 ELSE 0]
<1>1. \A x \in S : none[x] = 0
  OBVIOUS
<1>2. SumFunctionOnSet(none, S) = 0
  BY SumOfOne, 0 \in Int
<1> HIDE DEF none
<1>3. \A x \in S : /\ F[x] \in Int /\ G[x] \in Int /\ none[x] \in Int
                   /\ A * G[x] = F[x] + none[x]
  BY <1>1
<1>4. A * SumFunctionOnSet(G, S) = SumFunctionOnSet(F, S) + SumFunctionOnSet(none, S)
  BY <1>3, SumsAdd
<1>5. SumFunctionOnSet(F, S) \in Int
  BY <1>3, SumIsInt
<1>6. QED
  BY <1>2, <1>4, <1>5

\* 1 .. n has n members.
LEMMA OneToN ==
    ASSUME NEW n \in Nat
    PROVE  IsFiniteSet(1 .. n) /\ Cardinality(1 .. n) = n
<1>1. n \in Int /\ 1 \in Int /\ (1 > n => n = 0)
  OBVIOUS
<1>2. QED
  BY <1>1, FS_Interval

(* One for every member of T is as many as T has.                          *)
LEMMA SumCounts ==
    ASSUME NEW S, IsFiniteSet(S), NEW T
    PROVE  SumFunctionOnSet([x \in S |-> IF x \in T THEN 1 ELSE 0], S)
             = Cardinality(S \cap T)
<1> DEFINE F == [x \in S |-> IF x \in T THEN 1 ELSE 0]
           Counted == {s \in SUBSET S : SumFunctionOnSet(F, s) = Cardinality(s \cap T)}
<1>1. {} \in Counted
  <2>1. {} \cap T = {}
    OBVIOUS
  <2>2. QED
    BY <2>1, SumOfNone, FS_EmptySet
<1>2. ASSUME NEW s \in SUBSET S, s # {}, s \ {OneOf(s)} \in Counted PROVE s \in Counted
  <2> DEFINE x == OneOf(s)
             r == s \ {x}
  <2>1. x \in s /\ IsFiniteSet(s) /\ IsFiniteSet(s \cap T) /\ Cardinality(s \cap T) \in Nat
    BY <1>2, FirstIsOne, FS_Subset, FS_CardinalityType
  <2>2. SumFunctionOnSet(F, s) = F[x] + SumFunctionOnSet(F, r)
    BY <1>2, <2>1, SumOfSome
  <2>3. SumFunctionOnSet(F, r) = Cardinality(r \cap T)
    BY <1>2
  <2>4. r \cap T = (s \cap T) \ {x}
    OBVIOUS
  <2>5. Cardinality(r \cap T) = IF x \in s \cap T THEN Cardinality(s \cap T) - 1
                                ELSE Cardinality(s \cap T)
    BY <2>1, <2>4, FS_RemoveElement
  <2>6. F[x] = IF x \in T THEN 1 ELSE 0
    BY <2>1
  <2>7. SumFunctionOnSet(F, s) = Cardinality(s \cap T)
    <3> HIDE DEF F, x, r
    <3>1. QED
      BY <2>1, <2>2, <2>3, <2>5, <2>6
  <2>8. QED
    BY <2>7
<1>3. SUBSET S \subseteq Counted
  <2> HIDE DEF Counted
  <2>1. QED
    BY <1>1, <1>2, FromTheEmptySet
<1>4. QED
  BY <1>3

(* q for each, and one more for every member of T.                         *)
LEMMA SumOfShares ==
    ASSUME NEW S, IsFiniteSet(S), NEW T \in SUBSET S, NEW q \in Int, NEW F,
           \A x \in S : F[x] = q + (IF x \in T THEN 1 ELSE 0)
    PROVE  SumFunctionOnSet(F, S) = q * Cardinality(S) + Cardinality(T)
<1> DEFINE ones == [x \in S |-> IF x \in S THEN 1 ELSE 0]
           marks == [x \in S |-> IF x \in T THEN 1 ELSE 0]
           losses == [x \in S |-> IF x \in T THEN -1 ELSE 0]
<1>1. SumFunctionOnSet(ones, S) = Cardinality(S)
  BY SumCounts
<1>2. SumFunctionOnSet(marks, S) = Cardinality(T)
  <2>1. S \cap T = T
    OBVIOUS
  <2>2. QED
    BY <2>1, SumCounts
<1>3. \A x \in S : /\ ones[x] = 1
                   /\ marks[x] = IF x \in T THEN 1 ELSE 0
                   /\ losses[x] = IF x \in T THEN -1 ELSE 0
  OBVIOUS
<1> HIDE DEF ones, marks, losses
<1>4. \A x \in S : /\ F[x] \in Int /\ ones[x] \in Int /\ losses[x] \in Int
                   /\ marks[x] \in Int
                   /\ q * ones[x] = F[x] + losses[x]
                   /\ (-1) * marks[x] = losses[x]
  BY <1>3
<1>5. q * SumFunctionOnSet(ones, S) = SumFunctionOnSet(F, S) + SumFunctionOnSet(losses, S)
  BY <1>4, SumsAdd
<1>6. (-1) * SumFunctionOnSet(marks, S) = SumFunctionOnSet(losses, S)
  <2>1. -1 \in Int
    OBVIOUS
  <2>2. QED
    BY <1>4, <2>1, SumScales
<1>7. /\ SumFunctionOnSet(F, S) \in Int
      /\ SumFunctionOnSet(losses, S) \in Int
      /\ SumFunctionOnSet(marks, S) \in Int
      /\ SumFunctionOnSet(ones, S) \in Int
  BY <1>4, SumIsInt
<1>8. q * SumFunctionOnSet(ones, S) \in Int
  BY <1>7
<1>9. QED
  BY <1>1, <1>2, <1>5, <1>6, <1>7, <1>8

-----------------------------------------------------------------------------
(* Ranks in an order: the members with fewer than k before them are k.     *)

\* Before, a set of pairs, ranks the members of S without ties.
Ranks(Before, S) ==
    /\ \A x \in S : <<x, x>> \notin Before
    /\ \A x, y \in S : x = y \/ <<x, y>> \in Before \/ <<y, x>> \in Before
    /\ \A x, y, z \in S : <<x, y>> \in Before /\ <<y, z>> \in Before
                             => <<x, z>> \in Before

\* Those before x: x's rank is how many they are.
Preceding(Before, S, x) == {y \in S : <<y, x>> \in Before}

\* Ranks are 0, 1, 2, ..., each of them once.
LEMMA FirstRanks ==
    ASSUME NEW S, IsFiniteSet(S), NEW Before, Ranks(Before, S),
           NEW rank, \A x \in S : rank[x] = Cardinality(Preceding(Before, S, x)),
           NEW k \in 0 .. Cardinality(S)
    PROVE  Cardinality({x \in S : rank[x] < k}) = k
<1> DEFINE n == Cardinality(S)
           Low == {x \in S : rank[x] < k}
           at == [x \in S |-> rank[x]]
<1>1. n \in Nat
  BY FS_CardinalityType
<1>2. \A x \in S : /\ IsFiniteSet(Preceding(Before, S, x))
                   /\ rank[x] \in Nat /\ rank[x] <= n
                   /\ rank[x] = n => S = Preceding(Before, S, x)
  <2> TAKE x \in S
  <2>1. Preceding(Before, S, x) \subseteq S /\ rank[x] = Cardinality(Preceding(Before, S, x))
    BY DEF Preceding
  <2>2. QED
    BY <2>1, FS_Subset, FS_CardinalityType
<1>3. \A x \in S : rank[x] \in 0 .. n - 1
  <2> TAKE x \in S
  <2>1. S # Preceding(Before, S, x)
    BY DEF Ranks, Preceding
  <2> HIDE DEF n
  <2>2. QED
    BY <1>1, <1>2, <2>1
<1>4. \A x, y \in S : <<x, y>> \in Before => rank[x] < rank[y]
  <2> SUFFICES ASSUME NEW x \in S, NEW y \in S, <<x, y>> \in Before
               PROVE  rank[x] < rank[y]
    OBVIOUS
  <2>1. Preceding(Before, S, x) \subseteq Preceding(Before, S, y) /\ x \in Preceding(Before, S, y) /\ x \notin Preceding(Before, S, x)
    BY DEF Ranks, Preceding
  <2>2. IsFiniteSet(Preceding(Before, S, y)) /\ rank[y] = Cardinality(Preceding(Before, S, y))
        /\ rank[x] = Cardinality(Preceding(Before, S, x))
    BY <1>2
  <2>3. /\ Cardinality(Preceding(Before, S, x)) <= Cardinality(Preceding(Before, S, y))
        /\ Cardinality(Preceding(Before, S, x)) # Cardinality(Preceding(Before, S, y))
    BY <2>1, <2>2, FS_Subset
  <2>4. QED
    BY <1>2, <2>2, <2>3
<1>5. \A x, y \in S : rank[x] = rank[y] => x = y
  <2> SUFFICES ASSUME NEW x \in S, NEW y \in S, rank[x] = rank[y] PROVE x = y
    OBVIOUS
  <2>1. rank[x] \in Nat /\ rank[y] \in Nat
    BY <1>2
  <2>2. <<x, y>> \notin Before /\ <<y, x>> \notin Before
    BY <1>4, <2>1
  <2>3. QED
    BY <2>2 DEF Ranks
<1>6. at \in Surjection(S, 0 .. n - 1)
  <2>1. at \in Injection(S, 0 .. n - 1)
    <3>1. at \in [S -> 0 .. n - 1] /\ \A x \in S : at[x] = rank[x]
      BY <1>3
    <3> HIDE DEF at
    <3>2. QED
      BY <1>5, <3>1 DEF Injection, IsInjective
  <2>2. IsFiniteSet(0 .. n - 1) /\ Cardinality(0 .. n - 1) = n
    <3> HIDE DEF n
    <3>1. 0 \in Int /\ n - 1 \in Int /\ (0 > n - 1 => n = 0)
      BY <1>1
    <3>2. QED
      BY <1>1, <3>1, FS_Interval
  <2> HIDE DEF at
  <2>3. QED
    BY <2>1, <2>2, FS_Injection
<1>7. k \in Nat /\ k <= n
  BY <1>1
<1> DEFINE low == [x \in Low |-> rank[x]]
<1>8. low \in Bijection(Low, 0 .. k - 1)
  <2>1. \A x \in Low : x \in S /\ low[x] = rank[x] /\ low[x] \in 0 .. k - 1
    <3>1. \A x \in Low : x \in S /\ low[x] = rank[x] /\ rank[x] < k /\ rank[x] \in 0 .. n - 1
      BY <1>3
    <3> HIDE DEF low, Low
    <3>2. QED
      BY <1>7, <3>1
  <2>2. low \in [Low -> 0 .. k - 1]
    BY <2>1
  <2>3. \A r \in 0 .. k - 1 : \E x \in Low : low[x] = r
    <3> TAKE r \in 0 .. k - 1
    <3>1. r \in 0 .. n - 1 /\ r < k
      BY <1>1, <1>7
    <3>2. PICK x \in S : rank[x] = r
      BY <1>6, <3>1 DEF Surjection
    <3>3. x \in Low
      BY <3>1, <3>2
    <3>4. QED
      BY <3>2, <3>3
  <2> HIDE DEF low, Low
  <2>4. low \in Injection(Low, 0 .. k - 1)
    BY <1>5, <2>1, <2>2 DEF Injection, IsInjective
  <2>5. low \in Surjection(Low, 0 .. k - 1)
    BY <2>2, <2>3 DEF Surjection
  <2>6. QED
    BY <2>4, <2>5 DEF Bijection
<1>9. IsFiniteSet(Low)
  BY FS_Subset
<1> HIDE DEF Low, low
<1>10. Cardinality(0 .. k - 1) = k
  BY <1>7, FS_Interval
<1>11. Cardinality(Low) = Cardinality(0 .. k - 1)
  BY <1>8, <1>9, FS_Bijection DEF ExistsBijection
<1>12. QED
  BY <1>10, <1>11 DEF Low
=============================================================================
