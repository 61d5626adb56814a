--------------------------- MODULE RecursionLemmas ---------------------------
(***************************************************************************)
(* What the proofs need of recursive definitions: sums over finite sets    *)
(* (SumFunctionOnSet of the community modules, which adds the elements in  *)
(* an order that is not known), and functions of 0 .. N whose every value  *)
(* is given by the one before.                                             *)
(***************************************************************************)
EXTENDS Integers, FiniteSets, Functions, FiniteSetTheorems, WellFoundedInduction, TLAPS

-----------------------------------------------------------------------------
(* Induction over the subsets of a finite set: of some subsets one is       *)
(* smallest, in that it contains no other of them.                          *)
LEMMA SmallestSubset ==
  ASSUME NEW S, IsFiniteSet(S), NEW G \in SUBSET SUBSET S, G # {}
  PROVE  \E T \in G : \A U \in G : U \subseteq T => U = T
<1>. DEFINE R == StrictSubsetOrdering(S)
<1>1. IsWellFoundedOn(R, SUBSET S)
  BY FS_StrictSubsetOrderingWellFounded, FS_FiniteSubsetsOfFinite
<1>2. \A T, U \in SUBSET S : U \subseteq T /\ U # T => <<U, T>> \in R
  BY DEF StrictSubsetOrdering
<1>. HIDE DEF R
<1>3. PICK T \in G : \A U \in G : <<U, T>> \notin R
  BY <1>1, WFMin
<1> QED
  BY <1>2, <1>3

-----------------------------------------------------------------------------
(* How the sum is defined: by a function of the subsets that takes one      *)
(* element off at a time.                                                   *)
Pick(s) == CHOOSE x \in s : TRUE
AddsUp(f, S, g) ==
  g = [s \in SUBSET S |-> IF s = {} THEN 0 ELSE f[Pick(s)] + g[s \ {Pick(s)}]]

LEMMA SumUnfolds ==
  ASSUME NEW f, NEW S
  PROVE  SumFunctionOnSet(f, S) = (CHOOSE g : AddsUp(f, S, g))[S]
BY DEF SumFunctionOnSet, FoldFunctionOnSet, MapThenFoldSet, AddsUp, Pick

LEMMA PickIn == ASSUME NEW s, s # {} PROVE Pick(s) \in s
BY DEF Pick

LEMMA AddsUpAt ==
  ASSUME NEW f, NEW S, NEW g, AddsUp(f, S, g), NEW s \in SUBSET S
  PROVE  g[s] = IF s = {} THEN 0 ELSE f[Pick(s)] + g[s \ {Pick(s)}]
BY DEF AddsUp

(* Two such functions agree wherever both are defined. *)
LEMMA AddsUpUnique ==
  ASSUME NEW f, NEW A, NEW B, IsFiniteSet(A), NEW g, NEW h,
         AddsUp(f, A, g), AddsUp(f, B, h), NEW s \in SUBSET A, s \in SUBSET B
  PROVE  g[s] = h[s]
<1>. DEFINE Bad == {t \in SUBSET A : t \in SUBSET B /\ g[t] # h[t]}
<1>1. SUFFICES ASSUME s \in Bad PROVE FALSE
  OBVIOUS
<1>2. PICK t \in Bad : \A u \in Bad : u \subseteq t => u = t
  <2>1. Bad \in SUBSET SUBSET A /\ Bad # {}
    BY <1>1
  <2> HIDE DEF Bad
  <2> QED BY <2>1, SmallestSubset
<1>3. /\ t \in SUBSET A /\ t \in SUBSET B
      /\ g[t] # h[t]
  BY <1>2
<1>4. t # {}
  BY <1>3, AddsUpAt
<1>. DEFINE u == t \ {Pick(t)}
<1>5. u \in SUBSET A /\ u \in SUBSET B /\ u \subseteq t /\ u # t
  BY <1>3, <1>4, PickIn
<1>6. g[u] = h[u]
  BY <1>2, <1>5
<1>7. g[t] = f[Pick(t)] + g[u] /\ h[t] = f[Pick(t)] + h[u]
  <2>1. g[t] = f[Pick(t)] + g[u]
    BY <1>3, <1>4, AddsUpAt
  <2>2. h[t] = f[Pick(t)] + h[u]
    BY <1>3, <1>4, AddsUpAt
  <2> QED BY <2>1, <2>2
<1> QED
  BY <1>3, <1>6, <1>7

LEMMA AddsUpExists ==
  ASSUME NEW f, NEW S, IsFiniteSet(S)
  PROVE  \E g : AddsUp(f, S, g)
<1>. DEFINE Bad == {T \in SUBSET S : ~ \E g : AddsUp(f, T, g)}
<1>1. SUFFICES ASSUME S \in Bad PROVE FALSE
  OBVIOUS
<1>2. PICK T \in Bad : \A U \in Bad : U \subseteq T => U = T
  <2>1. Bad \in SUBSET SUBSET S /\ Bad # {}
    BY <1>1
  <2> HIDE DEF Bad
  <2> QED BY <2>1, SmallestSubset
<1>. DEFINE of(U) == CHOOSE g : AddsUp(f, U, g)
            value(U) == of(U)[U]
            whole == [s \in SUBSET T |->
                        IF s = {} THEN 0 ELSE f[Pick(s)] + value(s \ {Pick(s)})]
<1>3. T \in SUBSET S /\ ~ \E g : AddsUp(f, T, g)
  BY <1>2
<1>4. \A U \in SUBSET T : U # T => AddsUp(f, U, of(U))
  <2>1. SUFFICES ASSUME NEW U \in SUBSET T, U # T PROVE \E g : AddsUp(f, U, g)
    OBVIOUS
  <2>2. U \in SUBSET S
    BY <1>3
  <2>3. U \notin Bad
    BY <1>2, <2>1
  <2> QED BY <2>2, <2>3
<1>5. \A s \in SUBSET T : s # {} => whole[s \ {Pick(s)}] = value(s \ {Pick(s)})
  <2>1. SUFFICES ASSUME NEW s \in SUBSET T, s # {} PROVE whole[s \ {Pick(s)}] = value(s \ {Pick(s)})
    OBVIOUS
  <2>. DEFINE u == s \ {Pick(s)}
  <2>2. u \in SUBSET T /\ u # T
    BY <2>1, PickIn
  <2>3. AddsUp(f, u, of(u)) /\ IsFiniteSet(u)
    <3>1. u \in SUBSET S
      BY <2>2, <1>3
    <3> QED BY <2>2, <1>4, <3>1, FS_Subset
  <2>4. CASE u = {}
    <3>1. value(u) = 0
      <4>1. u \in SUBSET u
        OBVIOUS
      <4> HIDE DEF of, u
      <4> QED BY <2>3, <2>4, <4>1, AddsUpAt
    <3> QED BY <3>1, <2>2, <2>4
  <2>5. CASE u # {}
    <3>. DEFINE v == u \ {Pick(u)}
    <3>1. v \in SUBSET u /\ v \in SUBSET T /\ v # T
      BY <2>2, <2>5, PickIn
    <3>2. AddsUp(f, v, of(v)) /\ IsFiniteSet(v)
      <4>1. v \in SUBSET S
        BY <3>1, <1>3
      <4> QED BY <3>1, <1>4, <4>1, FS_Subset
    <3>3. of(u)[v] = value(v)
      <4>1. v \in SUBSET v
        OBVIOUS
      <4> HIDE DEF of, u, v
      <4> QED BY <2>3, <3>1, <3>2, <4>1, AddsUpUnique
    <3>4. value(u) = f[Pick(u)] + of(u)[v]
      <4>1. u \in SUBSET u
        OBVIOUS
      <4>2. \A g : AddsUp(f, u, g) => g[u] = f[Pick(u)] + g[u \ {Pick(u)}]
        <5> HIDE DEF u
        <5> QED BY <2>5, <4>1, AddsUpAt
      <4> HIDE DEF of, u
      <4> QED BY <2>3, <4>2
    <3> QED BY <3>3, <3>4, <2>2, <2>5
  <2> QED BY <2>4, <2>5
<1>6. AddsUp(f, T, whole)
  <2>1. whole = [s \in SUBSET T |->
                   IF s = {} THEN 0 ELSE f[Pick(s)] + whole[s \ {Pick(s)}]]
    <3>. DEFINE left(s) == IF s = {} THEN 0 ELSE f[Pick(s)] + value(s \ {Pick(s)})
                right(s) == IF s = {} THEN 0 ELSE f[Pick(s)] + whole[s \ {Pick(s)}]
    <3>1. whole = [s \in SUBSET T |-> left(s)]
      OBVIOUS
    <3>2. \A s \in SUBSET T : left(s) = right(s)
      <4> HIDE DEF value, whole
      <4>1. SUFFICES ASSUME NEW s \in SUBSET T PROVE left(s) = right(s)
        OBVIOUS
      <4>2. CASE s = {}
        BY <4>2
      <4>3. CASE s # {}
        BY <4>3, <1>5
      <4> QED BY <4>2, <4>3
    <3> HIDE DEF left, right, whole
    <3>3. whole = [s \in SUBSET T |-> right(s)]
      BY <3>1, <3>2
    <3> QED BY <3>3 DEF right
  <2> HIDE DEF whole
  <2> QED BY <2>1 DEF AddsUp
<1> QED
  BY <1>3, <1>6

(* The value of the sum at a set and at each subset of it. *)
LEMMA SumPick ==
  ASSUME NEW f, NEW S, IsFiniteSet(S), S # {}
  PROVE  SumFunctionOnSet(f, S) = f[Pick(S)] + SumFunctionOnSet(f, S \ {Pick(S)})
<1>. DEFINE of(U) == CHOOSE g : AddsUp(f, U, g)
            T == S \ {Pick(S)}
<1>1. IsFiniteSet(T) /\ T \in SUBSET S
  BY FS_Subset
<1>2. AddsUp(f, S, of(S)) /\ AddsUp(f, T, of(T))
  BY <1>1, AddsUpExists
<1>3. SumFunctionOnSet(f, S) = of(S)[S] /\ SumFunctionOnSet(f, T) = of(T)[T]
  BY SumUnfolds
<1>. HIDE DEF of
<1>4. of(S)[T] = of(T)[T]
  <2>. HIDE DEF T
  <2> QED BY <1>1, <1>2, AddsUpUnique
<1>5. of(S)[S] = f[Pick(S)] + of(S)[T]
  BY <1>2, AddsUpAt
<1> QED
  BY <1>3, <1>4, <1>5

-----------------------------------------------------------------------------
(* What is used elsewhere.                                                  *)

(* Nothing adds up to zero. *)
LEMMA SumEmpty ==
  ASSUME NEW f
  PROVE  SumFunctionOnSet(f, {}) = 0
<1>1. AddsUp(f, {}, CHOOSE g : AddsUp(f, {}, g))
  BY AddsUpExists, FS_EmptySet
<1>2. \A g : AddsUp(f, {}, g) => g[{}] = 0
  BY AddsUpAt
<1> QED
  BY <1>1, <1>2, SumUnfolds

(* A sum of integers is one, and any element can be taken off it. *)
LEMMA SumRemove ==
  ASSUME NEW f, NEW S, IsFiniteSet(S), \A x \in S : f[x] \in Int
  PROVE  /\ SumFunctionOnSet(f, S) \in Int
         /\ \A x \in S : SumFunctionOnSet(f, S) = f[x] + SumFunctionOnSet(f, S \ {x})
<1>. DEFINE sum(T) == SumFunctionOnSet(f, T)
            Good(T) == sum(T) \in Int /\ \A x \in T : sum(T) = f[x] + sum(T \ {x})
            Bad == {T \in SUBSET S : ~ Good(T)}
<1>. SUFFICES Good(S)
  OBVIOUS
<1>1. SUFFICES ASSUME S \in Bad PROVE FALSE
  OBVIOUS
<1>2. PICK T \in Bad : \A U \in Bad : U \subseteq T => U = T
  <2>1. Bad \in SUBSET SUBSET S /\ Bad # {}
    BY <1>1
  <2> HIDE DEF Bad
  <2> QED BY <2>1, SmallestSubset
<1>. HIDE DEF Good, sum
<1>3. T \in SUBSET S /\ ~ Good(T) /\ IsFiniteSet(T)
  BY <1>2, FS_Subset
<1>4. \A U \in SUBSET T : U # T => Good(U)
  BY <1>2, <1>3
<1>5. CASE T = {}
  <2>1. sum(T) = 0
    BY <1>5, SumEmpty DEF sum
  <2> QED BY <1>3, <1>5, <2>1 DEF Good
<1>6. CASE T # {}
  <2>. DEFINE p == Pick(T)
  <2>1. p \in T
    BY <1>6, PickIn
  <2>. HIDE DEF p
  <2>2. sum(T) = f[p] + sum(T \ {p})
    BY <1>3, <1>6, SumPick DEF sum, p
  <2>3. Good(T \ {p})
    BY <1>4, <2>1
  <2>4. sum(T) \in Int
    BY <2>1, <2>2, <2>3, <1>3 DEF Good
  <2>5. ASSUME NEW x \in T, x # p
        PROVE  sum(T) = f[x] + sum(T \ {x})
    <3>. DEFINE V == (T \ {p}) \ {x}
    <3>1. V = (T \ {x}) \ {p} /\ V \in SUBSET T /\ V # T
      BY <2>5
    <3>2. Good(T \ {x}) /\ Good(V)
      BY <1>4, <2>5, <3>1
    <3>3. sum(T \ {p}) = f[x] + sum(V)
      BY <2>3, <2>5 DEF Good
    <3>4. sum(T \ {x}) = f[p] + sum(V)
      BY <3>1, <3>2, <2>1, <2>5 DEF Good
    <3>5. sum(V) \in Int /\ f[x] \in Int /\ f[p] \in Int
      BY <3>2, <1>3, <2>1, <2>5 DEF Good
    <3> HIDE DEF V
    <3> QED BY <2>2, <3>3, <3>4, <3>5
  <2> QED BY <2>2, <2>4, <2>5, <1>3 DEF Good
<1> QED
  BY <1>5, <1>6

(* One element more. *)
LEMMA SumAdd ==
  ASSUME NEW f, NEW S, IsFiniteSet(S), NEW x, x \notin S, \A y \in S \cup {x} : f[y] \in Int
  PROVE  SumFunctionOnSet(f, S \cup {x}) = f[x] + SumFunctionOnSet(f, S)
<1>1. IsFiniteSet(S \cup {x}) /\ (S \cup {x}) \ {x} = S
  BY FS_AddElement
<1> QED
  BY <1>1, SumRemove

(* When each element of one set has its like in another, which differs from *)
(* it by a given amount, the sums differ by the sum of the amounts.         *)
LEMMA SumLike ==
  ASSUME NEW S, IsFiniteSet(S), NEW like, NEW f, NEW g, NEW d,
         \A x \in S : f[x] \in Int /\ d[x] \in Int /\ g[like[x]] = f[x] - d[x],
         \A x, y \in S : like[x] = like[y] => x = y
  PROVE  SumFunctionOnSet(g, {like[x] : x \in S})
           = SumFunctionOnSet(f, S) - SumFunctionOnSet(d, S)
<1>. DEFINE of(h, T) == SumFunctionOnSet(h, T)
            image(T) == {like[x] : x \in T}
            Good(T) == of(g, image(T)) = of(f, T) - of(d, T)
            Bad == {T \in SUBSET S : ~ Good(T)}
<1>. SUFFICES Good(S)
  OBVIOUS
<1>1. SUFFICES ASSUME S \in Bad PROVE FALSE
  OBVIOUS
<1>2. PICK T \in Bad : \A U \in Bad : U \subseteq T => U = T
  <2>1. Bad \in SUBSET SUBSET S /\ Bad # {}
    BY <1>1
  <2> HIDE DEF Bad
  <2> QED BY <2>1, SmallestSubset
<1>3. T \in SUBSET S /\ ~ Good(T) /\ IsFiniteSet(T)
  <2>. HIDE DEF Good
  <2> QED BY <1>2, FS_Subset
<1>4. CASE T = {}
  <2>1. image(T) = {}
    BY <1>4
  <2>2. of(g, image(T)) = 0 /\ of(f, T) = 0 /\ of(d, T) = 0
    <3> HIDE DEF image
    <3> QED BY <1>4, <2>1, SumEmpty
  <2> QED BY <1>3, <2>2
<1>5. CASE T # {}
  <2>1. PICK x \in T : TRUE
    BY <1>5
  <2>. DEFINE U == T \ {x}
  <2>2. U \in SUBSET T /\ U # T /\ x \notin U /\ T = U \cup {x} /\ IsFiniteSet(U)
    BY <2>1, <1>3, FS_Subset
  <2>3. Good(U)
    <3> HIDE DEF Good, U
    <3> QED BY <1>2, <1>3, <2>2
  <2>4. image(T) = image(U) \cup {like[x]} /\ like[x] \notin image(U)
    BY <2>1, <1>3
  <2>5. IsFiniteSet(image(U))
    <3>1. [y \in U |-> like[y]] \in Surjection(U, image(U))
      BY DEF Surjection
    <3> HIDE DEF image, U
    <3> QED BY <3>1, <2>2, FS_Surjection
  <2>6. \A y \in image(U) \cup {like[x]} : g[y] \in Int
    BY <1>3, <2>1
  <2>. HIDE DEF image, U
  <2>7. of(g, image(T)) = g[like[x]] + of(g, image(U))
    BY <2>4, <2>5, <2>6, SumAdd
  <2>8. of(f, T) = f[x] + of(f, U) /\ of(d, T) = d[x] + of(d, U)
    <3>1. \A y \in T : f[y] \in Int /\ d[y] \in Int
      BY <1>3
    <3> QED BY <3>1, <2>1, <1>3, SumRemove DEF U
  <2>9. of(f, U) \in Int /\ of(d, U) \in Int
    <3>1. \A y \in U : f[y] \in Int /\ d[y] \in Int
      BY <1>3, <2>2
    <3> QED BY <3>1, <2>2, SumRemove
  <2>10. g[like[x]] = f[x] - d[x] /\ f[x] \in Int /\ d[x] \in Int
    BY <1>3, <2>1
  <2> HIDE DEF of
  <2> QED BY <1>3, <2>3, <2>7, <2>8, <2>9, <2>10
<1> QED
  BY <1>4, <1>5

(* Summands that are equal have equal sums; summands that differ by some    *)
(* amount have sums that differ by the sum of it.                           *)
LEMMA SumMinus ==
  ASSUME NEW S, IsFiniteSet(S), NEW f, NEW g, NEW d,
         \A x \in S : f[x] \in Int /\ d[x] \in Int /\ g[x] = f[x] - d[x]
  PROVE  SumFunctionOnSet(g, S) = SumFunctionOnSet(f, S) - SumFunctionOnSet(d, S)
<1>. DEFINE same == [x \in S |-> x]
<1>1. /\ \A x \in S : f[x] \in Int /\ d[x] \in Int /\ g[same[x]] = f[x] - d[x]
      /\ \A x, y \in S : same[x] = same[y] => x = y
  OBVIOUS
<1>2. {same[x] : x \in S} = S
  OBVIOUS
<1>. HIDE DEF same
<1> QED
  BY <1>1, <1>2, SumLike

LEMMA SumSame ==
  ASSUME NEW S, IsFiniteSet(S), NEW f, NEW g, \A x \in S : f[x] \in Int /\ g[x] = f[x]
  PROVE  SumFunctionOnSet(g, S) = SumFunctionOnSet(f, S)
<1>. DEFINE zero == [x \in S |-> 0]
<1>1. \A x \in S : zero[x] \in Int /\ zero[x] = zero[x] - zero[x] /\ g[x] = f[x] - zero[x]
  OBVIOUS
<1>. HIDE DEF zero
<1>2. SumFunctionOnSet(zero, S) = SumFunctionOnSet(zero, S) - SumFunctionOnSet(zero, S)
  BY <1>1, SumMinus
<1>3. SumFunctionOnSet(g, S) = SumFunctionOnSet(f, S) - SumFunctionOnSet(zero, S)
  <2>1. \A x \in S : f[x] \in Int /\ zero[x] \in Int /\ g[x] = f[x] - zero[x]
    BY <1>1
  <2> QED BY <2>1, SumMinus
<1>4. SumFunctionOnSet(zero, S) \in Int /\ SumFunctionOnSet(f, S) \in Int
  BY <1>1, SumRemove
<1> QED
  BY <1>2, <1>3, <1>4

(* A sum of naturals is one, and no less than what a part adds up to. *)
LEMMA SumPart ==
  ASSUME NEW S, IsFiniteSet(S), NEW f, \A x \in S : f[x] \in Nat, NEW T \in SUBSET S
  PROVE  /\ SumFunctionOnSet(f, S) \in Nat
         /\ SumFunctionOnSet(f, T) \in Nat
         /\ SumFunctionOnSet(f, T) <= SumFunctionOnSet(f, S)
<1>. DEFINE of(U) == SumFunctionOnSet(f, U)
            Good(U) == of(U) \in Nat /\ \A V \in SUBSET U : of(V) \in Nat /\ of(V) <= of(U)
            Bad == {U \in SUBSET S : ~ Good(U)}
<1>. SUFFICES Good(S)
  OBVIOUS
<1>1. SUFFICES ASSUME S \in Bad PROVE FALSE
  OBVIOUS
<1>2. PICK U \in Bad : \A V \in Bad : V \subseteq U => V = U
  <2>1. Bad \in SUBSET SUBSET S /\ Bad # {}
    BY <1>1
  <2> HIDE DEF Bad
  <2> QED BY <2>1, SmallestSubset
<1>. HIDE DEF Good
<1>3. U \in SUBSET S /\ ~ Good(U) /\ IsFiniteSet(U)
  BY <1>2, FS_Subset
<1>. HIDE DEF of
<1>4. \A V \in SUBSET U : V # U => Good(V)
  BY <1>2, <1>3
<1>5. of(U) \in Nat
  <2>1. CASE U = {}
    BY <2>1, SumEmpty DEF of
  <2>2. CASE U # {}
    <3>1. PICK x \in U : TRUE
      BY <2>2
    <3>2. of(U) = f[x] + of(U \ {x})
      BY <1>3, <3>1, SumRemove DEF of
    <3>3. of(U \ {x}) \in Nat
      BY <1>4, <3>1 DEF Good
    <3> QED BY <3>1, <3>2, <3>3, <1>3
  <2> QED BY <2>1, <2>2
<1>6. ASSUME NEW V \in SUBSET U
      PROVE  of(V) \in Nat /\ of(V) <= of(U)
  <2>1. CASE V = U
    BY <2>1, <1>5
  <2>2. CASE V # U
    <3>1. PICK x \in U : x \notin V
      BY <2>2
    <3>2. of(U) = f[x] + of(U \ {x})
      BY <1>3, <3>1, SumRemove DEF of
    <3>3. of(U \ {x}) \in Nat /\ of(V) \in Nat /\ of(V) <= of(U \ {x})
      <4>1. V \in SUBSET (U \ {x}) /\ Good(U \ {x})
        BY <1>4, <3>1
      <4> QED BY <4>1 DEF Good
    <3>4. f[x] \in Nat
      BY <3>1, <1>3
    <3> QED BY <3>2, <3>3, <3>4, <1>5
  <2> QED BY <2>1, <2>2
<1> QED
  BY <1>3, <1>5, <1>6 DEF Good

(* What is nowhere less adds up to no less. *)
LEMMA SumLess ==
  ASSUME NEW S, IsFiniteSet(S), NEW f, NEW g,
         \A x \in S : f[x] \in Int /\ g[x] \in Int /\ g[x] <= f[x]
  PROVE  SumFunctionOnSet(g, S) <= SumFunctionOnSet(f, S)
<1>. DEFINE d == [x \in S |-> f[x] - g[x]]
<1>1. \A x \in S : f[x] \in Int /\ d[x] \in Nat /\ d[x] \in Int /\ g[x] = f[x] - d[x]
  OBVIOUS
<1>. HIDE DEF d
<1>2. SumFunctionOnSet(g, S) = SumFunctionOnSet(f, S) - SumFunctionOnSet(d, S)
  <2>1. \A x \in S : f[x] \in Int /\ d[x] \in Int /\ g[x] = f[x] - d[x]
    BY <1>1
  <2> QED BY <2>1, SumMinus
<1>3. SumFunctionOnSet(d, S) \in Nat
  BY <1>1, SumPart
<1>4. SumFunctionOnSet(f, S) \in Int
  BY SumRemove
<1> QED
  BY <1>2, <1>3, <1>4

(* Only what is not zero counts. *)
LEMMA SumZeros ==
  ASSUME NEW S, IsFiniteSet(S), NEW f, \A x \in S : f[x] \in Int, NEW T \in SUBSET S,
         \A x \in S \ T : f[x] = 0
  PROVE  SumFunctionOnSet(f, S) = SumFunctionOnSet(f, T)
<1>. DEFINE of(U) == SumFunctionOnSet(f, U)
            Bad == {U \in SUBSET S : T \subseteq U /\ of(U) # of(T)}
<1>. SUFFICES ASSUME S \in Bad PROVE FALSE
  OBVIOUS
<1>1. PICK U \in Bad : \A V \in Bad : V \subseteq U => V = U
  <2>1. Bad \in SUBSET SUBSET S /\ Bad # {}
    OBVIOUS
  <2> HIDE DEF Bad
  <2> QED BY <2>1, SmallestSubset
<1>2. PICK x \in U : x \notin T
  <2>1. T \subseteq U /\ U # T
    BY <1>1
  <2> QED BY <2>1
<1>3. IsFiniteSet(U) /\ \A y \in U : f[y] \in Int
  BY <1>1, FS_Subset
<1>4. of(U) = f[x] + of(U \ {x}) /\ of(U \ {x}) \in Int
  <2>1. IsFiniteSet(U \ {x})
    BY <1>3, FS_Subset
  <2> QED BY <1>2, <1>3, <2>1, SumRemove
<1>5. of(U \ {x}) = of(T)
  BY <1>1, <1>2
<1>6. f[x] = 0
  BY <1>1, <1>2
<1>. HIDE DEF of
<1>7. of(U) = of(U \ {x})
  BY <1>4, <1>6
<1> QED
  BY <1>1, <1>5, <1>7

-----------------------------------------------------------------------------
(* What a function defined by recursion over 0 .. N is: induction, and that *)
(* there is one.                                                            *)

LEMMA Induction ==
  ASSUME NEW N \in Nat, NEW Good \in SUBSET (0 .. N), 0 \in Good,
         \A n \in 1 .. N : n - 1 \in Good => n \in Good
  PROVE  \A n \in 0 .. N : n \in Good
<1>. DEFINE Bad == (0 .. N) \ Good
<1>1. SUFFICES ASSUME Bad # {} PROVE FALSE
  OBVIOUS
<1>2. Bad \subseteq Nat
  OBVIOUS
<1>3. PICK n \in Bad : \A m \in Bad : ~ (<<m, n>> \in OpToRel(<, Nat))
  <2>. HIDE DEF Bad
  <2> QED BY <1>1, <1>2, NatLessThanWellFounded, WFMin
<1>4. n \in 1 .. N /\ n - 1 \in 0 .. N /\ n - 1 \in Nat /\ n \in Nat
  <2>1. n \in 0 .. N /\ n # 0
    OBVIOUS
  <2> QED BY <2>1
<1>5. n - 1 \in Bad
  <2>1. n \notin Good
    BY <1>3
  <2>2. n - 1 \notin Good
    BY <1>4, <2>1
  <2> QED BY <1>4, <2>2
<1>6. PICK m : m = n - 1
  OBVIOUS
<1>7. m \in Nat /\ n \in Nat /\ m < n /\ m \in Bad
  BY <1>4, <1>5, <1>6
<1>. HIDE DEF Bad
<1>8. <<m, n>> \in OpToRel(<, Nat)
  BY <1>7 DEF OpToRel
<1> QED
  BY <1>3, <1>7, <1>8

Recurs(g, N, T, first, step) ==
  /\ g \in [0 .. N -> T] /\ g[0] = first
  /\ \A n \in 1 .. N : g[n] = step[n][g[n - 1]]

LEMMA RecursionExists ==
  ASSUME NEW N \in Nat, NEW T, NEW first \in T, NEW step, step \in [1 .. N -> [T -> T]]
  PROVE  \E g : Recurs(g, N, T, first, step)
<1>. DEFINE Is(g, n) == Recurs(g, n, T, first, step)
            Good == {n \in 0 .. N : \E g : Is(g, n)}
<1>1. 0 \in Good
  <2>0. PICK g : g = [m \in 0 .. 0 |-> first]
    OBVIOUS
  <2>1. Is(g, 0)
    BY <2>0 DEF Recurs
  <2> QED BY <2>1
<1>2. ASSUME NEW n \in 1 .. N, n - 1 \in Good PROVE n \in Good
  <2>1. PICK g : Is(g, n - 1)
    BY <1>2
  <2>. DEFINE h == [m \in 0 .. n |-> IF m = n THEN step[n][g[n - 1]] ELSE g[m]]
  <2>2. g[n - 1] \in T /\ step[n][g[n - 1]] \in T
    BY <2>1 DEF Recurs
  <2>3. h \in [0 .. n -> T]
    BY <2>1, <2>2 DEF Recurs
  <2>4. h[0] = first
    BY <2>1 DEF Recurs
  <2>5. ASSUME NEW m \in 1 .. n PROVE h[m] = step[m][h[m - 1]]
    <3>1. m - 1 \in 0 .. n /\ m - 1 # n /\ m \in 0 .. n
      OBVIOUS
    <3>2. h[m - 1] = g[m - 1]
      BY <3>1
    <3>3. CASE m = n
      BY <3>2, <3>3
    <3>4. CASE m # n
      <4>1. m \in 1 .. n - 1
        BY <3>4
      <4> QED BY <2>1, <3>1, <3>2, <3>4, <4>1 DEF Recurs
    <3> QED BY <3>3, <3>4
  <2>. HIDE DEF h
  <2>6. Is(h, n)
    BY <2>3, <2>4, <2>5 DEF Recurs
  <2> QED BY <2>6
<1>. HIDE DEF Is
<1>3. N \in Good
  <2>1. Good \in SUBSET (0 .. N)
    OBVIOUS
  <2>2. \A n \in 1 .. N : n - 1 \in Good => n \in Good
    BY <1>2
  <2>3. N \in 0 .. N
    OBVIOUS
  <2>. HIDE DEF Good
  <2> QED BY <1>1, <2>1, <2>2, <2>3, Induction
<1> QED
  BY <1>3 DEF Is
=============================================================================
