---------------------------- MODULE SumTheorems -----------------------------
(***************************************************************************)
(* Sums over finite sets, as MapThenSumSet computes them: what the proofs  *)
(* about the contracts' balances need.  A fold is a recursive function on  *)
(* subsets; that it has a unique solution, and what it sums to, is shown   *)
(* on a minimal counterexample instead of by induction.  UpTo does the     *)
(* same for the numbers up to N.                                           *)
(***************************************************************************)
EXTENDS Integers, FiniteSets, FiniteSetsExt, FiniteSetTheorems,
        WellFoundedInduction, TLAPS

\* The sum of g over S.
SumOf(g, S) == MapThenSumSet(LAMBDA x : g[x], S)

\* The recursion of the fold: one element, then the others.
SumPick(s) == CHOOSE x \in s : TRUE
SumStep(F, g, s) == IF s = {} THEN 0 ELSE g[SumPick(s)] + F[s \ {SumPick(s)}]
IsSum(F, g, S) == F = [s \in SUBSET S |-> SumStep(F, g, s)]

\* Induction up to N, for a set: WFMin gives the least element outside of it.
LEMMA UpTo ==
    ASSUME NEW N \in Nat, NEW G \in SUBSET (0 .. N), 0 \in G,
           \A n \in 1 .. N : n - 1 \in G => n \in G
    PROVE  \A n \in 0 .. N : n \in G
<1> DEFINE Bad == (0 .. N) \ G
<1> SUFFICES ASSUME Bad # {} PROVE FALSE
  OBVIOUS
<1>1. IsWellFoundedOn(OpToRel(<, Nat), Nat)
  BY NatLessThanWellFounded
<1>2. Bad \in SUBSET Nat
  OBVIOUS
<1>3. PICK n \in Bad : \A m \in Bad : ~ (<<m, n>> \in OpToRel(<, Nat))
  <2> HIDE DEF Bad
  <2> QED BY <1>1, <1>2, WFMin
<1>4. n # 0 /\ n \in 1 .. N
  OBVIOUS
<1>5. n - 1 \in Bad
  BY <1>4
<1>6. <<n - 1, n>> \in OpToRel(<, Nat)
  BY <1>4 DEF OpToRel
<1> QED BY <1>3, <1>5, <1>6

\* The least element of a nonempty set of finite subsets of S.
LEMMA MinimalSubset ==
    ASSUME NEW S, IsFiniteSet(S), NEW T \in SUBSET SUBSET S, T # {}
    PROVE  \E x \in T : \A y \in SUBSET x : y # x => y \notin T
<1>1. IsWellFoundedOn(StrictSubsetOrdering(S), FiniteSubsetsOf(S))
  BY FS_StrictSubsetOrderingWellFounded
<1>2. T \subseteq FiniteSubsetsOf(S)
  BY FS_Subset DEF FiniteSubsetsOf
<1>3. PICK x \in T : \A y \in T : ~ (<<y, x>> \in StrictSubsetOrdering(S))
  BY <1>1, <1>2, WFMin
<1>4. ASSUME NEW y \in SUBSET x, y # x, y \in T PROVE FALSE
  BY <1>3, <1>4 DEF StrictSubsetOrdering
<1> QED BY <1>3, <1>4

\* The element a fold starts with is one of the set.
LEMMA SumPickIn == \A s : s # {} => SumPick(s) \in s
BY DEF SumPick

\* Functions that satisfy the recursion agree where their summands do.
LEMMA SumUnique ==
    ASSUME NEW S, IsFiniteSet(S), NEW g, NEW h, NEW F, NEW G, NEW A, NEW B,
           IsSum(F, g, A), IsSum(G, h, B), S \subseteq A, S \subseteq B,
           \A x \in S : g[x] = h[x]
    PROVE  \A s \in SUBSET S : F[s] = G[s]
<1> DEFINE Bad == {s \in SUBSET S : F[s] # G[s]}
<1> SUFFICES ASSUME Bad # {} PROVE FALSE
  OBVIOUS
<1>1. PICK s \in Bad : \A y \in SUBSET s : y # s => y \notin Bad
  <2> HIDE DEF Bad
  <2>1. Bad \in SUBSET SUBSET S
    BY DEF Bad
  <2> QED BY <2>1, MinimalSubset
<1>2. F[s] = SumStep(F, g, s) /\ G[s] = SumStep(G, h, s)
  BY <1>1 DEF IsSum
<1>3. CASE s = {}
  BY <1>1, <1>2, <1>3 DEF SumStep
<1>4. CASE s # {}
  <2>1. SumPick(s) \in s
    BY <1>4, SumPickIn
  <2>2. s \ {SumPick(s)} \in SUBSET s /\ s \ {SumPick(s)} # s
    BY <2>1
  <2>3. F[s \ {SumPick(s)}] = G[s \ {SumPick(s)}]
    BY <1>1, <2>2
  <2>4. g[SumPick(s)] = h[SumPick(s)]
    BY <1>1, <2>1
  <2> QED BY <1>1, <1>2, <1>4, <2>3, <2>4 DEF SumStep
<1> QED BY <1>3, <1>4

\* The recursion has a solution on every finite set.
LEMMA SumExists ==
    ASSUME NEW S, IsFiniteSet(S), NEW g
    PROVE  \E F : IsSum(F, g, S)
<1> DEFINE Bad == {s \in SUBSET S : ~ \E F : IsSum(F, g, s)}
<1> SUFFICES ASSUME Bad # {} PROVE FALSE
  OBVIOUS
<1>1. PICK s \in Bad : \A y \in SUBSET s : y # s => y \notin Bad
  <2> HIDE DEF Bad
  <2>1. Bad \in SUBSET SUBSET S
    BY DEF Bad
  <2> QED BY <2>1, MinimalSubset
<1> DEFINE Fn(t) == CHOOSE F : IsSum(F, g, t)
           All == [t \in SUBSET s |->
                     IF t = {} THEN 0
                     ELSE g[SumPick(t)] + Fn(t \ {SumPick(t)})[t \ {SumPick(t)}]]
<1>2. ASSUME NEW t \in SUBSET s, t # s
      PROVE  IsSum(Fn(t), g, t)
  <2>1. t \in SUBSET S /\ t \notin Bad
    BY <1>1, <1>2
  <2>2. \E F : IsSum(F, g, t)
    BY <2>1
  <2> QED BY <2>2
<1>3. ASSUME NEW t \in SUBSET s, t # {}
      PROVE  All[t \ {SumPick(t)}] = Fn(t \ {SumPick(t)})[t \ {SumPick(t)}]
  <2> DEFINE u == t \ {SumPick(t)}
  <2>1. SumPick(t) \in t
    BY <1>3, SumPickIn
  <2>2. u \in SUBSET s /\ u # s
    BY <2>1
  <2>3. Fn(u)[u] = SumStep(Fn(u), g, u)
    <3> HIDE DEF Fn, u
    <3> QED BY <1>2, <2>2 DEF IsSum
  <2>4. CASE u = {}
    BY <2>2, <2>3, <2>4 DEF SumStep
  <2>5. CASE u # {}
    <3> DEFINE v == u \ {SumPick(u)}
    <3>1. SumPick(u) \in u
      BY <2>5, SumPickIn
    <3>2. v \in SUBSET u /\ v \in SUBSET s /\ v # s
      BY <3>1, <2>2
    <3>3. IsSum(Fn(u), g, u) /\ IsSum(Fn(v), g, v)
      BY <1>2, <2>2, <3>2
    <3>4. IsFiniteSet(v)
      BY <1>1, <3>2, FS_Subset
    <3>5. Fn(u)[v] = Fn(v)[v]
      <4> HIDE DEF Fn, u, v
      <4>1. \A r \in SUBSET v : Fn(u)[r] = Fn(v)[r]
        BY <3>2, <3>3, <3>4, SumUnique
      <4> QED BY <4>1
    <3>6. Fn(u)[u] = g[SumPick(u)] + Fn(u)[v]
      BY <2>3, <2>5 DEF SumStep
    <3>7. All[u] = g[SumPick(u)] + Fn(v)[v]
      BY <2>2, <2>5
    <3> QED BY <3>5, <3>6, <3>7
  <2> QED BY <2>4, <2>5
<1>4. IsSum(All, g, s)
  <2> SUFFICES ASSUME NEW t \in SUBSET s PROVE All[t] = SumStep(All, g, t)
    BY DEF IsSum
  <2>1. CASE t = {}
    BY <2>1 DEF SumStep
  <2>2. CASE t # {}
    <3>1. All[t] = g[SumPick(t)] + Fn(t \ {SumPick(t)})[t \ {SumPick(t)}]
      BY <2>2
    <3>2. All[t \ {SumPick(t)}] = Fn(t \ {SumPick(t)})[t \ {SumPick(t)}]
      BY <1>3, <2>2
    <3> HIDE DEF All, Fn
    <3> QED BY <2>2, <3>1, <3>2 DEF SumStep
  <2> QED BY <2>1, <2>2
<1> HIDE DEF All, Fn
<1> QED BY <1>1, <1>4

\* The library's sum is that function's value.
LEMMA SumOfIsSum ==
    ASSUME NEW S, IsFiniteSet(S), NEW g
    PROVE  \E F : IsSum(F, g, S) /\ SumOf(g, S) = F[S]
<1>1. \E F : IsSum(F, g, S)
  BY SumExists
<1>2. SumOf(g, S) = (CHOOSE F : IsSum(F, g, S))[S]
  BY DEF SumOf, MapThenSumSet, MapThenFoldSet, IsSum, SumStep, SumPick
<1> QED BY <1>1, <1>2

\* The empty sum is zero.
LEMMA SumEmpty == \A g : SumOf(g, {}) = 0
<1> SUFFICES ASSUME NEW g PROVE SumOf(g, {}) = 0
  OBVIOUS
<1>1. PICK F : IsSum(F, g, {}) /\ SumOf(g, {}) = F[{}]
  BY SumOfIsSum, FS_EmptySet
<1> QED BY <1>1 DEF IsSum, SumStep

\* A sum depends on its summands only.
LEMMA SumSame ==
    ASSUME NEW S, IsFiniteSet(S), NEW g, NEW h, \A x \in S : g[x] = h[x]
    PROVE  SumOf(g, S) = SumOf(h, S)
<1>1. PICK F : IsSum(F, g, S) /\ SumOf(g, S) = F[S]
  BY SumOfIsSum
<1>2. PICK G : IsSum(G, h, S) /\ SumOf(h, S) = G[S]
  BY SumOfIsSum
<1>3. \A s \in SUBSET S : F[s] = G[s]
  BY <1>1, <1>2, SumUnique
<1> QED BY <1>1, <1>2, <1>3

\* Sums over subsets are values of one function.
LEMMA SumFcn ==
    ASSUME NEW S, IsFiniteSet(S), NEW g
    PROVE  \E F : IsSum(F, g, S) /\ \A s \in SUBSET S : SumOf(g, s) = F[s]
<1>1. PICK F : IsSum(F, g, S)
  BY SumExists
<1>2. ASSUME NEW s \in SUBSET S PROVE SumOf(g, s) = F[s]
  <2>1. IsFiniteSet(s)
    BY FS_Subset
  <2>2. PICK G : IsSum(G, g, s) /\ SumOf(g, s) = G[s]
    BY <2>1, SumOfIsSum
  <2>3. \A r \in SUBSET s : F[r] = G[r]
    BY <1>1, <2>1, <2>2, SumUnique
  <2> QED BY <2>2, <2>3
<1> QED BY <1>1, <1>2

\* Taking out one element, whichever the library's fold starts with.
LEMMA SumRemove ==
    ASSUME NEW S, IsFiniteSet(S), NEW g, \A x \in S : g[x] \in Int
    PROVE  /\ SumOf(g, S) \in Int
           /\ \A x \in S : SumOf(g, S) = SumOf(g, S \ {x}) + g[x]
<1>1. PICK F : IsSum(F, g, S) /\ \A s \in SUBSET S : SumOf(g, s) = F[s]
  BY SumFcn
<1> DEFINE Good(s) == F[s] \in Int /\ \A x \in s : F[s] = F[s \ {x}] + g[x]
           Bad == {s \in SUBSET S : ~ Good(s)}
<1>2. Bad = {}
  <2> SUFFICES ASSUME Bad # {} PROVE FALSE
    OBVIOUS
  <2>1. PICK s \in Bad : \A y \in SUBSET s : y # s => y \notin Bad
    <3> HIDE DEF Bad
    <3>1. Bad \in SUBSET SUBSET S
      BY DEF Bad
    <3> QED BY <3>1, MinimalSubset
  <2>2. \A t \in SUBSET s : t # s => Good(t)
    BY <2>1
  <2>3. F[s] = SumStep(F, g, s)
    BY <1>1, <2>1 DEF IsSum
  <2>4. CASE s = {}
    BY <2>1, <2>3, <2>4 DEF SumStep
  <2>5. CASE s # {}
    <3> DEFINE p == SumPick(s)
    <3>1. p \in s
      BY <2>5, SumPickIn
    <3>2. F[s] = g[p] + F[s \ {p}]
      BY <2>3, <2>5 DEF SumStep
    <3>3. g[p] \in Int /\ F[s \ {p}] \in Int
      <4>1. s \ {p} \in SUBSET s /\ s \ {p} # s
        BY <3>1
      <4> QED BY <2>1, <2>2, <3>1, <4>1
    <3>4. ASSUME NEW x \in s PROVE F[s] = F[s \ {x}] + g[x]
      <4>1. CASE x = p
        BY <3>2, <3>3, <4>1
      <4>2. CASE x # p
        <5> DEFINE t == (s \ {p}) \ {x}
        <5>1. Good(s \ {p}) /\ Good(s \ {x}) /\ Good(t)
          <6>1. s \ {p} \in SUBSET s /\ s \ {p} # s
            BY <3>1
          <6>2. s \ {x} \in SUBSET s /\ s \ {x} # s
            OBVIOUS
          <6>3. t \in SUBSET s /\ t # s
            OBVIOUS
          <6> HIDE DEF Good, t
          <6> QED BY <2>2, <6>1, <6>2, <6>3
        <5>2. F[s \ {p}] = F[t] + g[x]
          BY <4>2, <5>1
        <5>3. (s \ {x}) \ {p} = t
          OBVIOUS
        <5>4. F[s \ {x}] = F[t] + g[p]
          BY <3>1, <4>2, <5>1, <5>3
        <5>5. F[t] \in Int /\ g[x] \in Int /\ F[s \ {x}] \in Int
          BY <2>1, <5>1
        <5> QED BY <3>2, <3>3, <5>2, <5>4, <5>5
      <4> QED BY <4>1, <4>2
    <3>5. F[s] \in Int
      BY <3>2, <3>3
    <3>6. Good(s)
      BY <3>4, <3>5
    <3> HIDE DEF Good
    <3> QED BY <2>1, <3>6
  <2> QED BY <2>4, <2>5
<1>3. Good(S)
  BY <1>2
<1>4. \A x \in S : S \ {x} \in SUBSET S
  OBVIOUS
<1> HIDE DEF Bad
<1> QED BY <1>1, <1>3, <1>4

\* Adding an element adds its value.
LEMMA SumAdd ==
    ASSUME NEW S, IsFiniteSet(S), NEW x, x \notin S,
           NEW g, \A y \in S \cup {x} : g[y] \in Int
    PROVE  SumOf(g, S \cup {x}) = SumOf(g, S) + g[x]
<1>1. IsFiniteSet(S \cup {x})
  BY FS_AddElement
<1>2. (S \cup {x}) \ {x} = S
  OBVIOUS
<1>3. SumOf(g, S \cup {x}) = SumOf(g, (S \cup {x}) \ {x}) + g[x]
  BY <1>1, SumRemove
<1> QED BY <1>2, <1>3

\* A sum of naturals is a natural.
LEMMA SumNat ==
    ASSUME NEW S, IsFiniteSet(S), NEW g, \A x \in S : g[x] \in Nat
    PROVE  SumOf(g, S) \in Nat
<1> DEFINE Bad == {s \in SUBSET S : SumOf(g, s) \notin Nat}
<1> SUFFICES ASSUME Bad # {} PROVE FALSE
  OBVIOUS
<1>1. PICK s \in Bad : \A y \in SUBSET s : y # s => y \notin Bad
  <2> HIDE DEF Bad
  <2>1. Bad \in SUBSET SUBSET S
    BY DEF Bad
  <2> QED BY <2>1, MinimalSubset
<1>2. s # {}
  <2>1. SumOf(g, s) \notin Nat
    BY <1>1
  <2>2. SumOf(g, {}) = 0
    BY SumEmpty
  <2> QED BY <2>1, <2>2
<1>3. PICK x \in s : TRUE
  BY <1>2
<1>4. SumOf(g, s \ {x}) \in Nat
  <2>1. s \ {x} \in SUBSET s /\ s \ {x} # s /\ s \ {x} \in SUBSET S
    BY <1>1, <1>3
  <2> QED BY <1>1, <2>1
<1>5. IsFiniteSet(s) /\ \A y \in s : g[y] \in Nat
  BY <1>1, FS_Subset
<1>6. SumOf(g, s) = SumOf(g, s \ {x}) + g[x]
  BY <1>3, <1>5, SumRemove
<1>7. SumOf(g, s) \in Nat
  BY <1>3, <1>4, <1>5, <1>6
<1> QED BY <1>1, <1>7

\* A subset of naturals sums to no more.
LEMMA SumSubset ==
    ASSUME NEW S, IsFiniteSet(S), NEW g, \A x \in S : g[x] \in Nat,
           NEW T \in SUBSET S
    PROVE  SumOf(g, T) <= SumOf(g, S)
<1> DEFINE Bad == {s \in SUBSET S : T \subseteq s /\ ~ SumOf(g, T) <= SumOf(g, s)}
<1> SUFFICES ASSUME Bad # {} PROVE FALSE
  OBVIOUS
<1>1. PICK s \in Bad : \A y \in SUBSET s : y # s => y \notin Bad
  <2> HIDE DEF Bad
  <2>1. Bad \in SUBSET SUBSET S
    BY DEF Bad
  <2> QED BY <2>1, MinimalSubset
<1>0. IsFiniteSet(T) /\ IsFiniteSet(s) /\ \A x \in s : g[x] \in Nat
  BY <1>1, FS_Subset
<1>2. SumOf(g, T) \in Nat
  BY <1>0, SumNat
<1>3. PICK x \in s : x \notin T
  <2>1. T \subseteq s /\ s # T
    BY <1>1, <1>2
  <2> HIDE DEF Bad
  <2> QED BY <2>1
<1>4. SumOf(g, T) <= SumOf(g, s \ {x})
  <2>1. s \ {x} \in SUBSET s /\ s \ {x} # s /\ T \subseteq s \ {x}
    BY <1>1, <1>3
  <2>2. s \ {x} \in SUBSET S
    BY <1>1
  <2> QED BY <1>1, <2>1, <2>2
<1>5. SumOf(g, s) = SumOf(g, s \ {x}) + g[x]
  BY <1>3, <1>0, SumRemove
<1>6. IsFiniteSet(s \ {x})
  BY <1>0, FS_RemoveElement
<1>7. SumOf(g, s \ {x}) \in Nat
  BY <1>0, <1>6, SumNat
<1> QED BY <1>0, <1>1, <1>2, <1>3, <1>4, <1>5, <1>7
-----------------------------------------------------------------------------
\* The sum of the amounts of a set of HTLCs, as the models write it.
Amounts(S) == MapThenSumSet(LAMBDA h : h.amount, S)

\* The sum of amounts is a sum of a function.
LEMMA SumOfAmounts ==
    ASSUME NEW S, IsFiniteSet(S)
    PROVE  Amounts(S) = SumOf([h \in S |-> h.amount], S)
<1> DEFINE g == [h \in S |-> h.amount]
           Rec(F) == F = [s \in SUBSET S |->
                            IF s = {} THEN 0
                            ELSE SumPick(s).amount + F[s \ {SumPick(s)}]]
<1>1. ASSUME NEW F PROVE Rec(F) <=> IsSum(F, g, S)
  <2>1. ASSUME NEW s \in SUBSET S
        PROVE  (IF s = {} THEN 0 ELSE SumPick(s).amount + F[s \ {SumPick(s)}])
                  = SumStep(F, g, s)
    <3>1. CASE s = {}
      BY <3>1 DEF SumStep
    <3>2. CASE s # {}
      <4>1. SumPick(s) \in S
        BY <3>2, SumPickIn
      <4> QED BY <3>2, <4>1 DEF SumStep
    <3> QED BY <3>1, <3>2
  <2> QED BY <2>1 DEF IsSum
<1>2. PICK F : IsSum(F, g, S) /\ SumOf(g, S) = F[S]
  BY SumOfIsSum
<1> DEFINE I == CHOOSE G : Rec(G)
<1>3. Rec(I)
  <2> HIDE DEF Rec
  <2> QED BY <1>1, <1>2
<1>4. Amounts(S) = I[S]
  BY DEF Amounts, MapThenSumSet, MapThenFoldSet, SumPick
<1>5. IsSum(I, g, S)
  <2> HIDE DEF Rec, I, g
  <2> QED BY <1>1, <1>3
<1>6. \A s \in SUBSET S : I[s] = F[s]
  <2> HIDE DEF I, g
  <2> QED BY <1>2, <1>5, SumUnique
<1> HIDE DEF I, g, Rec
<1>7. I[S] = F[S]
  BY <1>6
<1> QED BY <1>2, <1>4, <1>7 DEF g

\* No HTLCs amount to zero.
LEMMA AmountsEmpty == Amounts({}) = 0
BY SumOfAmounts, SumEmpty, FS_EmptySet

\* Taking an HTLC out takes out its amount.
LEMMA AmountsRemove ==
    ASSUME NEW S, IsFiniteSet(S), \A h \in S : h.amount \in Nat
    PROVE  /\ Amounts(S) \in Nat
           /\ \A h \in S : /\ Amounts(S) = Amounts(S \ {h}) + h.amount
                          /\ Amounts(S \ {h}) \in Nat
<1> DEFINE g == [h \in S |-> h.amount]
<1>1. Amounts(S) = SumOf(g, S)
  BY SumOfAmounts
<1>2. \A h \in S : g[h] \in Nat
  OBVIOUS
<1> HIDE DEF g
<1>3. Amounts(S) \in Nat
  BY <1>1, <1>2, SumNat
<1>4. ASSUME NEW h \in S
      PROVE  Amounts(S) = Amounts(S \ {h}) + h.amount /\ Amounts(S \ {h}) \in Nat
  <2> DEFINE T == S \ {h}
             f == [k \in T |-> k.amount]
  <2>1. IsFiniteSet(T)
    BY FS_RemoveElement
  <2>2. Amounts(T) = SumOf(f, T)
    BY <2>1, SumOfAmounts
  <2>3. SumOf(f, T) = SumOf(g, T)
    <3>1. \A k \in T : f[k] = g[k]
      BY DEF g
    <3> HIDE DEF f, T
    <3> QED BY <2>1, <3>1, SumSame
  <2>4. SumOf(g, S) = SumOf(g, T) + g[h]
    BY <1>2, SumRemove
  <2>5. SumOf(g, T) \in Nat
    <3>1. \A k \in T : g[k] \in Nat
      BY <1>2
    <3> HIDE DEF T
    <3> QED BY <2>1, <3>1, SumNat
  <2> QED BY <1>1, <2>2, <2>3, <2>4, <2>5 DEF g
<1> QED BY <1>3, <1>4
=============================================================================
