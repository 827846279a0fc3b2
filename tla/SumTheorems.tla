----------------------------- MODULE SumTheorems -----------------------------
(***************************************************************************)
(* Sums over finite sets.  MapThenSumSet, with which the properties say    *)
(* what balances, pay and slots add up to, is a recursive function on the  *)
(* subsets of its set.  Here: that such a function exists, is unique, and  *)
(* gives a sum that can be taken apart at any element, so that a step that *)
(* moves units from one balance to another leaves the total alone.         *)
(*                                                                         *)
(* The values to be added are a function f.  An induction over the subsets *)
(* takes a smallest subset for which the claim fails (SmallestSubset), one *)
(* over positions the first that fails (FirstIndex).                       *)
(***************************************************************************)
EXTENDS Integers, FiniteSetsExt, FiniteSetTheorems, TLAPS

Pick(s) == CHOOSE x \in s : TRUE

(* g adds f up, over every subset of S *)
Sums(g, f, S) ==
  g = [s \in SUBSET S |-> IF s = {} THEN 0 ELSE f[Pick(s)] + g[s \ {Pick(s)}]]

SumOf(f, S) == (CHOOSE g : Sums(g, f, S))[S]

-----------------------------------------------------------------------------
(* Among subsets of a finite set there is one with no smaller one in it. *)
LEMMA SmallestSubset ==
  ASSUME NEW S, IsFiniteSet(S), NEW T, T \subseteq SUBSET S, T # {}
  PROVE  \E t \in T : \A u \in T : u \subseteq t => u = t
<1>1. /\ IsWellFoundedOn(StrictSubsetOrdering(S), FiniteSubsetsOf(S))
      /\ FiniteSubsetsOf(S) = SUBSET S
  BY FS_StrictSubsetOrderingWellFounded, FS_FiniteSubsetsOfFinite
<1>2. PICK t \in T : \A u \in T : ~(<<u, t>> \in StrictSubsetOrdering(S))
  BY <1>1, WFMin
<1>3. QED BY <1>2 DEF StrictSubsetOrdering

(* Among some positions, or numbers up to a bound, there is a first and a *)
(* last one.                                                              *)
LEMMA FirstIndex ==
  ASSUME NEW n \in Nat, NEW B \in SUBSET (0..n), B # {}
  PROVE  \E i \in B : \A j \in B : i <= j
<1> DEFINE T == {1..i : i \in B}
           N == 1..n
<1>1. IsFiniteSet(N)
  BY FS_Interval
<1>2. T \subseteq SUBSET N /\ T # {}
  <2>1. \A i \in B : i \in 0..n
    OBVIOUS
  <2>2. \A i \in 0..n : 1..i \subseteq N
    OBVIOUS
  <2> HIDE DEF N
  <2>3. QED BY <2>1, <2>2
<1>3. PICK t \in T : \A u \in T : u \subseteq t => u = t
  <2> HIDE DEF T, N
  <2>1. QED BY <1>1, <1>2, SmallestSubset
<1>4. PICK i \in B : t = 1..i
  BY <1>3
<1>5. ASSUME NEW j \in B, j < i PROVE FALSE
  <2>1. i \in 0..n /\ j \in 0..n
    OBVIOUS
  <2>2. 1..j \subseteq 1..i /\ i \in 1..i /\ i \notin 1..j
    BY <1>5, <2>1
  <2>3. QED BY <1>3, <1>4, <2>2
<1>6. \A j \in B : i \in Int /\ j \in Int
  OBVIOUS
<1>7. QED BY <1>5, <1>6

LEMMA Highest ==
  ASSUME NEW n \in Nat, NEW S \in SUBSET (0..n), S # {}
  PROVE  /\ Max(S) \in S
         /\ \A j \in S : j <= Max(S)
<1> DEFINE B == {n - i : i \in S}
<1>1. B \in SUBSET (0..n) /\ B # {}
  <2>1. \A i \in S : i \in 0..n
    OBVIOUS
  <2>2. \A i \in 0..n : n - i \in 0..n
    OBVIOUS
  <2>3. QED BY <2>1, <2>2
<1>2. PICK b \in B : \A j \in B : b <= j
  <2> HIDE DEF B
  <2>1. QED BY <1>1, FirstIndex
<1>3. PICK i \in S : b = n - i
  BY <1>2
<1>4. ASSUME NEW j \in S PROVE i >= j
  <2>1. n - i <= n - j
    BY <1>2, <1>3
  <2>2. i \in Int /\ j \in Int
    OBVIOUS
  <2>3. QED BY <2>1, <2>2
<1>5. Max(S) \in S /\ \A j \in S : Max(S) >= j
  BY <1>4 DEF Max
<1>6. \A j \in S : j \in Int
  OBVIOUS
<1>7. QED BY <1>5, <1>6

LEMMA Lowest ==
  ASSUME NEW n \in Nat, NEW S \in SUBSET (0..n), S # {}
  PROVE  Min(S) \in S
<1>1. \E i \in S : \A j \in S : i <= j
  BY FirstIndex
<1>2. QED BY <1>1 DEF Min

LEMMA LastIndex ==
  ASSUME NEW n \in Nat, NEW S \in SUBSET (1..n), S # {}
  PROVE  /\ Max(S) \in S
         /\ \A j \in S : j <= Max(S)
<1>1. S \in SUBSET (0..n)
  OBVIOUS
<1>2. QED BY <1>1, Highest

-----------------------------------------------------------------------------
LEMMA SumsValue ==
  ASSUME NEW f, NEW S, NEW g, Sums(g, f, S), NEW s \in SUBSET S
  PROVE  g[s] = IF s = {} THEN 0 ELSE f[Pick(s)] + g[s \ {Pick(s)}]
  BY DEF Sums

LEMMA PickIn ==
  ASSUME NEW s, s # {}
  PROVE  Pick(s) \in s
  BY DEF Pick

(* There is at most one such function, *)
LEMMA SumsUnique ==
  ASSUME NEW f, NEW S, IsFiniteSet(S), NEW g, NEW h, Sums(g, f, S), Sums(h, f, S)
  PROVE  g = h
<1> DEFINE Bad == {s \in SUBSET S : g[s] # h[s]}
<1>1. Bad = {}
  <2>1. SUFFICES ASSUME Bad # {} PROVE FALSE
    OBVIOUS
  <2>2. PICK t \in Bad : \A u \in Bad : u \subseteq t => u = t
    <3>1. Bad \subseteq SUBSET S
      OBVIOUS
    <3> HIDE DEF Bad
    <3>2. QED BY <2>1, <3>1, SmallestSubset
  <2>3. t # {}
    BY <2>2, SumsValue
  <2>4. Pick(t) \in t
    BY <2>3, PickIn
  <2>5. t \ {Pick(t)} \in SUBSET S /\ t \ {Pick(t)} \subseteq t /\ t \ {Pick(t)} # t
    BY <2>4
  <2>6. g[t \ {Pick(t)}] = h[t \ {Pick(t)}]
    BY <2>2, <2>5
  <2>7. QED BY <2>2, <2>3, <2>6, SumsValue
<1>2. \A s \in SUBSET S : g[s] = h[s]
  BY <1>1
<1>3. g = [s \in SUBSET S |-> g[s]] /\ h = [s \in SUBSET S |-> h[s]]
  BY DEF Sums
<1>4. QED BY <1>2, <1>3

(* what it does on the subsets of a subset is the sum there, *)
LEMMA SumsRestrict ==
  ASSUME NEW f, NEW S, NEW g, Sums(g, f, S), NEW T \in SUBSET S
  PROVE  Sums([s \in SUBSET T |-> g[s]], f, T)
<1> DEFINE h == [s \in SUBSET T |-> g[s]]
<1>1. ASSUME NEW s \in SUBSET T
      PROVE  h[s] = IF s = {} THEN 0 ELSE f[Pick(s)] + h[s \ {Pick(s)}]
  <2>1. s \in SUBSET S /\ s \ {Pick(s)} \in SUBSET T
    OBVIOUS
  <2>2. QED BY <2>1, SumsValue
<1>2. QED BY <1>1 DEF Sums

(* and there is one. *)
LEMMA SumsExists ==
  ASSUME NEW f, NEW S, IsFiniteSet(S)
  PROVE  \E g : Sums(g, f, S)
<1> DEFINE Bad == {s \in SUBSET S : ~\E g : Sums(g, f, s)}
           V(t) == SumOf(f, t)
<1>1. SUFFICES ASSUME Bad # {} PROVE FALSE
  OBVIOUS
<1>2. PICK t \in Bad : \A u \in Bad : u \subseteq t => u = t
  <2>1. Bad \subseteq SUBSET S
    OBVIOUS
  <2> HIDE DEF Bad
  <2>2. QED BY <1>1, <2>1, SmallestSubset
<1>3. ASSUME NEW u \in SUBSET t, u # t
      PROVE  \E g : Sums(g, f, u)
  BY <1>2, <1>3
<1>4. ASSUME NEW u \in SUBSET t, u # t
      PROVE  V(u) = IF u = {} THEN 0 ELSE f[Pick(u)] + V(u \ {Pick(u)})
  <2> DEFINE G(s) == CHOOSE g : Sums(g, f, s)
             w == u \ {Pick(u)}
  <2>1. Sums(G(u), f, u)
    BY <1>3, <1>4
  <2>2. V(u) = G(u)[u]
    BY DEF SumOf
  <2>3. CASE u = {}
    BY <2>1, <2>2, <2>3, SumsValue
  <2>4. CASE u # {}
    <3>1. Pick(u) \in u
      BY <2>4, PickIn
    <3>2. w \in SUBSET u /\ w \in SUBSET t /\ w # t /\ IsFiniteSet(w)
      <4>1. w \in SUBSET u /\ w \in SUBSET t /\ w # t /\ w \in SUBSET S
        BY <1>2, <1>4, <3>1
      <4>2. QED BY <4>1, FS_Subset
    <3>3. Sums(G(w), f, w)
      BY <1>3, <3>2
    <3>4. Sums([s \in SUBSET w |-> G(u)[s]], f, w)
      <4> HIDE DEF w, G
      <4>1. QED BY <2>1, <3>2, SumsRestrict
    <3>5. [s \in SUBSET w |-> G(u)[s]] = G(w)
      <4> HIDE DEF w, G
      <4>1. QED BY <3>2, <3>3, <3>4, SumsUnique
    <3>6. G(w)[w] = G(u)[w]
      <4>1. [s \in SUBSET w |-> G(u)[s]][w] = G(u)[w]
        OBVIOUS
      <4> HIDE DEF w, G
      <4>2. QED BY <3>5, <4>1
    <3>7. V(w) = G(w)[w]
      BY DEF SumOf
    <3>8. G(u)[u] = f[Pick(u)] + G(u)[w]
      <4> HIDE DEF G
      <4>1. QED BY <2>1, <2>4, SumsValue
    <3>9. QED BY <2>2, <2>4, <3>6, <3>7, <3>8
  <2>5. QED BY <2>3, <2>4
<1> HIDE DEF V
<1> DEFINE g == [u \in SUBSET t |-> IF u = {} THEN 0
                                    ELSE f[Pick(u)] + V(u \ {Pick(u)})]
<1>5. ASSUME NEW u \in SUBSET t
      PROVE  g[u] = IF u = {} THEN 0 ELSE f[Pick(u)] + g[u \ {Pick(u)}]
  <2>1. CASE u = {}
    BY <2>1
  <2>2. CASE u # {}
    <3>1. Pick(u) \in u
      BY <2>2, PickIn
    <3>2. u \ {Pick(u)} \in SUBSET t /\ u \ {Pick(u)} # t
      BY <3>1
    <3>3. V(u \ {Pick(u)}) = g[u \ {Pick(u)}]
      BY <1>4, <3>2
    <3>4. QED BY <2>2, <3>3
  <2>3. QED BY <2>1, <2>2
<1>6. Sums(g, f, t)
  BY <1>5 DEF Sums
<1>7. QED BY <1>2, <1>6

LEMMA SumOfSums ==
  ASSUME NEW f, NEW S, IsFiniteSet(S), NEW g, Sums(g, f, S)
  PROVE  \A s \in SUBSET S : g[s] = SumOf(f, s)
<1>1. SUFFICES ASSUME NEW s \in SUBSET S PROVE g[s] = SumOf(f, s)
  OBVIOUS
<1> DEFINE h == CHOOSE h : Sums(h, f, s)
           r == [u \in SUBSET s |-> g[u]]
<1>2. IsFiniteSet(s)
  BY <1>1, FS_Subset
<1>3. Sums(h, f, s)
  BY <1>2, SumsExists
<1>4. Sums(r, f, s)
  BY SumsRestrict
<1>5. r = h
  <2> HIDE DEF r, h
  <2>1. QED BY <1>2, <1>3, <1>4, SumsUnique
<1>6. r[s] = g[s] /\ h[s] = SumOf(f, s)
  BY DEF SumOf
<1>7. QED BY <1>5, <1>6

-----------------------------------------------------------------------------
(* The sum                                                                 *)

LEMMA SumStep ==
  ASSUME NEW f, NEW S, IsFiniteSet(S)
  PROVE  SumOf(f, S) = IF S = {} THEN 0 ELSE f[Pick(S)] + SumOf(f, S \ {Pick(S)})
<1>1. PICK g : Sums(g, f, S)
  BY SumsExists
<1>2. \A s \in SUBSET S : g[s] = SumOf(f, s)
  BY <1>1, SumOfSums
<1>3. S \in SUBSET S /\ S \ {Pick(S)} \in SUBSET S
  OBVIOUS
<1>4. g[S] = IF S = {} THEN 0 ELSE f[Pick(S)] + g[S \ {Pick(S)}]
  BY <1>1, <1>3, SumsValue
<1>5. QED BY <1>2, <1>3, <1>4

(* A sum of integers is one; *)
LEMMA SumInt ==
  ASSUME NEW S, IsFiniteSet(S), NEW f, \A x \in S : f[x] \in Int
  PROVE  \A s \in SUBSET S : SumOf(f, s) \in Int
<1> DEFINE Bad == {s \in SUBSET S : SumOf(f, s) \notin Int}
<1>1. SUFFICES ASSUME Bad # {} PROVE FALSE
  OBVIOUS
<1>2. PICK t \in Bad : \A u \in Bad : u \subseteq t => u = t
  <2>1. Bad \subseteq SUBSET S
    OBVIOUS
  <2> HIDE DEF Bad
  <2>2. QED BY <1>1, <2>1, SmallestSubset
<1> DEFINE w == t \ {Pick(t)}
<1>3. SumOf(f, t) = IF t = {} THEN 0 ELSE f[Pick(t)] + SumOf(f, w)
  BY <1>2, FS_Subset, SumStep
<1>4. t # {} /\ Pick(t) \in t
  BY <1>2, <1>3, PickIn
<1>5. w \in SUBSET S /\ w \subseteq t /\ w # t
  BY <1>4
<1>6. SumOf(f, w) \in Int
  BY <1>2, <1>5
<1>7. f[Pick(t)] \in Int
  BY <1>4
<1> HIDE DEF w
<1>8. QED BY <1>2, <1>3, <1>4, <1>6, <1>7

(* it depends on the values in the set only; *)
LEMMA SumSame ==
  ASSUME NEW S, IsFiniteSet(S), NEW f, NEW h, \A x \in S : f[x] = h[x]
  PROVE  SumOf(f, S) = SumOf(h, S)
<1> DEFINE Bad == {s \in SUBSET S : SumOf(f, s) # SumOf(h, s)}
<1>1. SUFFICES ASSUME Bad # {} PROVE FALSE
  OBVIOUS
<1>2. PICK t \in Bad : \A u \in Bad : u \subseteq t => u = t
  <2>1. Bad \subseteq SUBSET S
    OBVIOUS
  <2> HIDE DEF Bad
  <2>2. QED BY <1>1, <2>1, SmallestSubset
<1> DEFINE w == t \ {Pick(t)}
<1>3. /\ SumOf(f, t) = IF t = {} THEN 0 ELSE f[Pick(t)] + SumOf(f, w)
      /\ SumOf(h, t) = IF t = {} THEN 0 ELSE h[Pick(t)] + SumOf(h, w)
  BY <1>2, FS_Subset, SumStep
<1>4. t # {} /\ Pick(t) \in t
  BY <1>2, <1>3, PickIn
<1>5. w \in SUBSET S /\ w \subseteq t /\ w # t
  BY <1>4
<1>6. SumOf(f, w) = SumOf(h, w)
  BY <1>2, <1>5
<1>7. f[Pick(t)] = h[Pick(t)]
  BY <1>4
<1> HIDE DEF w
<1>8. QED BY <1>2, <1>3, <1>4, <1>6, <1>7

(* it can be taken apart at any element, whichever Pick would choose; *)
LEMMA SumAt ==
  ASSUME NEW S, IsFiniteSet(S), NEW f, \A x \in S : f[x] \in Int, NEW y \in S
  PROVE  SumOf(f, S) = f[y] + SumOf(f, S \ {y})
<1> DEFINE Bad == {s \in SUBSET S : \E x \in s : SumOf(f, s) # f[x] + SumOf(f, s \ {x})}
<1>1. ASSUME Bad # {} PROVE FALSE
  <2>1. PICK t \in Bad : \A u \in Bad : u \subseteq t => u = t
    <3>1. Bad \subseteq SUBSET S
      OBVIOUS
    <3> HIDE DEF Bad
    <3>2. QED BY <1>1, <3>1, SmallestSubset
  <2>2. PICK x \in t : SumOf(f, t) # f[x] + SumOf(f, t \ {x})
    BY <2>1
  <2> DEFINE p == Pick(t)
  <2>3. SumOf(f, t) = f[p] + SumOf(f, t \ {p})
    BY <2>1, <2>2, FS_Subset, SumStep
  <2>4. p \in t /\ p # x
    BY <2>2, <2>3, PickIn
  <2> HIDE DEF p
  <2>5. /\ t \ {p} \in SUBSET S /\ t \ {p} \subseteq t /\ t \ {p} # t /\ x \in t \ {p}
        /\ t \ {x} \in SUBSET S /\ t \ {x} \subseteq t /\ t \ {x} # t /\ p \in t \ {x}
        /\ (t \ {p}) \ {x} = (t \ {x}) \ {p}
    BY <2>1, <2>2, <2>4
  <2> DEFINE w == (t \ {x}) \ {p}
  <2>6. SumOf(f, t \ {p}) = f[x] + SumOf(f, w)
    BY <2>1, <2>5
  <2>7. SumOf(f, t \ {x}) = f[p] + SumOf(f, w)
    BY <2>1, <2>5
  <2>8. f[p] \in Int /\ f[x] \in Int /\ SumOf(f, w) \in Int
    <3>1. w \in SUBSET S
      BY <2>5
    <3> HIDE DEF w
    <3>2. QED BY <2>1, <2>2, <2>4, <3>1, SumInt
  <2> HIDE DEF w
  <2>9. QED BY <2>2, <2>3, <2>6, <2>7, <2>8
<1>2. S \notin Bad
  BY <1>1
<1>3. QED BY <1>2

(* it changes by what one value changes by; *)
LEMMA SumUpdate ==
  ASSUME NEW S, IsFiniteSet(S), NEW f, NEW h, NEW k \in S,
         \A x \in S : f[x] \in Int /\ h[x] \in Int, \A x \in S \ {k} : h[x] = f[x]
  PROVE  SumOf(h, S) = SumOf(f, S) + (h[k] - f[k])
<1>1. SumOf(f, S) = f[k] + SumOf(f, S \ {k}) /\ SumOf(h, S) = h[k] + SumOf(h, S \ {k})
  BY SumAt
<1>2. IsFiniteSet(S \ {k}) /\ S \ {k} \in SUBSET S
  BY FS_RemoveElement
<1>3. SumOf(f, S \ {k}) = SumOf(h, S \ {k})
  BY <1>2, SumSame
<1>4. SumOf(f, S \ {k}) \in Int /\ f[k] \in Int /\ h[k] \in Int
  BY <1>2, SumInt
<1>5. QED BY <1>1, <1>3, <1>4

(* a sum of naturals is at least each of them; *)
LEMMA SumNat ==
  ASSUME NEW S, IsFiniteSet(S), NEW f, \A x \in S : f[x] \in Nat
  PROVE  /\ SumOf(f, S) \in Nat
         /\ \A x \in S : f[x] <= SumOf(f, S)
<1> DEFINE Bad == {s \in SUBSET S : SumOf(f, s) \notin Nat}
<1>1. ASSUME Bad # {} PROVE FALSE
  <2>1. PICK t \in Bad : \A u \in Bad : u \subseteq t => u = t
    <3>1. Bad \subseteq SUBSET S
      OBVIOUS
    <3> HIDE DEF Bad
    <3>2. QED BY <1>1, <3>1, SmallestSubset
  <2> DEFINE w == t \ {Pick(t)}
  <2>2. SumOf(f, t) = IF t = {} THEN 0 ELSE f[Pick(t)] + SumOf(f, w)
    BY <2>1, FS_Subset, SumStep
  <2>3. t # {} /\ Pick(t) \in t
    BY <2>1, <2>2, PickIn
  <2>4. w \in SUBSET S /\ w \subseteq t /\ w # t
    BY <2>3
  <2>5. SumOf(f, w) \in Nat
    BY <2>1, <2>4
  <2>6. f[Pick(t)] \in Nat
    BY <2>3
  <2> HIDE DEF w
  <2>7. QED BY <2>1, <2>2, <2>3, <2>5, <2>6
<1>2. \A s \in SUBSET S : SumOf(f, s) \in Nat
  BY <1>1
<1>3. ASSUME NEW x \in S PROVE f[x] <= SumOf(f, S)
  <2>1. SumOf(f, S) = f[x] + SumOf(f, S \ {x})
    BY SumAt
  <2>2. SumOf(f, S \ {x}) \in Nat /\ f[x] \in Nat
    BY <1>2
  <2>3. QED BY <2>1, <2>2
<1>4. QED BY <1>2, <1>3

(* and the sum of two functions is the two sums together. *)
LEMMA SumPlus ==
  ASSUME NEW S, IsFiniteSet(S), NEW f, NEW h, \A x \in S : f[x] \in Int /\ h[x] \in Int,
         NEW p, \A x \in S : p[x] = f[x] + h[x]
  PROVE  SumOf(p, S) = SumOf(f, S) + SumOf(h, S)
<1> DEFINE Bad == {s \in SUBSET S : SumOf(p, s) # SumOf(f, s) + SumOf(h, s)}
<1>1. SUFFICES ASSUME Bad # {} PROVE FALSE
  OBVIOUS
<1>2. PICK t \in Bad : \A u \in Bad : u \subseteq t => u = t
  <2>1. Bad \subseteq SUBSET S
    OBVIOUS
  <2> HIDE DEF Bad
  <2>2. QED BY <1>1, <2>1, SmallestSubset
<1> DEFINE w == t \ {Pick(t)}
<1>3. /\ SumOf(f, t) = IF t = {} THEN 0 ELSE f[Pick(t)] + SumOf(f, w)
      /\ SumOf(h, t) = IF t = {} THEN 0 ELSE h[Pick(t)] + SumOf(h, w)
      /\ SumOf(p, t) = IF t = {} THEN 0 ELSE p[Pick(t)] + SumOf(p, w)
  BY <1>2, FS_Subset, SumStep
<1>4. t # {} /\ Pick(t) \in t
  BY <1>2, <1>3, PickIn
<1>5. w \in SUBSET S /\ w \subseteq t /\ w # t
  BY <1>4
<1>6. SumOf(p, w) = SumOf(f, w) + SumOf(h, w)
  BY <1>2, <1>5
<1>7. f[Pick(t)] \in Int /\ h[Pick(t)] \in Int /\ p[Pick(t)] = f[Pick(t)] + h[Pick(t)]
  BY <1>4
<1>8. SumOf(f, w) \in Int /\ SumOf(h, w) \in Int
  <2> HIDE DEF w
  <2>1. QED BY <1>5, SumInt
<1> HIDE DEF w
<1>9. QED BY <1>2, <1>3, <1>4, <1>6, <1>7, <1>8

LEMMA SumZero ==
  ASSUME NEW S, IsFiniteSet(S), NEW f, \A x \in S : f[x] = 0
  PROVE  SumOf(f, S) = 0
<1>1. \A x \in S : f[x] \in Int
  OBVIOUS
<1>2. SumOf(f, S) = SumOf(f, S) + SumOf(f, S)
  BY <1>1, SumPlus
<1>3. SumOf(f, S) \in Int
  BY <1>1, SumInt
<1>4. \A v \in Int : v = v + v => v = 0
  OBVIOUS
<1>5. QED BY <1>2, <1>3, <1>4

(* Elements without a value may be left out. *)
LEMMA SumWithin ==
  ASSUME NEW S, IsFiniteSet(S), NEW f, \A x \in S : f[x] \in Int,
         NEW T \in SUBSET S, \A x \in S \ T : f[x] = 0
  PROVE  SumOf(f, S) = SumOf(f, T)
<1> DEFINE Bad == {s \in SUBSET S : SumOf(f, s) # SumOf(f, s \intersect T)}
<1>1. ASSUME Bad # {} PROVE FALSE
  <2>1. PICK t \in Bad : \A u \in Bad : u \subseteq t => u = t
    <3>1. Bad \subseteq SUBSET S
      OBVIOUS
    <3> HIDE DEF Bad
    <3>2. QED BY <1>1, <3>1, SmallestSubset
  <2>2. PICK x \in t : x \notin T
    <3>1. t # t \intersect T
      BY <2>1
    <3>2. QED BY <3>1
  <2>3. t \ {x} \in SUBSET S /\ t \ {x} \subseteq t /\ t \ {x} # t
        /\ (t \ {x}) \intersect T = t \intersect T
    BY <2>1, <2>2
  <2>4. SumOf(f, t \ {x}) = SumOf(f, t \intersect T)
    BY <2>1, <2>3
  <2>5. SumOf(f, t) = f[x] + SumOf(f, t \ {x})
    <3>1. IsFiniteSet(t) /\ \A y \in t : f[y] \in Int
      BY <2>1, FS_Subset
    <3>2. QED BY <3>1, SumAt
  <2>6. f[x] = 0 /\ SumOf(f, t \ {x}) \in Int
    BY <2>1, <2>2, <2>3, SumInt
  <2>7. QED BY <2>1, <2>4, <2>5, <2>6
<1>2. S \notin Bad /\ S \in SUBSET S /\ S \intersect T = T
  BY <1>1
<1>3. QED BY <1>2

(***************************************************************************)
(* The elements of M counted by where F sends them are all of M.           *)
(***************************************************************************)
Counts(f, S, F, M) ==
  /\ IsFiniteSet(S) /\ IsFiniteSet(M) /\ \A m \in M : F[m] \in S
  /\ \A x \in S : f[x] = Cardinality({m \in M : F[m] = x})

LEMMA SumOfCounts ==
  ASSUME NEW S, NEW M, NEW F, NEW f, Counts(f, S, F, M)
  PROVE  SumOf(f, S) = Cardinality(M)
<1> USE DEF Counts
<1> DEFINE C(N) == [x \in S |-> Cardinality({m \in N : F[m] = x})]
           Bad == {N \in SUBSET M : SumOf(C(N), S) # Cardinality(N)}
<1>1. ASSUME NEW N \in SUBSET M
      PROVE  IsFiniteSet(N) /\ \A x \in S : C(N)[x] \in Int
  <2>1. IsFiniteSet(N)
    BY FS_Subset
  <2>2. ASSUME NEW x \in S PROVE Cardinality({m \in N : F[m] = x}) \in Nat
    <3>1. {m \in N : F[m] = x} \in SUBSET N
      OBVIOUS
    <3>2. QED BY <2>1, <3>1, FS_Subset, FS_CardinalityType
  <2>3. QED BY <2>1, <2>2
<1>2. ASSUME Bad # {} PROVE FALSE
  <2>1. PICK N \in Bad : \A u \in Bad : u \subseteq N => u = N
    <3>1. Bad \subseteq SUBSET M
      OBVIOUS
    <3> HIDE DEF Bad
    <3>2. QED BY <1>2, <3>1, SmallestSubset
  <2>2. N # {}
    <3>1. SUFFICES ASSUME N = {} PROVE FALSE
      OBVIOUS
    <3>2. \A x \in S : {m \in N : F[m] = x} = {}
      BY <3>1
    <3>3. \A x \in S : C(N)[x] = 0
      BY <3>2, FS_EmptySet
    <3>4. SumOf(C(N), S) = 0
      <4> HIDE DEF C
      <4>1. QED BY <3>3, SumZero
    <3>5. QED BY <2>1, <3>1, <3>4, FS_EmptySet
  <2>3. PICK n : n \in N
    BY <2>2
  <2> DEFINE R == N \ {n}
             k == F[n]
  <2>4. R \in SUBSET M /\ R \subseteq N /\ R # N /\ k \in S
    BY <2>1, <2>3
  <2>5. SumOf(C(R), S) = Cardinality(R)
    BY <2>1, <2>4
  <2>6. IsFiniteSet(R) /\ IsFiniteSet(N) /\ Cardinality(N) = Cardinality(R) + 1
    <3>1. IsFiniteSet(R) /\ IsFiniteSet(N)
      BY <1>1, <2>1, <2>4
    <3>2. R \union {n} = N /\ n \notin R
      BY <2>3
    <3> HIDE DEF R
    <3>3. QED BY <3>1, <3>2, FS_AddElement
  <2>7. C(N)[k] = C(R)[k] + 1
    <3> DEFINE A == {m \in R : F[m] = k}
               B == {m \in N : F[m] = k}
    <3>1. B = A \union {n} /\ n \notin A /\ A \in SUBSET R
      BY <2>3
    <3>2. IsFiniteSet(A)
      BY <2>6, <3>1, FS_Subset
    <3>3. Cardinality(B) = Cardinality(A) + 1
      <4> HIDE DEF A, B
      <4>1. QED BY <3>1, <3>2, FS_AddElement
    <3>4. QED BY <2>4, <3>3
  <2>8. \A x \in S \ {k} : C(N)[x] = C(R)[x]
    <3>1. ASSUME NEW x \in S \ {k} PROVE {m \in N : F[m] = x} = {m \in R : F[m] = x}
      OBVIOUS
    <3>2. QED BY <3>1
  <2>9. \A x \in S : C(R)[x] \in Int /\ C(N)[x] \in Int
    BY <1>1, <2>1, <2>4
  <2> HIDE DEF C, R, k
  <2>10. SumOf(C(N), S) = SumOf(C(R), S) + (C(N)[k] - C(R)[k])
    BY <2>4, <2>8, <2>9, SumUpdate
  <2>11. Cardinality(R) \in Int /\ C(R)[k] \in Int
    BY <2>4, <2>6, <2>9, FS_CardinalityType
  <2>12. QED BY <2>1, <2>5, <2>6, <2>7, <2>10, <2>11
<1>3. SumOf(C(M), S) = Cardinality(M)
  BY <1>2
<1>4. SumOf(f, S) = SumOf(C(M), S)
  <2>1. \A x \in S : f[x] = C(M)[x]
    OBVIOUS
  <2> HIDE DEF C
  <2>2. QED BY <2>1, SumSame
<1>5. QED BY <1>3, <1>4

=============================================================================
