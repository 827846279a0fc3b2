---------------------------- MODULE FoldTheorems ----------------------------
(***************************************************************************)
(* Loops over a sequence.  FoldLeft, with which the models say what such a *)
(* loop computes, is a recursive function on the sets of positions of the  *)
(* sequence, of which it takes the last first.  Here: that this function   *)
(* exists and is unique, that one more element is one more step of the     *)
(* loop, and that what holds at the start and is kept by each step holds   *)
(* at the end.                                                             *)
(*                                                                         *)
(* The step, the start and the invariant of the loop are parameters, to be *)
(* given by INSTANCE ... WITH; m is what else they depend on.              *)
(***************************************************************************)
EXTENDS Sequences, SumTheorems

CONSTANTS
  Advance(_, _, _),  \* the step of loop m for an element, from a state
  Start(_),          \* the state loop m starts from
  Holds(_, _)        \* an invariant of loop m

(* g is what loop m leaves, for every set of positions in S *)
Folds(g, m, ts, S) ==
  g = [s \in SUBSET S |-> IF s = {} THEN Start(m)
                          ELSE Advance(m, ts[Max(s)], g[s \ {Max(s)}])]

FoldOver(m, ts, S) == (CHOOSE g : Folds(g, m, ts, S))[S]
FoldTo(m, ts, i) == FoldOver(m, ts, 1..i)
Fold(m, ts) == FoldTo(m, ts, Len(ts))

Positions(S) == \E n \in Nat : S \in SUBSET (1..n)

LEMMA PositionsFinite ==
  ASSUME NEW S, Positions(S)
  PROVE  /\ IsFiniteSet(S)
         /\ S # {} => Max(S) \in S
         /\ \A s \in SUBSET S : Positions(s)
<1>1. PICK n \in Nat : S \in SUBSET (1..n)
  BY DEF Positions
<1>2. IsFiniteSet(1..n)
  BY FS_Interval
<1>3. IsFiniteSet(S)
  <2> DEFINE N == 1..n
  <2>1. IsFiniteSet(N) /\ S \in SUBSET N
    BY <1>1, <1>2
  <2> HIDE DEF N
  <2>2. QED BY <2>1, FS_Subset
<1>4. S # {} => Max(S) \in S
  BY <1>1, LastIndex
<1>5. \A s \in SUBSET S : Positions(s)
  <2>1. \A s \in SUBSET S : s \in SUBSET (1..n)
    BY <1>1
  <2>2. QED BY <2>1 DEF Positions
<1>6. QED BY <1>3, <1>4, <1>5

LEMMA FoldsValue ==
  ASSUME NEW m, NEW ts, NEW S, NEW g, Folds(g, m, ts, S), NEW s \in SUBSET S
  PROVE  g[s] = IF s = {} THEN Start(m) ELSE Advance(m, ts[Max(s)], g[s \ {Max(s)}])
  BY DEF Folds

(* There is at most one such function, *)
LEMMA FoldsUnique ==
  ASSUME NEW m, NEW ts, NEW S, Positions(S),
         NEW g, NEW h, Folds(g, m, ts, S), Folds(h, m, ts, S)
  PROVE  g = h
<1> DEFINE Bad == {s \in SUBSET S : g[s] # h[s]}
<1>f. IsFiniteSet(S)
  BY PositionsFinite
<1>1. Bad = {}
  <2>1. SUFFICES ASSUME Bad # {} PROVE FALSE
    OBVIOUS
  <2>2. PICK t \in Bad : \A u \in Bad : u \subseteq t => u = t
    <3>1. Bad \subseteq SUBSET S
      OBVIOUS
    <3> HIDE DEF Bad
    <3>2. QED BY <2>1, <3>1, <1>f, SmallestSubset
  <2>3. t # {}
    <3>1. {} \in SUBSET S
      OBVIOUS
    <3>2. g[{}] = Start(m) /\ h[{}] = Start(m)
      BY <3>1, FoldsValue
    <3>3. QED BY <2>2, <3>2
  <2>4. Max(t) \in t
    <3>1. t \in SUBSET S
      OBVIOUS
    <3>2. QED BY <2>3, <3>1, PositionsFinite
  <2>5. t \ {Max(t)} \in SUBSET S /\ t \ {Max(t)} \subseteq t /\ t \ {Max(t)} # t
    BY <2>4
  <2>6. g[t \ {Max(t)}] = h[t \ {Max(t)}]
    BY <2>2, <2>5
  <2>7. QED BY <2>2, <2>3, <2>6, FoldsValue
<1>2. \A s \in SUBSET S : g[s] = h[s]
  BY <1>1
<1>3. g = [s \in SUBSET S |-> g[s]] /\ h = [s \in SUBSET S |-> h[s]]
  BY DEF Folds
<1>4. QED BY <1>2, <1>3

(* what it does at the positions of a subset is the loop there, *)
LEMMA FoldsRestrict ==
  ASSUME NEW m, NEW ts, NEW S, NEW g, Folds(g, m, ts, S), NEW T \in SUBSET S
  PROVE  Folds([s \in SUBSET T |-> g[s]], m, ts, T)
<1> DEFINE h == [s \in SUBSET T |-> g[s]]
<1>1. ASSUME NEW s \in SUBSET T
      PROVE  h[s] = IF s = {} THEN Start(m) ELSE Advance(m, ts[Max(s)], h[s \ {Max(s)}])
  <2>1. s \in SUBSET S /\ s \ {Max(s)} \in SUBSET T
    OBVIOUS
  <2>2. g[s] = IF s = {} THEN Start(m) ELSE Advance(m, ts[Max(s)], g[s \ {Max(s)}])
    BY <2>1, FoldsValue
  <2>3. h[s] = g[s] /\ h[s \ {Max(s)}] = g[s \ {Max(s)}]
    BY <2>1
  <2>4. QED BY <2>2, <2>3
<1>2. QED BY <1>1 DEF Folds

(* and there is one. *)
LEMMA FoldsExists ==
  ASSUME NEW m, NEW ts, NEW S, Positions(S)
  PROVE  \E g : Folds(g, m, ts, S)
<1> DEFINE Bad == {s \in SUBSET S : ~\E g : Folds(g, m, ts, s)}
           V(t) == FoldOver(m, ts, t)
<1>f. IsFiniteSet(S)
  BY PositionsFinite
<1>1. SUFFICES ASSUME Bad # {} PROVE FALSE
  OBVIOUS
<1>2. PICK t \in Bad : \A u \in Bad : u \subseteq t => u = t
  <2>1. Bad \subseteq SUBSET S
    OBVIOUS
  <2> HIDE DEF Bad
  <2>2. QED BY <1>f, <1>1, <2>1, SmallestSubset
<1>3. ASSUME NEW u \in SUBSET t, u # t
      PROVE  \E g : Folds(g, m, ts, u)
  BY <1>2, <1>3
<1>m. ASSUME NEW u \in SUBSET t, u # {}
      PROVE  Max(u) \in u
  <2>1. u \in SUBSET S
    BY <1>2
  <2>2. QED BY <1>m, <2>1, PositionsFinite
<1>4. ASSUME NEW u \in SUBSET t, u # t
      PROVE  V(u) = IF u = {} THEN Start(m) ELSE Advance(m, ts[Max(u)], V(u \ {Max(u)}))
  <2> DEFINE G(s) == CHOOSE g : Folds(g, m, ts, s)
             w == u \ {Max(u)}
  <2>1. Folds(G(u), m, ts, u)
    BY <1>3, <1>4
  <2>2. V(u) = G(u)[u]
    BY DEF FoldOver
  <2>3. CASE u = {}
    BY <2>1, <2>2, <2>3, FoldsValue
  <2>4. CASE u # {}
    <3>1. Max(u) \in u
      BY <2>4, <1>m
    <3>2. w \in SUBSET u /\ w \in SUBSET t /\ w # t /\ Positions(w)
      <4>1. w \in SUBSET u /\ w \in SUBSET t /\ w # t /\ w \in SUBSET S
        BY <1>2, <1>4, <3>1
      <4>2. QED BY <4>1, PositionsFinite
    <3>3. Folds(G(w), m, ts, w)
      BY <1>3, <3>2
    <3>4. Folds([s \in SUBSET w |-> G(u)[s]], m, ts, w)
      <4> HIDE DEF w, G
      <4>1. QED BY <2>1, <3>2, FoldsRestrict
    <3>5. [s \in SUBSET w |-> G(u)[s]] = G(w)
      <4> HIDE DEF w, G
      <4>1. QED BY <3>2, <3>3, <3>4, FoldsUnique
    <3>6. G(w)[w] = G(u)[w]
      <4>1. [s \in SUBSET w |-> G(u)[s]][w] = G(u)[w]
        OBVIOUS
      <4> HIDE DEF w, G
      <4>2. QED BY <3>5, <4>1
    <3>7. V(w) = G(w)[w]
      BY DEF FoldOver
    <3>8. G(u)[u] = Advance(m, ts[Max(u)], G(u)[w])
      <4> HIDE DEF G
      <4>1. QED BY <2>1, <2>4, FoldsValue
    <3>9. QED BY <2>2, <2>4, <3>6, <3>7, <3>8
  <2>5. QED BY <2>3, <2>4
<1> HIDE DEF V
<1> DEFINE g == [u \in SUBSET t |-> IF u = {} THEN Start(m)
                                    ELSE Advance(m, ts[Max(u)], V(u \ {Max(u)}))]
<1>5. ASSUME NEW u \in SUBSET t
      PROVE  g[u] = IF u = {} THEN Start(m) ELSE Advance(m, ts[Max(u)], g[u \ {Max(u)}])
  <2>1. CASE u = {}
    BY <2>1
  <2>2. CASE u # {}
    <3>1. Max(u) \in u
      BY <2>2, <1>m
    <3>2. u \ {Max(u)} \in SUBSET t /\ u \ {Max(u)} # t
      BY <3>1
    <3>3. V(u \ {Max(u)}) = g[u \ {Max(u)}]
      BY <1>4, <3>2
    <3>4. QED BY <2>2, <3>3
  <2>3. QED BY <2>1, <2>2
<1>6. Folds(g, m, ts, t)
  BY <1>5 DEF Folds
<1>7. QED BY <1>2, <1>6

LEMMA FoldOfFolds ==
  ASSUME NEW m, NEW ts, NEW S, Positions(S),
         NEW g, Folds(g, m, ts, S)
  PROVE  \A s \in SUBSET S : g[s] = FoldOver(m, ts, s)
<1>1. SUFFICES ASSUME NEW s \in SUBSET S PROVE g[s] = FoldOver(m, ts, s)
  OBVIOUS
<1> DEFINE h == CHOOSE h : Folds(h, m, ts, s)
           r == [u \in SUBSET s |-> g[u]]
<1>2. Positions(s)
  BY <1>1, PositionsFinite
<1>3. Folds(h, m, ts, s)
  BY <1>2, FoldsExists
<1>4. Folds(r, m, ts, s)
  BY FoldsRestrict
<1>5. r = h
  <2> HIDE DEF r, h
  <2>1. QED BY <1>2, <1>3, <1>4, FoldsUnique
<1>6. r[s] = g[s] /\ h[s] = FoldOver(m, ts, s)
  BY DEF FoldOver
<1>7. QED BY <1>5, <1>6

(* One more element is one more step, *)
LEMMA FoldStep ==
  ASSUME NEW m, NEW ts
  PROVE  /\ FoldTo(m, ts, 0) = Start(m)
         /\ \A i \in Nat : FoldTo(m, ts, i + 1) = Advance(m, ts[i + 1], FoldTo(m, ts, i))
<1>1. ASSUME NEW S, Positions(S)
      PROVE  FoldOver(m, ts, S) = IF S = {} THEN Start(m)
               ELSE Advance(m, ts[Max(S)], FoldOver(m, ts, S \ {Max(S)}))
  <2>1. PICK g : Folds(g, m, ts, S)
    BY <1>1, FoldsExists
  <2>2. \A s \in SUBSET S : g[s] = FoldOver(m, ts, s)
    BY <1>1, <2>1, FoldOfFolds
  <2>3. S \in SUBSET S /\ S \ {Max(S)} \in SUBSET S
    OBVIOUS
  <2>4. g[S] = IF S = {} THEN Start(m) ELSE Advance(m, ts[Max(S)], g[S \ {Max(S)}])
    BY <2>1, <2>3, FoldsValue
  <2>5. QED BY <2>2, <2>3, <2>4
<1>2. FoldTo(m, ts, 0) = Start(m)
  <2>1. 1..0 = {} /\ Positions({})
    BY DEF Positions
  <2>2. QED BY <1>1, <2>1 DEF FoldTo
<1>3. ASSUME NEW i \in Nat
      PROVE  FoldTo(m, ts, i + 1) = Advance(m, ts[i + 1], FoldTo(m, ts, i))
  <2> DEFINE S == 1..(i + 1)
  <2>1. S \in SUBSET S /\ S # {} /\ i + 1 \in Nat /\ i + 1 \in S
    OBVIOUS
  <2>2. Max(S) = i + 1
    <3>1. Max(S) \in S /\ \A j \in S : j <= Max(S)
      <4> HIDE DEF S
      <4>1. QED BY <2>1, LastIndex DEF S
    <3>2. Max(S) \in Int /\ Max(S) <= i + 1 /\ i + 1 <= Max(S)
      BY <3>1, <2>1
    <3>3. QED BY <3>2
  <2>3. S \ {i + 1} = 1..i
    OBVIOUS
  <2>4. FoldOver(m, ts, S) = Advance(m, ts[Max(S)], FoldOver(m, ts, S \ {Max(S)}))
    <3>1. Positions(S) /\ S # {}
      BY <2>1 DEF Positions
    <3> HIDE DEF S
    <3>2. QED BY <3>1, <1>1
  <2>5. QED BY <2>2, <2>3, <2>4 DEF FoldTo
<1>4. QED BY <1>2, <1>3

(* what follows does not count, *)
LEMMA FoldPrefix ==
  ASSUME NEW m, NEW ts, NEW us, NEW n \in Nat, \A i \in 1..n : us[i] = ts[i]
  PROVE  FoldTo(m, us, n) = FoldTo(m, ts, n)
<1> DEFINE B == {i \in 0..n : FoldTo(m, us, i) # FoldTo(m, ts, i)}
<1>1. SUFFICES ASSUME B # {} PROVE FALSE
  OBVIOUS
<1>2. PICK i \in B : \A j \in B : i <= j
  <2>1. B \in SUBSET (0..n)
    OBVIOUS
  <2> HIDE DEF B
  <2>2. QED BY <1>1, <2>1, FirstIndex
<1>3. i # 0
  BY <1>2, FoldStep
<1>4. i - 1 \in Nat /\ i - 1 \in 0..n /\ i \in 1..n /\ (i - 1) + 1 = i /\ ~(i <= i - 1)
  BY <1>3
<1>5. FoldTo(m, us, i - 1) = FoldTo(m, ts, i - 1)
  BY <1>2, <1>4
<1>6. /\ FoldTo(m, us, i) = Advance(m, us[i], FoldTo(m, us, i - 1))
      /\ FoldTo(m, ts, i) = Advance(m, ts[i], FoldTo(m, ts, i - 1))
  BY <1>4, FoldStep
<1>7. QED BY <1>2, <1>4, <1>5, <1>6

LEMMA FoldAppend ==
  ASSUME NEW m, NEW T, NEW q \in Seq(T), NEW t \in T
  PROVE  /\ Fold(m, <<>>) = Start(m)
         /\ Fold(m, Append(q, t)) = Advance(m, t, Fold(m, q))
<1> DEFINE p == Append(q, t)
           n == Len(q)
<1>1. /\ n \in Nat /\ Len(p) = n + 1 /\ p[n + 1] = t
      /\ \A i \in 1..n : p[i] = q[i]
  OBVIOUS
<1>2. FoldTo(m, p, n) = FoldTo(m, q, n)
  <2> HIDE DEF p, n
  <2>1. QED BY <1>1, FoldPrefix
<1>3. FoldTo(m, p, n + 1) = Advance(m, p[n + 1], FoldTo(m, p, n))
  <2> HIDE DEF p, n
  <2>1. QED BY <1>1, FoldStep
<1>4. Fold(m, <<>>) = Start(m)
  BY FoldStep DEF Fold
<1>5. QED BY <1>1, <1>2, <1>3, <1>4 DEF Fold

(***************************************************************************)
(* What a loop starts with and keeps at every step is there at the end.    *)
(***************************************************************************)
LEMMA FoldHolds ==
  ASSUME NEW m, NEW T, NEW ts \in Seq(T), Holds(m, Start(m)),
         \A t \in T : \A s : Holds(m, s) => Holds(m, Advance(m, t, s))
  PROVE  \A i \in 0..Len(ts) : Holds(m, FoldTo(m, ts, i))
<1> DEFINE B == {i \in 0..Len(ts) : ~Holds(m, FoldTo(m, ts, i))}
<1>1. SUFFICES ASSUME B # {} PROVE FALSE
  OBVIOUS
<1>2. PICK i \in B : \A j \in B : i <= j
  <2>1. B \in SUBSET (0..Len(ts)) /\ Len(ts) \in Nat
    OBVIOUS
  <2> HIDE DEF B
  <2>2. QED BY <1>1, <2>1, FirstIndex
<1>3. i # 0
  <2>1. FoldTo(m, ts, 0) = Start(m)
    BY FoldStep
  <2>2. QED BY <1>2, <2>1
<1>4. i - 1 \in Nat /\ i - 1 \in 0..Len(ts) /\ i \in 1..Len(ts) /\ (i - 1) + 1 = i /\ ~(i <= i - 1)
  BY <1>3
<1>5. Holds(m, FoldTo(m, ts, i - 1))
  BY <1>2, <1>4
<1>6. FoldTo(m, ts, i) = Advance(m, ts[i], FoldTo(m, ts, i - 1))
  BY <1>4, FoldStep
<1>7. ts[i] \in T
  BY <1>4
<1>8. QED BY <1>2, <1>5, <1>6, <1>7

=============================================================================
