------------------------------ MODULE Recursion ------------------------------
(***************************************************************************)
(* What the functions and folds that go through a sequence compute: a      *)
(* function defined from its value one place to the left satisfies its     *)
(* definition, and a left fold is such a function. The step is a function  *)
(* D, where D[n][v] is what element n makes of v, so that every statement  *)
(* is first-order; induction goes through the set of the good numbers.     *)
(***************************************************************************)
EXTENDS Integers, Sequences, SequencesExt, WellFoundedInduction, TLAPS

\* A set of numbers has a least one.
LEMMA LeastNumber ==
    ASSUME NEW S \in SUBSET Nat, S # {}
    PROVE  \E n \in S : \A m \in S : n <= m
<1> DEFINE R == OpToRel(<, Nat)
<1>1. IsWellFoundedOn(R, Nat)
  BY NatLessThanWellFounded, Zenon
<1>2. \A x, y \in Nat : x < y => <<x, y>> \in R
  BY DEF OpToRel
<1> HIDE DEF R
<1>3. S \subseteq Nat /\ S # {}
  OBVIOUS
<1>4. PICK n \in S : \A m \in S : <<m, n>> \notin R
  BY <1>1, <1>3, WFMin
<1>5. \A m \in S : n <= m
  <2> TAKE m \in S
  <2>1. m \in Nat /\ n \in Nat /\ ~(m < n)
    BY <1>2, <1>3, <1>4
  <2> QED
    BY <2>1
<1> QED
  BY <1>5

\* Induction on the naturals, for the members of a set.
LEMMA NatSet ==
    ASSUME NEW S, 0 \in S, \A n \in Nat : n \in S => n + 1 \in S
    PROVE  Nat \subseteq S
<1> SUFFICES ASSUME Nat \ S # {} PROVE FALSE
  OBVIOUS
<1>1. PICK n \in Nat \ S : \A m \in Nat \ S : n <= m
  BY LeastNumber
<1>2. n # 0 /\ n - 1 \in Nat
  BY <1>1
<1>3. n - 1 \in S
  BY <1>1, <1>2
<1> QED
  BY <1>1, <1>2, <1>3

\* Induction up to a bound.
LEMMA BoundedInduction ==
    ASSUME NEW N \in Nat, NEW S, 0 \in S, \A n \in 0 .. N - 1 : n \in S => n + 1 \in S
    PROVE  0 .. N \subseteq S
<1> DEFINE T == S \cup {n \in Nat : n > N}
<1>1. Nat \subseteq T
  <2>1. 0 \in T
    OBVIOUS
  <2>2. \A n \in Nat : n \in T => n + 1 \in T
    OBVIOUS
  <2> HIDE DEF T
  <2> QED
    BY <2>1, <2>2, NatSet
<1> QED
  BY <1>1

\* D[n][v] is what element n makes of v.
StepOn(D, V) == D \in [Nat -> [V -> V]]

\* g computes from left to right, from b at the first place.
Runs(g, D, b, N) == \A n \in 1 .. N : g[n] = IF n = 1 THEN b ELSE D[n][g[n - 1]]

\* g folds every set of places, its last place coming last.
Folds(g, D, b, N) ==
    \A s \in SUBSET (1 .. N) : g[s] = IF s = {} THEN b ELSE D[Max(s)][g[s \ {Max(s)}]]

\* A function whose value at each place follows from the one before exists, so its
\* recursive definition defines it.
LEMMA Recursive ==
    ASSUME NEW V, NEW b \in V, NEW D, StepOn(D, V), NEW N \in Nat
    PROVE  \E g \in [1 .. N -> V] : Runs(g, D, b, N)
<1> USE DEF StepOn, Runs
<1> DEFINE Good(g, n) == Runs(g, D, b, n)
           S == {n \in Nat : \E g \in [1 .. n -> V] : Good(g, n)}
<1>1. 0 \in S
  <2>1. [m \in 1 .. 0 |-> b] \in [1 .. 0 -> V] /\ Good([m \in 1 .. 0 |-> b], 0)
    OBVIOUS
  <2> QED
    BY <2>1
<1>2. ASSUME NEW n \in Nat, n \in S PROVE n + 1 \in S
  <2>1. PICK g \in [1 .. n -> V] : Good(g, n)
    BY <1>2
  <2> DEFINE h == [m \in 1 .. n + 1 |->
                      IF m <= n THEN g[m] ELSE IF m = 1 THEN b ELSE D[m][g[m - 1]]]
  <2>2. h \in [1 .. n + 1 -> V]
    OBVIOUS
  <2>3. Good(h, n + 1)
    <3> SUFFICES ASSUME NEW m \in 1 .. n + 1
                 PROVE  h[m] = IF m = 1 THEN b ELSE D[m][h[m - 1]]
      OBVIOUS
    <3>1. m # 1 => m - 1 \in 1 .. n /\ h[m - 1] = g[m - 1]
      OBVIOUS
    <3> QED
      BY <2>1, <3>1
  <2> HIDE DEF h, Good
  <2> QED
    BY <2>2, <2>3
<1>3. N \in S
  <2> HIDE DEF S
  <2> QED
    BY <1>1, <1>2, NatSet
<1> QED
  BY <1>3

\* The largest number of a set that holds its bound, and of an interval.
LEMMA MaxIs ==
    ASSUME NEW m \in Nat, NEW s \in SUBSET (1 .. m), m \in s
    PROVE  Max(s) = m
<1>1. \A y \in s : m >= y
  OBVIOUS
<1>2. \A x \in s : (\A y \in s : x >= y) => x = m
  OBVIOUS
<1> QED
  BY <1>1, <1>2 DEF Max

\* The iteration inside a left fold exists: on a subset of 1 .. N, the last element
\* acts on what the others make of b.
LEMMA Folding ==
    ASSUME NEW V, NEW b \in V, NEW D, StepOn(D, V), NEW N \in Nat
    PROVE  \E g \in [SUBSET (1 .. N) -> V] : Folds(g, D, b, N)
<1> USE DEF StepOn, Folds
<1> DEFINE Good(g, n) == Folds(g, D, b, n)
           S == {n \in Nat : \E g \in [SUBSET (1 .. n) -> V] : Good(g, n)}
<1>1. 0 \in S
  <2>1. SUBSET (1 .. 0) = {{}}
    OBVIOUS
  <2>2. [s \in SUBSET (1 .. 0) |-> b] \in [SUBSET (1 .. 0) -> V]
        /\ Good([s \in SUBSET (1 .. 0) |-> b], 0)
    BY <2>1
  <2> QED
    BY <2>2
<1>2. ASSUME NEW n \in Nat, n \in S PROVE n + 1 \in S
  <2>1. PICK g \in [SUBSET (1 .. n) -> V] : Good(g, n)
    BY <1>2
  <2> DEFINE h == [s \in SUBSET (1 .. n + 1) |->
                      IF n + 1 \in s THEN D[n + 1][g[s \ {n + 1}]] ELSE g[s]]
  <2>0. \A s \in SUBSET (1 .. n + 1) : /\ n + 1 \in s => s \ {n + 1} \in SUBSET (1 .. n)
                                       /\ n + 1 \notin s => s \in SUBSET (1 .. n)
    OBVIOUS
  <2>2. h \in [SUBSET (1 .. n + 1) -> V]
    BY <2>0
  <2>3. Good(h, n + 1)
    <3> SUFFICES ASSUME NEW s \in SUBSET (1 .. n + 1)
                 PROVE  h[s] = IF s = {} THEN b ELSE D[Max(s)][h[s \ {Max(s)}]]
      OBVIOUS
    <3>1. CASE n + 1 \in s
      <4>1. Max(s) = n + 1
        BY <3>1, MaxIs
      <4>2. s \ {n + 1} \in SUBSET (1 .. n + 1) /\ n + 1 \notin s \ {n + 1}
        OBVIOUS
      <4>3. h[s] = D[n + 1][g[s \ {n + 1}]] /\ h[s \ {n + 1}] = g[s \ {n + 1}]
        BY <3>1, <4>2
      <4> QED
        BY <3>1, <4>1, <4>3
    <3>2. CASE n + 1 \notin s
      <4>1. s \in SUBSET (1 .. n) /\ h[s] = g[s]
        BY <2>0, <3>2
      <4>2. \A t \in SUBSET s : h[t] = g[t]
        BY <3>2, <4>1
      <4>3. h[s \ {Max(s)}] = g[s \ {Max(s)}]
        BY <4>2
      <4> QED
        BY <2>1, <4>1, <4>3
    <3> QED
      BY <3>1, <3>2
  <2> HIDE DEF h, Good
  <2> QED
    BY <2>2, <2>3
<1>3. N \in S
  <2> HIDE DEF S
  <2> QED
    BY <1>1, <1>2, NatSet
<1> QED
  BY <1>3

\* A nonempty set of places has a last one.
LEMMA MaxIn ==
    ASSUME NEW N \in Nat, NEW s \in SUBSET (1 .. N), s # {}
    PROVE  Max(s) \in s /\ \A y \in s : Max(s) >= y
<1> DEFINE T == {N - x : x \in s}
<1>0. \A x \in s : x \in Nat /\ x <= N /\ N - x \in Nat
  OBVIOUS
<1>1. T \in SUBSET Nat /\ T # {}
  BY <1>0
<1>2. PICK n \in T : \A m \in T : n <= m
  <2> HIDE DEF T
  <2> QED
    BY <1>1, LeastNumber
<1>3. PICK x \in s : n = N - x
  BY <1>2
<1>4. \A y \in s : x >= y
  <2> TAKE y \in s
  <2>1. N - x <= N - y
    BY <1>2, <1>3
  <2>2. x \in Nat /\ y \in Nat
    BY <1>0
  <2> QED
    BY <2>1, <2>2
<1>5. \E z \in s : \A y \in s : z >= y
  BY <1>4
<1> QED
  BY <1>5 DEF Max

\* So has it a first one.
LEMMA MinIn ==
    ASSUME NEW s \in SUBSET Nat, s # {}
    PROVE  Min(s) \in s /\ \A y \in s : Min(s) <= y
<1>1. PICK x \in s : \A y \in s : x <= y
  BY LeastNumber
<1>2. \E z \in s : \A y \in s : z =< y
  BY <1>1
<1> QED
  BY <1>2 DEF Min

\* The prefixes along which a left fold computes.
LEMMA PrefixPlaces ==
    ASSUME NEW N \in Nat, NEW n \in 1 .. N
    PROVE  /\ 1 .. n \in SUBSET (1 .. N) /\ 1 .. n # {}
           /\ Max(1 .. n) = n /\ (1 .. n) \ {n} = 1 .. n - 1
<1>1. Max(1 .. n) = n
  BY MaxIs
<1>2. (1 .. n) \ {n} = 1 .. n - 1
  OBVIOUS
<1>3. 1 .. n \in SUBSET (1 .. N) /\ 1 \in 1 .. n
  OBVIOUS
<1> QED
  BY <1>1, <1>2, <1>3

-----------------------------------------------------------------------------
(* Concatenation                                                           *)

\* F[n] is the concatenation of the first n sequences.
Collects(F, ss, S) ==
    /\ F \in [0 .. Len(ss) -> Seq(S)]
    /\ F[0] = <<>> /\ FlattenSeq(ss) = F[Len(ss)]
    /\ \A n \in 1 .. Len(ss) : F[n] = F[n - 1] \o ss[n]

\* FlattenSeq concatenates from left to right.
LEMMA Flattening ==
    ASSUME NEW S, NEW ss \in Seq(Seq(S))
    PROVE  \E F : Collects(F, ss, S)
<1> USE DEF Collects
<1> DEFINE N == Len(ss)
           V == Seq(S)
           P(g) == g = [n \in 1 .. N |-> IF n = 1 THEN ss[n] ELSE g[n - 1] \o ss[n]]
           fl == CHOOSE g : P(g)
<1>0. N \in Nat /\ \A n \in 1 .. N : ss[n] \in V
  OBVIOUS
<1>1. CASE N = 0
  <2>1. ss = <<>> /\ FlattenSeq(ss) = <<>>
    BY <1>1 DEF FlattenSeq
  <2>2. [n \in 0 .. N |-> <<>>] \in [0 .. N -> Seq(S)]
    OBVIOUS
  <2>3. [n \in 0 .. N |-> <<>>][0] = <<>> /\ 1 .. N = {}
    BY <1>1
  <2> QED
    BY <1>1, <2>1, <2>2, <2>3
<1>2. CASE N # 0
  <2> DEFINE D == [n \in Nat |-> [v \in V |-> IF n \in 1 .. N THEN v \o ss[n] ELSE v]]
  <2>1. StepOn(D, V)
    BY <1>0 DEF StepOn
  <2>2. PICK h \in [1 .. N -> V] : Runs(h, D, ss[1], N)
    <3> HIDE DEF D, V, N
    <3>1. ss[1] \in V /\ N \in Nat
      BY <1>0, <1>2
    <3> HIDE DEF P, fl
    <3> QED
      BY <2>1, <3>1, Recursive
  <2>3. P(h)
    <3>1. \A n \in 1 .. N : \A v \in V : D[n][v] = v \o ss[n]
      <4> TAKE n \in 1 .. N
      <4>1. n \in Nat /\ D[n] = [v \in V |-> IF n \in 1 .. N THEN v \o ss[n] ELSE v]
        BY <1>0
      <4> HIDE DEF D, V
      <4> QED
        BY <4>1
    <3>2. ASSUME NEW n \in 1 .. N, n # 1 PROVE D[n][h[n - 1]] = h[n - 1] \o ss[n]
      <4>1. n - 1 \in 1 .. N
        BY <1>0, <3>2
      <4>2. h[n - 1] \in V
        BY <2>2, <4>1
      <4> HIDE DEF D, V
      <4> QED
        BY <3>1, <4>2
    <3> HIDE DEF D
    <3>3. \A n \in 1 .. N : h[n] = IF n = 1 THEN ss[n] ELSE h[n - 1] \o ss[n]
      BY <2>2, <3>2 DEF Runs
    <3> QED
      BY <2>2, <3>3
  <2>4. P(fl)
    <3> HIDE DEF P
    <3> QED
      BY <2>3, Zenon
  <2>5. FlattenSeq(ss) = fl[N]
    BY <1>2 DEF FlattenSeq
  <2> DEFINE F == [n \in 0 .. N |-> IF n = 0 THEN <<>> ELSE fl[n]]
  <2> HIDE DEF fl
  <2>6. \A n \in 1 .. N : F[n] = F[n - 1] \o ss[n]
    <3> TAKE n \in 1 .. N
    <3>1. CASE n = 1
      <4>1. F[n] = ss[1] /\ F[n - 1] = <<>>
        BY <1>2, <2>4, <3>1
      <4> QED
        BY <1>0, <3>1, <4>1
    <3>2. CASE n # 1
      <4>1. n - 1 \in 1 .. N /\ n - 1 # 0
        BY <1>0, <3>2
      <4>2. F[n] = fl[n] /\ F[n - 1] = fl[n - 1]
        BY <3>2, <4>1
      <4>3. fl[n] = fl[n - 1] \o ss[n]
        BY <2>4, <3>2
      <4> QED
        BY <4>2, <4>3
    <3> QED
      BY <3>1, <3>2
  <2>7. \A n \in 0 .. N : F[n] \in Seq(S)
    <3> DEFINE G == {n \in 0 .. N : F[n] \in Seq(S)}
    <3>1. 0 \in G
      OBVIOUS
    <3>2. \A n \in 0 .. N - 1 : n \in G => n + 1 \in G
      <4> SUFFICES ASSUME NEW n \in 0 .. N - 1, F[n] \in Seq(S) PROVE n + 1 \in G
        OBVIOUS
      <4>1. n + 1 \in 1 .. N /\ (n + 1) - 1 = n
        BY <1>0
      <4>2. F[n + 1] = F[n] \o ss[n + 1] /\ ss[n + 1] \in Seq(S)
        BY <1>0, <2>6, <4>1
      <4> HIDE DEF F
      <4>3. F[n + 1] \in Seq(S)
        BY <4>2
      <4> QED
        BY <4>1, <4>3
    <3> HIDE DEF G
    <3>3. 0 .. N \subseteq G
      BY <1>0, <3>1, <3>2, BoundedInduction
    <3> QED
      BY <3>3 DEF G
  <2>8. F \in [0 .. N -> Seq(S)] /\ F[0] = <<>> /\ F[N] = fl[N]
    BY <1>0, <1>2, <2>7
  <2> QED
    BY <2>5, <2>6, <2>8
<1> QED
  BY <1>1, <1>2

\* t begins with s.
Begins(s, t) == Len(s) <= Len(t) /\ \A m \in 1 .. Len(s) : t[m] = s[m]

\* What has been concatenated so far is how all of it begins.
LEMMA FlatPrefix ==
    ASSUME NEW S, NEW ss \in Seq(Seq(S)), NEW F, Collects(F, ss, S), NEW j \in 0 .. Len(ss)
    PROVE  Begins(F[j], FlattenSeq(ss))
<1> DEFINE N == Len(ss)
           G == {n \in 0 .. N - j : Begins(F[j], F[j + n])}
<1>5. /\ N \in Nat /\ F \in [0 .. N -> Seq(S)] /\ FlattenSeq(ss) = F[N]
      /\ \A n \in 1 .. N : ss[n] \in Seq(S) /\ F[n] = F[n - 1] \o ss[n]
  <2>1. N \in Nat /\ \A n \in 1 .. N : ss[n] \in Seq(S)
    OBVIOUS
  <2>2. /\ F \in [0 .. N -> Seq(S)] /\ FlattenSeq(ss) = F[N]
        /\ \A n \in 1 .. N : F[n] = F[n - 1] \o ss[n]
    BY Zenon DEF Collects
  <2> QED
    BY <2>1, <2>2
<1>6. j \in 0 .. N
  OBVIOUS
<1> HIDE DEF N
<1>0. \A n \in 0 .. N : Len(F[n]) \in Nat
  BY <1>5
<1>1. 0 \in G
  <2>1. j + 0 = j /\ Len(F[j]) \in Nat /\ 0 \in 0 .. N - j
    BY <1>0, <1>5, <1>6
  <2> QED
    BY <2>1 DEF Begins
<1>2. ASSUME NEW n \in 0 .. (N - j) - 1, n \in G PROVE n + 1 \in G
  <2>1. /\ j + n \in 0 .. N /\ j + (n + 1) \in 1 .. N /\ (j + (n + 1)) - 1 = j + n
        /\ n + 1 \in 0 .. N - j
    BY <1>5, <1>6
  <2> DEFINE p == F[j]
             q == F[j + n]
             r == ss[j + (n + 1)]
  <2>2. F[j + (n + 1)] = q \o r /\ q \in Seq(S) /\ r \in Seq(S) /\ p \in Seq(S)
    BY <1>5, <1>6, <2>1
  <2>3. Begins(p, q)
    BY <1>2
  <2> HIDE DEF p, q, r
  <2>4. Begins(p, q \o r)
    <3>1. /\ Len(p) \in Nat /\ Len(q) \in Nat /\ Len(r) \in Nat /\ Len(q \o r) = Len(q) + Len(r)
          /\ \A m \in 1 .. Len(q) : (q \o r)[m] = q[m]
      BY <2>2
    <3> QED
      BY <2>3, <3>1 DEF Begins
  <2> QED
    BY <2>1, <2>2, <2>4 DEF p
<1>3. N - j \in G
  <2>1. N - j \in Nat
    BY <1>5, <1>6
  <2> HIDE DEF G
  <2>2. 0 .. N - j \subseteq G
    BY <1>1, <1>2, <2>1, BoundedInduction
  <2> QED
    BY <2>1, <2>2
<1>4. j + (N - j) = N
  BY <1>5, <1>6
<1>7. Begins(F[j], F[j + (N - j)])
  BY <1>3
<1> QED
  BY <1>4, <1>5, <1>7
=============================================================================
