----------------------------- MODULE Recursion -----------------------------
(***************************************************************************)
(* Induction and recursion over the natural numbers, as facts about sets   *)
(* and functions: what the proofs about recursive functions rest on.       *)
(***************************************************************************)
EXTENDS Integers, FiniteSetsExt, WellFoundedInduction, TLAPS

\* Every set of natural numbers has a least one.
LEMMA LeastNat ==
  ASSUME NEW S, S \subseteq Nat, S # {}
  PROVE  \E x \in S : \A y \in S : x <= y
<1> DEFINE R == OpToRel(<, Nat)
<1>1. IsWellFoundedOn(R, Nat)
  BY NatLessThanWellFounded
<1>2. \A y, x \in Nat : <<y, x>> \in R <=> y < x
  BY DEF OpToRel
<1> HIDE DEF R
<1>3. PICK x \in S : \A y \in S : ~(<<y, x>> \in R)
  BY <1>1, WFMin
<1>4. ASSUME NEW y \in S PROVE x <= y
  <2>1. x \in Nat /\ y \in Nat /\ ~(y < x)
    BY <1>2, <1>3
  <2>2. QED BY <2>1
<1>5. QED BY <1>3, <1>4

LEMMA MinOfNats ==
  ASSUME NEW S, S \subseteq Nat, S # {}
  PROVE  Min(S) \in S /\ \A y \in S : Min(S) <= y
  BY LeastNat DEF Min

\* Induction: a set of numbers with 0 and every successor has them all.
LEMMA NatSetInduction ==
  ASSUME NEW S, S \subseteq Nat, 0 \in S, \A n \in S : n + 1 \in S
  PROVE  S = Nat
<1> DEFINE T == Nat \ S
<1>1. SUFFICES ASSUME T # {} PROVE FALSE
  OBVIOUS
<1>2. PICK x \in T : \A y \in T : x <= y
  BY <1>1, LeastNat
<1>3. x \in Nat /\ x # 0 /\ x \notin S
  BY <1>2
<1>4. x - 1 \in Nat /\ ~(x <= x - 1) /\ (x - 1) + 1 = x
  BY <1>3
<1>5. x - 1 \in S
  BY <1>2, <1>4
<1>6. QED BY <1>3, <1>4, <1>5

\* The same with all smaller numbers as the hypothesis.
LEMMA NatSetStrongInduction ==
  ASSUME NEW S, S \subseteq Nat,
         \A n \in Nat : (\A m \in Nat : m < n => m \in S) => n \in S
  PROVE  S = Nat
<1> DEFINE T == Nat \ S
<1>1. SUFFICES ASSUME T # {} PROVE FALSE
  OBVIOUS
<1>2. PICK x \in T : \A y \in T : x <= y
  BY <1>1, LeastNat
<1>3. \A m \in Nat : m < x => m \in S
  BY <1>2
<1>4. QED BY <1>2, <1>3

-----------------------------------------------------------------------------
(***************************************************************************)
(* A function on D that is given by base where it stops, and elsewhere,    *)
(* on P, by a step on its value at the predecessor, whose measure is       *)
(* smaller.                                                                *)
(***************************************************************************)
Recurs(f, E, P, base, pred, step) ==
    \A x \in E : f[x] = IF x \in P THEN step[x][f[pred[x]]] ELSE base[x]

LEMMA RecursionExists ==
  ASSUME NEW D, NEW P \in SUBSET D, NEW V, NEW measure \in [D -> Nat],
         NEW base \in [D -> V], NEW pred \in [P -> D], NEW step \in [P -> [V -> V]],
         \A x \in P : measure[pred[x]] < measure[x]
  PROVE  \E f \in [D -> V] : Recurs(f, D, P, base, pred, step)
<1> DEFINE E(n) == {x \in D : measure[x] <= n}
           Good(n, f) == f \in [D -> V] /\ Recurs(f, E(n), P, base, pred, step)
           S == {n \in Nat : \E f : Good(n, f)}
           Agree(n) == \A i, j \in Nat : \A f, g : \A x \in D :
                          Good(i, f) /\ Good(j, g) /\ measure[x] = n /\ n <= i /\ n <= j => f[x] = g[x]
           R == {n \in Nat : Agree(n)}
\* Two solutions agree where both are solutions.
<1>1. R = Nat
  <2>1. ASSUME NEW n \in Nat, \A m \in Nat : m < n => m \in R
        PROVE  n \in R
    <3> SUFFICES ASSUME NEW i \in Nat, NEW j \in Nat, NEW f, NEW g, Good(i, f), Good(j, g),
                        NEW x \in D, measure[x] = n, n <= i, n <= j
                 PROVE  f[x] = g[x]
      OBVIOUS
    <3>1. x \in E(i) /\ x \in E(j)
      OBVIOUS
    <3>2. CASE x \in P
      <4> DEFINE y == pred[x]
                 m == measure[y]
      <4>1. y \in D /\ m < n /\ m \in Nat
        BY <3>2
      <4>2. m <= i /\ m <= j
        BY <4>1
      <4>3. f[y] = g[y]
        <5>1. Agree(m)
          BY <2>1, <4>1
        <5> HIDE DEF Good, y, m
        <5>2. m = measure[y]
          BY DEF m
        <5>3. QED BY <4>1, <4>2, <5>1, <5>2
      <4>4. f[x] = step[x][f[pred[x]]] /\ g[x] = step[x][g[pred[x]]]
        BY <3>1, <3>2 DEF Recurs
      <4>5. QED BY <4>3, <4>4
    <3>3. CASE x \notin P
      BY <3>1, <3>3 DEF Recurs
    <3>4. QED BY <3>2, <3>3
  <2> HIDE DEF R
  <2>2. R \subseteq Nat
    BY DEF R
  <2>3. QED BY <2>1, <2>2, NatSetStrongInduction
\* There is a solution up to every measure.
<1>2. S = Nat
  <2>1. ASSUME NEW n \in Nat, NEW f \in [D -> V],
               \A x \in D : measure[x] < n => f[x] = IF x \in P THEN step[x][f[pred[x]]] ELSE base[x]
        PROVE  n \in S
    <3> DEFINE g == [x \in D |-> IF measure[x] < n THEN f[x]
                                 ELSE IF x \in P THEN step[x][f[pred[x]]] ELSE base[x]]
    <3>1. g \in [D -> V]
      OBVIOUS
    <3>2. ASSUME NEW x \in E(n)
          PROVE  g[x] = IF x \in P THEN step[x][g[pred[x]]] ELSE base[x]
      <4>1. x \in P => pred[x] \in D /\ measure[pred[x]] < n
        OBVIOUS
      <4>2. x \in P => g[pred[x]] = f[pred[x]]
        BY <4>1
      <4>3. QED BY <2>1, <4>2
    <3> HIDE DEF g
    <3>3. Good(n, g)
      BY <3>1, <3>2 DEF Recurs
    <3>4. QED BY <3>3
  <2>2. 0 \in S
    <3>1. \A x \in D : ~(measure[x] < 0)
      OBVIOUS
    <3> HIDE DEF S
    <3>2. QED BY <2>1, <3>1
  <2>3. ASSUME NEW n \in S PROVE n + 1 \in S
    <3>1. PICK f : Good(n, f)
      OBVIOUS
    <3>2. \A x \in D : measure[x] < n + 1 => x \in E(n)
      OBVIOUS
    <3>3. n + 1 \in Nat /\ f \in [D -> V]
      BY <3>1
    <3>4. \A x \in D : measure[x] < n + 1 => f[x] = IF x \in P THEN step[x][f[pred[x]]] ELSE base[x]
      BY <3>1, <3>2 DEF Recurs
    <3> HIDE DEF S, Good, E
    <3>5. QED BY <2>1, <3>3, <3>4
  <2> HIDE DEF S
  <2>4. S \subseteq Nat
    BY DEF S
  <2>5. QED BY <2>2, <2>3, <2>4, NatSetInduction
<1>3. \A n \in Nat : \E f : Good(n, f)
  BY <1>2
<1> DEFINE sol(n) == CHOOSE f : Good(n, f)
           F == [x \in D |-> sol(measure[x])[x]]
<1>4. \A n \in Nat : Good(n, sol(n))
  <2> HIDE DEF Good
  <2>1. QED BY <1>3
<1>5. F \in [D -> V]
  <2> HIDE DEF sol
  <2>1. QED BY <1>4
<1>6. ASSUME NEW x \in D
      PROVE  F[x] = IF x \in P THEN step[x][F[pred[x]]] ELSE base[x]
  <2> DEFINE n == measure[x]
  <2>1. n \in Nat /\ Good(n, sol(n)) /\ x \in E(n)
    <3>1. n \in Nat /\ n <= n
      OBVIOUS
    <3>2. x \in E(n)
      BY <3>1
    <3> HIDE DEF Good, sol, E, n
    <3>3. QED BY <1>4, <3>1, <3>2
  <2>2. CASE x \notin P
    <3> HIDE DEF sol
    <3>1. QED BY <2>1, <2>2 DEF Recurs
  <2>3. CASE x \in P
    <3> DEFINE y == pred[x]
               m == measure[y]
    <3>1. y \in D /\ m \in Nat /\ m < n /\ m <= n /\ m <= m
      BY <2>1, <2>3
    <3>2. Good(m, sol(m)) /\ Agree(m)
      <4>1. m \in R
        BY <1>1, <3>1
      <4>2. Good(m, sol(m))
        BY <1>4, <3>1
      <4>3. QED BY <4>1, <4>2
    <3> HIDE DEF sol
    <3>3. sol(n)[y] = sol(m)[y]
      <4> HIDE DEF Good, n, y, m
      <4>1. m = measure[y]
        BY DEF m
      <4>2. QED BY <2>1, <3>1, <3>2, <4>1
    <3>4. F[y] = sol(m)[y] /\ F[x] = sol(n)[x]
      BY <3>1
    <3>5. sol(n)[x] = step[x][sol(n)[y]]
      BY <2>1, <2>3 DEF Recurs
    <3>6. QED BY <2>3, <3>3, <3>4, <3>5
  <2>4. QED BY <2>2, <2>3
<1> HIDE DEF F
<1>7. QED BY <1>5, <1>6 DEF Recurs

\* A loop goes on from the states in P and ends at the others; its rounds are
\* bounded by the measure.
Descends(D, P, next, measure) ==
    /\ P \in SUBSET D /\ next \in [P -> D] /\ measure \in [D -> Nat]
    /\ \A x \in P : measure[next[x]] < measure[x]

LoopOf(f, D, P, next) ==
    f \in [D -> D] /\ \A x \in D : f[x] = IF x \in P THEN f[next[x]] ELSE x

LEMMA LoopExists ==
  ASSUME NEW D, NEW P, NEW next, NEW measure, Descends(D, P, next, measure)
  PROVE  \E f : LoopOf(f, D, P, next)
<1> DEFINE base == [x \in D |-> x]
           id == [x \in P |-> [v \in D |-> v]]
<1>1. base \in [D -> D] /\ id \in [P -> [D -> D]]
  OBVIOUS
<1>2. \A x \in D : base[x] = x
  OBVIOUS
<1>3. \A x \in P : \A v \in D : id[x][v] = v
  OBVIOUS
<1> HIDE DEF base, id
<1>4. PICK f \in [D -> D] : Recurs(f, D, P, base, next, id)
  BY <1>1, RecursionExists DEF Descends
<1>5. ASSUME NEW x \in D PROVE f[x] = IF x \in P THEN f[next[x]] ELSE x
  <2>1. x \in P => f[next[x]] \in D
    BY <1>4 DEF Descends
  <2>2. QED BY <1>2, <1>3, <1>4, <2>1 DEF Recurs
<1>6. QED BY <1>4, <1>5 DEF LoopOf

\* Induction on a measure.
LEMMA MeasureInduction ==
  ASSUME NEW D, NEW measure \in [D -> Nat], NEW T,
         \A x \in D : (\A y \in D : measure[y] < measure[x] => y \in T) => x \in T
  PROVE  \A x \in D : x \in T
<1> DEFINE S == {n \in Nat : \A x \in D : measure[x] = n => x \in T}
<1>1. ASSUME NEW n \in Nat, \A m \in Nat : m < n => m \in S
      PROVE  n \in S
  <2>1. ASSUME NEW x \in D, measure[x] = n PROVE x \in T
    <3>1. \A y \in D : measure[y] < measure[x] => y \in T
      BY <1>1, <2>1
    <3>2. QED BY <3>1
  <2>2. QED BY <2>1
<1>2. S \subseteq Nat
  OBVIOUS
<1> HIDE DEF S
<1>3. S = Nat
  BY <1>1, <1>2, NatSetStrongInduction
<1>4. QED BY <1>3 DEF S

\* Induction from 0 up to n.
LEMMA IntervalInduction ==
  ASSUME NEW n \in Nat, NEW T, 0 \in T, \A i \in 1 .. n : i - 1 \in T => i \in T
  PROVE  \A i \in 0 .. n : i \in T
<1> DEFINE S == {i \in Nat : i <= n => i \in T}
<1>1. S \subseteq Nat /\ 0 \in S
  OBVIOUS
<1>2. ASSUME NEW i \in S PROVE i + 1 \in S
  <2>1. i \in Nat /\ i + 1 \in Nat /\ (i + 1) - 1 = i
    OBVIOUS
  <2>2. i + 1 <= n => i + 1 \in 1 .. n /\ i \in T
    BY <2>1
  <2>3. i + 1 <= n => i + 1 \in T
    BY <2>1, <2>2
  <2>4. QED BY <2>1, <2>3
<1> HIDE DEF S
<1>3. S = Nat
  BY <1>1, <1>2, NatSetInduction
<1>4. QED BY <1>3 DEF S

\* Recursion from 0 up to n.
Steps(n, V) == [1 .. n -> [V -> V]]

Iterates(f, n, V, first, step) ==
    /\ f \in [0 .. n -> V]
    /\ f[0] = first
    /\ \A i \in 1 .. n : f[i] = step[i][f[i - 1]]

LEMMA IntervalRecursion ==
  ASSUME NEW n \in Nat, NEW V, NEW first \in V, NEW step \in Steps(n, V)
  PROVE  \E f : Iterates(f, n, V, first, step)
<1> DEFINE D == 0 .. n
           P == 1 .. n
           measure == [i \in D |-> i]
           base == [i \in D |-> first]
           pred == [i \in P |-> i - 1]
<1>1. /\ P \in SUBSET D /\ measure \in [D -> Nat] /\ base \in [D -> V] /\ pred \in [P -> D]
      /\ step \in [P -> [V -> V]]
      /\ \A x \in P : measure[pred[x]] < measure[x]
  BY DEF Steps
<1>2. PICK f \in [D -> V] : Recurs(f, D, P, base, pred, step)
  <2> HIDE DEF D, P, measure, base, pred
  <2>1. QED BY <1>1, RecursionExists
<1>3. f[0] = first
  BY <1>2 DEF Recurs
<1>4. \A i \in 1 .. n : f[i] = step[i][f[i - 1]]
  BY <1>2 DEF Recurs
<1>5. QED BY <1>2, <1>3, <1>4 DEF Iterates
=============================================================================
