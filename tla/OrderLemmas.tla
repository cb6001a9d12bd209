----------------------------- MODULE OrderLemmas -----------------------------
(***************************************************************************)
(* Least and greatest numbers of a set, what holds from number to number,  *)
(* and recursive functions that search: facts that several proofs need.    *)
(***************************************************************************)
EXTENDS Integers, FiniteSetsExt, WellFoundedInduction, TLAPS

\* A set of natural numbers has a least element.
LEMMA MinOf ==
    ASSUME NEW S \in SUBSET Nat, S # {}
    PROVE  Min(S) \in S /\ \A y \in S : Min(S) <= y
  <1>. DEFINE R == {ss \in Nat \X Nat : ss[1] < ss[2]}
  <1>1. IsWellFoundedOn(R, Nat)
    BY NatLessThanWellFounded DEF OpToRel
  <1>2. \A x, y \in S : y < x => <<y, x>> \in R
    OBVIOUS
  <1>. HIDE DEF R
  <1>3. PICK x \in S : \A y \in S : ~(<<y, x>> \in R)
    BY <1>1, WFMin
  <1>4. \A y \in S : x <= y
    <2>. TAKE y \in S
    <2>1. ~(y < x)
      BY <1>2, <1>3
    <2>2. x \in Nat /\ y \in Nat
      OBVIOUS
    <2>. QED  BY <2>1, <2>2
  <1>. QED  BY <1>4 DEF Min

\* A set of natural numbers with a bound has a greatest element.
LEMMA MaxOf ==
    ASSUME NEW S \in SUBSET Nat, S # {}, NEW b \in Nat, \A y \in S : y <= b
    PROVE  Max(S) \in S /\ \A y \in S : y <= Max(S)
  <1>. DEFINE T == {b - y : y \in S}
  <1>1. T \in SUBSET Nat /\ T # {}
    <2>1. \A y \in S : b - y \in Nat
      OBVIOUS
    <2>. QED  BY <2>1
  <1>2. Min(T) \in T /\ \A d \in T : Min(T) <= d
    <2>. HIDE DEF T
    <2>. QED  BY <1>1, MinOf
  <1>3. PICK x \in S : Min(T) = b - x
    BY <1>2
  <1>4. \A y \in S : x >= y
    <2>. TAKE y \in S
    <2>1. Min(T) <= b - y
      BY <1>2
    <2>2. x \in Nat /\ y \in Nat
      OBVIOUS
    <2>. HIDE DEF T
    <2>. QED  BY <1>3, <2>1, <2>2
  <1>5. PICK m \in S : m = Max(S) /\ \A y \in S : m >= y
    BY <1>4 DEF Max
  <1>. QED  BY <1>5

\* The least and the greatest of two.
LEMMA MinMaxOfTwo ==
    ASSUME NEW i \in Nat, NEW j \in Nat
    PROVE  /\ Min({i, j}) = IF i <= j THEN i ELSE j
           /\ Max({i, j}) = IF i <= j THEN j ELSE i
  <1>1. Min({i, j}) \in {i, j} /\ \A y \in {i, j} : Min({i, j}) <= y
    BY MinOf
  <1>2. PICK b \in Nat : i <= b /\ j <= b
    BY i + j \in Nat /\ i <= i + j /\ j <= i + j
  <1>3. Max({i, j}) \in {i, j} /\ \A y \in {i, j} : y <= Max({i, j})
    BY <1>2, MaxOf
  <1>. QED  BY <1>1, <1>3

\* What holds of 0, and of n + 1 whenever it holds of n, holds of every number.
LEMMA StepByStep ==
    ASSUME NEW S, 0 \in S, \A n \in Nat : n \in S => n + 1 \in S
    PROVE  Nat \subseteq S
  <1>. DEFINE T == Nat \ S
  <1>. SUFFICES ASSUME T # {} PROVE FALSE
    OBVIOUS
  <1>1. PICK n \in T : \A m \in T : n <= m
    <2>. HIDE DEF T
    <2>1. T \in SUBSET Nat
      BY DEF T
    <2>. QED  BY <2>1, MinOf
  <1>2. n - 1 \in Nat /\ n - 1 \in S
    <2>1. n # 0 /\ n - 1 \in Nat
      OBVIOUS
    <2>2. n - 1 \notin T
      BY <1>1, <2>1
    <2>. QED  BY <2>1, <2>2
  <1>. QED  BY <1>2
-----------------------------------------------------------------------------
(***************************************************************************)
(* Searches: a recursive function that either stops at a place or goes on  *)
(* from another one exists when the next place is always further on.       *)
(***************************************************************************)
\* The results w of a search from the places D: a place in done gives val, and
\* the others what the next place gives.
Finds(w, D, done, val, next) ==
    /\ w = [y \in D |-> w[y]]
    /\ \A y \in D : w[y] = IF y \in done THEN val[y] ELSE w[next[y]]

\* A search that only goes down.
LEMMA SearchDown ==
    ASSUME NEW n \in Nat, NEW done, NEW val, NEW next,
           \A y \in (0 .. n - 1) \ done : next[y] \in 0 .. y - 1
    PROVE  \E w : Finds(w, 0 .. n - 1, done, val, next)
  <1>. DEFINE S == {m \in Nat : m <= n => \E w : Finds(w, 0 .. m - 1, done, val, next)}
  <1>1. 0 \in S
    <2>1. 0 .. 0 - 1 = {}
      OBVIOUS
    <2>. DEFINE v == [y \in 0 .. 0 - 1 |-> 0]
    <2>2. v = [y \in 0 .. 0 - 1 |-> v[y]]
      BY <2>1
    <2>3. Finds(v, 0 .. 0 - 1, done, val, next)
      BY <2>1, <2>2 DEF Finds
    <2>. QED  BY <2>3
  <1>2. ASSUME NEW m \in Nat, m \in S PROVE m + 1 \in S
    <2>. SUFFICES ASSUME m + 1 <= n
                  PROVE  \E w : Finds(w, 0 .. (m + 1) - 1, done, val, next)
      BY <1>2
    <2>1. PICK u : Finds(u, 0 .. m - 1, done, val, next)
      BY <1>2
    <2>. DEFINE w == [y \in 0 .. (m + 1) - 1 |->
                         IF y < m THEN u[y]
                         ELSE IF y \in done THEN val[y] ELSE u[next[y]]]
    <2>2. \A y \in 0 .. m - 1 : w[y] = u[y]
      OBVIOUS
    <2>3. ASSUME NEW y \in 0 .. (m + 1) - 1
          PROVE  w[y] = IF y \in done THEN val[y] ELSE w[next[y]]
      <3>1. y \in 0 .. n - 1 /\ y \in Nat
        OBVIOUS
      <3>2. y \notin done => next[y] \in 0 .. m - 1
        BY <3>1
      <3>3. CASE y < m
        <4>1. y \in 0 .. m - 1 /\ w[y] = u[y]
          BY <3>3, <2>2
        <4>2. u[y] = IF y \in done THEN val[y] ELSE u[next[y]]
          BY <4>1, <2>1 DEF Finds
        <4>. QED  BY <4>1, <4>2, <3>2, <2>2
      <3>4. CASE ~(y < m)
        <4>1. w[y] = IF y \in done THEN val[y] ELSE u[next[y]]
          BY <3>4
        <4>. QED  BY <4>1, <3>2, <2>2
      <3>. QED  BY <3>3, <3>4
    <2>4. w = [y \in 0 .. (m + 1) - 1 |-> w[y]]
      OBVIOUS
    <2>. HIDE DEF w
    <2>5. Finds(w, 0 .. (m + 1) - 1, done, val, next)
      BY <2>3, <2>4 DEF Finds
    <2>. QED  BY <2>5
  <1>3. n \in S
    <2>. HIDE DEF S
    <2>. QED  BY <1>1, <1>2, StepByStep
  <1>. QED  BY <1>3

\* A search that only goes up.
LEMMA SearchUp ==
    ASSUME NEW a \in Nat, NEW b \in Nat, NEW done, NEW val, NEW next,
           \A y \in (a .. b) \ done : next[y] \in y + 1 .. b
    PROVE  \E w : Finds(w, a .. b, done, val, next)
  <1>. DEFINE n == IF a <= b THEN b + 1 - a ELSE 0
              back == [y \in 0 .. n - 1 |-> b - next[b - y]]
              ends == {y \in 0 .. n - 1 : b - y \in done}
              ans == [y \in 0 .. n - 1 |-> val[b - y]]
  <1>1. n \in Nat /\ \A y \in 0 .. n - 1 : b - y \in a .. b /\ y \in Nat
    OBVIOUS
  <1>2. \A y \in (0 .. n - 1) \ ends : back[y] \in 0 .. y - 1
    <2>. TAKE y \in (0 .. n - 1) \ ends
    <2>1. b - y \in (a .. b) \ done
      BY <1>1
    <2>2. next[b - y] \in (b - y) + 1 .. b
      BY <2>1
    <2>. QED  BY <1>1, <2>2
  <1>3. \E u : Finds(u, 0 .. n - 1, ends, ans, back)
    <2>1. n \in Nat
      BY <1>1
    <2>. HIDE DEF n, back, ends, ans
    <2>. QED  BY <2>1, <1>2, SearchDown, Zenon
  <1>4. PICK u : \A y \in 0 .. n - 1 : u[y] = IF y \in ends THEN ans[y] ELSE u[back[y]]
    BY <1>3 DEF Finds
  <1>. DEFINE w == [y \in a .. b |-> u[b - y]]
  <1>5. ASSUME NEW y \in a .. b PROVE w[y] = IF y \in done THEN val[y] ELSE w[next[y]]
    <2>1. /\ b - y \in 0 .. n - 1 /\ b - (b - y) = y /\ y \in Nat
      OBVIOUS
    <2>2. w[y] = IF b - y \in ends THEN ans[b - y] ELSE u[back[b - y]]
      BY <1>4, <2>1
    <2>3. (b - y \in ends <=> y \in done) /\ ans[b - y] = val[y] /\ back[b - y] = b - next[y]
      BY <2>1
    <2>4. CASE y \in done
      BY <2>2, <2>3, <2>4
    <2>5. CASE y \notin done
      <3>1. next[y] \in a .. b
        BY <2>1, <2>5
      <3>2. w[next[y]] = u[b - next[y]]
        BY <3>1
      <3>. QED  BY <2>2, <2>3, <2>5, <3>2
    <2>. QED  BY <2>4, <2>5
  <1>6. w = [y \in a .. b |-> w[y]]
    OBVIOUS
  <1>. HIDE DEF w
  <1>7. Finds(w, a .. b, done, val, next)
    BY <1>5, <1>6 DEF Finds
  <1>. QED  BY <1>7
-----------------------------------------------------------------------------
(***************************************************************************)
(* Loops: a recursive function that computes, from what step i - 1 leaves, *)
(* what step i leaves.  K[i] is where that lies.                           *)
(***************************************************************************)
Loops(w, n, K, start, step) ==
    /\ w = [i \in 0 .. n |-> w[i]]
    /\ w[0] = start /\ \A i \in 1 .. n : w[i] = step[i][w[i - 1]]
    /\ \A i \in 0 .. n : w[i] \in K[i]

LEMMA LoopExists ==
    ASSUME NEW n \in Nat, NEW K, NEW start, start \in K[0], NEW step,
           \A i \in 1 .. n : \A x \in K[i - 1] : step[i][x] \in K[i]
    PROVE  \E w : Loops(w, n, K, start, step)
  <1>. DEFINE Is(w, m) == /\ w = [i \in 0 .. m |-> w[i]]
                          /\ w[0] = start /\ \A i \in 1 .. m : w[i] = step[i][w[i - 1]]
                          /\ \A i \in 0 .. m : w[i] \in K[i]
              S == {m \in Nat : m <= n => \E w : Is(w, m)}
  <1>1. 0 \in S
    <2>. DEFINE w == [i \in 0 .. 0 |-> start]
    <2>1. w[0] = start /\ w = [i \in 0 .. 0 |-> w[i]]
      OBVIOUS
    <2>2. \A i \in 0 .. 0 : i = 0
      OBVIOUS
    <2>3. \A i \in 1 .. 0 : FALSE
      OBVIOUS
    <2>. HIDE DEF w
    <2>4. Is(w, 0)
      BY <2>1, <2>2, <2>3
    <2>. QED  BY <2>4
  <1>2. ASSUME NEW m \in Nat, m \in S PROVE m + 1 \in S
    <2>. SUFFICES ASSUME m + 1 <= n PROVE \E w : Is(w, m + 1)
      BY <1>2
    <2>1. PICK u : Is(u, m)
      BY <1>2
    <2>. DEFINE w == [i \in 0 .. m + 1 |-> IF i <= m THEN u[i] ELSE step[i][u[m]]]
    <2>2. /\ \A i \in 0 .. m : w[i] = u[i]
          /\ w[m + 1] = step[m + 1][u[m]]
          /\ w = [i \in 0 .. m + 1 |-> w[i]]
      OBVIOUS
    <2>. HIDE DEF w
    <2>3. w[0] = start
      BY <2>1, <2>2
    <2>4. ASSUME NEW i \in 1 .. m + 1 PROVE w[i] = step[i][w[i - 1]]
      <3>1. CASE i = m + 1
        BY <3>1, <2>2
      <3>2. CASE i # m + 1
        <4>1. i \in 1 .. m /\ i \in 0 .. m /\ i - 1 \in 0 .. m
          BY <3>2
        <4>. QED  BY <4>1, <2>1, <2>2
      <3>. QED  BY <3>1, <3>2
    <2>5. ASSUME NEW i \in 0 .. m + 1 PROVE w[i] \in K[i]
      <3>1. CASE i = m + 1
        <4>1. u[m] \in K[m] /\ m + 1 \in 1 .. n /\ (m + 1) - 1 = m
          BY <2>1
        <4>2. step[m + 1][u[m]] \in K[m + 1]
          BY <4>1
        <4>. QED  BY <3>1, <2>2, <4>2
      <3>2. CASE i # m + 1
        <4>1. i \in 0 .. m
          BY <3>2
        <4>. QED  BY <4>1, <2>1, <2>2
      <3>. QED  BY <3>1, <3>2
    <2>6. Is(w, m + 1)
      BY <2>2, <2>3, <2>4, <2>5
    <2>. QED  BY <2>6
  <1>3. n \in S
    <2>. HIDE DEF S
    <2>. QED  BY <1>1, <1>2, StepByStep
  <1>. QED  BY <1>3 DEF Loops

\* Every function that follows the steps stays where they lead.
LEMMA LoopStays ==
    ASSUME NEW n \in Nat, NEW K, NEW w, w[0] \in K[0],
           \A i \in 1 .. n : w[i - 1] \in K[i - 1] => w[i] \in K[i]
    PROVE  \A i \in 0 .. n : w[i] \in K[i]
  <1>. DEFINE S == {m \in Nat : m <= n => w[m] \in K[m]}
  <1>1. 0 \in S
    OBVIOUS
  <1>2. ASSUME NEW m \in Nat, m \in S PROVE m + 1 \in S
    <2>. SUFFICES ASSUME m + 1 <= n PROVE w[m + 1] \in K[m + 1]
      OBVIOUS
    <2>1. w[m] \in K[m] /\ m + 1 \in 1 .. n /\ (m + 1) - 1 = m
      BY <1>2
    <2>. QED  BY <2>1
  <1>3. Nat \subseteq S
    <2>. HIDE DEF S
    <2>. QED  BY <1>1, <1>2, StepByStep
  <1>. QED  BY <1>3

\* Finitely many numbers have a bound.
LEMMA BoundOf ==
    ASSUME NEW n \in Nat, NEW f, \A i \in 1 .. n : f[i] \in Nat
    PROVE  \E b \in Nat : \A i \in 1 .. n : f[i] <= b
  <1>. DEFINE S == {m \in Nat : m <= n => \E b \in Nat : \A i \in 1 .. m : f[i] <= b}
  <1>1. 0 \in S
    <2>1. \A i \in 1 .. 0 : f[i] <= 0
      OBVIOUS
    <2>. QED  BY <2>1
  <1>2. ASSUME NEW m \in Nat, m \in S PROVE m + 1 \in S
    <2>. SUFFICES ASSUME m + 1 <= n PROVE \E b \in Nat : \A i \in 1 .. m + 1 : f[i] <= b
      OBVIOUS
    <2>1. PICK b \in Nat : \A i \in 1 .. m : f[i] <= b
      BY <1>2
    <2>2. f[m + 1] \in Nat
      OBVIOUS
    <2>3. b + f[m + 1] \in Nat
      BY <2>2
    <2>4. ASSUME NEW i \in 1 .. m + 1 PROVE f[i] <= b + f[m + 1]
      <3>1. CASE i = m + 1
        BY <2>2, <3>1
      <3>2. CASE i # m + 1
        <4>1. i \in 1 .. m /\ i \in 1 .. n
          BY <3>2
        <4>. QED  BY <2>1, <2>2, <4>1
      <3>. QED  BY <3>1, <3>2
    <2>. QED  BY <2>3, <2>4
  <1>3. n \in S
    <2>. HIDE DEF S
    <2>. QED  BY <1>1, <1>2, StepByStep
  <1>. QED  BY <1>3

\* What a search that only goes up gives, if every place passes on what it may.
LEMMA SearchUpGives ==
    ASSUME NEW a \in Nat, NEW b \in Nat, NEW done, NEW val, NEW next, NEW w, NEW K,
           \A y \in (a .. b) \ done : next[y] \in y + 1 .. b, Finds(w, a .. b, done, val, next),
           \A y \in a .. b : y \in done => val[y] \in K[y],
           \A y \in (a .. b) \ done : K[next[y]] \subseteq K[y]
    PROVE  \A y \in a .. b : w[y] \in K[y]
  <1>. DEFINE C == {y \in a .. b : w[y] \notin K[y]}
  <1>. SUFFICES ASSUME C # {} PROVE FALSE
    OBVIOUS
  <1>1. C \in SUBSET Nat /\ \A y \in C : y <= b
    OBVIOUS
  <1>2. PICK y \in C : \A z \in C : z <= y
    <2>. HIDE DEF C
    <2>. QED  BY <1>1, MaxOf
  <1>3. y \notin done
    BY DEF Finds
  <1>4. next[y] \in a .. b /\ next[y] > y
    BY <1>3
  <1>5. next[y] \notin C
    BY <1>1, <1>2, <1>4
  <1>. QED  BY <1>3, <1>4, <1>5 DEF Finds
=============================================================================
