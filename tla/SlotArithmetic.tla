--------------------------- MODULE SlotArithmetic ---------------------------
(***************************************************************************)
(* Facts about counters reduced modulo the number of slots they index: a   *)
(* counter that walks round n slots, and that may itself wrap at a         *)
(* multiple of n.  And facts about walks over an interval, one step after  *)
(* another: induction, and that there is a function such a walk defines.   *)
(***************************************************************************)
EXTENDS Integers, WellFoundedInduction, TLAPS

\* Division with remainder, as the rest of the module uses it.
LEMMA DivMod ==
    ASSUME NEW n \in Nat \ {0}, NEW x \in Nat
    PROVE  /\ x \div n \in Nat
           /\ x % n \in 0 .. n - 1
           /\ x = n * (x \div n) + (x % n)
    OBVIOUS

\* A number written as n * q + r with r < n has remainder r.
LEMMA RemainderIs ==
    ASSUME NEW n \in Nat \ {0}, NEW q \in Nat, NEW r \in 0 .. n - 1,
           NEW x \in Nat, x = n * q + r
    PROVE  x % n = r
    OBVIOUS

\* A number below n is its own remainder.
LEMMA SmallRemainder ==
    ASSUME NEW n \in Nat \ {0}, NEW x \in 0 .. n - 1
    PROVE  x % n = x
<1>1. x = n * 0 + x /\ x \in Nat
    OBVIOUS
<1> QED
    BY <1>1, RemainderIs

\* The two together, for a number and its remainder.
LEMMA Remainder ==
    ASSUME NEW n \in Nat \ {0}, NEW x \in Nat
    PROVE  \E q \in Nat : x = n * q + (x % n)
    BY DivMod

\* Adding what the remainder lacks to n reaches a multiple of n.
LEMMA RoundedUp ==
    ASSUME NEW n \in Nat \ {0}, NEW c \in Nat
    PROVE  (c + (n - (c % n))) % n = 0
<1>1. PICK r \in 0 .. n - 1 : r = c % n
    BY DivMod
<1>2. PICK q \in Nat : c = n * q + r
    BY <1>1, Remainder
<1>3. PICK p \in Nat, x \in Nat : p = q + 1 /\ x = c + (n - r)
    OBVIOUS
<1>4. x = n * p + 0
  <2>1. PICK y \in Nat : y = n * q
      OBVIOUS
  <2>2. n * p = y + n
      BY <1>3, <2>1
  <2>3. x = y + n
      BY <1>1, <1>2, <1>3, <2>1
  <2> QED
      BY <2>2, <2>3
<1>5. x % n = 0
    BY <1>4, RemainderIs
<1> QED
    BY <1>1, <1>3, <1>5

\* Going once round the slots changes nothing.
LEMMA OnceRound ==
    ASSUME NEW n \in Nat \ {0}, NEW c \in Nat
    PROVE  (c + n) % n = c % n
<1>1. PICK q \in Nat : c = n * q + (c % n)
    BY Remainder
<1>2. c % n \in 0 .. n - 1
    BY DivMod
<1>3. PICK p \in Nat, x \in Nat : p = q + 1 /\ x = c + n
    OBVIOUS
<1>4. x = n * p + (c % n)
    BY <1>1, <1>2, <1>3
<1>5. x % n = c % n
    BY <1>2, <1>4, RemainderIs
<1> QED
    BY <1>3, <1>5

\* Steps of less than a round from one counter lead to different slots.
LEMMA StepsDiffer ==
    ASSUME NEW n \in Nat \ {0}, NEW c \in Nat,
           NEW j \in 0 .. n - 1, NEW k \in 0 .. n - 1, j < k
    PROVE  (c + j) % n # (c + k) % n
<1> SUFFICES ASSUME (c + j) % n = (c + k) % n PROVE FALSE
    OBVIOUS
<1>1. c + j \in Nat /\ c + k \in Nat
    OBVIOUS
<1>2. PICK r \in 0 .. n - 1 : r = (c + j) % n /\ r = (c + k) % n
    BY <1>1, DivMod
<1>3. PICK qj \in Nat : c + j = n * qj + r
    BY <1>1, <1>2, Remainder
<1>4. PICK qk \in Nat : c + k = n * qk + r
    BY <1>1, <1>2, Remainder
<1>5. CASE qk <= qj
  <2>1. n * qk <= n * qj
      BY <1>5
  <2> QED
      BY <1>3, <1>4, <2>1
<1>6. CASE qk >= qj + 1
  <2>1. n * qk >= n * qj + n
      BY <1>6
  <2> QED
      BY <1>3, <1>4, <2>1
<1> QED
    BY <1>5, <1>6

\* Every slot is less than a round of steps away.
LEMMA SlotReached ==
    ASSUME NEW n \in Nat \ {0}, NEW c \in Nat, NEW s \in 0 .. n - 1
    PROVE  \E k \in 0 .. n - 1 : (c + k) % n = s
<1>1. PICK r \in 0 .. n - 1 : r = c % n
    BY DivMod
<1>2. PICK q \in Nat : c = n * q + r
    BY <1>1, Remainder
<1>3. CASE r <= s
  <2>1. PICK k \in 0 .. n - 1, x \in Nat : k = s - r /\ x = c + k
      BY <1>3
  <2>2. x = n * q + s
      BY <1>2, <2>1
  <2>3. x % n = s
      BY <2>2, RemainderIs
  <2> QED
      BY <2>1, <2>3
<1>4. CASE s < r
  <2>1. PICK k \in 0 .. n - 1, x \in Nat : k = n + s - r /\ x = c + k
      BY <1>4
  <2>2. PICK p \in Nat : p = q + 1
      OBVIOUS
  <2>3. x = n * p + s
      BY <1>2, <2>1, <2>2
  <2>4. x % n = s
      BY <2>3, RemainderIs
  <2> QED
      BY <2>1, <2>4
<1> QED
    BY <1>3, <1>4

\* A counter that wraps at a multiple of n keeps its place among the n slots.
LEMMA WrapKeepsPlace ==
    ASSUME NEW n \in Nat \ {0}, NEW m \in Nat, NEW t \in Nat \ {0}, m = t * n,
           NEW c \in 0 .. m - 1, NEW k \in 0 .. n - 1
    PROVE  (((c + 1) % m) + k) % n = (c + 1 + k) % n
<1>1. m \in Nat \ {0}
    OBVIOUS
<1>2. CASE c + 1 < m
  <2>1. (c + 1) % m = c + 1
    <3>1. c + 1 \in 0 .. m - 1 /\ c + 1 = m * 0 + (c + 1)
        BY <1>1, <1>2
    <3> QED
        BY <1>1, <3>1, RemainderIs
  <2> QED
      BY <2>1
<1>3. CASE c + 1 = m
  <2>1. (c + 1) % m = 0
    <3>1. c + 1 = m * 1 + 0
        BY <1>1, <1>3
    <3> QED
        BY <1>1, <3>1, RemainderIs
  <2>2. k % n = k
    <3>1. k = n * 0 + k
        OBVIOUS
    <3> QED
        BY <3>1, RemainderIs
  <2>3. (c + 1 + k) % n = k
    <3>1. PICK x \in Nat : x = c + 1 + k
        OBVIOUS
    <3>2. x = n * t + k
        BY <1>3, <3>1
    <3>3. x % n = k
        BY <3>2, RemainderIs
    <3> QED
        BY <3>1, <3>3
  <2> QED
      BY <2>1, <2>2, <2>3
<1> QED
    BY <1>1, <1>2, <1>3

-----------------------------------------------------------------------------
\* Less-than on the naturals, as the set of pairs the library's theorem is about.
LEMMA LessIsWellFounded ==
    IsWellFoundedOn({p \in Nat \X Nat : p[1] < p[2]}, Nat)
    BY NatLessThanWellFounded DEF OpToRel

\* A nonempty set of naturals has a least element: what a scan from 0 stops at.
LEMMA LeastNatural ==
    ASSUME NEW S, S \subseteq Nat, S # {}
    PROVE  \E x \in S : \A y \in S : x <= y
<1> DEFINE Less == {p \in Nat \X Nat : p[1] < p[2]}
<1>1. IsWellFoundedOn(Less, Nat)
    BY LessIsWellFounded
<1> HIDE DEF Less
<1>2. PICK x \in S : \A y \in S : <<y, x>> \notin Less
    BY <1>1, WFMin
<1>3. ASSUME NEW y \in S PROVE x <= y
  <2>1. <<y, x>> \notin Less /\ x \in Nat /\ y \in Nat
      BY <1>2
  <2>2. ~ (y < x)
      BY <2>1 DEF Less
  <2> QED
      BY <2>1, <2>2
<1> QED
    BY <1>3

-----------------------------------------------------------------------------
(* Walks *)

\* What holds at 0, and at n when it holds at n - 1, holds all the way.
LEMMA AllTheWay ==
    ASSUME NEW N \in Nat, NEW P, 0 \in P, \A n \in 1 .. N : n - 1 \in P => n \in P
    PROVE  \A n \in 0 .. N : n \in P
<1> DEFINE Missed == {n \in 0 .. N : n \notin P}
<1> SUFFICES ASSUME Missed # {} PROVE FALSE
    OBVIOUS
<1>1. PICK x \in Missed : \A y \in Missed : x <= y
  <2>1. Missed \subseteq Nat
      OBVIOUS
  <2> HIDE DEF Missed
  <2> QED
      BY <2>1, LeastNatural
<1>2. x # 0 /\ x \in 1 .. N /\ x - 1 \in 0 .. N /\ x \notin P
    OBVIOUS
<1>3. x - 1 \in P
    BY <1>1, <1>2
<1> QED
    BY <1>2, <1>3

\* A step leads from every state and place to a state; a walk starts somewhere and
\* takes it N times.
IsStep(step, S, N) == step \in [S \X (1 .. N) -> S]

IsWalk(f, start, N, step, S) ==
    /\ f \in [0 .. N -> S]
    /\ f[0] = start
    /\ \A n \in 1 .. N : f[n] = step[<<f[n - 1], n>>]

\* A step takes a walk from any start to any length.
LEMMA WalkExists ==
    ASSUME NEW S, NEW start \in S, NEW N \in Nat, NEW step, IsStep(step, S, N)
    PROVE  \E f : IsWalk(f, start, N, step, S)
<1> USE DEF IsStep
<1> DEFINE Goes(m, f) == f[0] = start /\ \A n \in 1 .. m : f[n] = step[<<f[n - 1], n>>]
           Good == {m \in 0 .. N : \E f \in [0 .. m -> S] : Goes(m, f)}
<1>1. 0 \in Good
  <2>1. PICK g : g = [n \in 0 .. 0 |-> start]
      OBVIOUS
  <2>2. g \in [0 .. 0 -> S] /\ g[0] = start
      BY <2>1
  <2>3. Goes(0, g)
      BY <2>2
  <2>4. \E f \in [0 .. 0 -> S] : Goes(0, f)
      BY <2>2, <2>3
  <2> QED
      BY <2>4
<1>2. ASSUME NEW n \in 1 .. N, n - 1 \in Good PROVE n \in Good
  <2>1. PICK f \in [0 .. n - 1 -> S] : Goes(n - 1, f)
      BY <1>2
  <2>2. PICK g : g = [k \in 0 .. n |-> IF k = n THEN step[<<f[n - 1], n>>] ELSE f[k]]
      OBVIOUS
  <2>3. step[<<f[n - 1], n>>] \in S
      BY <2>1
  <2>4. g \in [0 .. n -> S]
      BY <2>2, <2>3
  <2>5. g[0] = start
      BY <2>1, <2>2
  <2>6. ASSUME NEW k \in 1 .. n PROVE g[k] = step[<<g[k - 1], k>>]
    <3>1. CASE k = n
      <4>1. k \in 0 .. n /\ k - 1 \in 0 .. n /\ k - 1 # n
          OBVIOUS
      <4>2. g[k] = step[<<f[n - 1], n>>] /\ g[k - 1] = f[n - 1]
          BY <2>2, <3>1, <4>1
      <4> QED
          BY <3>1, <4>2
    <3>2. CASE k # n
      <4>1. k \in 1 .. n - 1 /\ k - 1 \in 0 .. n - 1
          BY <3>2
      <4>2. g[k] = f[k] /\ g[k - 1] = f[k - 1]
          BY <2>2, <4>1
      <4> QED
          BY <2>1, <4>1, <4>2
    <3> QED
        BY <3>1, <3>2
  <2> QED
      BY <2>4, <2>5, <2>6
<1>3. N \in Good
  <2> HIDE DEF Good
  <2> QED
      BY <1>1, <1>2, AllTheWay
<1> QED
    BY <1>3 DEF IsWalk
=============================================================================
