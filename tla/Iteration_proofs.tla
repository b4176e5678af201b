--------------------------- MODULE Iteration_proofs ---------------------------
(***************************************************************************)
(* What a loop does, from what its body does, for every body: a module     *)
(* that reasons about a loop instantiates Step with the body and Holds     *)
(* with what is true of the state t that k rounds make of the state s.     *)
(***************************************************************************)
EXTENDS Iteration, WellFoundedInduction, TLAPS

CONSTANT Holds(_, _, _, _)

(* Numbers do not go down for ever: the form of induction used here.        *)
LEMMA NoDescent ==
  ASSUME NEW Bad, Bad \subseteq Nat, \A m \in Bad : \E j \in Bad : j < m
  PROVE  Bad = {}
<1> SUFFICES ASSUME Bad # {} PROVE FALSE
  OBVIOUS
<1>1. PICK m \in Bad : \A j \in Bad : ~(<<j, m>> \in OpToRel(<, Nat))
  BY WFMin, NatLessThanWellFounded
<1>2. \A j \in Bad : ~(j < m)
  BY <1>1, Zenon DEF OpToRel
<1> QED BY <1>2

(* A set with 0, and with each k if it has k - 1, has every number.         *)
LEMMA Induction ==
  ASSUME NEW S, 0 \in S, \A k \in Nat \ {0} : k - 1 \in S => k \in S
  PROVE  Nat \subseteq S
<1> DEFINE Bad == Nat \ S
<1>1. ASSUME NEW m \in Bad PROVE \E j \in Bad : j < m
  <2>1. m # 0 /\ m \in Nat
    OBVIOUS
  <2>2. m - 1 \in Nat /\ m - 1 < m
    BY <2>1
  <2>3. m - 1 \notin S
    BY <2>1
  <2> QED BY <2>2, <2>3
<1>2. Bad \subseteq Nat
  OBVIOUS
<1> HIDE DEF Bad
<1>3. Bad = {}
  BY <1>1, <1>2, NoDescent
<1> QED BY <1>3 DEF Bad

Runs(x, s, n, f) ==
  f = [k \in 0..n |-> IF k = 0 THEN s ELSE Step(x, f[k - 1], k)]

(* One more round can be added to a run: every array length has its run.   *)
LEMMA RunExtends ==
  ASSUME NEW x, NEW s, NEW m \in Nat, NEW f, Runs(x, s, m, f)
  PROVE  \E g : Runs(x, s, m + 1, g)
<1> DEFINE g == [k \in 0..(m + 1) |-> IF k = m + 1 THEN Step(x, f[m], k) ELSE f[k]]
<1>1. ASSUME NEW k \in 0..(m + 1)
      PROVE  g[k] = IF k = 0 THEN s ELSE Step(x, g[k - 1], k)
  <2>1. CASE k = m + 1
    <3>1. k - 1 = m /\ m \in 0..(m + 1) /\ m # m + 1 /\ k # 0
      BY <2>1
    <3>2. g[k - 1] = f[m]
      BY <3>1
    <3> QED BY <3>1, <3>2, <2>1
  <2>2. CASE k # m + 1
    <3>1. k \in 0..m /\ g[k] = f[k]
      BY <2>2
    <3>2. k # 0 => g[k - 1] = f[k - 1]
      BY <3>1
    <3>3. f[k] = IF k = 0 THEN s ELSE Step(x, f[k - 1], k)
      BY <3>1 DEF Runs
    <3> QED BY <3>1, <3>2, <3>3
  <2> QED BY <2>1, <2>2
<1>2. g = [k \in 0..(m + 1) |-> g[k]]
  OBVIOUS
<1> HIDE DEF g
<1>3. Runs(x, s, m + 1, g)
  BY <1>1, <1>2 DEF Runs
<1> QED BY <1>3

(* The recursive definition of Iterate is met by some function: otherwise  *)
(* there were a shortest array without a run.                              *)
LEMMA RunExists ==
  ASSUME NEW x, NEW s, NEW n \in Nat
  PROVE  \E f : Runs(x, s, n, f)
<1> DEFINE Bad == {m \in Nat : ~\E f : Runs(x, s, m, f)}
<1>1. \E f : Runs(x, s, 0, f)
  <2>1. [k \in 0..0 |-> s] =
          [k \in 0..0 |-> IF k = 0 THEN s ELSE Step(x, [j \in 0..0 |-> s][k - 1], k)]
    OBVIOUS
  <2> QED BY <2>1 DEF Runs
<1>2. ASSUME NEW m \in Bad PROVE \E j \in Bad : j < m
  <2>1. m \in Nat /\ m # 0
    BY <1>1
  <2>2. m - 1 \in Nat /\ m - 1 < m /\ (m - 1) + 1 = m
    BY <2>1
  <2>3. ASSUME NEW f, Runs(x, s, m - 1, f) PROVE FALSE
    BY <2>2, <2>3, RunExtends
  <2> QED BY <2>2, <2>3
<1>3. Bad \subseteq Nat
  OBVIOUS
<1> HIDE DEF Bad
<1>4. Bad = {}
  BY <1>2, <1>3, NoDescent
<1> QED BY <1>4 DEF Bad

(* The last round of a loop.                                               *)
LEMMA LoopUnfolds ==
  ASSUME NEW x, NEW s, NEW n \in Nat
  PROVE  /\ Iterate(x, s, 0) = s
         /\ n # 0 => Iterate(x, s, n) = Step(x, Iterate(x, s, n - 1), n)
<1> DEFINE f(m) == CHOOSE g : Runs(x, s, m, g)
<1>1. ASSUME NEW m \in Nat
      PROVE  /\ Iterate(x, s, m) = f(m)[m]
             /\ \A k \in 0..m : f(m)[k] = IF k = 0 THEN s ELSE Step(x, f(m)[k - 1], k)
  <2>1. Runs(x, s, m, f(m))
    BY RunExists
  <2>2. Iterate(x, s, m) = f(m)[m]
    BY DEF Iterate, Runs
  <2> HIDE DEF f
  <2> QED BY <2>1, <2>2 DEF Runs
<1> HIDE DEF f
<1>2. Iterate(x, s, 0) = s
  BY <1>1
<1>3. ASSUME n # 0 PROVE Iterate(x, s, n) = Step(x, Iterate(x, s, n - 1), n)
  <2> DEFINE S == {k \in Nat : k < n => f(n - 1)[k] = f(n)[k]}
  <2>1. n - 1 \in Nat
    BY <1>3
  <2>2. 0 \in S
    BY <1>1, <2>1
  <2>3. ASSUME NEW k \in Nat \ {0}, k - 1 \in S PROVE k \in S
    <3> SUFFICES ASSUME k < n PROVE f(n - 1)[k] = f(n)[k]
      OBVIOUS
    <3>1. k \in 0..(n - 1) /\ k \in 0..n /\ k # 0
      OBVIOUS
    <3>2. f(n - 1)[k] = Step(x, f(n - 1)[k - 1], k)
      BY <1>1, <2>1, <3>1
    <3>3. f(n)[k] = Step(x, f(n)[k - 1], k)
      BY <1>1, <3>1
    <3>4. f(n - 1)[k - 1] = f(n)[k - 1]
      BY <2>3
    <3> QED BY <3>2, <3>3, <3>4
  <2> HIDE DEF S
  <2>4. n - 1 \in S
    BY <2>1, <2>2, <2>3, Induction
  <2>5. f(n - 1)[n - 1] = f(n)[n - 1]
    BY <2>1, <2>4 DEF S
  <2>6. f(n)[n] = Step(x, f(n)[n - 1], n)
    BY <1>1, <1>3
  <2> QED BY <1>1, <2>1, <2>5, <2>6
<1> QED BY <1>2, <1>3

(* What holds before the first round, and is carried from each round to    *)
(* the next, holds after the last.                                         *)
LEMMA LoopInvariant ==
  ASSUME NEW x, NEW s, NEW n \in Nat,
         Holds(x, s, s, 0),
         \A t : \A k \in 1..n : Holds(x, s, t, k - 1) => Holds(x, s, Step(x, t, k), k)
  PROVE  Holds(x, s, Iterate(x, s, n), n)
<1> DEFINE f == CHOOSE g : Runs(x, s, n, g)
           Bad == {k \in 0..n : ~Holds(x, s, f[k], k)}
<1>1. Iterate(x, s, n) = f[n]
  BY DEF Iterate, Runs
<1>2. Runs(x, s, n, f)
  BY RunExists
<1> HIDE DEF f
<1>3. \A k \in 0..n : f[k] = IF k = 0 THEN s ELSE Step(x, f[k - 1], k)
  BY <1>2 DEF Runs
<1>4. ASSUME NEW m \in Bad PROVE \E j \in Bad : j < m
  <2>1. m \in 0..n /\ m # 0
    BY <1>3
  <2>2. m - 1 \in 0..n /\ m - 1 < m /\ m \in 1..n
    BY <2>1
  <2>3. f[m] = Step(x, f[m - 1], m)
    BY <1>3, <2>1
  <2>4. ~Holds(x, s, f[m - 1], m - 1)
    BY <2>2, <2>3
  <2> QED BY <2>2, <2>4
<1>5. Bad \subseteq Nat
  OBVIOUS
<1>6. Bad = {} => Holds(x, s, f[n], n)
  OBVIOUS
<1> HIDE DEF Bad
<1>7. Bad = {}
  BY <1>4, <1>5, NoDescent
<1> QED BY <1>1, <1>6, <1>7
=============================================================================
