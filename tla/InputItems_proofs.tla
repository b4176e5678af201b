-------------------------- MODULE InputItems_proofs --------------------------
(***************************************************************************)
(* Proofs about the conversion of a conversation's items: the history that *)
(* stands from turn to turn, and the outputs that follow their calls.      *)
(***************************************************************************)
EXTENDS InputItemsProperties, SequenceTheorems, FiniteSetTheorems, TLAPS

(* A sequence, of whatever elements. *)
IsSeq(q) == \E S : q \in Seq(S)

LEMMA SeqFacts ==
  ASSUME NEW q, IsSeq(q)
  PROVE  /\ Len(q) \in Nat
         /\ DOMAIN q = 1..Len(q)
<1> QED BY LenProperties DEF IsSeq

(* Of two sequences of the same length with the same elements there is one. *)
LEMMA SameSeq ==
  ASSUME NEW p, NEW q, IsSeq(p), IsSeq(q), Len(p) = Len(q),
         \A k \in 1..Len(p) : p[k] = q[k]
  PROVE  p = q
<1>1. PICK S : p \in Seq(S)
  BY DEF IsSeq
<1>2. PICK T : q \in Seq(T)
  BY DEF IsSeq
<1>3. p \in Seq(S \cup T) /\ q \in Seq(S \cup T)
  BY <1>1, <1>2, SeqMonotonic
<1> QED BY <1>3, SeqEqual

(* The concatenation of two sequences holds the one and then the other. *)
LEMMA Concatenated ==
  ASSUME NEW p, NEW q, IsSeq(p), IsSeq(q)
  PROVE  /\ IsSeq(p \o q)
         /\ Len(p \o q) = Len(p) + Len(q)
         /\ \A k \in 1..Len(p) : (p \o q)[k] = p[k]
         /\ \A k \in 1..Len(q) : (p \o q)[Len(p) + k] = q[k]
<1>1. PICK S : p \in Seq(S)
  BY DEF IsSeq
<1>2. PICK T : q \in Seq(T)
  BY DEF IsSeq
<1>3. p \in Seq(S \cup T) /\ q \in Seq(S \cup T)
  BY <1>1, <1>2, SeqMonotonic
<1>4. p \o q \in Seq(S \cup T)
  BY <1>3, ConcatProperties
<1>5. Len(p \o q) = Len(p) + Len(q) /\ Len(p) \in Nat /\ Len(q) \in Nat
  BY <1>3, ConcatProperties, LenProperties
<1>6. \A k \in 1..(Len(p) + Len(q)) :
         (p \o q)[k] = IF k <= Len(p) THEN p[k] ELSE q[k - Len(p)]
  BY <1>3, ConcatProperties
<1>7. \A k \in 1..Len(p) : (p \o q)[k] = p[k]
  BY <1>5, <1>6
<1>8. ASSUME NEW k \in 1..Len(q) PROVE (p \o q)[Len(p) + k] = q[k]
  <2>1. /\ Len(p) + k \in 1..(Len(p) + Len(q)) /\ ~(Len(p) + k <= Len(p))
        /\ (Len(p) + k) - Len(p) = k
    BY <1>5
  <2> QED BY <2>1, <1>6
<1> QED BY <1>4, <1>5, <1>7, <1>8 DEF IsSeq

LEMMA ConcatAssoc ==
  ASSUME NEW p, NEW q, NEW r, IsSeq(p), IsSeq(q), IsSeq(r)
  PROVE  (p \o q) \o r = p \o (q \o r)
<1>1. PICK S : p \in Seq(S)
  BY DEF IsSeq
<1>2. PICK T : q \in Seq(T)
  BY DEF IsSeq
<1>3. PICK U : r \in Seq(U)
  BY DEF IsSeq
<1> DEFINE V == S \cup T \cup U
<1>4. p \in Seq(V) /\ q \in Seq(V) /\ r \in Seq(V)
  BY <1>1, <1>2, <1>3, SeqMonotonic
<1> QED BY <1>4, ConcatAssociative

LEMMA Empty == IsSeq(<<>>) /\ Len(<<>>) = 0 /\ \A p : IsSeq(p) => p \o <<>> = p /\ <<>> \o p = p
<1>1. IsSeq(<<>>) /\ Len(<<>>) = 0
  BY EmptySeq DEF IsSeq
<1>2. ASSUME NEW p, IsSeq(p) PROVE p \o <<>> = p /\ <<>> \o p = p
  <2>1. PICK S : p \in Seq(S)
    BY <1>2 DEF IsSeq
  <2> QED BY <2>1, ConcatEmptySeq
<1> QED BY <1>1, <1>2

(* A sequence of one element. *)
LEMMA Single == \A e : IsSeq(<<e>>) /\ Len(<<e>>) = 1 /\ <<e>>[1] = e /\ <<e>> # <<>>
<1> TAKE e
<1>1. <<e>> \in Seq({e})
  OBVIOUS
<1> QED BY <1>1 DEF IsSeq

(* Append is a concatenation. *)
LEMMA AppendAsConcat ==
  ASSUME NEW p, NEW e, IsSeq(p)
  PROVE  /\ Append(p, e) = p \o <<e>>
         /\ IsSeq(Append(p, e)) /\ Len(Append(p, e)) = Len(p) + 1
         /\ \A k \in 1..Len(p) : Append(p, e)[k] = p[k]
         /\ Append(p, e)[Len(p) + 1] = e
<1>1. PICK S : p \in Seq(S)
  BY DEF IsSeq
<1>2. p \in Seq(S \cup {e})
  BY <1>1, SeqMonotonic
<1> QED BY <1>2, AppendIsConcat, AppendProperties DEF IsSeq

LEMMA ConcatAppend ==
  ASSUME NEW p, NEW q, NEW e, IsSeq(p), IsSeq(q)
  PROVE  Append(p \o q, e) = p \o Append(q, e)
<1>1. IsSeq(<<e>>) /\ IsSeq(p \o q)
  BY Single, Concatenated
<1>2. Append(p \o q, e) = (p \o q) \o <<e>> /\ Append(q, e) = q \o <<e>>
  BY <1>1, AppendAsConcat
<1>3. (p \o q) \o <<e>> = p \o (q \o <<e>>)
  BY <1>1, ConcatAssoc
<1> QED BY <1>2, <1>3

-----------------------------------------------------------------------------
(* Pick *)

(* After k positions: t has the picked ones among them, in their order.     *)
PickedSoFar(x, s, t, k) ==
  s = <<>> =>
    /\ IsSeq(t)
    /\ \E f \in [1..Len(t) -> 1..k] :
         /\ \A i \in 1..Len(t) : f[i] \in x.at /\ t[i] = x.of[f[i]]
         /\ \A i, j \in 1..Len(t) : i < j => f[i] < f[j]
         /\ \A p \in 1..k : p \in x.at => \E i \in 1..Len(t) : f[i] = p

Picking == INSTANCE Iteration_proofs WITH Step <- PickNext, Holds <- PickedSoFar

(* What is picked are the elements at the given positions, in order.        *)
LEMMA PickFacts ==
  ASSUME NEW ms, NEW at, IsSeq(ms)
  PROVE  /\ IsSeq(Pick(ms, at))
         /\ \E f \in [1..Len(Pick(ms, at)) -> 1..Len(ms)] :
              /\ \A i \in 1..Len(Pick(ms, at)) : f[i] \in at /\ Pick(ms, at)[i] = ms[f[i]]
              /\ \A i, j \in 1..Len(Pick(ms, at)) : i < j => f[i] < f[j]
              /\ \A p \in 1..Len(ms) : p \in at => \E i \in 1..Len(Pick(ms, at)) : f[i] = p
<1> DEFINE x == [of |-> ms, at |-> at]
           n == Len(ms)
<1>1. n \in Nat
  BY SeqFacts
<1>2. PickedSoFar(x, <<>>, <<>>, 0)
  <2>1. Len(<<>>) = 0 /\ IsSeq(<<>>)
    BY Empty
  <2>2. PICK f : f = [i \in 1..0 |-> i]
    OBVIOUS
  <2>3. f \in [1..Len(<<>>) -> 1..0]
    BY <2>1, <2>2
  <2>4. \A i \in 1..Len(<<>>) : FALSE
    BY <2>1
  <2> QED BY <2>1, <2>3, <2>4 DEF PickedSoFar
<1>3. ASSUME NEW t, NEW k \in 1..n, PickedSoFar(x, <<>>, t, k - 1)
      PROVE  PickedSoFar(x, <<>>, PickNext(x, t, k), k)
  <2>1. IsSeq(t) /\ Len(t) \in Nat
    BY <1>3, SeqFacts DEF PickedSoFar
  <2>2. PICK f \in [1..Len(t) -> 1..(k - 1)] :
         /\ \A i \in 1..Len(t) : f[i] \in x.at /\ t[i] = x.of[f[i]]
         /\ \A i, j \in 1..Len(t) : i < j => f[i] < f[j]
         /\ \A p \in 1..(k - 1) : p \in x.at => \E i \in 1..Len(t) : f[i] = p
    BY <1>3 DEF PickedSoFar
  <2>3. CASE k \notin x.at
    <3>1. PickNext(x, t, k) = t
      BY <2>3 DEF PickNext
    <3>2. f \in [1..Len(t) -> 1..k]
      BY <1>1
    <3>3. \A p \in 1..k : p \in x.at => \E i \in 1..Len(t) : f[i] = p
      BY <2>2, <2>3
    <3> QED BY <2>1, <2>2, <3>1, <3>2, <3>3 DEF PickedSoFar
  <2>4. CASE k \in x.at
    <3> DEFINE u == Append(t, x.of[k])
               g == [i \in 1..Len(u) |-> IF i = Len(u) THEN k ELSE f[i]]
    <3>1. PickNext(x, t, k) = u
      BY <2>4 DEF PickNext
    <3>2. IsSeq(u) /\ Len(u) = Len(t) + 1 /\ u[Len(u)] = x.of[k]
          /\ \A i \in 1..Len(t) : u[i] = t[i]
      <4>1. Len(u) = Len(t) + 1 /\ IsSeq(u)
        BY <2>1, AppendAsConcat
      <4>2. u[Len(t) + 1] = x.of[k] /\ \A i \in 1..Len(t) : u[i] = t[i]
        BY <2>1, AppendAsConcat
      <4> HIDE DEF u
      <4> QED BY <4>1, <4>2
    <3> HIDE DEF u
    <3>3. g \in [1..Len(u) -> 1..k]
      BY <1>1, <2>1, <3>2
    <3>4. \A i \in 1..Len(u) : g[i] \in x.at /\ u[i] = x.of[g[i]]
      BY <2>1, <2>2, <2>4, <3>2
    <3>5. \A i, j \in 1..Len(u) : i < j => g[i] < g[j]
      <4> SUFFICES ASSUME NEW i \in 1..Len(u), NEW j \in 1..Len(u), i < j
                   PROVE  g[i] < g[j]
        OBVIOUS
      <4>1. i \in 1..Len(t) /\ g[i] = f[i] /\ f[i] \in 1..(k - 1)
        BY <2>1, <3>2
      <4>2. CASE j = Len(u)
        BY <4>1, <4>2
      <4>3. CASE j # Len(u)
        <5>1. j \in 1..Len(t) /\ g[j] = f[j]
          BY <4>3, <2>1, <3>2
        <5> QED BY <4>1, <5>1, <2>2
      <4> QED BY <4>2, <4>3
    <3>6. \A p \in 1..k : p \in x.at => \E i \in 1..Len(u) : g[i] = p
      <4> SUFFICES ASSUME NEW p \in 1..k, p \in x.at PROVE \E i \in 1..Len(u) : g[i] = p
        OBVIOUS
      <4>1. CASE p = k
        BY <4>1, <2>1, <3>2
      <4>2. CASE p # k
        <5>1. PICK i \in 1..Len(t) : f[i] = p
          BY <4>2, <2>2
        <5>2. i \in 1..Len(u) /\ g[i] = p
          BY <5>1, <2>1, <3>2
        <5> QED BY <5>2
      <4> QED BY <4>1, <4>2
    <3> HIDE DEF g
    <3> QED BY <3>1, <3>2, <3>3, <3>4, <3>5, <3>6 DEF PickedSoFar
  <2> QED BY <2>3, <2>4
<1>4. PickedSoFar(x, <<>>, Picking!Iterate(x, <<>>, n), n)
  <2> HIDE DEF x, n
  <2> QED BY <1>1, <1>2, <1>3, Picking!LoopInvariant
<1>5. Pick(ms, at) = Picking!Iterate(x, <<>>, n)
  BY DEF Pick, EachPosition!Iterate, Picking!Iterate
<1> QED BY <1>4, <1>5 DEF PickedSoFar

(* What is picked among the first n positions. *)
Picked(ms, at, n) == EachPosition!Iterate([of |-> ms, at |-> at], <<>>, n)

LEMMA PickUnfolds ==
  ASSUME NEW ms, NEW at
  PROVE  /\ Pick(ms, at) = Picked(ms, at, Len(ms))
         /\ Picked(ms, at, 0) = <<>>
         /\ \A k \in Nat \ {0} :
              /\ k \in at => Picked(ms, at, k) = Append(Picked(ms, at, k - 1), ms[k])
              /\ k \notin at => Picked(ms, at, k) = Picked(ms, at, k - 1)
<1> DEFINE x == [of |-> ms, at |-> at]
<1>1. \A m : Picked(ms, at, m) = Picking!Iterate(x, <<>>, m)
  BY DEF Picked, EachPosition!Iterate, Picking!Iterate
<1>2. x.of = ms /\ x.at = at
  OBVIOUS
<1>3. Pick(ms, at) = Picked(ms, at, Len(ms))
  BY DEF Pick, Picked
<1> HIDE DEF x
<1>4. Picking!Iterate(x, <<>>, 0) = <<>>
  BY Picking!LoopUnfolds
<1>5. ASSUME NEW k \in Nat \ {0}
      PROVE  /\ k \in at => Picked(ms, at, k) = Append(Picked(ms, at, k - 1), ms[k])
             /\ k \notin at => Picked(ms, at, k) = Picked(ms, at, k - 1)
  <2>1. Picking!Iterate(x, <<>>, k) = PickNext(x, Picking!Iterate(x, <<>>, k - 1), k)
    BY Picking!LoopUnfolds
  <2>2. Picked(ms, at, k) = PickNext(x, Picked(ms, at, k - 1), k)
    BY <1>1, <2>1
  <2> QED BY <1>2, <2>2 DEF PickNext
<1> QED BY <1>1, <1>3, <1>4, <1>5

(* Of the positions of p and q in a row, at are bt of p and ct of q.        *)
Splits(p, q, at, bt, ct) ==
  /\ \A k \in 1..Len(p) : k \in at <=> k \in bt
  /\ \A k \in 1..Len(q) : Len(p) + k \in at <=> k \in ct

(* What is picked of two lists in a row is what is picked of each.          *)
LEMMA PickConcat ==
  ASSUME NEW p, NEW q, NEW at, NEW bt, NEW ct, IsSeq(p), IsSeq(q), Splits(p, q, at, bt, ct)
  PROVE  Pick(p \o q, at) = Pick(p, bt) \o Pick(q, ct)
<1> DEFINE n == Len(p)
           r == p \o q
           R(m) == Picked(r, at, m)
           P(m) == Picked(p, bt, m)
           Q(m) == Picked(q, ct, m)
<1>1. /\ n \in Nat /\ Len(q) \in Nat /\ IsSeq(r) /\ Len(r) = n + Len(q)
      /\ \A k \in 1..n : r[k] = p[k]
      /\ \A k \in 1..Len(q) : r[n + k] = q[k]
  BY SeqFacts, Concatenated
<1>2. \A k \in 1..n : k \in at <=> k \in bt
  BY DEF Splits
<1>3. \A k \in 1..Len(q) : n + k \in at <=> k \in ct
  BY DEF Splits
<1>4. /\ Pick(r, at) = R(n + Len(q)) /\ Pick(p, bt) = P(n) /\ Pick(q, ct) = Q(Len(q))
  BY <1>1, PickUnfolds
<1>5. IsSeq(P(n)) /\ IsSeq(Pick(q, ct))
  BY PickFacts, <1>4
<1>6. /\ R(0) = <<>>
      /\ \A k \in Nat \ {0} : /\ k \in at => R(k) = Append(R(k - 1), r[k])
                              /\ k \notin at => R(k) = R(k - 1)
  BY PickUnfolds
<1>7. /\ P(0) = <<>>
      /\ \A k \in Nat \ {0} : /\ k \in bt => P(k) = Append(P(k - 1), p[k])
                              /\ k \notin bt => P(k) = P(k - 1)
  BY PickUnfolds
<1>8. /\ Q(0) = <<>>
      /\ \A k \in Nat \ {0} : /\ k \in ct => Q(k) = Append(Q(k - 1), q[k])
                              /\ k \notin ct => Q(k) = Q(k - 1)
  BY PickUnfolds
<1> HIDE DEF n, r, R, P, Q
<1>9. R(n) = P(n)
  <2> DEFINE S == {k \in Nat : k <= n => R(k) = P(k)}
  <2>1. 0 \in S
    BY <1>6, <1>7
  <2>2. ASSUME NEW k \in Nat \ {0}, k - 1 \in S PROVE k \in S
    <3> SUFFICES ASSUME k <= n PROVE R(k) = P(k)
      OBVIOUS
    <3>1. k \in 1..n /\ R(k - 1) = P(k - 1) /\ (k \in at <=> k \in bt) /\ r[k] = p[k]
      BY <1>1, <1>2, <2>2
    <3>2. CASE k \in at
      BY <3>1, <3>2, <1>6, <1>7
    <3>3. CASE k \notin at
      BY <3>1, <3>3, <1>6, <1>7
    <3> QED BY <3>2, <3>3
  <2> HIDE DEF S
  <2>3. n \in S
    BY <1>1, <2>1, <2>2, Picking!Induction
  <2> QED BY <2>3, <1>1 DEF S
<1>10. R(n + Len(q)) = P(n) \o Q(Len(q))
  <2> DEFINE S == {k \in Nat : k <= Len(q) => IsSeq(Q(k)) /\ R(n + k) = P(n) \o Q(k)}
  <2>1. 0 \in S
    <3>1. P(n) \o <<>> = P(n) /\ IsSeq(<<>>)
      BY <1>5, Empty, Zenon
    <3>2. n + 0 = n /\ Q(0) = <<>>
      BY <1>1, <1>8
    <3> QED BY <3>1, <3>2, <1>9
  <2>2. ASSUME NEW k \in Nat \ {0}, k - 1 \in S PROVE k \in S
    <3> SUFFICES ASSUME k <= Len(q)
                 PROVE  IsSeq(Q(k)) /\ R(n + k) = P(n) \o Q(k)
      OBVIOUS
    <3>1. /\ k \in 1..Len(q) /\ IsSeq(Q(k - 1)) /\ R(n + (k - 1)) = P(n) \o Q(k - 1)
          /\ n + k \in Nat \ {0} /\ (n + k) - 1 = n + (k - 1)
      BY <1>1, <2>2
    <3>2. (n + k \in at <=> k \in ct) /\ r[n + k] = q[k]
      BY <1>1, <1>3, <3>1
    <3>3. R((n + k) - 1) = P(n) \o Q(k - 1)
      BY <3>1
    <3>4. CASE k \notin ct
      BY <3>1, <3>2, <3>3, <3>4, <1>6, <1>8
    <3>5. CASE k \in ct
      <4> DEFINE e == q[k]
      <4>1. Q(k) = Append(Q(k - 1), e)
        BY <3>5, <1>8
      <4>2. R(n + k) = Append(R((n + k) - 1), e)
        BY <3>1, <3>2, <3>5, <1>6
      <4> HIDE DEF e
      <4>3. IsSeq(P(n)) /\ IsSeq(Q(k - 1))
        BY <3>1, <1>5
      <4>4. IsSeq(Append(Q(k - 1), e))
        BY <4>3, AppendAsConcat
      <4>5. Append(P(n) \o Q(k - 1), e) = P(n) \o Append(Q(k - 1), e)
        BY <4>3, ConcatAppend
      <4> QED BY <3>3, <4>1, <4>2, <4>4, <4>5
    <3> QED BY <3>4, <3>5
  <2> HIDE DEF S
  <2>3. Len(q) \in S
    BY <1>1, <2>1, <2>2, Picking!Induction
  <2> QED BY <2>3, <1>1 DEF S
<1>11. Pick(r, at) = Pick(p, bt) \o Pick(q, ct)
  BY <1>4, <1>10
<1> QED BY <1>11 DEF r

(* Picked at every position, a list is itself.                              *)
LEMMA PickAll ==
  ASSUME NEW ms, NEW at, IsSeq(ms), \A k \in 1..Len(ms) : k \in at
  PROVE  Pick(ms, at) = ms
<1> DEFINE P(m) == Picked(ms, at, m)
           S    == {m \in Nat : m <= Len(ms) =>
                      IsSeq(P(m)) /\ Len(P(m)) = m /\ \A k \in 1..m : P(m)[k] = ms[k]}
<1>1. Len(ms) \in Nat
  BY SeqFacts
<1>2. /\ P(0) = <<>>
      /\ \A k \in Nat \ {0} : /\ k \in at => P(k) = Append(P(k - 1), ms[k])
                              /\ k \notin at => P(k) = P(k - 1)
  BY PickUnfolds
<1>3. Pick(ms, at) = P(Len(ms))
  BY PickUnfolds
<1> HIDE DEF P
<1>4. 0 \in S
  BY <1>2, Empty
<1>5. ASSUME NEW k \in Nat \ {0}, k - 1 \in S PROVE k \in S
  <2> SUFFICES ASSUME k <= Len(ms)
               PROVE  IsSeq(P(k)) /\ Len(P(k)) = k /\ \A j \in 1..k : P(k)[j] = ms[j]
    OBVIOUS
  <2> DEFINE t == P(k - 1)
             e == ms[k]
  <2>1. k \in 1..Len(ms) /\ IsSeq(t) /\ Len(t) = k - 1 /\ \A j \in 1..(k - 1) : t[j] = ms[j]
    BY <1>1, <1>5
  <2>2. P(k) = Append(t, e)
    BY <1>2, <2>1
  <2> HIDE DEF t
  <2>3. /\ IsSeq(Append(t, e)) /\ Len(Append(t, e)) = Len(t) + 1 /\ Append(t, e)[Len(t) + 1] = e
        /\ \A j \in 1..Len(t) : Append(t, e)[j] = t[j]
    <3> HIDE DEF e
    <3>1. IsSeq(t)
      BY <2>1
    <3>2. IsSeq(Append(t, e)) /\ Len(Append(t, e)) = Len(t) + 1
      BY <3>1, AppendAsConcat
    <3>3. Append(t, e)[Len(t) + 1] = e
      BY <3>1, AppendAsConcat
    <3>4. \A j \in 1..Len(t) : Append(t, e)[j] = t[j]
      BY <3>1, AppendAsConcat
    <3> QED BY <3>2, <3>3, <3>4
  <2>4. Len(t) + 1 = k
    BY <2>1
  <2> QED BY <2>1, <2>2, <2>3, <2>4
<1> HIDE DEF S
<1>6. Len(ms) \in S
  BY <1>1, <1>4, <1>5, Picking!Induction
<1>7. IsSeq(P(Len(ms))) /\ Len(P(Len(ms))) = Len(ms) /\ \A k \in 1..Len(ms) : P(Len(ms))[k] = ms[k]
  BY <1>6, <1>1 DEF S
<1> QED BY <1>3, <1>7, SameSeq

(* Picked at no position, nothing is left.                                  *)
LEMMA PickNone ==
  ASSUME NEW ms, NEW at, IsSeq(ms), \A k \in 1..Len(ms) : k \notin at
  PROVE  Pick(ms, at) = <<>>
<1> DEFINE u == Pick(ms, at)
<1>1. IsSeq(u)
  BY PickFacts
<1>2. \A i \in 1..Len(u) : \E k \in 1..Len(ms) : k \in at
  <2>1. PICK f \in [1..Len(u) -> 1..Len(ms)] : \A i \in 1..Len(u) : f[i] \in at
    BY PickFacts
  <2> QED BY <2>1
<1> HIDE DEF u
<1>3. Len(u) \in Nat /\ \A i \in 1..Len(u) : FALSE
  BY <1>1, <1>2, SeqFacts
<1>4. Len(u) = 0
  BY <1>3
<1>5. u = <<>>
  BY <1>1, <1>4, Empty, SameSeq
<1> QED BY <1>5 DEF u

-----------------------------------------------------------------------------
(* Lists of messages *)

IsMessage(m) ==
  /\ m = Message(m.role, m.text, m.calls, m.callId, m.reasoning)
  /\ IsSeq(m.text) /\ IsSeq(m.calls) /\ IsSeq(m.reasoning)

Messages(ms) == IsSeq(ms) /\ \A k \in 1..Len(ms) : IsMessage(ms[k])

AllKept(ms) == \A k \in 1..Len(ms) : Kept(ms[k])

NoSystem(ms) == \A k \in 1..Len(ms) : ms[k].role # "system"

(* Lists of messages in a row. *)
LEMMA MessagesConcat ==
  ASSUME NEW p, NEW q, Messages(p), Messages(q)
  PROVE  /\ Messages(p \o q)
         /\ AllKept(p) /\ AllKept(q) => AllKept(p \o q)
         /\ NoSystem(p) /\ NoSystem(q) => NoSystem(p \o q)
<1> DEFINE r == p \o q
<1>1. IsSeq(p) /\ IsSeq(q)
  BY DEF Messages
<1>2. IsSeq(r) /\ Len(r) = Len(p) + Len(q) /\ Len(p) \in Nat /\ Len(q) \in Nat
  BY <1>1, Concatenated, SeqFacts
<1>3. \A k \in 1..Len(p) : r[k] = p[k]
  BY <1>1, Concatenated
<1>4. \A k \in 1..Len(q) : r[Len(p) + k] = q[k]
  BY <1>1, Concatenated
<1> HIDE DEF r
<1>5. ASSUME NEW k \in 1..Len(r)
      PROVE  (\E j \in 1..Len(p) : r[k] = p[j]) \/ (\E j \in 1..Len(q) : r[k] = q[j])
  <2>1. CASE k \in 1..Len(p)
    BY <2>1, <1>3
  <2>2. CASE k \notin 1..Len(p)
    <3>1. k - Len(p) \in 1..Len(q) /\ Len(p) + (k - Len(p)) = k
      BY <1>2, <2>2
    <3>2. r[k] = q[k - Len(p)]
      BY <1>4, <3>1
    <3> QED BY <3>1, <3>2
  <2> QED BY <2>1, <2>2
<1>6. Messages(r)
  BY <1>2, <1>5 DEF Messages
<1>7. AllKept(p) /\ AllKept(q) => AllKept(r)
  BY <1>5 DEF AllKept
<1>8. NoSystem(p) /\ NoSystem(q) => NoSystem(r)
  BY <1>5 DEF NoSystem
<1> QED BY <1>6, <1>7, <1>8 DEF r

LEMMA OneMessage ==
  ASSUME NEW m, IsMessage(m)
  PROVE  /\ Messages(<<m>>)
         /\ Kept(m) => AllKept(<<m>>)
         /\ m.role # "system" => NoSystem(<<m>>)
<1>1. IsSeq(<<m>>) /\ Len(<<m>>) = 1 /\ <<m>>[1] = m
  BY Single
<1> QED BY <1>1 DEF Messages, AllKept, NoSystem

LEMMA NoMessages == Messages(<<>>) /\ AllKept(<<>>) /\ NoSystem(<<>>)
<1>1. IsSeq(<<>>) /\ Len(<<>>) = 0
  BY Empty
<1> QED BY <1>1 DEF Messages, AllKept, NoSystem

(* Some of a list of messages. *)
LEMMA PickMessages ==
  ASSUME NEW ms, NEW at, Messages(ms)
  PROVE  /\ Messages(Pick(ms, at))
         /\ AllKept(ms) => AllKept(Pick(ms, at))
         /\ \A i \in 1..Len(Pick(ms, at)) : \E k \in 1..Len(ms) : k \in at /\ Pick(ms, at)[i] = ms[k]
<1> DEFINE u == Pick(ms, at)
<1>1. IsSeq(ms)
  BY DEF Messages
<1>2. IsSeq(u)
  BY <1>1, PickFacts
<1>3. \A i \in 1..Len(u) : \E k \in 1..Len(ms) : k \in at /\ u[i] = ms[k]
  <2>1. PICK f \in [1..Len(u) -> 1..Len(ms)] : \A i \in 1..Len(u) : f[i] \in at /\ u[i] = ms[f[i]]
    BY <1>1, PickFacts
  <2> QED BY <2>1
<1> HIDE DEF u
<1>4. Messages(u) /\ (AllKept(ms) => AllKept(u))
  BY <1>2, <1>3 DEF Messages, AllKept
<1> QED BY <1>3, <1>4 DEF u

(* Dialogue and Sanitize take lists in a row one by one, and leave alone    *)
(* what has passed them.                                                    *)
LEMMA DialogueFacts ==
  ASSUME NEW p, NEW q, Messages(p), Messages(q)
  PROVE  /\ Messages(Dialogue(p)) /\ NoSystem(Dialogue(p))
         /\ AllKept(p) => AllKept(Dialogue(p))
         /\ NoSystem(p) => Dialogue(p) = p
         /\ Dialogue(p \o q) = Dialogue(p) \o Dialogue(q)
<1> DEFINE at(ms) == {k \in DOMAIN ms : ms[k].role # "system"}
<1>1. \A ms : Dialogue(ms) = Pick(ms, at(ms))
  BY DEF Dialogue
<1>2. /\ IsSeq(p) /\ IsSeq(q) /\ Messages(p \o q) /\ IsSeq(p \o q)
      /\ DOMAIN p = 1..Len(p) /\ DOMAIN q = 1..Len(q) /\ DOMAIN (p \o q) = 1..Len(p \o q)
      /\ Len(p) \in Nat /\ Len(q) \in Nat
  BY MessagesConcat, SeqFacts DEF Messages
<1>3. Messages(Pick(p, at(p))) /\ (AllKept(p) => AllKept(Pick(p, at(p)))) /\ NoSystem(Pick(p, at(p)))
  BY PickMessages DEF NoSystem
<1>4. NoSystem(p) => Pick(p, at(p)) = p
  BY <1>2, PickAll DEF NoSystem
<1>5. Splits(p, q, at(p \o q), at(p), at(q))
  <2>1. Len(p \o q) = Len(p) + Len(q)
    BY <1>2, Concatenated
  <2>2. \A k \in 1..Len(p) : (p \o q)[k] = p[k]
    BY <1>2, Concatenated
  <2>3. \A k \in 1..Len(q) : (p \o q)[Len(p) + k] = q[k]
    BY <1>2, Concatenated
  <2>4. ASSUME NEW k \in 1..Len(p) PROVE k \in at(p \o q) <=> k \in at(p)
    BY <1>2, <2>1, <2>2
  <2>5. ASSUME NEW k \in 1..Len(q) PROVE Len(p) + k \in at(p \o q) <=> k \in at(q)
    <3>1. Len(p) + k \in 1..Len(p \o q)
      BY <1>2, <2>1
    <3> QED BY <1>2, <2>3, <3>1
  <2> QED BY <2>4, <2>5 DEF Splits
<1>6. Pick(p \o q, at(p \o q)) = Pick(p, at(p)) \o Pick(q, at(q))
  <2> HIDE DEF at
  <2> QED BY <1>2, <1>5, PickConcat
<1> QED BY <1>1, <1>3, <1>4, <1>6

LEMMA SanitizeFacts ==
  ASSUME NEW p, NEW q, Messages(p), Messages(q)
  PROVE  /\ Messages(Sanitize(p)) /\ AllKept(Sanitize(p))
         /\ AllKept(p) => Sanitize(p) = p
         /\ Sanitize(p \o q) = Sanitize(p) \o Sanitize(q)
<1> DEFINE at(ms) == {k \in DOMAIN ms : Kept(ms[k])}
<1>1. \A ms : Sanitize(ms) = Pick(ms, at(ms))
  BY DEF Sanitize
<1>2. /\ IsSeq(p) /\ IsSeq(q) /\ Messages(p \o q) /\ IsSeq(p \o q)
      /\ DOMAIN p = 1..Len(p) /\ DOMAIN q = 1..Len(q) /\ DOMAIN (p \o q) = 1..Len(p \o q)
      /\ Len(p) \in Nat /\ Len(q) \in Nat
  BY MessagesConcat, SeqFacts DEF Messages
<1>3. Messages(Pick(p, at(p))) /\ AllKept(Pick(p, at(p)))
  BY PickMessages DEF AllKept
<1>4. AllKept(p) => Pick(p, at(p)) = p
  BY <1>2, PickAll DEF AllKept
<1>5. Splits(p, q, at(p \o q), at(p), at(q))
  <2>1. Len(p \o q) = Len(p) + Len(q)
    BY <1>2, Concatenated
  <2>2. \A k \in 1..Len(p) : (p \o q)[k] = p[k]
    BY <1>2, Concatenated
  <2>3. \A k \in 1..Len(q) : (p \o q)[Len(p) + k] = q[k]
    BY <1>2, Concatenated
  <2>4. ASSUME NEW k \in 1..Len(p) PROVE k \in at(p \o q) <=> k \in at(p)
    BY <1>2, <2>1, <2>2
  <2>5. ASSUME NEW k \in 1..Len(q) PROVE Len(p) + k \in at(p \o q) <=> k \in at(q)
    <3>1. Len(p) + k \in 1..Len(p \o q)
      BY <1>2, <2>1
    <3> QED BY <1>2, <2>3, <3>1
  <2> QED BY <2>4, <2>5 DEF Splits
<1>6. Pick(p \o q, at(p \o q)) = Pick(p, at(p)) \o Pick(q, at(q))
  <2> HIDE DEF at
  <2> QED BY <1>2, <1>5, PickConcat
<1> QED BY <1>1, <1>3, <1>4, <1>6

(* The system text of the first n messages. *)
Joined(ms, n) == EachText!Iterate(ms, <<>>, n)

JoinedSoFar(ms, s, t, k) == IsSeq(t)

Joining == INSTANCE Iteration_proofs WITH Step <- JoinNext, Holds <- JoinedSoFar

LEMMA JoinUnfolds ==
  ASSUME NEW ms
  PROVE  /\ SystemText(ms) = Joined(ms, Len(ms))
         /\ Joined(ms, 0) = <<>>
         /\ \A k \in Nat \ {0} :
              /\ ms[k].role = "system" => Joined(ms, k) = Joined(ms, k - 1) \o ms[k].text
              /\ ms[k].role # "system" => Joined(ms, k) = Joined(ms, k - 1)
<1>1. \A m : Joined(ms, m) = Joining!Iterate(ms, <<>>, m)
  BY DEF Joined, EachText!Iterate, Joining!Iterate
<1>2. SystemText(ms) = Joined(ms, Len(ms))
  BY DEF SystemText, Joined
<1>3. Joining!Iterate(ms, <<>>, 0) = <<>>
  BY Joining!LoopUnfolds
<1>4. ASSUME NEW k \in Nat \ {0}
      PROVE  /\ ms[k].role = "system" => Joined(ms, k) = Joined(ms, k - 1) \o ms[k].text
             /\ ms[k].role # "system" => Joined(ms, k) = Joined(ms, k - 1)
  <2>1. Joining!Iterate(ms, <<>>, k) = JoinNext(ms, Joining!Iterate(ms, <<>>, k - 1), k)
    BY Joining!LoopUnfolds
  <2>2. Joined(ms, k) = JoinNext(ms, Joined(ms, k - 1), k)
    BY <1>1, <2>1
  <2> QED BY <2>2 DEF JoinNext
<1> QED BY <1>1, <1>2, <1>3, <1>4

(* The system text of messages is a text. *)
LEMMA SystemTextSeq ==
  ASSUME NEW ms, Messages(ms)
  PROVE  \A k \in 0..Len(ms) : IsSeq(Joined(ms, k))
<1> TAKE n \in 0..Len(ms)
<1>1. n \in Nat /\ Len(ms) \in Nat
  BY SeqFacts DEF Messages
<1>2. JoinedSoFar(ms, <<>>, <<>>, 0)
  BY Empty DEF JoinedSoFar
<1>3. ASSUME NEW t, NEW k \in 1..n, JoinedSoFar(ms, <<>>, t, k - 1)
      PROVE  JoinedSoFar(ms, <<>>, JoinNext(ms, t, k), k)
  <2>1. IsSeq(t) /\ IsSeq(ms[k].text)
    BY <1>1, <1>3 DEF Messages, IsMessage, JoinedSoFar
  <2>2. IsSeq(t \o ms[k].text)
    BY <2>1, Concatenated
  <2> QED BY <2>1, <2>2 DEF JoinNext, JoinedSoFar
<1>4. JoinedSoFar(ms, <<>>, Joining!Iterate(ms, <<>>, n), n)
  BY <1>1, <1>2, <1>3, Joining!LoopInvariant
<1>5. Joined(ms, n) = Joining!Iterate(ms, <<>>, n)
  BY DEF Joined, EachText!Iterate, Joining!Iterate
<1> QED BY <1>4, <1>5 DEF JoinedSoFar

(* Only the texts of the system messages count. *)
LEMMA SameSystemText ==
  ASSUME NEW p, NEW q, Messages(p), Messages(q), Len(p) = Len(q),
         \A k \in 1..Len(p) : p[k].role = q[k].role /\ p[k].text = q[k].text
  PROVE  SystemText(p) = SystemText(q)
<1>1. Len(p) \in Nat
  BY SeqFacts DEF Messages
<1> DEFINE S == {k \in Nat : k <= Len(p) => Joined(p, k) = Joined(q, k)}
<1>2. 0 \in S
  BY JoinUnfolds
<1>3. ASSUME NEW k \in Nat \ {0}, k - 1 \in S PROVE k \in S
  <2> SUFFICES ASSUME k <= Len(p) PROVE Joined(p, k) = Joined(q, k)
    OBVIOUS
  <2>1. Joined(p, k - 1) = Joined(q, k - 1) /\ p[k].role = q[k].role /\ p[k].text = q[k].text
    BY <1>1, <1>3
  <2> QED BY <2>1, JoinUnfolds
<1> HIDE DEF S
<1>4. Len(p) \in S
  BY <1>1, <1>2, <1>3, Joining!Induction
<1>5. Joined(p, Len(p)) = Joined(q, Len(q))
  BY <1>1, <1>4 DEF S
<1> QED BY <1>5, JoinUnfolds

(* The dialogue has no system text. *)
LEMMA NoSystemText ==
  ASSUME NEW ms, Messages(ms), NoSystem(ms)
  PROVE  SystemText(ms) = <<>>
<1>1. Len(ms) \in Nat
  BY SeqFacts DEF Messages
<1> DEFINE S == {k \in Nat : k <= Len(ms) => Joined(ms, k) = <<>>}
<1>2. 0 \in S
  BY JoinUnfolds
<1>3. ASSUME NEW k \in Nat \ {0}, k - 1 \in S PROVE k \in S
  <2> SUFFICES ASSUME k <= Len(ms) PROVE Joined(ms, k) = <<>>
    OBVIOUS
  <2>1. Joined(ms, k - 1) = <<>> /\ ms[k].role # "system"
    BY <1>1, <1>3 DEF NoSystem
  <2> QED BY <2>1, JoinUnfolds
<1> HIDE DEF S
<1>4. Len(ms) \in S
  BY <1>1, <1>2, <1>3, Joining!Induction
<1>5. Joined(ms, Len(ms)) = <<>>
  BY <1>1, <1>4 DEF S
<1> QED BY <1>5, JoinUnfolds

(* The system text of two lists in a row. *)
LEMMA SystemTextConcat ==
  ASSUME NEW p, NEW q, Messages(p), Messages(q)
  PROVE  SystemText(p \o q) = SystemText(p) \o SystemText(q)
<1> DEFINE n == Len(p)
           r == p \o q
           P(k) == Joined(p, k)
           Q(k) == Joined(q, k)
           R(k) == Joined(r, k)
<1>1. /\ n \in Nat /\ Len(q) \in Nat /\ Len(r) = n + Len(q)
      /\ \A k \in 1..n : r[k] = p[k]
      /\ \A k \in 1..Len(q) : r[n + k] = q[k]
  BY SeqFacts, Concatenated DEF Messages
<1>2. /\ SystemText(r) = R(n + Len(q)) /\ SystemText(p) = P(n) /\ SystemText(q) = Q(Len(q))
  BY <1>1, JoinUnfolds
<1>3. /\ P(0) = <<>>
      /\ \A k \in Nat \ {0} :
            /\ p[k].role = "system" => P(k) = P(k - 1) \o p[k].text
            /\ p[k].role # "system" => P(k) = P(k - 1)
  BY JoinUnfolds
<1>4. /\ Q(0) = <<>>
      /\ \A k \in Nat \ {0} :
            /\ q[k].role = "system" => Q(k) = Q(k - 1) \o q[k].text
            /\ q[k].role # "system" => Q(k) = Q(k - 1)
  BY JoinUnfolds
<1>5. /\ R(0) = <<>>
      /\ \A k \in Nat \ {0} :
            /\ r[k].role = "system" => R(k) = R(k - 1) \o r[k].text
            /\ r[k].role # "system" => R(k) = R(k - 1)
  BY JoinUnfolds
<1>6. IsSeq(P(n)) /\ \A k \in 0..Len(q) : IsSeq(Q(k))
  BY <1>1, SystemTextSeq
<1>7. \A k \in 1..Len(q) : IsSeq(q[k].text)
  BY DEF Messages, IsMessage
<1> HIDE DEF n, r, P, Q, R
<1>8. R(n) = P(n)
  <2> DEFINE S == {k \in Nat : k <= n => R(k) = P(k)}
  <2>1. 0 \in S
    BY <1>3, <1>5
  <2>2. ASSUME NEW k \in Nat \ {0}, k - 1 \in S PROVE k \in S
    <3> SUFFICES ASSUME k <= n PROVE R(k) = P(k)
      OBVIOUS
    <3>1. k \in 1..n /\ R(k - 1) = P(k - 1) /\ r[k] = p[k]
      BY <1>1, <2>2
    <3> QED BY <3>1, <1>3, <1>5
  <2> HIDE DEF S
  <2>3. n \in S
    BY <1>1, <2>1, <2>2, Joining!Induction
  <2> QED BY <2>3, <1>1 DEF S
<1>9. R(n + Len(q)) = P(n) \o Q(Len(q))
  <2> DEFINE S == {k \in Nat : k <= Len(q) => R(n + k) = P(n) \o Q(k)}
  <2>1. 0 \in S
    <3>1. P(n) \o <<>> = P(n)
      BY <1>6, Empty, Zenon
    <3>2. n + 0 = n /\ Q(0) = <<>>
      BY <1>1, <1>4
    <3> QED BY <3>1, <3>2, <1>8
  <2>2. ASSUME NEW k \in Nat \ {0}, k - 1 \in S PROVE k \in S
    <3> SUFFICES ASSUME k <= Len(q) PROVE R(n + k) = P(n) \o Q(k)
      OBVIOUS
    <3>1. /\ k \in 1..Len(q) /\ k - 1 \in 0..Len(q) /\ R(n + (k - 1)) = P(n) \o Q(k - 1)
          /\ n + k \in Nat \ {0} /\ (n + k) - 1 = n + (k - 1)
      BY <1>1, <2>2
    <3>2. r[n + k] = q[k]
      BY <1>1, <3>1
    <3>3. R((n + k) - 1) = P(n) \o Q(k - 1)
      BY <3>1
    <3>4. CASE q[k].role # "system"
      BY <3>1, <3>2, <3>3, <3>4, <1>4, <1>5
    <3>5. CASE q[k].role = "system"
      <4> DEFINE e == q[k].text
                 u == Q(k - 1)
                 v == P(n)
      <4>1. Q(k) = u \o e
        BY <3>5, <1>4
      <4>2. R(n + k) = R((n + k) - 1) \o e
        BY <3>1, <3>2, <3>5, <1>5
      <4>3. IsSeq(v) /\ IsSeq(u) /\ IsSeq(e)
        BY <3>1, <1>6, <1>7
      <4>4. R((n + k) - 1) = v \o u
        BY <3>3
      <4>5. (v \o u) \o e = v \o (u \o e)
        <5> HIDE DEF P, Q, e, u, v
        <5>1. IsSeq(v) /\ IsSeq(u) /\ IsSeq(e)
          BY <4>3 DEF e, u, v
        <5> QED BY ONLY <5>1, ConcatAssoc
      <4> HIDE DEF e, u, v
      <4> QED BY <4>1, <4>2, <4>4, <4>5 DEF v
    <3> QED BY <3>4, <3>5
  <2> HIDE DEF S
  <2>3. Len(q) \in S
    BY <1>1, <2>1, <2>2, Joining!Induction
  <2> QED BY <2>3, <1>1 DEF S
<1>10. SystemText(r) = SystemText(p) \o SystemText(q)
  BY <1>2, <1>9
<1> QED BY <1>10 DEF r

(* A list put in order: one system message at most, before the dialogue.    *)
LEMMA CollapseFacts ==
  ASSUME NEW ms, Messages(ms)
  PROVE  LET c == CollapseSystemToHead(ms)
         IN  /\ Messages(c)
             /\ AllKept(ms) => AllKept(c)
             /\ Dialogue(c) = Dialogue(ms)
             /\ SystemText(c) = SystemText(ms)
<1> DEFINE text == SystemText(ms)
           said == Dialogue(ms)
           head == IF text = <<>> THEN <<>> ELSE <<System(text)>>
           c    == head \o said
<1>1. c = CollapseSystemToHead(ms)
  BY DEF CollapseSystemToHead
<1>2. IsSeq(text)
  <2>1. Len(ms) \in Nat
    BY SeqFacts DEF Messages
  <2>2. Len(ms) \in 0..Len(ms)
    BY <2>1
  <2>3. IsSeq(Joined(ms, Len(ms)))
    BY <2>2, SystemTextSeq
  <2> QED BY <2>3, JoinUnfolds
<1>3. Messages(said) /\ NoSystem(said) /\ (AllKept(ms) => AllKept(said)) /\ Dialogue(said) = said
  <2>1. Messages(said) /\ NoSystem(said) /\ (AllKept(ms) => AllKept(said))
    BY DialogueFacts
  <2> HIDE DEF said
  <2> QED BY <2>1, DialogueFacts
<1> HIDE DEF text, said
<1>4. Messages(head) /\ AllKept(head) /\ Dialogue(head) = <<>> /\ SystemText(head) = text
  <2>1. CASE text = <<>>
    <3>1. head = <<>>
      BY <2>1
    <3>2. Dialogue(<<>>) = <<>> /\ SystemText(<<>>) = <<>>
      BY NoMessages, DialogueFacts, NoSystemText
    <3> QED BY <2>1, <3>1, <3>2, NoMessages
  <2>2. CASE text # <<>>
    <3> DEFINE m == System(text)
    <3>1. /\ IsMessage(m) /\ m.role = "system" /\ m.text = text /\ Kept(m)
      BY <1>2, Empty DEF System, Message, IsMessage, Kept
    <3> HIDE DEF m
    <3>2. Messages(<<m>>) /\ AllKept(<<m>>) /\ IsSeq(<<m>>) /\ Len(<<m>>) = 1 /\ <<m>>[1] = m
      BY <3>1, OneMessage, Single
    <3>3. Dialogue(<<m>>) = <<>>
      <4> DEFINE at == {k \in DOMAIN <<m>> : <<m>>[k].role # "system"}
      <4>1. \A k \in 1..Len(<<m>>) : k \notin at
        BY <3>1, <3>2
      <4>2. Dialogue(<<m>>) = Pick(<<m>>, at)
        BY DEF Dialogue
      <4> HIDE DEF at
      <4> QED BY <3>2, <4>1, <4>2, PickNone
    <3>4. SystemText(<<m>>) = text
      <4> DEFINE one == <<m>>
      <4>1. Len(one) = 1 /\ one[1].role = "system" /\ one[1].text = text
        BY <3>1, <3>2
      <4> HIDE DEF one
      <4>2. SystemText(one) = Joined(one, 1) /\ Joined(one, 0) = <<>>
        BY <4>1, JoinUnfolds
      <4>3. Joined(one, 1) = Joined(one, 0) \o text
        <5>1. \A k \in Nat \ {0} :
                one[k].role = "system" => Joined(one, k) = Joined(one, k - 1) \o one[k].text
          BY JoinUnfolds
        <5>2. PICK k \in Nat \ {0} : k = 1 /\ k - 1 = 0
          OBVIOUS
        <5>3. Joined(one, k) = Joined(one, k - 1) \o one[k].text
          BY <4>1, <5>1, <5>2
        <5> QED BY <4>1, <5>2, <5>3
      <4>4. <<>> \o text = text
        BY <1>2, Empty
      <4> QED BY <4>2, <4>3, <4>4 DEF one
    <3>5. head = <<m>>
      BY <2>2 DEF m
    <3> QED BY <3>2, <3>3, <3>4, <3>5
  <2> QED BY <2>1, <2>2
<1> HIDE DEF head
<1>5. Messages(c) /\ (AllKept(ms) => AllKept(c))
  BY <1>3, <1>4, MessagesConcat
<1>6. Dialogue(c) = said
  <2>1. Dialogue(c) = Dialogue(head) \o Dialogue(said)
    BY <1>3, <1>4, DialogueFacts
  <2>2. <<>> \o said = said
    BY <1>3, Empty DEF Messages
  <2> QED BY <1>3, <1>4, <2>1, <2>2
<1>7. SystemText(c) = text
  <2>1. SystemText(c) = SystemText(head) \o SystemText(said)
    BY <1>3, <1>4, SystemTextConcat
  <2>2. SystemText(said) = <<>>
    BY <1>3, NoSystemText
  <2>3. text \o <<>> = text
    BY <1>2, Empty
  <2> QED BY <1>4, <2>1, <2>2, <2>3
<1> QED BY <1>1, <1>5, <1>6, <1>7 DEF text, said

-----------------------------------------------------------------------------
(* The reasoning cache *)

LEMMA ExtremesExist ==
  ASSUME NEW n \in Nat, NEW S, S \subseteq 1..n, S # {}
  PROVE  Max(S) \in S /\ Min(S) \in S
<1>1. \E x \in S : \A y \in S : x >= y
  <2> SUFFICES ASSUME \A x \in S : \E y \in S : ~(x >= y) PROVE FALSE
    OBVIOUS
  <2> DEFINE Bad == {n - x : x \in S}
  <2>1. Bad \subseteq Nat
    OBVIOUS
  <2>2. ASSUME NEW m \in Bad PROVE \E j \in Bad : j < m
    <3>1. PICK x \in S : m = n - x
      OBVIOUS
    <3>2. PICK y \in S : ~(x >= y)
      OBVIOUS
    <3>3. n - y < m /\ n - y \in Bad
      BY <3>1, <3>2
    <3> QED BY <3>3
  <2>3. Bad # {}
    OBVIOUS
  <2> HIDE DEF Bad
  <2> QED BY <2>1, <2>2, <2>3, Picking!NoDescent
<1>2. \E x \in S : \A y \in S : x =< y
  <2> SUFFICES ASSUME \A x \in S : \E y \in S : y < x PROVE FALSE
    OBVIOUS
  <2>1. S \subseteq Nat
    OBVIOUS
  <2> QED BY <2>1, Picking!NoDescent
<1> QED BY <1>1, <1>2 DEF Max, Min

(* A function on 1..n is a sequence. *)
LEMMA Listed ==
  ASSUME NEW n \in Nat, NEW q, q = [k \in 1..n |-> q[k]]
  PROVE  IsSeq(q) /\ Len(q) = n
<1>1. q \in [1..n -> {q[k] : k \in 1..n}]
  OBVIOUS
<1> DEFINE S == {q[k] : k \in 1..n}
<1>2. IsSeq(q)
  <2>1. q \in [1..n -> S]
    BY <1>1
  <2> HIDE DEF S
  <2>2. q \in Seq(S)
    BY <2>1, SeqDef
  <2> QED BY <2>2 DEF IsSeq
<1>3. DOMAIN q = 1..n
  BY <1>1
<1>4. DOMAIN q = 1..Len(q) /\ Len(q) \in Nat
  BY <1>2, SeqFacts
<1>5. Len(q) = n
  BY <1>3, <1>4
<1> QED BY <1>2, <1>5

(* Restoring changes reasoning and nothing else. *)
LEMMA RestoreFacts ==
  ASSUME NEW ms, Messages(ms)
  PROVE  LET r == RestoreReasoning(ms)
         IN  /\ Messages(r) /\ Len(r) = Len(ms)
             /\ \A k \in 1..Len(ms) :
                  /\ r[k].role = ms[k].role /\ r[k].text = ms[k].text
                  /\ r[k].calls = ms[k].calls /\ r[k].callId = ms[k].callId
             /\ AllKept(ms) => AllKept(r)
             /\ SystemText(r) = SystemText(ms)
<1> DEFINE n == Len(ms)
           hits(m) == {c \in DOMAIN m.calls : Explaining(ms, m.calls[c].id) # {}}
           why(m) == ms[Max(Explaining(ms, m.calls[Min(hits(m))].id))].reasoning
           new(m) == IF m.role = "assistant" /\ m.reasoning = <<>> /\ hits(m) # {}
                     THEN [m EXCEPT !.reasoning = why(m)] ELSE m
           r == [k \in DOMAIN ms |-> new(ms[k])]
<1>1. RestoreReasoning(ms) = r
  BY DEF RestoreReasoning
<1>2. n \in Nat /\ DOMAIN ms = 1..n /\ \A k \in 1..n : IsMessage(ms[k])
  BY SeqFacts DEF Messages
<1>3. \A id : Explaining(ms, id) # {} => Max(Explaining(ms, id)) \in 1..n
  <2> TAKE id
  <2>1. Explaining(ms, id) \subseteq 1..n
    BY <1>2 DEF Explaining
  <2> QED BY <1>2, <2>1, ExtremesExist
<1>4. ASSUME NEW m, IsMessage(m)
      PROVE  /\ IsMessage(new(m)) /\ new(m).role = m.role /\ new(m).text = m.text
             /\ new(m).calls = m.calls /\ new(m).callId = m.callId
  <2>1. CASE new(m) = m
    BY <1>4, <2>1
  <2>2. CASE hits(m) # {} /\ new(m) = [m EXCEPT !.reasoning = why(m)]
    <3>1. IsSeq(why(m))
      <4>1. Len(m.calls) \in Nat /\ DOMAIN m.calls = 1..Len(m.calls)
        BY <1>4, SeqFacts DEF IsMessage
      <4>2. hits(m) \subseteq 1..Len(m.calls)
        BY <4>1
      <4>3. Min(hits(m)) \in hits(m)
        BY <2>2, <4>1, <4>2, ExtremesExist
      <4>4. Explaining(ms, m.calls[Min(hits(m))].id) # {}
        BY <4>3
      <4>5. Max(Explaining(ms, m.calls[Min(hits(m))].id)) \in 1..n
        BY <1>3, <4>4
      <4> HIDE DEF hits, n
      <4> QED BY <1>2, <4>5 DEF IsMessage
    <3> HIDE DEF why, hits
    <3> QED BY <1>4, <2>2, <3>1 DEF IsMessage, Message
  <2> HIDE DEF why, hits
  <2> QED BY <2>1, <2>2
<1> HIDE DEF new
<1>5. IsSeq(r) /\ Len(r) = n /\ \A k \in 1..n : r[k] = new(ms[k])
  BY <1>2, Listed
<1> HIDE DEF r
<1>6. Messages(r)
  BY <1>2, <1>4, <1>5 DEF Messages
<1>7. \A k \in 1..n :
        /\ r[k].role = ms[k].role /\ r[k].text = ms[k].text
        /\ r[k].calls = ms[k].calls /\ r[k].callId = ms[k].callId
  BY <1>2, <1>4, <1>5
<1>8. AllKept(ms) => AllKept(r)
  BY <1>5, <1>7 DEF AllKept, Kept, HasSubstance
<1>9. SystemText(r) = SystemText(ms)
  BY <1>5, <1>6, <1>7, SameSystemText
<1> QED BY <1>1, <1>5, <1>6, <1>7, <1>8, <1>9

(* A list is a prefix of what it begins. *)
LEMMA PrefixConcat ==
  ASSUME NEW p, NEW q, IsSeq(p), IsSeq(q)
  PROVE  IsPrefix(p, p \o q)
<1>1. PICK S : p \in Seq(S)
  BY DEF IsSeq
<1>2. PICK T : q \in Seq(T)
  BY DEF IsSeq
<1> DEFINE V == S \cup T
           n == Len(p)
<1>3. p \in Seq(V) /\ q \in Seq(V) /\ n \in Nat /\ Len(q) \in Nat
  BY <1>1, <1>2, SeqMonotonic, LenProperties
<1> HIDE DEF V
<1>4. n <= Len(p \o q)
  BY <1>3, ConcatProperties
<1>5. SubSeq(p, 1, n) = SubSeq(p \o q, 1, n)
  <2>1. CASE n = 0
    BY <2>1, SubSeqEmpty
  <2>2. CASE n # 0
    <3>1. 1 \in 1..n /\ n \in 1..n
      BY <1>3, <2>2
    <3> QED BY <1>3, <3>1, SubSeqOfConcat1
  <2> QED BY <2>1, <2>2
<1> QED BY <1>4, <1>5 DEF IsPrefix

LEMMA PrefixItself ==
  ASSUME NEW p, IsSeq(p)
  PROVE  IsPrefix(p, p)
<1>1. p \o <<>> = p /\ IsSeq(<<>>)
  BY Empty
<1>2. IsPrefix(p, p \o <<>>)
  BY <1>1, PrefixConcat
<1> QED BY <1>1, <1>2

(* A message is itself with its own reasoning.                              *)
LEMMA OwnReasoning ==
  ASSUME NEW m, IsMessage(m)
  PROVE  [m EXCEPT !.reasoning = m.reasoning] = m /\ IsPrefix(m.reasoning, m.reasoning)
<1>1. IsPrefix(m.reasoning, m.reasoning)
  BY PrefixItself DEF IsMessage
<1> QED BY <1>1 DEF IsMessage, Message

-----------------------------------------------------------------------------
(* A list that goes on from an earlier one *)

(* h is the list b, but for reasoning put behind its last message's own.    *)
Rereasoned(h, b) ==
  /\ Messages(h) /\ Len(h) = Len(b)
  /\ \A k \in 1..Len(b) :
       \/ h[k] = b[k]
       \/ /\ k = Len(b) /\ b[k].role = "assistant"
          /\ \E r : IsSeq(r) /\ h[k] = [b[k] EXCEPT !.reasoning = b[k].reasoning \o r]

Continues(ms, b) == \E h, rest : Rereasoned(h, b) /\ Messages(rest) /\ ms = h \o rest

LEMMA ContinuesItself ==
  ASSUME NEW b, Messages(b)
  PROVE  Continues(b, b)
<1>1. Rereasoned(b, b)
  BY DEF Rereasoned
<1>2. b \o <<>> = b /\ Messages(<<>>)
  BY Empty, NoMessages DEF Messages
<1> QED BY <1>1, <1>2 DEF Continues

LEMMA ContinuesLonger ==
  ASSUME NEW ms, NEW b, NEW q, Continues(ms, b), Messages(q)
  PROVE  Continues(ms \o q, b)
<1>1. PICK h, rest : Rereasoned(h, b) /\ Messages(rest) /\ ms = h \o rest
  BY DEF Continues
<1>2. IsSeq(h) /\ IsSeq(rest) /\ IsSeq(q)
  BY <1>1 DEF Rereasoned, Messages
<1>3. (h \o rest) \o q = h \o (rest \o q)
  BY <1>2, ConcatAssoc
<1>4. Messages(rest \o q)
  BY <1>1, MessagesConcat
<1> QED BY <1>1, <1>3, <1>4 DEF Continues

LEMMA Reasoned ==
  ASSUME NEW m, NEW r, IsMessage(m), IsSeq(r)
  PROVE  LET n == [m EXCEPT !.reasoning = r]
         IN  /\ IsMessage(n) /\ n.reasoning = r /\ n.role = m.role /\ n.text = m.text
             /\ n.calls = m.calls /\ n.callId = m.callId
<1> QED BY DEF IsMessage, Message

(* What putting a piece back does to a list.                                *)
LEMMA BackfillFacts ==
  ASSUME NEW ms, NEW piece, Messages(ms), ms # <<>>
  PROVE  LET n == Len(ms)
             u == Backfill(ms, piece)
         IN  /\ n \in Nat \ {0} /\ Messages(u) /\ Len(u) = n
             /\ \A k \in 1..n : k # n => u[k] = ms[k]
             /\ u[n] = [ms[n] EXCEPT !.reasoning = ms[n].reasoning \o <<piece>>]
<1> DEFINE n == Len(ms)
           e == [ms[n] EXCEPT !.reasoning = Append(ms[n].reasoning, piece)]
           u == [ms EXCEPT ![n] = e]
<1>1. Backfill(ms, piece) = u
  BY DEF Backfill
<1>2. IsSeq(ms) /\ n \in Nat /\ DOMAIN ms = 1..n /\ ms = [k \in 1..n |-> ms[k]]
  <2>1. PICK S : ms \in Seq(S)
    BY DEF Messages, IsSeq
  <2> QED BY <2>1, LenProperties DEF IsSeq
<1>3. n # 0
  <2> SUFFICES ASSUME n = 0 PROVE FALSE
    OBVIOUS
  <2> QED BY <1>2, Empty, SameSeq
<1>4. IsMessage(ms[n])
  BY <1>2, <1>3 DEF Messages
<1>5. Append(ms[n].reasoning, piece) = ms[n].reasoning \o <<piece>> /\ IsSeq(Append(ms[n].reasoning, piece))
  BY <1>4, AppendAsConcat DEF IsMessage
<1>6. IsMessage(e) /\ e = [ms[n] EXCEPT !.reasoning = ms[n].reasoning \o <<piece>>]
  <2> DEFINE new == Append(ms[n].reasoning, piece)
  <2>1. IsSeq(new) /\ new = ms[n].reasoning \o <<piece>>
    BY <1>5
  <2> HIDE DEF new
  <2>2. IsMessage([ms[n] EXCEPT !.reasoning = new])
    BY <1>4, <2>1, Reasoned
  <2> QED BY <2>1, <2>2 DEF new
<1> HIDE DEF e
<1>7. u = [k \in 1..n |-> u[k]] /\ u[n] = e /\ \A k \in 1..n : k # n => u[k] = ms[k]
  <2>1. DOMAIN u = 1..n
    BY <1>2
  <2>2. u[n] = e
    BY <1>2, <1>3
  <2>3. \A k \in 1..n : k # n => u[k] = ms[k]
    BY <1>2
  <2>4. u = [k \in DOMAIN u |-> u[k]]
    OBVIOUS
  <2> QED BY <2>1, <2>2, <2>3, <2>4
<1> HIDE DEF u
<1>8. IsSeq(u) /\ Len(u) = n
  BY <1>2, <1>7, Listed
<1>9. Messages(u)
  BY <1>6, <1>7, <1>8 DEF Messages
<1> QED BY <1>1, <1>2, <1>3, <1>6, <1>7, <1>8, <1>9

LEMMA ContinuesBackfilled ==
  ASSUME NEW ms, NEW b, NEW piece, Messages(ms), Messages(b), Continues(ms, b), CanBackfill(ms)
  PROVE  Continues(Backfill(ms, piece), b)
<1> DEFINE u == Backfill(ms, piece)
<1>1. PICK h, rest : Rereasoned(h, b) /\ Messages(rest) /\ ms = h \o rest
  BY DEF Continues
<1>2. /\ IsSeq(h) /\ IsSeq(rest) /\ IsSeq(ms) /\ Len(h) \in Nat /\ Len(rest) \in Nat
      /\ Len(ms) = Len(h) + Len(rest) /\ Messages(h) /\ Len(b) \in Nat
      /\ \A k \in 1..Len(h) : ms[k] = h[k]
      /\ \A k \in 1..Len(rest) : ms[Len(h) + k] = rest[k]
  <2>1. IsSeq(h) /\ IsSeq(rest) /\ IsSeq(ms) /\ Messages(h) /\ IsSeq(b)
    BY <1>1 DEF Rereasoned, Messages
  <2>2. Len(h) \in Nat /\ Len(rest) \in Nat /\ Len(b) \in Nat
    BY <2>1, SeqFacts
  <2>3. Len(ms) = Len(h) + Len(rest) /\ \A k \in 1..Len(h) : ms[k] = h[k]
    BY <1>1, <2>1, Concatenated
  <2>4. \A k \in 1..Len(rest) : ms[Len(h) + k] = rest[k]
    BY <1>1, <2>1, Concatenated
  <2> QED BY <2>1, <2>2, <2>3, <2>4
<1>3. /\ Len(ms) \in Nat \ {0} /\ Messages(u) /\ Len(u) = Len(ms)
      /\ \A k \in 1..Len(ms) : k # Len(ms) => u[k] = ms[k]
      /\ u[Len(ms)] = [ms[Len(ms)] EXCEPT !.reasoning = ms[Len(ms)].reasoning \o <<piece>>]
  BY BackfillFacts DEF CanBackfill
<1>4. ms[Len(ms)].role = "assistant"
  BY DEF CanBackfill, Last
<1> HIDE DEF u
<1>5. CASE rest = <<>>
  <2>1. ms = h
    BY <1>1, <1>2, <1>5, Empty
  <2> DEFINE n == Len(h)
  <2>2. n = Len(b) /\ n \in 1..Len(b)
    BY <1>1, <1>3, <2>1 DEF Rereasoned
  <2>3. PICK r : /\ IsSeq(r) /\ b[n].role = "assistant"
                 /\ u[n] = [b[n] EXCEPT !.reasoning = b[n].reasoning \o r]
    <3> DEFINE one == <<piece>>
    <3>1. u[n] = [h[n] EXCEPT !.reasoning = h[n].reasoning \o one] /\ h[n].role = "assistant"
      BY <1>3, <1>4, <2>1
    <3>2. IsSeq(one) /\ IsMessage(b[n]) /\ IsSeq(b[n].reasoning)
      BY <2>2, Single DEF Messages, IsMessage
    <3> HIDE DEF one
    <3>3. CASE h[n] = b[n]
      BY <3>1, <3>2, <3>3
    <3>4. CASE h[n] # b[n]
      <4>1. PICK r : /\ b[n].role = "assistant" /\ IsSeq(r)
                     /\ h[n] = [b[n] EXCEPT !.reasoning = b[n].reasoning \o r]
        BY <1>1, <2>2, <3>4 DEF Rereasoned
      <4> DEFINE own == b[n].reasoning
      <4>2. h[n].reasoning = own \o r
        BY <3>2, <4>1 DEF IsMessage, Message
      <4>3. u[n] = [b[n] EXCEPT !.reasoning = (own \o r) \o one]
        BY <3>1, <4>1, <4>2
      <4>4. (own \o r) \o one = own \o (r \o one) /\ IsSeq(r \o one)
        <5>1. IsSeq(own)
          BY <3>2
        <5> HIDE DEF own
        <5> QED BY <3>2, <4>1, <5>1, ConcatAssoc, Concatenated
      <4> QED BY <4>1, <4>3, <4>4
    <3> QED BY <3>3, <3>4
  <2>4. ASSUME NEW k \in 1..Len(b)
        PROVE  \/ u[k] = b[k]
               \/ /\ k = Len(b) /\ b[k].role = "assistant"
                  /\ \E x : IsSeq(x) /\ u[k] = [b[k] EXCEPT !.reasoning = b[k].reasoning \o x]
    <3>1. CASE k = n
      BY <2>2, <2>3, <3>1
    <3>2. CASE k # n
      <4>1. u[k] = h[k]
        BY <1>3, <2>1, <2>2, <3>2
      <4> QED BY <1>1, <2>2, <3>2, <4>1 DEF Rereasoned
    <3> QED BY <3>1, <3>2
  <2>5. Rereasoned(u, b)
    BY <1>3, <2>1, <2>2, <2>4 DEF Rereasoned
  <2>6. u \o <<>> = u /\ Messages(<<>>)
    BY <1>3, Empty, NoMessages DEF Messages
  <2> QED BY <2>5, <2>6 DEF Continues, u
<1>6. CASE rest # <<>>
  <2> DEFINE v == Backfill(rest, piece)
             m == Len(rest)
  <2>1. /\ m \in Nat \ {0} /\ Messages(v) /\ Len(v) = m
        /\ \A k \in 1..m : k # m => v[k] = rest[k]
        /\ v[m] = [rest[m] EXCEPT !.reasoning = rest[m].reasoning \o <<piece>>]
    BY <1>1, <1>6, BackfillFacts
  <2> HIDE DEF v
  <2>2. Len(h \o v) = Len(ms) /\ IsSeq(h \o v)
    BY <1>2, <2>1, Concatenated DEF Messages
  <2>3. \A k \in 1..Len(h) : (h \o v)[k] = h[k]
    BY <1>2, <2>1, Concatenated DEF Messages
  <2>4. \A k \in 1..m : (h \o v)[Len(h) + k] = v[k]
    BY <1>2, <2>1, Concatenated DEF Messages
  <2>5. ASSUME NEW k \in 1..Len(ms) PROVE (h \o v)[k] = u[k]
    <3>1. CASE k \in 1..Len(h)
      BY <1>2, <1>3, <2>1, <2>3, <3>1
    <3>2. CASE k \notin 1..Len(h)
      <4>1. k - Len(h) \in 1..m /\ Len(h) + (k - Len(h)) = k
        BY <1>2, <2>1, <3>2
      <4>2. (h \o v)[k] = v[k - Len(h)] /\ ms[k] = rest[k - Len(h)]
        BY <1>2, <2>4, <4>1
      <4>3. k = Len(ms) <=> k - Len(h) = m
        BY <1>2, <2>1
      <4>4. CASE k = Len(ms)
        BY <1>3, <2>1, <4>2, <4>3, <4>4
      <4>5. CASE k # Len(ms)
        BY <1>3, <2>1, <4>1, <4>2, <4>3, <4>5
      <4> QED BY <4>4, <4>5
    <3> QED BY <3>1, <3>2
  <2>6. h \o v = u
    BY <1>3, <2>2, <2>5, SameSeq DEF Messages
  <2> QED BY <1>1, <2>1, <2>6 DEF Continues, u
<1> QED BY <1>5, <1>6

(* now is before and more, but for reasoning put behind the last message of *)
(* before.                                                                  *)
Extends(before, now) ==
  /\ Len(before) <= Len(now)
  /\ \A k \in 1..Len(before) :
       /\ [now[k] EXCEPT !.reasoning = before[k].reasoning] = before[k]
       /\ IsPrefix(before[k].reasoning, now[k].reasoning)
       /\ k < Len(before) => now[k] = before[k]

LEMMA ExtendsLonger ==
  ASSUME NEW p, NEW q, Messages(p), Messages(q)
  PROVE  Extends(p, p \o q)
<1> DEFINE r == p \o q
<1>1. Len(p) \in Nat /\ Len(q) \in Nat /\ IsSeq(p) /\ IsSeq(q)
  BY SeqFacts DEF Messages
<1>2. Len(r) = Len(p) + Len(q) /\ \A k \in 1..Len(p) : r[k] = p[k]
  BY <1>1, Concatenated
<1> HIDE DEF r
<1>4. \A k \in 1..Len(p) : IsMessage(p[k])
  BY DEF Messages
<1>5. Extends(p, r)
  BY <1>1, <1>2, <1>4, OwnReasoning DEF Extends
<1> QED BY <1>5 DEF r

LEMMA ExtendsReasoned ==
  ASSUME NEW d, NEW x, NEW r, NEW q, Messages(d), IsMessage(x), IsSeq(r), Messages(q)
  PROVE  Extends(d \o <<x>>,
                 (d \o <<[x EXCEPT !.reasoning = x.reasoning \o r]>>) \o q)
<1> DEFINE y      == [x EXCEPT !.reasoning = x.reasoning \o r]
           before == d \o <<x>>
           head   == d \o <<y>>
           now    == head \o q
           n      == Len(d) + 1
<1>1. Len(d) \in Nat /\ Len(q) \in Nat /\ IsSeq(d) /\ IsSeq(q)
  BY SeqFacts DEF Messages
<1>2. /\ [y EXCEPT !.reasoning = x.reasoning] = x
      /\ IsPrefix(x.reasoning, y.reasoning)
  <2>1. IsSeq(x.reasoning)
    BY DEF IsMessage
  <2>2. IsPrefix(x.reasoning, x.reasoning \o r) /\ IsSeq(x.reasoning \o r)
    BY <2>1, PrefixConcat, Concatenated
  <2> DEFINE new == x.reasoning \o r
  <2> HIDE DEF new
  <2>3. y = [x EXCEPT !.reasoning = new]
    BY DEF new
  <2>4. y.reasoning = new /\ [y EXCEPT !.reasoning = x.reasoning] = x
    BY <2>3 DEF IsMessage, Message
  <2> QED BY <2>2, <2>4 DEF new
<1> HIDE DEF y
<1>3. /\ Len(before) = n /\ before[n] = x /\ IsSeq(before)
      /\ \A k \in 1..Len(d) : before[k] = d[k]
  BY <1>1, Single, Concatenated
<1>4. /\ Len(head) = n /\ head[n] = y /\ IsSeq(head)
      /\ \A k \in 1..Len(d) : head[k] = d[k]
  BY <1>1, Single, Concatenated
<1> HIDE DEF before, head
<1>5. Len(now) = n + Len(q) /\ \A k \in 1..n : now[k] = head[k]
  BY <1>1, <1>4, Concatenated
<1> HIDE DEF now
<1>7. ASSUME NEW k \in 1..n
      PROVE  /\ [now[k] EXCEPT !.reasoning = before[k].reasoning] = before[k]
             /\ IsPrefix(before[k].reasoning, now[k].reasoning)
             /\ k < n => now[k] = before[k]
  <2>1. CASE k = n
    BY <1>1, <1>2, <1>3, <1>4, <1>5, <2>1
  <2>2. CASE k # n
    <3>1. k \in 1..Len(d)
      BY <1>1, <2>2
    <3>2. now[k] = d[k] /\ before[k] = d[k] /\ IsMessage(d[k])
      BY <1>3, <1>4, <1>5, <3>1 DEF Messages
    <3> QED BY <3>2, OwnReasoning
  <2> QED BY <2>1, <2>2
<1>8. Extends(before, now)
  BY <1>1, <1>3, <1>5, <1>7 DEF Extends
<1> QED BY <1>8 DEF before, now, head, y

(* The list put in order still goes on from the earlier one.                *)
LEMMA OrderedContinues ==
  ASSUME NEW b, NEW ms, Messages(b), AllKept(b), Messages(ms), Continues(ms, b)
  PROVE  LET c == CollapseSystemToHead(Sanitize(ms))
         IN  /\ Messages(c) /\ AllKept(c)
             /\ Extends(Dialogue(b), Dialogue(c))
             /\ IsPrefix(SystemText(b), SystemText(c))
<1> DEFINE s == Sanitize(ms)
           c == CollapseSystemToHead(s)
           n == Len(b)
<1>1. PICK h, rest : Rereasoned(h, b) /\ Messages(rest) /\ ms = h \o rest
  BY DEF Continues
<1> DEFINE more == Sanitize(rest)
<1>2. /\ Messages(h) /\ Len(h) = n /\ n \in Nat /\ IsSeq(h) /\ IsSeq(b)
      /\ \A k \in 1..n :
           \/ h[k] = b[k]
           \/ /\ k = n /\ b[k].role = "assistant"
              /\ \E r : IsSeq(r) /\ h[k] = [b[k] EXCEPT !.reasoning = b[k].reasoning \o r]
  BY <1>1, SeqFacts DEF Rereasoned, Messages
<1>3. ASSUME NEW k \in 1..n
      PROVE  /\ h[k].role = b[k].role /\ h[k].text = b[k].text
             /\ h[k].calls = b[k].calls /\ h[k].callId = b[k].callId
  <2>1. CASE h[k] = b[k]
    BY <2>1
  <2>2. CASE h[k] # b[k]
    <3>1. PICK r : IsSeq(r) /\ h[k] = [b[k] EXCEPT !.reasoning = b[k].reasoning \o r]
      BY <1>2, <2>2
    <3>2. IsMessage(b[k]) /\ IsSeq(b[k].reasoning \o r)
      BY <3>1, Concatenated DEF Messages, IsMessage
    <3> QED BY <3>1, <3>2, Reasoned
  <2> QED BY <2>1, <2>2
<1>4. AllKept(h)
  BY <1>2, <1>3 DEF AllKept, Kept, HasSubstance
<1>5. s = h \o more /\ Messages(more) /\ Messages(s) /\ AllKept(s)
  BY <1>1, <1>2, <1>4, SanitizeFacts
<1> HIDE DEF s, more
<1>6. /\ Messages(c) /\ AllKept(c)
      /\ Dialogue(c) = Dialogue(s) /\ SystemText(c) = SystemText(s)
  BY <1>5, CollapseFacts
<1> HIDE DEF c
<1>7. Dialogue(s) = Dialogue(h) \o Dialogue(more) /\ Messages(Dialogue(more))
  BY <1>2, <1>5, DialogueFacts
<1>8. Extends(Dialogue(b), Dialogue(s))
  <2>1. CASE h = b
    <3>1. Messages(Dialogue(b))
      BY DialogueFacts
    <3> QED BY <1>7, <2>1, <3>1, ExtendsLonger
  <2>2. CASE h # b
    <3>1. n # 0 /\ h[n] # b[n]
      BY <1>2, <2>2, SameSeq
    <3>2. PICK r : /\ b[n].role = "assistant" /\ IsSeq(r)
                   /\ h[n] = [b[n] EXCEPT !.reasoning = b[n].reasoning \o r]
      <4>1. n \in 1..n
        BY <1>2, <3>1
      <4> QED BY <1>2, <3>1, <4>1
    <3> DEFINE x == b[n]
               y == h[n]
    <3>3. /\ IsMessage(x) /\ IsMessage(y) /\ x.role # "system" /\ y.role # "system"
      BY <1>2, <1>3, <3>1, <3>2 DEF Messages
    <3>4. PICK f : Messages(f) /\ b = f \o <<x>> /\ h = f \o <<y>>
      <4>1. PICK S : b \in Seq(S)
        BY <1>2 DEF IsSeq
      <4>2. b # <<>>
        BY <1>2, <3>1, Empty
      <4>3. PICK f \in Seq(S), z \in S : b = Append(f, z)
        BY <4>1, <4>2, SequenceEmptyOrAppend
      <4>4. IsSeq(f)
        BY <4>3 DEF IsSeq
      <4>5. Len(f) \in Nat /\ n = Len(f) + 1
        BY <4>3, <4>4, AppendAsConcat, SeqFacts
      <4>6. b[n] = z /\ \A k \in 1..Len(f) : b[k] = f[k]
        BY <4>3, <4>4, <4>5, AppendAsConcat
      <4>7. b = f \o <<x>>
        BY <4>3, <4>4, <4>6, AppendAsConcat
      <4>8. Messages(f)
        BY <4>4, <4>5, <4>6 DEF Messages
      <4>9. h = f \o <<y>>
        <5> DEFINE u == f \o <<y>>
        <5>1. Len(u) = n /\ IsSeq(u) /\ u[n] = y
          BY <4>4, <4>5, Single, Concatenated
        <5>2. \A k \in 1..Len(f) : u[k] = f[k]
          BY <4>4, Single, Concatenated
        <5> HIDE DEF u
        <5>3. \A k \in 1..n : h[k] = u[k]
          BY <1>2, <4>5, <4>6, <5>1, <5>2
        <5>4. h = u
          BY <1>2, <5>1, <5>3, SameSeq
        <5> QED BY <5>4 DEF u
      <4> QED BY <4>7, <4>8, <4>9
    <3>5. y = [x EXCEPT !.reasoning = x.reasoning \o r]
      BY <3>2
    <3> HIDE DEF x, y
    <3>6. /\ Messages(<<x>>) /\ NoSystem(<<x>>) /\ Messages(<<y>>) /\ NoSystem(<<y>>)
      BY <3>3, OneMessage
    <3>7. /\ Dialogue(b) = Dialogue(f) \o <<x>> /\ Dialogue(h) = Dialogue(f) \o <<y>>
          /\ Messages(Dialogue(f))
      <4>1. Dialogue(<<x>>) = <<x>> /\ Dialogue(<<y>>) = <<y>>
        BY <3>6, DialogueFacts
      <4>2. Dialogue(f \o <<x>>) = Dialogue(f) \o Dialogue(<<x>>)
        BY <3>4, <3>6, DialogueFacts
      <4>3. Dialogue(f \o <<y>>) = Dialogue(f) \o Dialogue(<<y>>)
        BY <3>4, <3>6, DialogueFacts
      <4> QED BY <3>4, <4>1, <4>2, <4>3, DialogueFacts
    <3> DEFINE d == Dialogue(f)
               q == Dialogue(more)
    <3>8. Messages(d) /\ Messages(q)
      BY <1>7, <3>7
    <3> HIDE DEF d, q
    <3>9. Extends(d \o <<x>>, (d \o <<y>>) \o q)
      BY <3>2, <3>3, <3>5, <3>8, ExtendsReasoned
    <3> QED BY <1>7, <3>7, <3>9 DEF d, q
  <2> QED BY <2>1, <2>2
<1>9. IsPrefix(SystemText(b), SystemText(s))
  <2>1. SystemText(h) = SystemText(b)
    BY <1>2, <1>3, SameSystemText
  <2>2. SystemText(s) = SystemText(h) \o SystemText(more)
    BY <1>2, <1>5, SystemTextConcat
  <2>3. ASSUME NEW l, Messages(l) PROVE IsSeq(SystemText(l))
    <3>1. Len(l) \in 0..Len(l)
      BY <2>3, SeqFacts DEF Messages
    <3>2. IsSeq(Joined(l, Len(l)))
      BY <2>3, <3>1, SystemTextSeq
    <3> QED BY <3>2, JoinUnfolds
  <2>4. IsSeq(SystemText(h)) /\ IsSeq(SystemText(more))
    BY <1>2, <1>5, <2>3
  <2> QED BY <2>1, <2>2, <2>4, PrefixConcat
<1> QED BY <1>6, <1>8, <1>9 DEF s, c

-----------------------------------------------------------------------------
(* The conversation *)

PendingOK(p) ==
  /\ p = [calls |-> p.calls, reasoning |-> p.reasoning]
  /\ IsSeq(p.calls) /\ IsSeq(p.reasoning)

LEMMA NothingOK == PendingOK(Nothing)
<1> QED BY Empty DEF PendingOK, Nothing

(* Flushing puts at most one message behind. *)
LEMMA Flushed ==
  ASSUME NEW ms, NEW p, Messages(ms), PendingOK(p)
  PROVE  \E f : Messages(f) /\ FlushPending(ms, p) = ms \o f
<1>1. CASE p = Nothing
  <2>1. ms \o <<>> = ms
    BY Empty DEF Messages
  <2> QED BY <1>1, <2>1, NoMessages DEF FlushPending
<1>2. CASE p # Nothing
  <2> DEFINE m == Message("assistant", <<>>, p.calls, NoId, p.reasoning)
  <2>1. IsMessage(m)
    BY Empty DEF PendingOK, IsMessage, Message
  <2>2. FlushPending(ms, p) = Append(ms, m)
    BY <1>2 DEF FlushPending
  <2> HIDE DEF m
  <2>3. Append(ms, m) = ms \o <<m>>
    BY AppendAsConcat DEF Messages
  <2> QED BY <2>1, <2>2, <2>3, OneMessage
<1> QED BY <1>1, <1>2

LEMMA PieceSeq == \A flag : IsSeq(Piece(flag))
<1> QED BY Empty, Single DEF Piece

LEMMA BuiltMessage ==
  ASSUME NEW item \in ItemSet
  PROVE  IsMessage(BuildMessage(item)) /\ IsMessage(User(Piece(item.text)))
<1> DEFINE calls == [c \in DOMAIN item.calls |-> [id |-> item.calls[c], by |-> Here]]
           role  == IF item.role = "invalid" THEN "user" ELSE item.role
           own   == IF role = "assistant" THEN calls ELSE <<>>
<1>1. IsSeq(calls)
  <2>1. item.calls \in Seq(Ids)
    BY DEF ItemSet
  <2>2. DOMAIN item.calls = 1..Len(item.calls) /\ Len(item.calls) \in Nat
    BY <2>1, LenProperties
  <2>3. calls = [c \in 1..Len(item.calls) |-> calls[c]]
    BY <2>2
  <2> HIDE DEF calls
  <2> QED BY <2>2, <2>3, Listed
<1>2. IsSeq(own)
  BY <1>1, Empty
<1>3. BuildMessage(item) = Message(role, Piece(item.text), own, item.id, Piece(item.reasoning))
  BY DEF BuildMessage, ChatMessageContent
<1> HIDE DEF own, role
<1>4. IsSeq(Piece(item.text)) /\ IsSeq(Piece(item.reasoning)) /\ IsSeq(<<>>)
  BY PieceSeq, Empty
<1> DEFINE t == Piece(item.text)
           w == Piece(item.reasoning)
<1>5. IsSeq(t) /\ IsSeq(w)
  BY <1>4
<1> HIDE DEF t, w
<1>6. IsMessage(Message(role, t, own, item.id, w)) /\ IsMessage(User(t))
  BY <1>2, <1>4, <1>5 DEF IsMessage, Message, User
<1> QED BY <1>3, <1>6 DEF t, w

(* The history holds nothing that is dropped on the way, and the list under *)
(* construction goes on from it until it is put in order.                   *)
HistoryInv ==
  /\ Messages(stored) /\ AllKept(stored)
  /\ PendingOK(pending)
  /\ phase = "converting" => Messages(messages) /\ Continues(messages, RestoreReasoning(stored))
  /\ phase = "sent" => Messages(messages) /\ AllKept(messages)
  /\ HistoryStands

(* What taking an item makes of the list and of what is pending.            *)
LEMMA TakenItem ==
  ASSUME ItemsAssumption, HistoryInv, phase = "converting", NEW item \in Items,
         \/ TakeReasoning(item) \/ TakeText(item) \/ TakeMedia(item) \/ TakeCall(item)
         \/ TakeOutput(item) \/ TakeMessage(item) \/ TakeUnknown(item)
  PROVE  /\ PendingOK(pending')
         /\ \/ messages' = messages
            \/ CanBackfill(messages) /\ messages' = Backfill(messages, Here)
            \/ \E q : Messages(q) /\ messages' = FlushPending(messages, pending) \o q
<1>1. item \in ItemSet
  BY DEF ItemsAssumption
<1>2. PendingOK(pending) /\ PendingOK(Nothing) /\ IsSeq(pending.calls) /\ IsSeq(pending.reasoning)
  BY NothingOK DEF HistoryInv, PendingOK
<1>3. IsMessage(BuildMessage(item)) /\ IsMessage(User(Piece(item.text))) /\ IsMessage(User(<<Here>>))
  <2>1. IsSeq(<<Here>>) /\ IsSeq(<<>>)
    BY Single, Empty
  <2> DEFINE h == <<Here>>
  <2>2. IsSeq(h)
    BY <2>1
  <2> HIDE DEF h
  <2>3. IsMessage(User(h))
    BY <2>1, <2>2 DEF IsMessage, Message, User
  <2> QED BY <1>1, <2>3, BuiltMessage DEF h
<1>4. CASE TakeReasoning(item)
  <2> DEFINE r == Append(pending.reasoning, Here)
  <2>1. IsSeq(r)
    BY <1>2, AppendAsConcat
  <2>2. \/ messages' = messages /\ pending' = pending
        \/ CanBackfill(messages) /\ messages' = Backfill(messages, Here) /\ pending' = pending
        \/ messages' = messages /\ pending' = [pending EXCEPT !.reasoning = r]
    BY <1>4 DEF TakeReasoning
  <2> HIDE DEF r
  <2>3. PendingOK([pending EXCEPT !.reasoning = r])
    BY <1>2, <2>1 DEF PendingOK
  <2> QED BY <1>2, <2>2, <2>3
<1>5. CASE TakeText(item)
  BY <1>2, <1>3, <1>5, OneMessage DEF TakeText, FlushThen
<1>6. CASE TakeMedia(item)
  BY <1>2, <1>3, <1>6, OneMessage, NoMessages DEF TakeMedia, FlushThen
<1>7. CASE TakeCall(item)
  <2> DEFINE c == Append(pending.calls, [id |-> CallId(item), by |-> Here])
             r == pending.reasoning \o Piece(item.reasoning)
  <2>1. IsSeq(c) /\ IsSeq(r)
    BY <1>2, AppendAsConcat, Concatenated, PieceSeq
  <2>2. messages' = messages /\ (pending' = pending \/ pending' = [calls |-> c, reasoning |-> r])
    BY <1>7 DEF TakeCall
  <2> HIDE DEF c, r
  <2> QED BY <1>2, <2>1, <2>2 DEF PendingOK
<1>8. CASE TakeOutput(item)
  <2> DEFINE m == Message("tool", Piece(item.text), <<>>, CallId(item), <<>>)
  <2>1. IsMessage(m)
    <3> DEFINE t == Piece(item.text)
    <3>1. IsSeq(t) /\ IsSeq(<<>>)
      BY PieceSeq, Empty
    <3> HIDE DEF t
    <3>2. IsMessage(Message("tool", t, <<>>, CallId(item), <<>>))
      BY <3>1 DEF IsMessage, Message
    <3> QED BY <3>2 DEF t
  <2>2. \/ messages' = messages /\ pending' = pending
        \/ FlushThen(<<m>>)
        \/ FlushThen(<<User(<<Here>>)>>)
    BY <1>8 DEF TakeOutput
  <2> HIDE DEF m
  <2> QED BY <1>2, <1>3, <2>1, <2>2, OneMessage DEF FlushThen
<1>9. CASE TakeMessage(item)
  BY <1>2, <1>3, <1>9, OneMessage DEF TakeMessage, FlushThen
<1>10. CASE TakeUnknown(item)
  BY <1>2, <1>10, NoMessages DEF TakeUnknown, FlushThen
<1> QED BY <1>4, <1>5, <1>6, <1>7, <1>8, <1>9, <1>10

LEMMA HistoryInitially == Init => HistoryInv
<1> SUFFICES ASSUME Init PROVE HistoryInv
  OBVIOUS
<1>1. stored = <<>> /\ pending = Nothing /\ phase = "idle"
  BY DEF Init
<1> QED BY <1>1, NoMessages, NothingOK DEF HistoryInv, HistoryStands, Sent

LEMMA HistoryTaken ==
  ASSUME ItemsAssumption, HistoryInv, NEW item \in Items,
         \/ TakeReasoning(item) \/ TakeText(item) \/ TakeMedia(item) \/ TakeCall(item)
         \/ TakeOutput(item) \/ TakeMessage(item) \/ TakeUnknown(item)
  PROVE  HistoryInv'
<1>1. phase = "converting" /\ phase' = phase /\ stored' = stored
  BY DEF TakeReasoning, TakeText, TakeMedia, TakeCall, TakeOutput, TakeMessage, TakeUnknown, Take
<1> DEFINE b == RestoreReasoning(stored)
<1>2. Messages(messages) /\ Continues(messages, b) /\ PendingOK(pending) /\ Messages(b)
  BY <1>1, RestoreFacts DEF HistoryInv
<1>3. /\ PendingOK(pending')
      /\ \/ messages' = messages
         \/ CanBackfill(messages) /\ messages' = Backfill(messages, Here)
         \/ \E q : Messages(q) /\ messages' = FlushPending(messages, pending) \o q
  BY <1>1, TakenItem
<1>4. b' = b
  BY <1>1
<1>5. Messages(messages') /\ Continues(messages', b)
  <2> HIDE DEF b
  <2>1. CASE messages' = messages
    BY <1>2, <2>1
  <2>2. CASE CanBackfill(messages) /\ messages' = Backfill(messages, Here)
    <3>1. Messages(Backfill(messages, Here))
      BY <1>2, <2>2, BackfillFacts DEF CanBackfill
    <3> QED BY <1>2, <2>2, <3>1, ContinuesBackfilled
  <2>3. CASE \E q : Messages(q) /\ messages' = FlushPending(messages, pending) \o q
    <3>1. PICK q : Messages(q) /\ messages' = FlushPending(messages, pending) \o q
      BY <2>3
    <3>2. PICK f : Messages(f) /\ FlushPending(messages, pending) = messages \o f
      BY <1>2, Flushed
    <3>3. Messages(messages \o f) /\ Continues(messages \o f, b)
      BY <1>2, <3>2, MessagesConcat, ContinuesLonger
    <3>4. Messages((messages \o f) \o q) /\ Continues((messages \o f) \o q, b)
      BY <3>1, <3>3, MessagesConcat, ContinuesLonger
    <3> QED BY <3>1, <3>2, <3>4
  <2> QED BY <1>3, <2>1, <2>2, <2>3
<1>6. HistoryStands'
  BY <1>1 DEF HistoryStands, Sent
<1>7. (Messages(stored) /\ AllKept(stored))'
  BY <1>1 DEF HistoryInv
<1>8. phase' = "converting" /\ phase' # "sent"
  BY <1>1
<1> QED BY <1>3, <1>4, <1>5, <1>6, <1>7, <1>8 DEF HistoryInv, b

LEMMA HistoryBegun ==
  ASSUME HistoryInv, NEW instructed \in BOOLEAN, Begin(instructed)
  PROVE  HistoryInv'
<1> DEFINE b  == RestoreReasoning(stored)
           at == <<turn + 1, 0>>
           q  == IF instructed THEN <<System(<<at>>)>> ELSE <<>>
<1>1. /\ phase' = "converting" /\ stored' = stored /\ pending' = pending
      /\ messages' = b \o q
  BY DEF Begin
<1>2. Messages(stored) /\ AllKept(stored) /\ PendingOK(pending)
  BY DEF HistoryInv
<1>3. Messages(b) /\ b' = b
  BY <1>1, <1>2, RestoreFacts
<1>4. Messages(q)
  <2> DEFINE h == <<at>>
  <2>1. IsSeq(h) /\ IsSeq(<<>>)
    BY Single, Empty
  <2> HIDE DEF h
  <2>2. IsMessage(System(h))
    BY <2>1 DEF IsMessage, Message, System
  <2> QED BY <2>2, OneMessage, NoMessages DEF h
<1> HIDE DEF b, q
<1>5. Messages(messages') /\ Continues(messages', b)
  BY <1>1, <1>3, <1>4, MessagesConcat, ContinuesItself, ContinuesLonger
<1>6. HistoryStands'
  BY <1>1 DEF HistoryStands, Sent
<1> QED BY <1>1, <1>2, <1>3, <1>5, <1>6 DEF HistoryInv, b

LEMMA HistorySent ==
  ASSUME HistoryInv, Send
  PROVE  HistoryInv'
<1> DEFINE b  == RestoreReasoning(stored)
           ms == FlushPending(messages, pending)
<1>1. /\ phase = "converting" /\ phase' = "sent" /\ stored' = stored /\ pending' = Nothing
      /\ messages' = CollapseSystemToHead(Sanitize(ms))
  BY DEF Send
<1>2. /\ Messages(stored) /\ AllKept(stored) /\ PendingOK(pending)
      /\ Messages(messages) /\ Continues(messages, b)
  BY <1>1 DEF HistoryInv
<1>3. Messages(b) /\ AllKept(b) /\ SystemText(b) = SystemText(stored) /\ b' = b
  BY <1>1, <1>2, RestoreFacts
<1>4. Messages(ms) /\ Continues(ms, b)
  <2> HIDE DEF b
  <2>1. PICK f : Messages(f) /\ ms = messages \o f
    BY <1>2, Flushed
  <2> HIDE DEF ms
  <2> QED BY <1>2, <2>1, MessagesConcat, ContinuesLonger
<1> HIDE DEF b, ms
<1>5. /\ Messages(messages') /\ AllKept(messages')
      /\ Extends(Dialogue(b), Dialogue(messages'))
      /\ IsPrefix(SystemText(b), SystemText(messages'))
  BY <1>1, <1>3, <1>4, OrderedContinues
<1>6. HistoryStands'
  <2>1. Dialogue(RestoreReasoning(stored))' = Dialogue(b)
    BY <1>1 DEF b
  <2>2. Len(Dialogue(b)) \in Nat
    BY <1>3, DialogueFacts, SeqFacts DEF Messages
  <2> QED BY <1>1, <1>3, <1>5, <2>1 DEF HistoryStands, Extends
<1>7. PendingOK(pending')
  BY <1>1, NothingOK
<1> QED BY <1>1, <1>2, <1>5, <1>6, <1>7 DEF HistoryInv

LEMMA HistoryAnswered ==
  ASSUME ItemsAssumption, HistoryInv, NEW answer \in Answers, Answer(answer)
  PROVE  HistoryInv'
<1> DEFINE q == IF answer.type = "message" THEN <<BuildMessage(answer)>> ELSE <<>>
<1>1. phase = "sent" /\ phase' = "idle" /\ pending' = pending /\ stored' = messages \o q
  BY DEF Answer
<1>2. Messages(messages) /\ AllKept(messages) /\ PendingOK(pending)
  BY <1>1 DEF HistoryInv
<1>3. Messages(q) /\ AllKept(q)
  <2>1. CASE answer.type = "message"
    <3>1. answer \in ItemSet /\ answer.role = "assistant"
      BY <2>1 DEF ItemsAssumption
    <3>2. IsMessage(BuildMessage(answer)) /\ Kept(BuildMessage(answer))
      BY <3>1, BuiltMessage DEF BuildMessage, Message, Kept
    <3> QED BY <2>1, <3>2, OneMessage
  <2>2. CASE answer.type # "message"
    BY <2>2, NoMessages
  <2> QED BY <2>1, <2>2
<1> HIDE DEF q
<1>4. Messages(stored') /\ AllKept(stored')
  BY <1>1, <1>2, <1>3, MessagesConcat
<1>5. HistoryStands'
  BY <1>1 DEF HistoryStands, Sent
<1> QED BY <1>1, <1>2, <1>4, <1>5 DEF HistoryInv

(* What an earlier turn left stands in every later request as it was, but   *)
(* for reasoning put behind the last message's own, and the system text     *)
(* only grows: for any items and answers and conversations of any length    *)
(* (HistoryStands; sanitize_messages, collapse_system_messages_to_head).    *)
THEOREM HistoryKept == Spec => []HistoryStands
<1>1. Init => HistoryInv
  BY HistoryInitially
<1>2. HistoryInv /\ [Next]_vars => HistoryInv'
  <2> SUFFICES ASSUME HistoryInv, [Next]_vars PROVE HistoryInv'
    OBVIOUS
  <2>1. ASSUME NEW instructed \in BOOLEAN, Begin(instructed) PROVE HistoryInv'
    BY <2>1, HistoryBegun
  <2>2. ASSUME NEW item \in Items,
               \/ TakeReasoning(item) \/ TakeText(item) \/ TakeMedia(item) \/ TakeCall(item)
               \/ TakeOutput(item) \/ TakeMessage(item) \/ TakeUnknown(item)
        PROVE  HistoryInv'
    BY <2>2, ItemsAssumption, HistoryTaken
  <2>3. CASE Send
    BY <2>3, HistorySent
  <2>4. ASSUME NEW answer \in Answers, Answer(answer) PROVE HistoryInv'
    BY <2>4, ItemsAssumption, HistoryAnswered
  <2>5. CASE UNCHANGED vars
    BY <2>5 DEF HistoryInv, HistoryStands, Sent, vars, Continues
  <2> QED BY <2>1, <2>2, <2>3, <2>4, <2>5 DEF Next
<1>3. HistoryInv => HistoryStands
  BY DEF HistoryInv
<1> QED BY <1>1, <1>2, <1>3, PTL DEF Spec

-----------------------------------------------------------------------------
(* Calls and their outputs *)

(* An item with an id of its own. *)
OfCall(t) == t.item.type = "call" /\ t.item.id # NoId

OfOutput(t) == t.item.type = "output" /\ t.item.id # NoId

Placed(at, T) == \E t \in T : t.at = at

(* The message brings output t. *)
Brings(m, t) == m.role = "tool" /\ m.text = <<t.at>>

(* Message k, which brings t, stands behind its call, and what stands before *)
(* it under the same id is of the same turn.                                 *)
Paired(ms, k, t) ==
  /\ ms[k].callId # NoId
  /\ \E j \in 1..(k - 1) : ms[j].role = "assistant" /\ ms[k].callId \in CallIds(ms[j])
  /\ \A j \in 1..(k - 1) : ms[j].callId = ms[k].callId =>
       \A p \in ToSet(ms[j].text) : p[1] = t.at[1]

(* The outputs in a list of messages, of the items told so far. *)
OutputsPair(ms, T) ==
  /\ \A k \in 1..Len(ms) : ms[k].role = "tool" => \A p \in ToSet(ms[k].text) : Placed(p, T)
  /\ \A t \in T : \A k \in 1..Len(ms) : OfOutput(t) /\ Brings(ms[k], t) => Paired(ms, k, t)

(* What a message answers is of this turn, or known from the history. *)
Recent(ms, n, ids) ==
  \A k \in 1..Len(ms) :
    ms[k].callId = NoId \/ ms[k].callId \in ids \/ \A p \in ToSet(ms[k].text) : p[1] = n

(* The calls S: none was there in an earlier turn when it was sent. *)
CallsFirst(S, T) ==
  /\ \A d \in S : Placed(d.by, T)
  /\ \A t \in T : \A d, c \in S : OfCall(t) /\ d.by = t.at /\ c.id = t.item.id => c.by[1] >= t.at[1]

CallsRecent(S, n, ids) == \A d \in S : d.by[1] = n \/ d.id = NoId \/ d.id \in ids

(* The calls of the list, and those that are pending. *)
CallsHeld == CallsIn(messages) \cup ToSet(pending.calls)

(* The items told have places up to the last one taken. *)
PlacesPast ==
  /\ turn \in Nat /\ count \in Nat
  /\ \A t \in told :
       /\ t.at \in Nat \X Nat /\ t.at[1] <= turn
       /\ t.at[1] = turn => t.at[2] <= count + (IF phase = "idle" THEN 1 ELSE 0)

(* The inductive invariant: in the history and in the list under construction *)
(* every output stands behind its call, and whatever id of an earlier turn    *)
(* they hold is one the conversion skips.                                     *)
PairInv ==
  /\ HistoryInv
  /\ PlacesPast
  /\ OutputsPair(stored, told) /\ CallsFirst(CallsIn(stored), told)
  /\ phase # "converting" => pending = Nothing
  /\ phase # "idle" => OutputsPair(messages, told) /\ CallsFirst(CallsHeld, told)
  /\ phase = "converting" => Recent(messages, turn, skip) /\ CallsRecent(CallsHeld, turn, skip)

LEMMA SetOfSeq ==
  ASSUME NEW q, IsSeq(q)
  PROVE  \A e : e \in ToSet(q) <=> \E k \in 1..Len(q) : e = q[k]
<1> QED BY SeqFacts DEF ToSet

LEMMA CallsInFacts ==
  ASSUME NEW ms, Messages(ms)
  PROVE  \A d : d \in CallsIn(ms) <=> \E k \in 1..Len(ms) : d \in ToSet(ms[k].calls)
<1>1. DOMAIN ms = 1..Len(ms)
  BY SeqFacts DEF Messages
<1> QED BY <1>1 DEF CallsIn

(* The calls of two lists in a row. *)
LEMMA CallsInConcat ==
  ASSUME NEW p, NEW q, Messages(p), Messages(q)
  PROVE  CallsIn(p \o q) = CallsIn(p) \cup CallsIn(q)
<1> DEFINE r == p \o q
           n == Len(p)
<1>1. /\ Messages(r) /\ Len(r) = n + Len(q) /\ n \in Nat /\ Len(q) \in Nat
      /\ \A k \in 1..n : r[k] = p[k]
      /\ \A k \in 1..Len(q) : r[n + k] = q[k]
  BY Concatenated, MessagesConcat, SeqFacts DEF Messages
<1> HIDE DEF r, n
<1>2. \A d : d \in CallsIn(r) <=> \E k \in 1..Len(r) : d \in ToSet(r[k].calls)
  BY <1>1, CallsInFacts
<1>3. \A d : d \in CallsIn(p) <=> \E k \in 1..n : d \in ToSet(p[k].calls)
  BY CallsInFacts DEF n
<1>4. \A d : d \in CallsIn(q) <=> \E k \in 1..Len(q) : d \in ToSet(q[k].calls)
  BY CallsInFacts
<1>5. ASSUME NEW d, d \in CallsIn(r) PROVE d \in CallsIn(p) \/ d \in CallsIn(q)
  <2>1. PICK k \in 1..Len(r) : d \in ToSet(r[k].calls)
    BY <1>2, <1>5
  <2>2. CASE k <= n
    <3>1. k \in 1..n
      BY <1>1, <2>2
    <3> QED BY <1>1, <1>3, <2>1, <3>1
  <2>3. CASE ~(k <= n)
    <3>1. k - n \in 1..Len(q) /\ n + (k - n) = k
      BY <1>1, <2>3
    <3> QED BY <1>1, <1>4, <2>1, <3>1
  <2> QED BY <2>2, <2>3
<1>6. ASSUME NEW d, d \in CallsIn(p) PROVE d \in CallsIn(r)
  <2>1. PICK k \in 1..n : d \in ToSet(p[k].calls)
    BY <1>3, <1>6
  <2>2. k \in 1..Len(r) /\ r[k] = p[k]
    BY <1>1
  <2> QED BY <1>2, <2>1, <2>2
<1>7. ASSUME NEW d, d \in CallsIn(q) PROVE d \in CallsIn(r)
  <2>1. PICK k \in 1..Len(q) : d \in ToSet(q[k].calls)
    BY <1>4, <1>7
  <2>2. n + k \in 1..Len(r) /\ r[n + k] = q[k]
    BY <1>1
  <2> QED BY <1>2, <2>1, <2>2
<1>8. CallsIn(r) = CallsIn(p) \cup CallsIn(q)
  BY <1>5, <1>6, <1>7
<1> QED BY <1>8 DEF r

LEMMA CallsInOne ==
  ASSUME NEW m, IsMessage(m)
  PROVE  CallsIn(<<m>>) = ToSet(m.calls)
<1> DEFINE q == <<m>>
<1>1. Messages(q) /\ Len(q) = 1 /\ q[1] = m
  BY OneMessage, Single
<1> HIDE DEF q
<1>2. \A d : d \in CallsIn(q) <=> \E k \in 1..Len(q) : d \in ToSet(q[k].calls)
  BY <1>1, CallsInFacts
<1>3. \A d : d \in CallsIn(q) <=> d \in ToSet(m.calls)
  BY <1>1, <1>2
<1>4. CallsIn(q) = ToSet(m.calls)
  BY <1>3
<1> QED BY <1>4 DEF q

LEMMA CallsInNone == CallsIn(<<>>) = {}
<1>1. Messages(<<>>) /\ Len(<<>>) = 0
  BY NoMessages, Empty
<1> QED BY <1>1, CallsInFacts

(* Messages that differ in reasoning at most. *)
Alike(m, o) ==
  m.role = o.role /\ m.text = o.text /\ m.calls = o.calls /\ m.callId = o.callId

(* A list without some of its messages, but with the assistant's. *)
Thins(u, ms) ==
  \E f \in [1..Len(u) -> 1..Len(ms)] :
    /\ \A i \in 1..Len(u) : Alike(u[i], ms[f[i]])
    /\ \A i, j \in 1..Len(u) : i < j => f[i] < f[j]
    /\ \A p \in 1..Len(ms) : ms[p].role = "assistant" => \E i \in 1..Len(u) : f[i] = p

LEMMA AlikeThins ==
  ASSUME NEW u, NEW ms, Len(u) = Len(ms), Len(ms) \in Nat,
         \A k \in 1..Len(ms) : Alike(u[k], ms[k])
  PROVE  Thins(u, ms)
<1> DEFINE f == [i \in 1..Len(u) |-> i]
<1>1. \A i \in 1..Len(u) : f[i] = i
  OBVIOUS
<1>2. f \in [1..Len(u) -> 1..Len(ms)]
  OBVIOUS
<1> HIDE DEF f
<1> QED BY <1>1, <1>2 DEF Thins

LEMMA PickThins ==
  ASSUME NEW ms, NEW at, Messages(ms),
         \A p \in 1..Len(ms) : ms[p].role = "assistant" => p \in at
  PROVE  Thins(Pick(ms, at), ms)
<1> DEFINE u == Pick(ms, at)
<1>1. IsSeq(ms)
  BY DEF Messages
<1>2. \E f \in [1..Len(Pick(ms, at)) -> 1..Len(ms)] :
        /\ \A i \in 1..Len(Pick(ms, at)) : f[i] \in at /\ Pick(ms, at)[i] = ms[f[i]]
        /\ \A i, j \in 1..Len(Pick(ms, at)) : i < j => f[i] < f[j]
        /\ \A p \in 1..Len(ms) : p \in at => \E i \in 1..Len(Pick(ms, at)) : f[i] = p
  BY <1>1, PickFacts, SMTT(60)
<1> HIDE DEF u
<1>3. PICK f \in [1..Len(u) -> 1..Len(ms)] :
        /\ \A i \in 1..Len(u) : f[i] \in at /\ u[i] = ms[f[i]]
        /\ \A i, j \in 1..Len(u) : i < j => f[i] < f[j]
        /\ \A p \in 1..Len(ms) : p \in at => \E i \in 1..Len(u) : f[i] = p
  BY <1>2 DEF u
<1>4. Thins(u, ms)
  BY <1>3 DEF Thins, Alike
<1> QED BY <1>4 DEF u

(* Outputs stay paired, and what is recent recent. *)
LEMMA ThinsPair ==
  ASSUME NEW u, NEW ms, Messages(u), Messages(ms), Thins(u, ms)
  PROVE  /\ \A T : OutputsPair(ms, T) => OutputsPair(u, T)
         /\ \A n, ids : Recent(ms, n, ids) => Recent(u, n, ids)
         /\ CallsIn(u) \subseteq CallsIn(ms)
<1>1. Len(u) \in Nat /\ Len(ms) \in Nat
  BY SeqFacts DEF Messages
<1>2. PICK f \in [1..Len(u) -> 1..Len(ms)] :
        /\ \A i \in 1..Len(u) : Alike(u[i], ms[f[i]])
        /\ \A i, j \in 1..Len(u) : i < j => f[i] < f[j]
        /\ \A p \in 1..Len(ms) : ms[p].role = "assistant" => \E i \in 1..Len(u) : f[i] = p
  BY DEF Thins
<1>3. \A i \in 1..Len(u) : /\ f[i] \in 1..Len(ms)
                           /\ u[i].role = ms[f[i]].role /\ u[i].text = ms[f[i]].text
                           /\ u[i].calls = ms[f[i]].calls /\ u[i].callId = ms[f[i]].callId
  BY <1>2 DEF Alike
<1>4. ASSUME NEW T, OutputsPair(ms, T) PROVE OutputsPair(u, T)
  <2>1. \A k \in 1..Len(u) : u[k].role = "tool" => \A p \in ToSet(u[k].text) : Placed(p, T)
    BY <1>3, <1>4 DEF OutputsPair
  <2>2. ASSUME NEW t \in T, NEW k \in 1..Len(u), OfOutput(t), Brings(u[k], t)
        PROVE  Paired(u, k, t)
    <3> DEFINE l == f[k]
    <3>1. l \in 1..Len(ms) /\ u[k].callId = ms[l].callId /\ Brings(ms[l], t)
      BY <1>3, <2>2 DEF Brings
    <3>2. Paired(ms, l, t)
      BY <1>4, <2>2, <3>1 DEF OutputsPair
    <3>3. \E j \in 1..(k - 1) : u[j].role = "assistant" /\ u[k].callId \in CallIds(u[j])
      <4>1. PICK p \in 1..(l - 1) : ms[p].role = "assistant" /\ ms[l].callId \in CallIds(ms[p])
        BY <3>2 DEF Paired
      <4>2. p \in 1..Len(ms) /\ p < l
        BY <1>1, <3>1
      <4>3. PICK i \in 1..Len(u) : f[i] = p
        BY <1>2, <4>1, <4>2
      <4>4. ~(k < i) /\ i # k
        <5>1. k < i => l < p
          BY <1>2, <4>3
        <5> QED BY <3>1, <4>2, <4>3, <5>1
      <4>5. i \in 1..(k - 1)
        BY <1>1, <4>4
      <4>6. u[i].role = "assistant" /\ CallIds(u[i]) = CallIds(ms[p])
        BY <1>3, <4>1, <4>3 DEF CallIds
      <4> QED BY <3>1, <4>1, <4>5, <4>6
    <3>4. ASSUME NEW j \in 1..(k - 1), u[j].callId = u[k].callId, NEW p \in ToSet(u[j].text)
          PROVE  p[1] = t.at[1]
      <4>1. j \in 1..Len(u) /\ j < k
        BY <1>1
      <4>2. f[j] \in 1..Len(ms) /\ f[j] < l
        BY <1>2, <1>3, <4>1
      <4>3. f[j] \in 1..(l - 1)
        BY <1>1, <3>1, <4>2
      <4>4. ms[f[j]].callId = ms[l].callId /\ p \in ToSet(ms[f[j]].text)
        BY <1>3, <3>1, <3>4, <4>1
      <4> QED BY <3>2, <4>3, <4>4 DEF Paired
    <3>5. u[k].callId # NoId
      BY <3>1, <3>2 DEF Paired
    <3> QED BY <3>3, <3>4, <3>5 DEF Paired
  <2> QED BY <2>1, <2>2 DEF OutputsPair
<1>5. ASSUME NEW n, NEW ids, Recent(ms, n, ids) PROVE Recent(u, n, ids)
  BY <1>3, <1>5 DEF Recent
<1>6. ASSUME NEW d, d \in CallsIn(u) PROVE d \in CallsIn(ms)
  <2>1. PICK k \in 1..Len(u) : d \in ToSet(u[k].calls)
    BY <1>6, CallsInFacts
  <2>2. f[k] \in 1..Len(ms) /\ d \in ToSet(ms[f[k]].calls)
    BY <1>3, <2>1
  <2> QED BY <2>2, CallsInFacts
<1> QED BY <1>4, <1>5, <1>6

(* Putting a list in order only thins it, and sets one system message ahead *)
(* that neither calls nor answers.                                          *)
LEMMA SystemAhead ==
  ASSUME NEW q, NEW text, Messages(q), IsSeq(text)
  PROVE  LET r == <<System(text)>> \o q
         IN  /\ \A T : OutputsPair(q, T) => OutputsPair(r, T)
             /\ CallsIn(r) = CallsIn(q)
<1> DEFINE m == System(text)
           p == <<m>>
           r == p \o q
<1>1. IsMessage(m) /\ m.role = "system" /\ m.callId = NoId /\ m.calls = <<>>
  BY Empty DEF IsMessage, System, Message
<1> HIDE DEF m
<1>2. Messages(p) /\ Len(p) = 1 /\ p[1] = m
  BY <1>1, OneMessage, Single
<1>3. CallsIn(p) = {}
  <2>1. ToSet(<<>>) = {}
    BY DEF ToSet
  <2> QED BY <1>1, <2>1, CallsInOne
<1> HIDE DEF p
<1>4. CallsIn(r) = CallsIn(q)
  BY <1>2, <1>3, CallsInConcat
<1>5. /\ Len(q) \in Nat /\ Len(r) = 1 + Len(q) /\ r[1] = m
      /\ \A k \in 1..Len(q) : r[1 + k] = q[k]
  <2>1. IsSeq(p) /\ IsSeq(q) /\ Len(q) \in Nat
    BY <1>2, SeqFacts DEF Messages
  <2>2. Len(r) = Len(p) + Len(q)
    BY <2>1, Concatenated
  <2>3. \A k \in 1..Len(p) : r[k] = p[k]
    BY <2>1, Concatenated
  <2>4. \A k \in 1..Len(q) : r[Len(p) + k] = q[k]
    BY <2>1, Concatenated
  <2> HIDE DEF r
  <2> QED BY <1>2, <2>1, <2>2, <2>3, <2>4
<1> HIDE DEF r
<1>6. \A k \in 2..Len(r) : k - 1 \in 1..Len(q) /\ r[k] = q[k - 1]
  <2> TAKE k \in 2..Len(r)
  <2>1. k - 1 \in 1..Len(q) /\ 1 + (k - 1) = k
    BY <1>5
  <2> QED BY <1>5, <2>1
<1>7. \A k \in 1..Len(r) : k = 1 \/ k \in 2..Len(r)
  BY <1>5
<1>8. ASSUME NEW T, OutputsPair(q, T) PROVE OutputsPair(r, T)
  <2>1. \A k \in 1..Len(r) : r[k].role = "tool" => k \in 2..Len(r)
    BY <1>1, <1>5, <1>7
  <2>2. \A k \in 1..Len(r) : r[k].role = "tool" => \A e \in ToSet(r[k].text) : Placed(e, T)
    BY <1>6, <1>8, <2>1 DEF OutputsPair
  <2>3. ASSUME NEW t \in T, NEW k \in 1..Len(r), OfOutput(t), Brings(r[k], t)
        PROVE  Paired(r, k, t)
    <3>1. k \in 2..Len(r) /\ k - 1 \in 1..Len(q) /\ r[k] = q[k - 1]
      BY <1>6, <2>1, <2>3 DEF Brings
    <3>2. Paired(q, k - 1, t)
      BY <1>8, <2>3, <3>1 DEF OutputsPair
    <3>3. \E j \in 1..(k - 1) : r[j].role = "assistant" /\ r[k].callId \in CallIds(r[j])
      <4>1. PICK j \in 1..((k - 1) - 1) : q[j].role = "assistant" /\ q[k - 1].callId \in CallIds(q[j])
        BY <3>2 DEF Paired
      <4>2. 1 + j \in 1..(k - 1) /\ j \in 1..Len(q)
        BY <1>5, <3>1
      <4>3. r[1 + j] = q[j]
        BY <1>5, <4>2
      <4> QED BY <3>1, <4>1, <4>2, <4>3
    <3>4. ASSUME NEW j \in 1..(k - 1), r[j].callId = r[k].callId, NEW e \in ToSet(r[j].text)
          PROVE  e[1] = t.at[1]
      <4>1. r[k].callId # NoId
        BY <3>1, <3>2 DEF Paired
      <4>2. j # 1
        BY <1>1, <1>5, <3>4, <4>1
      <4>3. j \in 2..Len(r) /\ j - 1 \in 1..((k - 1) - 1)
        BY <1>5, <3>1, <4>2
      <4>4. r[j] = q[j - 1]
        BY <1>6, <4>3
      <4> QED BY <3>1, <3>2, <3>4, <4>3, <4>4 DEF Paired
    <3> QED BY <3>1, <3>2, <3>3, <3>4 DEF Paired
  <2> QED BY <2>2, <2>3 DEF OutputsPair
<1> QED BY <1>4, <1>8 DEF r, p, m

LEMMA OrderedPairs ==
  ASSUME NEW ms, Messages(ms)
  PROVE  LET c == CollapseSystemToHead(Sanitize(ms))
         IN  /\ \A T : OutputsPair(ms, T) => OutputsPair(c, T)
             /\ CallsIn(c) \subseteq CallsIn(ms)
<1> DEFINE s == Sanitize(ms)
           d == Dialogue(s)
           text == SystemText(s)
           at(l) == {k \in DOMAIN l : Kept(l[k])}
           bt(l) == {k \in DOMAIN l : l[k].role # "system"}
<1>1. Messages(s)
  BY SanitizeFacts
<1>2. Thins(s, ms)
  <2>1. \A p \in 1..Len(ms) : ms[p].role = "assistant" => p \in at(ms)
    BY SeqFacts DEF Kept, Messages
  <2>2. s = Pick(ms, at(ms))
    BY DEF Sanitize
  <2> HIDE DEF at, s
  <2> QED BY <2>1, <2>2, PickThins
<1> HIDE DEF s
<1>3. Messages(d)
  BY <1>1, DialogueFacts
<1>4. Thins(d, s)
  <2>1. \A p \in 1..Len(s) : s[p].role = "assistant" => p \in bt(s)
    BY <1>1, SeqFacts DEF Messages
  <2>2. d = Pick(s, bt(s))
    BY DEF Dialogue
  <2> HIDE DEF bt, d
  <2> QED BY <1>1, <2>1, <2>2, PickThins
<1>5. IsSeq(text)
  <2>1. Len(s) \in Nat
    BY <1>1, SeqFacts DEF Messages
  <2>2. IsSeq(Joined(s, Len(s)))
    BY <1>1, <2>1, SystemTextSeq
  <2> QED BY <2>2, JoinUnfolds
<1> DEFINE c == CollapseSystemToHead(s)
<1>6. c = (IF text = <<>> THEN <<>> ELSE <<System(text)>>) \o d
  BY DEF CollapseSystemToHead
<1> HIDE DEF c, d, text
<1>7. /\ \A T : OutputsPair(d, T) => OutputsPair(c, T)
      /\ CallsIn(c) = CallsIn(d)
  <2>1. CASE text = <<>>
    <3>1. c = d
      BY <1>3, <1>6, <2>1, Empty DEF Messages
    <3> QED BY <3>1
  <2>2. CASE text # <<>>
    BY <1>3, <1>5, <1>6, <2>2, SystemAhead
  <2> QED BY <2>1, <2>2
<1>8. /\ \A T : OutputsPair(ms, T) => OutputsPair(d, T)
      /\ CallsIn(d) \subseteq CallsIn(ms)
  BY <1>1, <1>2, <1>3, <1>4, ThinsPair
<1>9. /\ \A T : OutputsPair(ms, T) => OutputsPair(c, T)
      /\ CallsIn(c) \subseteq CallsIn(ms)
  BY <1>7, <1>8
<1> QED BY <1>9 DEF c, s

(* One message more. *)
LEMMA OneMorePairs ==
  ASSUME NEW p, NEW m, NEW T, Messages(p), IsMessage(m), OutputsPair(p, T),
         m.role = "tool" => \A e \in ToSet(m.text) : Placed(e, T),
         \A t \in T : OfOutput(t) /\ Brings(m, t) =>
           /\ m.callId # NoId
           /\ \E j \in 1..Len(p) : p[j].role = "assistant" /\ m.callId \in CallIds(p[j])
           /\ \A j \in 1..Len(p) : p[j].callId = m.callId => \A e \in ToSet(p[j].text) : e[1] = t.at[1]
  PROVE  OutputsPair(p \o <<m>>, T)
<1> DEFINE q == <<m>>
           r == p \o q
           n == Len(p)
<1>1. IsSeq(q) /\ Len(q) = 1 /\ q[1] = m
  BY Single
<1> HIDE DEF q
<1>2. /\ n \in Nat /\ Len(r) = n + 1
      /\ (\A k \in 1..n : r[k] = p[k]) /\ r[n + 1] = m
  <2>1. IsSeq(p) /\ n \in Nat
    BY SeqFacts DEF Messages
  <2>2. Len(r) = n + Len(q)
    BY <1>1, <2>1, Concatenated
  <2>3. \A k \in 1..n : r[k] = p[k]
    BY <1>1, <2>1, Concatenated
  <2>4. \A k \in 1..Len(q) : r[n + k] = q[k]
    BY <1>1, <2>1, Concatenated
  <2> HIDE DEF r, n
  <2> QED BY <1>1, <2>1, <2>2, <2>3, <2>4
<1> HIDE DEF r, n
<1>3. \A k \in 1..Len(r) : k \in 1..n \/ k = n + 1
  BY <1>2
<1>4. \A k \in 1..Len(r) : r[k].role = "tool" => \A e \in ToSet(r[k].text) : Placed(e, T)
  BY <1>2, <1>3 DEF OutputsPair, n
<1>5. ASSUME NEW t \in T, NEW k \in 1..Len(r), OfOutput(t), Brings(r[k], t)
      PROVE  Paired(r, k, t)
  <2>1. CASE k \in 1..n
    <3>1. r[k] = p[k] /\ \A j \in 1..(k - 1) : r[j] = p[j]
      BY <1>2, <2>1
    <3>2. Paired(p, k, t)
      BY <1>5, <2>1, <3>1 DEF OutputsPair, n
    <3> QED BY <3>1, <3>2 DEF Paired
  <2>2. CASE k = n + 1
    <3>1. (k - 1) = n /\ r[k] = m
      BY <1>2, <2>2
    <3> QED BY <1>2, <1>5, <3>1 DEF Paired, n
  <2> QED BY <1>3, <2>1, <2>2
<1>6. OutputsPair(r, T)
  BY <1>4, <1>5 DEF OutputsPair
<1> QED BY <1>6 DEF r, q

(* An item told that nothing in the list speaks of yet. *)
Tell(T, at, item) == T \cup {[at |-> at, item |-> item]}

LEMMA ToldPairs ==
  ASSUME NEW p, NEW T, NEW at, NEW item, OutputsPair(p, T), Messages(p), ~Placed(at, T)
  PROVE  OutputsPair(p, Tell(T, at, item))
<1> DEFINE new == [at |-> at, item |-> item]
           U == Tell(T, at, item)
<1>1. new.at = at /\ \A t : t \in U <=> t \in T \/ t = new
  BY DEF Tell
<1> HIDE DEF new, U
<1>2. \A e : Placed(e, T) => Placed(e, U)
  BY <1>1 DEF Placed
<1>3. ASSUME NEW k \in 1..Len(p), Brings(p[k], new) PROVE FALSE
  <2>1. p[k].role = "tool" /\ p[k].text = <<at>>
    BY <1>1, <1>3 DEF Brings
  <2>2. at \in ToSet(<<at>>)
    BY Single, SetOfSeq
  <2> QED BY <2>1, <2>2 DEF OutputsPair
<1>4. OutputsPair(p, U)
  BY <1>1, <1>2, <1>3 DEF OutputsPair
<1> QED BY <1>4 DEF U

(* Calls are taken that an earlier turn has not. *)
LEMMA CallsGrow ==
  ASSUME NEW S, NEW N, NEW S2, NEW T, NEW at, NEW item, CallsFirst(S, T),
         at \in Nat \X Nat, \A t \in T : t.at \in Nat \X Nat /\ t.at[1] <= at[1], ~Placed(at, T),
         S2 \subseteq S \cup N,
         \A d \in N : d.by = at,
         (N # {} /\ item.type = "call" /\ item.id # NoId) => \A c \in S : c.id = item.id => c.by[1] = at[1]
  PROVE  CallsFirst(S2, Tell(T, at, item))
<1> DEFINE new == [at |-> at, item |-> item]
           U == Tell(T, at, item)
<1>1. new.at = at /\ new.item = item /\ \A t : t \in U <=> t \in T \/ t = new
  BY DEF Tell
<1> HIDE DEF new, U
<1>2. \A d \in S2 : Placed(d.by, U)
  BY <1>1 DEF Placed, CallsFirst
<1>3. \A d \in S : Placed(d.by, T) /\ d.by # at
  BY DEF CallsFirst
<1>4. at[1] \in Nat
  OBVIOUS
<1>5. ASSUME NEW t \in U, NEW d \in S2, NEW c \in S2, OfCall(t), d.by = t.at, c.id = t.item.id
      PROVE  c.by[1] >= t.at[1]
  <2>1. CASE t \in T
    <3>1. d \in S
      BY <1>5, <2>1 DEF Placed
    <3>2. t.at[1] <= at[1] /\ t.at[1] \in Nat
      BY <2>1
    <3>3. CASE c \in S
      BY <1>5, <2>1, <3>1, <3>3 DEF CallsFirst
    <3>4. CASE c \in N
      <4>1. c.by[1] = at[1]
        BY <3>4
      <4> QED BY <1>4, <3>2, <4>1
    <3> QED BY <3>3, <3>4
  <2>2. CASE t = new
    <3>1. d \in N /\ OfCall(new) /\ t.at = at /\ c.id = item.id
      BY <1>1, <1>3, <1>5, <2>2
    <3>2. c.by[1] = at[1]
      <4>1. CASE c \in N
        BY <4>1
      <4>2. CASE c \in S
        BY <1>1, <3>1, <4>2 DEF OfCall
      <4> QED BY <4>1, <4>2
    <3> QED BY <1>4, <3>1, <3>2
  <2> QED BY <1>1, <2>1, <2>2
<1>6. CallsFirst(S2, U)
  BY <1>2, <1>5 DEF CallsFirst
<1> QED BY <1>6 DEF U

-----------------------------------------------------------------------------
(* The steps of a conversation *)

LEMMA SeqsOnce == \A e : ToSet(<<e>>) = {e}
<1> TAKE e
<1> DEFINE q == <<e>>
<1>1. IsSeq(q) /\ Len(q) = 1 /\ q[1] = e
  BY Single
<1> HIDE DEF q
<1>2. \A x : x \in ToSet(q) <=> x = e
  BY <1>1, SetOfSeq
<1>3. ToSet(q) = {e}
  BY <1>2
<1> QED BY <1>3 DEF q

LEMMA PiecesHere == \A flag : ToSet(Piece(flag)) \subseteq {Here}
<1>1. ToSet(<<>>) = {}
  BY DEF ToSet
<1> QED BY <1>1, SeqsOnce DEF Piece

(* The place of the item that is taken is new. *)
LEMMA HereIsNew ==
  ASSUME PlacesPast, phase # "idle"
  PROVE  /\ Here \in Nat \X Nat /\ Here[1] = turn /\ Here[2] = count + 1
         /\ ~Placed(Here, told)
         /\ \A t \in told : t.at \in Nat \X Nat /\ t.at[1] <= Here[1]
<1>1. Here \in Nat \X Nat /\ Here[1] = turn /\ Here[2] = count + 1
  BY DEF Here, PlacesPast
<1>2. ASSUME NEW t \in told, t.at = Here PROVE FALSE
  <2>1. t.at[2] <= count + 0 /\ count \in Nat
    BY <1>1, <1>2 DEF PlacesPast
  <2> QED BY <1>1, <1>2, <2>1
<1> QED BY <1>1, <1>2 DEF Placed, PlacesPast

(* Flushing what is pending. *)
LEMMA FlushPairs ==
  ASSUME PairInv, phase = "converting"
  PROVE  LET l == FlushPending(messages, pending)
         IN  /\ Messages(l) /\ OutputsPair(l, told) /\ CallsIn(l) = CallsHeld
             /\ Recent(l, turn, skip)
<1> DEFINE l == FlushPending(messages, pending)
<1>1. /\ Messages(messages) /\ PendingOK(pending) /\ OutputsPair(messages, told)
      /\ Recent(messages, turn, skip)
  BY DEF PairInv, HistoryInv
<1>2. ToSet(<<>>) = {}
  BY DEF ToSet
<1>3. ASSUME pending = Nothing
      PROVE  Messages(l) /\ OutputsPair(l, told) /\ CallsIn(l) = CallsHeld /\ Recent(l, turn, skip)
  <2>1. l = messages
    BY <1>3 DEF FlushPending
  <2>2. CallsHeld = CallsIn(messages)
    BY <1>2, <1>3 DEF CallsHeld, Nothing
  <2> QED BY <1>1, <2>1, <2>2
<1>4. ASSUME pending # Nothing
      PROVE  Messages(l) /\ OutputsPair(l, told) /\ CallsIn(l) = CallsHeld /\ Recent(l, turn, skip)
  <2> DEFINE m == Message("assistant", <<>>, pending.calls, NoId, pending.reasoning)
             q == <<m>>
  <2>1. /\ IsMessage(m) /\ m.role = "assistant" /\ m.calls = pending.calls
        /\ m.callId = NoId
    BY <1>1, Empty DEF PendingOK, IsMessage, Message
  <2>2. l = Append(messages, m)
    BY <1>4 DEF FlushPending
  <2> HIDE DEF m, l
  <2>3. l = messages \o q
    BY <1>1, <2>2, AppendAsConcat DEF Messages
  <2>4. Messages(q) /\ CallsIn(q) = ToSet(pending.calls)
    BY <2>1, OneMessage, CallsInOne
  <2>5. OutputsPair(l, told)
    BY <1>1, <2>1, <2>3, OneMorePairs DEF Brings
  <2>6. CallsIn(l) = CallsHeld
    <3> HIDE DEF q
    <3> QED BY <1>1, <2>3, <2>4, CallsInConcat DEF CallsHeld
  <2>7. Recent(l, turn, skip)
    <3>1. IsSeq(messages) /\ IsSeq(q) /\ Len(q) = 1 /\ q[1] = m /\ Len(messages) \in Nat
      BY <1>1, Single, SeqFacts DEF Messages
    <3> HIDE DEF q
    <3>2. Len(l) = Len(messages) + 1
      <4>1. Len(l) = Len(messages) + Len(q)
        BY <2>3, <3>1, Concatenated
      <4> QED BY <3>1, <4>1
    <3>3. \A k \in 1..Len(messages) : l[k] = messages[k]
      BY <2>3, <3>1, Concatenated
    <3>4. l[Len(messages) + 1] = m
      <4>1. \A k \in 1..Len(q) : l[Len(messages) + k] = q[k]
        BY <2>3, <3>1, Concatenated
      <4> QED BY <3>1, <4>1
    <3>5. \A k \in 1..Len(l) : k \in 1..Len(messages) \/ k = Len(messages) + 1
      BY <3>1, <3>2
    <3> QED BY <1>1, <2>1, <3>3, <3>4, <3>5 DEF Recent
  <2>8. Messages(l)
    <3> HIDE DEF q
    <3> QED BY <1>1, <2>3, <2>4, MessagesConcat
  <2> QED BY <2>5, <2>6, <2>7, <2>8
<1> HIDE DEF l
<1>5. Messages(l) /\ OutputsPair(l, told) /\ CallsIn(l) = CallsHeld /\ Recent(l, turn, skip)
  BY <1>3, <1>4 DEF l
<1> QED BY <1>5 DEF l

(* Calls that are taken in beside those that are held. *)
LEMMA HeldGrows ==
  ASSUME PairInv, phase = "converting", NEW N, NEW item, NEW held, held \subseteq CallsHeld \cup N,
         \A d \in N : d.by = Here,
         (N # {} /\ item.type = "call" /\ item.id # NoId) => item.id \notin skip
  PROVE  CallsFirst(held, Tell(told, Here, item)) /\ CallsRecent(held, turn, skip)
<1>1. /\ Here \in Nat \X Nat /\ Here[1] = turn /\ ~Placed(Here, told)
      /\ \A t \in told : t.at \in Nat \X Nat /\ t.at[1] <= Here[1]
  BY HereIsNew DEF PairInv
<1>2. CallsFirst(CallsHeld, told) /\ CallsRecent(CallsHeld, turn, skip)
  BY DEF PairInv
<1>3. ASSUME N # {}, item.type = "call", item.id # NoId, NEW c \in CallsHeld, c.id = item.id
      PROVE  c.by[1] = Here[1]
  BY <1>1, <1>2, <1>3 DEF CallsRecent
<1>4. CallsFirst(held, Tell(told, Here, item))
  <2> DEFINE at == Here
  <2>1. /\ at \in Nat \X Nat /\ ~Placed(at, told) /\ \A d \in N : d.by = at
        /\ \A t \in told : t.at \in Nat \X Nat /\ t.at[1] <= at[1]
    BY <1>1
  <2>2. (N # {} /\ item.type = "call" /\ item.id # NoId) => \A c \in CallsHeld : c.id = item.id => c.by[1] = at[1]
    BY <1>3
  <2> HIDE DEF at
  <2>3. CallsFirst(held, Tell(told, at, item))
    BY <1>2, <2>1, <2>2, CallsGrow
  <2> QED BY <2>3 DEF at
<1>5. CallsRecent(held, turn, skip)
  BY <1>1, <1>2 DEF CallsRecent
<1> QED BY <1>4, <1>5

(* What is pending goes behind the list, and then a message. *)
LEMMA FlushThenPairs ==
  ASSUME PairInv, phase = "converting", NEW item, NEW m, IsMessage(m),
         ToSet(m.text) \subseteq {Here},
         (item.type = "output" /\ item.id # NoId /\ m.role = "tool") =>
           /\ m.callId = item.id /\ item.id \notin skip
           /\ HasMatchingCall(item.id, FlushPending(messages, pending))
  PROVE  LET l == FlushPending(messages, pending) \o <<m>>
         IN  /\ OutputsPair(l, Tell(told, Here, item))
             /\ Recent(l, turn, skip)
             /\ CallsIn(l) = CallsHeld \cup ToSet(m.calls)
<1> DEFINE p == FlushPending(messages, pending)
           q == <<m>>
           l == p \o q
           T == Tell(told, Here, item)
           n == Len(p)
<1>1. Messages(p) /\ OutputsPair(p, told) /\ CallsIn(p) = CallsHeld /\ Recent(p, turn, skip)
  BY FlushPairs
<1>2. /\ Here[1] = turn /\ ~Placed(Here, told)
  BY HereIsNew DEF PairInv
<1>3. HasMatchingCall(item.id, p) => \E j \in 1..n : p[j].role = "assistant" /\ item.id \in CallIds(p[j])
  BY <1>1, SeqFacts DEF HasMatchingCall, Messages
<1>4. Messages(q) /\ CallsIn(q) = ToSet(m.calls) /\ IsSeq(q) /\ Len(q) = 1 /\ q[1] = m
  BY OneMessage, CallsInOne, Single
<1> DEFINE new == [at |-> Here, item |-> item]
<1>5. new.at = Here /\ new.item = item /\ \A t : t \in T <=> t \in told \/ t = new
  BY DEF Tell
<1>6. OutputsPair(p, T)
  <2> DEFINE at == Here
  <2>1. ~Placed(at, told)
    BY <1>2
  <2> HIDE DEF p, at
  <2>2. OutputsPair(p, Tell(told, at, item))
    BY <1>1, <2>1, ToldPairs
  <2> QED BY <2>2 DEF at
<1>7. (item.type = "output" /\ item.id # NoId /\ m.role = "tool") =>
        m.callId = item.id /\ item.id \notin skip /\ HasMatchingCall(item.id, p)
  OBVIOUS
<1> HIDE DEF p, new, T
<1>8. m.role = "tool" => \A e \in ToSet(m.text) : Placed(e, T)
  BY <1>5 DEF Placed
<1>9. ASSUME NEW t \in T, OfOutput(t), Brings(m, t)
      PROVE  /\ m.callId # NoId
             /\ \E j \in 1..n : p[j].role = "assistant" /\ m.callId \in CallIds(p[j])
             /\ \A j \in 1..n : p[j].callId = m.callId => \A e \in ToSet(p[j].text) : e[1] = t.at[1]
  <2>1. t.at \in ToSet(m.text)
    BY <1>9, SeqsOnce DEF Brings
  <2>2. t.at = Here
    BY <2>1
  <2>3. t = new
    BY <1>2, <1>5, <2>2 DEF Placed
  <2>4. m.callId = item.id /\ item.id # NoId /\ item.id \notin skip /\ HasMatchingCall(item.id, p)
    BY <1>5, <1>7, <1>9, <2>3 DEF OfOutput, Brings
  <2> QED BY <1>1, <1>2, <1>3, <2>2, <2>4 DEF Recent
<1>10. OutputsPair(l, T)
  <2> HIDE DEF n
  <2> QED BY <1>1, <1>6, <1>8, <1>9, OneMorePairs DEF n
<1>11. CallsIn(l) = CallsHeld \cup ToSet(m.calls)
  <2> HIDE DEF q
  <2> QED BY <1>1, <1>4, CallsInConcat
<1>12. Recent(l, turn, skip)
  <2> HIDE DEF q
  <2>1. IsSeq(p) /\ n \in Nat
    BY <1>1, SeqFacts DEF Messages
  <2>2. Len(l) = n + Len(q)
    BY <1>4, <2>1, Concatenated
  <2>3. \A k \in 1..n : l[k] = p[k]
    BY <1>4, <2>1, Concatenated
  <2>4. \A k \in 1..Len(q) : l[n + k] = q[k]
    BY <1>4, <2>1, Concatenated
  <2> HIDE DEF n, l
  <2>5. l[n + 1] = m
    BY <1>4, <2>4
  <2>6. \A k \in 1..Len(l) : k \in 1..n \/ k = n + 1
    BY <1>4, <2>1, <2>2
  <2>7. \A e \in ToSet(m.text) : e[1] = turn
    BY <1>2
  <2> QED BY <1>1, <2>3, <2>5, <2>6, <2>7 DEF Recent, n
<1> QED BY <1>10, <1>11, <1>12 DEF p, T

(* A message built of an item brings its calls and its text with its place. *)
LEMMA BuiltHere ==
  ASSUME NEW item \in ItemSet
  PROVE  LET m == BuildMessage(item)
         IN  /\ IsMessage(m) /\ ToSet(m.text) \subseteq {Here}
             /\ \A d \in ToSet(m.calls) : d.by = Here
             /\ m.role = (IF item.role = "invalid" THEN "user" ELSE item.role)
<1> DEFINE m == BuildMessage(item)
           calls == [c \in DOMAIN item.calls |-> [id |-> item.calls[c], by |-> Here]]
<1>1. IsMessage(m)
  BY BuiltMessage
<1>2. m.text = Piece(item.text) /\ m.role = (IF item.role = "invalid" THEN "user" ELSE item.role)
  BY DEF BuildMessage, ChatMessageContent, Message
<1>3. m.calls = calls \/ m.calls = <<>>
  BY DEF BuildMessage, Message
<1>4. \A d \in ToSet(calls) : d.by = Here
  <2>1. \A c \in DOMAIN calls : calls[c].by = Here
    OBVIOUS
  <2> HIDE DEF calls
  <2> QED BY <2>1 DEF ToSet
<1>5. ToSet(<<>>) = {}
  BY DEF ToSet
<1> HIDE DEF calls, m
<1>6. \A d \in ToSet(m.calls) : d.by = Here
  BY <1>3, <1>4, <1>5
<1>7. ToSet(m.text) \subseteq {Here}
  BY <1>2, PiecesHere
<1> QED BY <1>1, <1>2, <1>6, <1>7 DEF m

(* What taking an item makes of the list and of the calls. *)
TakenPairs(item) ==
  /\ OutputsPair(messages', Tell(told, Here, item))
  /\ Recent(messages', turn, skip)
  /\ \E N : /\ CallsHeld' \subseteq CallsHeld \cup N
            /\ \A d \in N : d.by = Here
            /\ (N # {} /\ item.type = "call" /\ item.id # NoId) => item.id \notin skip

LEMMA PairsTaken ==
  ASSUME ItemsAssumption, PairInv, phase = "converting", NEW item \in Items,
         \/ TakeReasoning(item) \/ TakeText(item) \/ TakeMedia(item) \/ TakeCall(item)
         \/ TakeOutput(item) \/ TakeMessage(item) \/ TakeUnknown(item)
  PROVE  TakenPairs(item)
<1> DEFINE T == Tell(told, Here, item)
           l == FlushPending(messages, pending)
<1>1. item \in ItemSet
  BY DEF ItemsAssumption
<1>2. CallsHeld' = CallsIn(messages') \cup ToSet(pending'.calls)
  BY DEF CallsHeld
<1>3. /\ Messages(messages) /\ OutputsPair(messages, told) /\ Recent(messages, turn, skip)
      /\ PendingOK(pending)
  BY DEF PairInv, HistoryInv
<1>4. ~Placed(Here, told)
  BY HereIsNew DEF PairInv
<1>5. ToSet(<<>>) = {} /\ Nothing.calls = <<>>
  BY DEF ToSet, Nothing
<1>6. \A u : Messages(u) /\ OutputsPair(u, told) => OutputsPair(u, T)
  <2> DEFINE at == Here
  <2>1. ~Placed(at, told)
    BY <1>4
  <2> HIDE DEF at
  <2>2. \A u : Messages(u) /\ OutputsPair(u, told) => OutputsPair(u, Tell(told, at, item))
    BY <2>1, ToldPairs
  <2> QED BY <2>2 DEF at
<1> HIDE DEF T
(* No message more, and no calls but those of N. *)
<1>7. ASSUME NEW u, Messages(u), Thins(u, messages), messages' = u, NEW N,
             ToSet(pending'.calls) \subseteq ToSet(pending.calls) \cup N, \A d \in N : d.by = Here,
             (N # {} /\ item.type = "call" /\ item.id # NoId) => item.id \notin skip
      PROVE  TakenPairs(item)
  <2>1. OutputsPair(u, told) /\ Recent(u, turn, skip) /\ CallsIn(u) \subseteq CallsIn(messages)
    BY <1>3, <1>7, ThinsPair
  <2>2. OutputsPair(u, T)
    BY <1>6, <1>7, <2>1
  <2>3. CallsHeld' \subseteq CallsHeld \cup N
    BY <1>2, <1>7, <2>1 DEF CallsHeld
  <2> QED BY <1>7, <2>1, <2>2, <2>3 DEF TakenPairs, T
(* What is pending is put behind, and nothing else. *)
<1>8. ASSUME FlushThen(<<>>) PROVE TakenPairs(item)
  <2>1. Messages(l) /\ OutputsPair(l, told) /\ CallsIn(l) = CallsHeld /\ Recent(l, turn, skip)
    BY FlushPairs
  <2>2. messages' = l \o <<>> /\ pending' = Nothing
    BY <1>8 DEF FlushThen
  <2> HIDE DEF l
  <2>3. messages' = l
    BY <2>1, <2>2, Empty DEF Messages
  <2>4. OutputsPair(l, T)
    BY <1>6, <2>1
  <2>5. CallsHeld' \subseteq CallsHeld \cup {}
    BY <1>2, <1>5, <2>1, <2>2, <2>3
  <2> QED BY <2>1, <2>3, <2>4, <2>5 DEF TakenPairs, T
(* Or this message as well. *)
<1>9. ASSUME NEW m, FlushThen(<<m>>), IsMessage(m), ToSet(m.text) \subseteq {Here},
             \A d \in ToSet(m.calls) : d.by = Here,
             item.type = "call" => ToSet(m.calls) = {},
             (item.type = "output" /\ item.id # NoId /\ m.role = "tool") =>
               m.callId = item.id /\ item.id \notin skip /\ HasMatchingCall(item.id, l)
      PROVE  TakenPairs(item)
  <2>1. messages' = l \o <<m>> /\ pending' = Nothing
    BY <1>9 DEF FlushThen
  <2>2. /\ OutputsPair(l \o <<m>>, T) /\ Recent(l \o <<m>>, turn, skip)
        /\ CallsIn(l \o <<m>>) = CallsHeld \cup ToSet(m.calls)
    BY <1>9, FlushThenPairs DEF T
  <2> HIDE DEF l
  <2>3. CallsHeld' \subseteq CallsHeld \cup ToSet(m.calls)
    BY <1>2, <1>5, <2>1, <2>2
  <2> QED BY <1>9, <2>1, <2>2, <2>3 DEF TakenPairs, T
<1>10. Thins(messages, messages)
  <2>1. Len(messages) \in Nat
    BY <1>3, SeqFacts DEF Messages
  <2> QED BY <2>1, AlikeThins DEF Alike
(* Nor any call. *)
<1>11. ASSUME NEW u, Messages(u), Thins(u, messages), messages' = u, pending'.calls = pending.calls
      PROVE  TakenPairs(item)
  <2> DEFINE none == {}
  <2>1. ToSet(pending'.calls) \subseteq ToSet(pending.calls) \cup none
    BY <1>11
  <2>2. (\A d \in none : d.by = Here) /\ none = {}
    OBVIOUS
  <2> HIDE DEF none
  <2> QED BY <1>7, <1>11, <2>1, <2>2
(* A message of the user's side. *)
<1>12. \A text : IsSeq(text) => /\ IsMessage(User(text)) /\ User(text).role = "user"
                                /\ User(text).text = text /\ User(text).calls = <<>>
  BY Empty DEF IsMessage, User, Message
<1>13. IsSeq(<<Here>>) /\ ToSet(<<Here>>) = {Here}
  <2> DEFINE at == Here
  <2> HIDE DEF at
  <2>1. IsSeq(<<at>>) /\ ToSet(<<at>>) = {at}
    BY Single, SeqsOnce
  <2> QED BY <2>1 DEF at
<1>14. IsSeq(Piece(item.text)) /\ ToSet(Piece(item.text)) \subseteq {Here}
  BY PieceSeq, PiecesHere
<1> DEFINE h == <<Here>>
           w == Piece(item.text)
<1>15. IsSeq(h) /\ ToSet(h) \subseteq {Here} /\ IsSeq(w) /\ ToSet(w) \subseteq {Here}
  BY <1>13, <1>14
<1> HIDE DEF h, w, l
<1>16. ASSUME NEW text, IsSeq(text), ToSet(text) \subseteq {Here}, FlushThen(<<User(text)>>) PROVE TakenPairs(item)
  <2>1. /\ IsMessage(User(text)) /\ User(text).role # "tool" /\ User(text).text = text
        /\ ToSet(User(text).calls) = {}
    BY <1>5, <1>12, <1>16
  <2> QED BY <1>9, <1>16, <2>1
<1>17. CASE TakeReasoning(item)
  <2>1. pending'.calls = pending.calls
    BY <1>3, <1>17 DEF TakeReasoning, PendingOK
  <2>3. messages' = messages \/ (CanBackfill(messages) /\ messages' = Backfill(messages, Here))
    BY <1>17 DEF TakeReasoning
  <2>4. CASE messages' = messages
    BY <1>3, <1>10, <1>11, <2>1, <2>4
  <2>5. CASE CanBackfill(messages) /\ messages' = Backfill(messages, Here)
    <3> DEFINE u == Backfill(messages, Here)
               n == Len(messages)
               r == messages[n].reasoning \o <<Here>>
    <3>1. /\ n \in Nat \ {0} /\ Messages(u) /\ Len(u) = n
          /\ \A k \in 1..n : k # n => u[k] = messages[k]
          /\ u[n] = [messages[n] EXCEPT !.reasoning = r]
      BY <1>3, <2>5, BackfillFacts DEF CanBackfill
    <3> HIDE DEF u, r
    <3>2. Alike(u[n], messages[n])
      <4>1. IsMessage(messages[n])
        BY <1>3, <3>1 DEF Messages
      <4> HIDE DEF n
      <4> QED BY <3>1, <4>1 DEF Alike, IsMessage, Message
    <3>3. \A k \in 1..n : Alike(u[k], messages[k])
      BY <3>1, <3>2 DEF Alike
    <3>4. Thins(u, messages)
      BY <3>1, <3>3, AlikeThins
    <3>5. messages' = u
      BY <2>5 DEF u
    <3> QED BY <1>11, <2>1, <3>1, <3>4, <3>5
  <2> QED BY <2>3, <2>4, <2>5
<1>18. CASE TakeText(item)
  <2>1. FlushThen(<<User(w)>>)
    BY <1>18 DEF TakeText, w
  <2> QED BY <1>15, <1>16, <2>1
<1>19. CASE TakeMedia(item)
  <2>1. FlushThen(<<User(h)>>) \/ FlushThen(<<>>)
    BY <1>19 DEF TakeMedia, h
  <2> QED BY <1>8, <1>15, <1>16, <2>1
<1>20. CASE TakeCall(item)
  <2> DEFINE d == [id |-> CallId(item), by |-> Here]
             c == Append(pending.calls, d)
             r == pending.reasoning \o Piece(item.reasoning)
  <2>1. messages' = messages
        /\ (pending' = pending \/ (~ShouldSkip(item) /\ pending' = [calls |-> c, reasoning |-> r]))
    BY <1>20 DEF TakeCall
  <2>2. d.by = Here
    OBVIOUS
  <2> HIDE DEF d, r
  <2>3. ToSet(c) \subseteq ToSet(pending.calls) \cup {d}
    <3>1. IsSeq(pending.calls) /\ IsSeq(<<d>>) /\ Len(<<d>>) = 1 /\ <<d>>[1] = d
      BY <1>3, Single DEF PendingOK
    <3> DEFINE q == <<d>>
               b == pending.calls
    <3>2. c = b \o q
      BY <3>1, AppendAsConcat
    <3> HIDE DEF q, c
    <3>3. IsSeq(b) /\ IsSeq(q) /\ Len(q) = 1 /\ q[1] = d /\ Len(b) \in Nat
      BY <3>1, SeqFacts DEF q
    <3>4. IsSeq(c) /\ Len(c) = Len(b) + Len(q)
      BY <3>2, <3>3, Concatenated
    <3>5. \A k \in 1..Len(b) : c[k] = b[k]
      BY <3>2, <3>3, Concatenated
    <3>6. \A k \in 1..Len(q) : c[Len(b) + k] = q[k]
      BY <3>2, <3>3, Concatenated
    <3> HIDE DEF b
    <3>7. \A k \in 1..Len(c) : k \in 1..Len(b) \/ k = Len(b) + 1
      BY <3>3, <3>4
    <3>8. c[Len(b) + 1] = d
      BY <3>3, <3>6
    <3>9. ToSet(c) \subseteq ToSet(b) \cup {d}
      BY <3>3, <3>4, <3>5, <3>7, <3>8, SetOfSeq
    <3> QED BY <3>9 DEF b
  <2> HIDE DEF c
  <2>4. messages' = messages /\ (pending' = pending \/ (~ShouldSkip(item) /\ pending'.calls = c))
    BY <2>1
  <2>5. CASE pending' = pending
    BY <1>3, <1>10, <1>11, <2>4, <2>5
  <2>6. CASE ~ShouldSkip(item) /\ pending'.calls = c
    <3> DEFINE one == {d}
    <3>1. item.id # NoId => item.id \notin skip
      BY <2>6 DEF ShouldSkip
    <3>2. ToSet(pending'.calls) \subseteq ToSet(pending.calls) \cup one
      BY <2>3, <2>6
    <3>3. \A e \in one : e.by = Here
      BY <2>2
    <3> HIDE DEF one
    <3> QED BY <1>3, <1>7, <1>10, <2>4, <3>1, <3>2, <3>3
  <2> QED BY <2>4, <2>5, <2>6
<1>21. CASE TakeOutput(item)
  <2> DEFINE m == Message("tool", w, <<>>, CallId(item), <<>>)
  <2>1. \/ messages' = messages /\ pending' = pending
        \/ FlushThen(<<User(h)>>)
        \/ ~ShouldSkip(item) /\ HasMatchingCall(CallId(item), l) /\ FlushThen(<<m>>)
    BY <1>21 DEF TakeOutput, h, w, l
  <2>2. CASE messages' = messages /\ pending' = pending
    BY <1>3, <1>10, <1>11, <2>2
  <2>3. CASE ~ShouldSkip(item) /\ HasMatchingCall(CallId(item), l) /\ FlushThen(<<m>>)
    <3>1. IsMessage(m) /\ m.text = w /\ m.calls = <<>> /\ m.callId = CallId(item)
      BY <1>15, Empty DEF IsMessage, Message
    <3> HIDE DEF m
    <3>2. item.id # NoId => CallId(item) = item.id /\ item.id \notin skip
      BY <2>3 DEF CallId, ShouldSkip
    <3>3. ToSet(m.calls) = {}
      BY <1>5, <3>1
    <3> QED BY <1>9, <1>15, <2>3, <3>1, <3>2, <3>3
  <2> QED BY <1>15, <1>16, <2>1, <2>2, <2>3
<1>22. CASE TakeMessage(item)
  <2>1. FlushThen(<<BuildMessage(item)>>) /\ item.type = "message"
    BY <1>22 DEF TakeMessage, Take
  <2>2. /\ IsMessage(BuildMessage(item)) /\ ToSet(BuildMessage(item).text) \subseteq {Here}
        /\ \A d \in ToSet(BuildMessage(item).calls) : d.by = Here
    BY <1>1, BuiltHere
  <2> QED BY <1>9, <2>1, <2>2
<1>23. CASE TakeUnknown(item)
  BY <1>8, <1>23 DEF TakeUnknown
<1> QED BY <1>17, <1>18, <1>19, <1>20, <1>21, <1>22, <1>23

(* What is said of a list and its calls stays so when an item is told.      *)
LEMMA ToldStands ==
  ASSUME NEW ms, NEW S, NEW T, NEW at, NEW item, Messages(ms), OutputsPair(ms, T), CallsFirst(S, T),
         at \in Nat \X Nat, \A t \in T : t.at \in Nat \X Nat /\ t.at[1] <= at[1], ~Placed(at, T)
  PROVE  OutputsPair(ms, Tell(T, at, item)) /\ CallsFirst(S, Tell(T, at, item))
<1> DEFINE none == {}
<1>1. none = {} /\ S \subseteq S \cup none /\ \A d \in none : d.by = at
  OBVIOUS
<1> HIDE DEF none
<1>2. CallsFirst(S, Tell(T, at, item))
  BY <1>1, CallsGrow
<1> QED BY <1>2, ToldPairs

LEMMA CallsFewer ==
  ASSUME NEW S, NEW T, NEW R, R \subseteq S, CallsFirst(S, T)
  PROVE  CallsFirst(R, T)
<1> QED BY DEF CallsFirst

LEMMA PairInitially == Init => PairInv
<1> SUFFICES ASSUME Init PROVE PairInv
  OBVIOUS
<1>1. /\ stored = <<>> /\ pending = Nothing /\ phase = "idle" /\ told = {} /\ turn = 0 /\ count = 0
  BY DEF Init
<1>2. HistoryInv
  BY HistoryInitially
<1>3. PlacesPast
  BY <1>1 DEF PlacesPast
<1>4. OutputsPair(stored, told) /\ CallsFirst(CallsIn(stored), told)
  <2>1. Len(stored) = 0
    BY <1>1, Empty
  <2> QED BY <1>1, <2>1, CallsInNone DEF OutputsPair, CallsFirst
<1> QED BY <1>1, <1>2, <1>3, <1>4 DEF PairInv

LEMMA PairTaken ==
  ASSUME ItemsAssumption, PairInv, NEW item \in Items,
         \/ TakeReasoning(item) \/ TakeText(item) \/ TakeMedia(item) \/ TakeCall(item)
         \/ TakeOutput(item) \/ TakeMessage(item) \/ TakeUnknown(item)
  PROVE  PairInv'
<1> DEFINE T == Tell(told, Here, item)
<1>1. /\ phase = "converting" /\ phase' = phase /\ stored' = stored /\ skip' = skip
      /\ turn' = turn /\ count' = count + 1 /\ told' = T
  BY DEF TakeReasoning, TakeText, TakeMedia, TakeCall, TakeOutput, TakeMessage, TakeUnknown, Take, Tell
<1>2. HistoryInv'
  BY HistoryTaken DEF PairInv
<1>3. /\ Here \in Nat \X Nat /\ Here[1] = turn /\ Here[2] = count + 1
      /\ ~Placed(Here, told)
      /\ \A t \in told : t.at \in Nat \X Nat /\ t.at[1] <= Here[1]
  BY <1>1, HereIsNew DEF PairInv
<1>4. PlacesPast'
  <2>1. \A t \in T : t \in told \/ t.at = Here
    BY DEF Tell
  <2>2. turn \in Nat /\ count \in Nat
        /\ \A t \in told : t.at[1] = turn => t.at[2] <= count + 0
    BY <1>1 DEF PairInv, PlacesPast
  <2> HIDE DEF T
  <2>3. ASSUME NEW t \in T
        PROVE  /\ t.at \in Nat \X Nat /\ t.at[1] <= turn
               /\ t.at[1] = turn => t.at[2] <= (count + 1) + 0
    BY <1>3, <2>1, <2>2
  <2> QED BY <1>1, <2>2, <2>3 DEF PlacesPast
<1>5. TakenPairs(item)
  BY <1>1, PairsTaken DEF TakenPairs
<1>6. OutputsPair(stored, T) /\ CallsFirst(CallsIn(stored), T)
  <2> DEFINE at == Here
             S == CallsIn(stored)
  <2>1. /\ at \in Nat \X Nat /\ ~Placed(at, told)
        /\ \A t \in told : t.at \in Nat \X Nat /\ t.at[1] <= at[1]
    BY <1>3
  <2>2. Messages(stored) /\ OutputsPair(stored, told) /\ CallsFirst(S, told)
    BY DEF PairInv, HistoryInv
  <2> HIDE DEF at, S
  <2>3. OutputsPair(stored, Tell(told, at, item)) /\ CallsFirst(S, Tell(told, at, item))
    BY <2>1, <2>2, ToldStands
  <2> QED BY <2>3 DEF at, S
<1>7. CallsFirst(CallsHeld', T) /\ CallsRecent(CallsHeld', turn, skip)
  <2>1. PICK N : /\ CallsHeld' \subseteq CallsHeld \cup N
                 /\ \A d \in N : d.by = Here
                 /\ (N # {} /\ item.type = "call" /\ item.id # NoId) => item.id \notin skip
    BY <1>5 DEF TakenPairs
  <2> DEFINE held == CallsHeld'
  <2>2. held \subseteq CallsHeld \cup N
    BY <2>1
  <2> HIDE DEF held
  <2>3. CallsFirst(held, Tell(told, Here, item)) /\ CallsRecent(held, turn, skip)
    BY <1>1, <2>1, <2>2, HeldGrows
  <2> QED BY <2>3 DEF held
<1>8. OutputsPair(messages', T) /\ Recent(messages', turn, skip)
  BY <1>5 DEF TakenPairs
<1> HIDE DEF T
<1> QED BY <1>1, <1>2, <1>4, <1>6, <1>7, <1>8 DEF PairInv

LEMMA PairBegun ==
  ASSUME PairInv, NEW instructed \in BOOLEAN, Begin(instructed)
  PROVE  PairInv'
<1> DEFINE b    == RestoreReasoning(stored)
           at   == <<turn + 1, 0>>
           m    == System(<<at>>)
           item == Item("message", "system", NoId, TRUE, FALSE, <<>>)
<1>1. /\ phase = "idle" /\ phase' = "converting" /\ stored' = stored /\ pending' = pending
      /\ turn' = turn + 1 /\ count' = 0 /\ skip' = ExistingCallIds(messages')
      /\ IF instructed THEN messages' = b \o <<m>> /\ told' = Tell(told, at, item)
         ELSE messages' = b \o <<>> /\ told' = told
  BY DEF Begin, Tell
<1>2. HistoryInv' /\ Messages(messages') /\ Messages(stored)
  <2>1. HistoryInv'
    BY HistoryBegun DEF PairInv
  <2> QED BY <1>1, <2>1 DEF PairInv, HistoryInv
<1>3. pending = Nothing /\ PlacesPast /\ OutputsPair(stored, told) /\ CallsFirst(CallsIn(stored), told)
  BY <1>1 DEF PairInv
<1>4. at \in Nat \X Nat /\ at[1] = turn + 1 /\ at[2] = 0 /\ turn \in Nat
  BY <1>3 DEF PlacesPast
<1>5. /\ IsMessage(m) /\ m.role = "system" /\ m.calls = <<>>
  <2> DEFINE h == <<at>>
  <2>1. IsSeq(h) /\ IsSeq(<<>>)
    BY Single, Empty
  <2> HIDE DEF h
  <2>2. IsMessage(System(h)) /\ System(h).role = "system" /\ System(h).calls = <<>>
    BY <2>1 DEF IsMessage, Message, System
  <2> QED BY <2>2 DEF h
<1> HIDE DEF at, m, item
<1>6. /\ \A t \in told : t.at \in Nat \X Nat /\ t.at[1] <= at[1] /\ t.at[1] # at[1]
      /\ ~Placed(at, told)
  <2>1. ASSUME NEW t \in told PROVE t.at \in Nat \X Nat /\ t.at[1] <= at[1] /\ t.at[1] # at[1]
    <3>1. t.at \in Nat \X Nat /\ t.at[1] <= turn /\ t.at[1] \in Nat
      BY <1>3 DEF PlacesPast
    <3> QED BY <1>4, <3>1
  <2> QED BY <2>1 DEF Placed
<1>7. Messages(b) /\ OutputsPair(b, told) /\ CallsIn(b) \subseteq CallsIn(stored)
  <2>1. Messages(b) /\ Len(b) = Len(stored) /\ \A k \in 1..Len(stored) : Alike(b[k], stored[k])
    BY <1>2, RestoreFacts DEF Alike
  <2>2. Len(stored) \in Nat
    BY <1>2, SeqFacts DEF Messages
  <2> HIDE DEF b
  <2>3. Thins(b, stored)
    BY <2>1, <2>2, AlikeThins
  <2> QED BY <1>2, <1>3, <2>1, <2>3, ThinsPair
<1> HIDE DEF b
<1>8. /\ OutputsPair(stored, told') /\ CallsFirst(CallsIn(stored), told')
      /\ OutputsPair(b, told')
  <2>1. CASE ~instructed
    BY <1>1, <1>3, <1>7, <2>1
  <2>2. CASE instructed
    <3>1. OutputsPair(stored, Tell(told, at, item)) /\ CallsFirst(CallsIn(stored), Tell(told, at, item))
      BY <1>2, <1>3, <1>4, <1>6, ToldStands
    <3>2. OutputsPair(b, Tell(told, at, item))
      BY <1>6, <1>7, ToldPairs
    <3> QED BY <1>1, <2>2, <3>1, <3>2
  <2> QED BY <2>1, <2>2
<1>9. OutputsPair(messages', told') /\ CallsIn(messages') \subseteq CallsIn(stored)
  <2>1. CASE ~instructed
    <3>1. messages' = b
      BY <1>1, <1>7, <2>1, Empty DEF Messages
    <3> QED BY <1>7, <1>8, <3>1
  <2>2. CASE instructed
    <3>1. messages' = b \o <<m>>
      BY <1>1, <2>2
    <3>2. OutputsPair(b \o <<m>>, told')
      BY <1>5, <1>7, <1>8, OneMorePairs DEF Brings
    <3>3. CallsIn(<<m>>) = {}
      <4>1. ToSet(<<>>) = {}
        BY DEF ToSet
      <4> QED BY <1>5, <4>1, CallsInOne
    <3> DEFINE q == <<m>>
    <3>4. Messages(q)
      BY <1>5, OneMessage
    <3>5. CallsIn(q) = {} /\ messages' = b \o q
      BY <3>1, <3>3
    <3> HIDE DEF q
    <3>6. CallsIn(messages') = CallsIn(b)
      <4>1. CallsIn(b \o q) = CallsIn(b) \cup CallsIn(q)
        BY <1>7, <3>4, CallsInConcat
      <4> QED BY <3>5, <4>1
    <3> QED BY <1>7, <3>1, <3>2, <3>6
  <2> QED BY <2>1, <2>2
<1>10. CallsHeld' = CallsIn(messages')
  <2>1. ToSet(pending'.calls) = {}
    BY <1>1, <1>3 DEF Nothing, ToSet
  <2> QED BY <2>1 DEF CallsHeld
<1>11. CallsFirst(CallsHeld', told')
  <2> DEFINE held == CallsHeld'
  <2>1. held \subseteq CallsIn(stored)
    BY <1>9, <1>10
  <2> HIDE DEF held
  <2>2. CallsFirst(held, told')
    BY <1>8, <2>1, CallsFewer
  <2> QED BY <2>2 DEF held
<1>12. Recent(messages', turn', skip') /\ CallsRecent(CallsHeld', turn', skip')
  <2> DEFINE ms == messages'
  <2>1. Messages(ms) /\ DOMAIN ms = 1..Len(ms)
    BY <1>2, SeqFacts DEF Messages
  <2>2. skip' = ExistingCallIds(ms) /\ CallsHeld' = CallsIn(ms)
    BY <1>1, <1>10
  <2> HIDE DEF ms
  <2>3. Recent(ms, turn', ExistingCallIds(ms))
    BY <2>1 DEF Recent, ExistingCallIds
  <2>4. ASSUME NEW d \in CallsIn(ms), d.id # NoId PROVE d.id \in ExistingCallIds(ms)
    <3>1. PICK k \in DOMAIN ms : d \in ToSet(ms[k].calls)
      BY DEF CallsIn
    <3>2. d.id \in CallIds(ms[k])
      BY <3>1 DEF CallIds, ToSet
    <3> QED BY <2>4, <3>1, <3>2 DEF ExistingCallIds
  <2>5. CallsRecent(CallsIn(ms), turn', ExistingCallIds(ms))
    BY <2>4 DEF CallsRecent
  <2> QED BY <2>2, <2>3, <2>5 DEF ms
<1>13. PlacesPast'
  <2>1. \A t \in told' : t \in told \/ t.at = at
    BY <1>1 DEF Tell
  <2>2. ASSUME NEW t \in told'
        PROVE  /\ t.at \in Nat \X Nat /\ t.at[1] <= turn + 1
               /\ t.at[1] = turn + 1 => t.at[2] <= 0 + 0
    BY <1>4, <1>6, <2>1
  <2> QED BY <1>1, <1>4, <2>2 DEF PlacesPast
<1> QED BY <1>1, <1>2, <1>8, <1>9, <1>11, <1>12, <1>13 DEF PairInv

LEMMA PairSent ==
  ASSUME PairInv, Send
  PROVE  PairInv'
<1> DEFINE l == FlushPending(messages, pending)
           c == CollapseSystemToHead(Sanitize(l))
<1>1. /\ phase = "converting" /\ phase' = "sent" /\ stored' = stored /\ pending' = Nothing
      /\ messages' = c /\ UNCHANGED <<skip, turn, count, told>>
  BY DEF Send
<1>2. HistoryInv'
  BY HistorySent DEF PairInv
<1>3. Messages(l) /\ OutputsPair(l, told) /\ CallsIn(l) = CallsHeld
  BY <1>1, FlushPairs
<1> HIDE DEF l
<1>4. OutputsPair(c, told) /\ CallsIn(c) \subseteq CallsHeld
  BY <1>3, OrderedPairs
<1> HIDE DEF c
<1>5. CallsHeld' \subseteq CallsHeld
  <2>1. ToSet(pending'.calls) = {}
    BY <1>1 DEF Nothing, ToSet
  <2> QED BY <1>1, <1>4, <2>1 DEF CallsHeld
<1>6. CallsFirst(CallsHeld', told)
  <2> DEFINE held == CallsHeld'
  <2>1. held \subseteq CallsHeld
    BY <1>5
  <2> HIDE DEF held
  <2>2. CallsFirst(held, told)
    BY <1>1, <2>1, CallsFewer DEF PairInv
  <2> QED BY <2>2 DEF held
<1>7. PlacesPast'
  BY <1>1 DEF PairInv, PlacesPast
<1>8. OutputsPair(stored, told) /\ CallsFirst(CallsIn(stored), told)
  BY DEF PairInv
<1> QED BY <1>1, <1>2, <1>4, <1>6, <1>7, <1>8 DEF PairInv

LEMMA PairAnswered ==
  ASSUME ItemsAssumption, PairInv, NEW answer \in Answers, Answer(answer)
  PROVE  PairInv'
<1> DEFINE T == Tell(told, Here, answer)
           m == BuildMessage(answer)
           S == CallsIn(messages)
<1>1. /\ phase = "sent" /\ phase' = "idle" /\ UNCHANGED <<messages, pending, skip, turn, count>>
      /\ told' = T
      /\ stored' = messages \o (IF answer.type = "message" THEN <<m>> ELSE <<>>)
  BY DEF Answer, Tell
<1>2. HistoryInv'
  BY HistoryAnswered DEF PairInv
<1>3. /\ Here \in Nat \X Nat /\ Here[1] = turn /\ Here[2] = count + 1
      /\ ~Placed(Here, told)
      /\ \A t \in told : t.at \in Nat \X Nat /\ t.at[1] <= Here[1]
  BY <1>1, HereIsNew DEF PairInv
<1>4. Messages(messages) /\ OutputsPair(messages, told) /\ pending = Nothing /\ PlacesPast
  BY <1>1 DEF PairInv, HistoryInv
<1>5. CallsFirst(S, told)
  <2>1. S \subseteq CallsHeld /\ CallsFirst(CallsHeld, told)
    BY <1>1 DEF PairInv, CallsHeld
  <2> HIDE DEF S
  <2> QED BY <2>1, CallsFewer
<1>6. answer \in ItemSet /\ (answer.type = "message" => answer.role = "assistant")
  BY DEF ItemsAssumption
<1>7. /\ IsMessage(m) /\ m.role = (IF answer.role = "invalid" THEN "user" ELSE answer.role)
      /\ \A d \in ToSet(m.calls) : d.by = Here
  BY <1>6, BuiltHere
<1> HIDE DEF m
<1> DEFINE at == Here
<1>8. /\ at \in Nat \X Nat /\ ~Placed(at, told)
      /\ \A t \in told : t.at \in Nat \X Nat /\ t.at[1] <= at[1]
      /\ T = Tell(told, at, answer) /\ \A d \in ToSet(m.calls) : d.by = at
  BY <1>3, <1>7
<1> HIDE DEF at, T
<1>9. OutputsPair(messages, T) /\ CallsFirst(S, T)
  <2> HIDE DEF S
  <2> QED BY <1>4, <1>5, <1>8, ToldStands
<1>10. OutputsPair(stored', T) /\ CallsFirst(CallsIn(stored'), T)
  <2>1. CASE answer.type # "message"
    <3>1. stored' = messages
      BY <1>1, <1>4, <2>1, Empty DEF Messages
    <3> QED BY <1>9, <3>1
  <2>2. CASE answer.type = "message"
    <3> DEFINE q == <<m>>
    <3>1. stored' = messages \o q
      BY <1>1, <2>2
    <3>2. m.role = "assistant"
      BY <1>6, <1>7, <2>2
    <3>3. OutputsPair(messages \o q, T)
      BY <1>4, <1>7, <1>9, <3>2, OneMorePairs DEF Brings
    <3>4. Messages(q) /\ CallsIn(q) = ToSet(m.calls)
      BY <1>7, OneMessage, CallsInOne
    <3> HIDE DEF q
    <3>5. CallsIn(messages \o q) = S \cup ToSet(m.calls)
      BY <1>4, <3>4, CallsInConcat
    <3> HIDE DEF S
    <3> DEFINE all == CallsIn(messages \o q)
               new == ToSet(m.calls)
    <3>6. all \subseteq S \cup new /\ \A d \in new : d.by = at
      BY <1>8, <3>5
    <3> HIDE DEF all, new
    <3>7. CallsFirst(all, Tell(told, at, answer))
      BY <1>5, <1>8, <2>2, <3>6, CallsGrow
    <3> QED BY <1>8, <3>1, <3>3, <3>7 DEF all
  <2> QED BY <2>1, <2>2
<1>11. CallsFirst(CallsHeld', T)
  <2>1. ToSet(<<>>) = {}
    BY DEF ToSet
  <2>2. CallsHeld' = S
    BY <1>1, <1>4, <2>1 DEF CallsHeld, Nothing
  <2> QED BY <1>9, <2>2
<1>12. PlacesPast'
  <2>1. \A t \in T : t \in told \/ t.at = Here
    BY DEF Tell, T
  <2>2. turn \in Nat /\ count \in Nat
        /\ \A t \in told : t.at[1] = turn => t.at[2] <= count + 0
    BY <1>1, <1>4 DEF PlacesPast
  <2>3. \A t \in told : t.at \in Nat \X Nat
    BY <1>3
  <2>4. ASSUME NEW t \in T
        PROVE  /\ t.at \in Nat \X Nat /\ t.at[1] <= turn
               /\ t.at[1] = turn => t.at[2] <= count + 1
    BY <1>3, <2>1, <2>2, <2>3, <2>4
  <2> QED BY <1>1, <2>2, <2>4 DEF PlacesPast
<1> QED BY <1>1, <1>2, <1>4, <1>9, <1>10, <1>11, <1>12 DEF PairInv

(* A tool message stands behind the call it answers, and a client that      *)
(* sends again what the history has does not double it: for any items and   *)
(* answers and conversations of any length (CallsAndOutputsPair;            *)
(* existing_call_ids, has_matching_call).                                   *)
THEOREM PairsKept == Spec => []CallsAndOutputsPair
<1>1. Init => PairInv
  BY PairInitially
<1>2. PairInv /\ [Next]_vars => PairInv'
  <2> SUFFICES ASSUME PairInv, [Next]_vars PROVE PairInv'
    OBVIOUS
  <2>1. ASSUME NEW instructed \in BOOLEAN, Begin(instructed) PROVE PairInv'
    BY <2>1, PairBegun
  <2>2. ASSUME NEW item \in Items,
               \/ TakeReasoning(item) \/ TakeText(item) \/ TakeMedia(item) \/ TakeCall(item)
               \/ TakeOutput(item) \/ TakeMessage(item) \/ TakeUnknown(item)
        PROVE  PairInv'
    BY <2>2, ItemsAssumption, PairTaken
  <2>3. CASE Send
    BY <2>3, PairSent
  <2>4. ASSUME NEW answer \in Answers, Answer(answer) PROVE PairInv'
    BY <2>4, ItemsAssumption, PairAnswered
  <2>5. CASE UNCHANGED vars
    <3>1. HistoryInv'
      BY <2>5 DEF PairInv, HistoryInv, HistoryStands, Sent, vars, Continues
    <3> QED BY <2>5, <3>1 DEF PairInv, PlacesPast, CallsHeld, vars
  <2> QED BY <2>1, <2>2, <2>3, <2>4, <2>5 DEF Next
<1>3. PairInv => CallsAndOutputsPair
  <2> SUFFICES ASSUME PairInv, phase = "sent", NEW t \in told, t.item.id # NoId
               PROVE  /\ t.item.type = "call" =>
                           \A d, c \in CallsIn(messages) :
                             d.by = t.at /\ c.id = t.item.id => c.by[1] >= t.at[1]
                      /\ t.item.type = "output" =>
                           \A k \in DOMAIN messages :
                             messages[k].role = "tool" /\ messages[k].text = <<t.at>> =>
                               /\ HasMatchingCall(messages[k].callId, SubSeq(messages, 1, k - 1))
                               /\ \A j \in 1..k-1 : messages[j].callId = messages[k].callId =>
                                    \A p \in ToSet(messages[j].text) : p[1] = t.at[1]
    BY DEF CallsAndOutputsPair, Sent
  <2>1. OutputsPair(messages, told) /\ CallsFirst(CallsHeld, told) /\ Messages(messages)
    BY DEF PairInv, HistoryInv
  <2>2. ASSUME t.item.type = "call", NEW d \in CallsIn(messages), NEW c \in CallsIn(messages),
               d.by = t.at, c.id = t.item.id
        PROVE  c.by[1] >= t.at[1]
    BY <2>1, <2>2 DEF CallsFirst, OfCall, CallsHeld
  <2>3. ASSUME t.item.type = "output", NEW k \in DOMAIN messages,
               messages[k].role = "tool", messages[k].text = <<t.at>>
        PROVE  /\ HasMatchingCall(messages[k].callId, SubSeq(messages, 1, k - 1))
               /\ \A j \in 1..k-1 : messages[j].callId = messages[k].callId =>
                    \A p \in ToSet(messages[j].text) : p[1] = t.at[1]
    <3>1. k \in 1..Len(messages) /\ Len(messages) \in Nat
      BY <2>1, SeqFacts DEF Messages
    <3>2. Paired(messages, k, t)
      BY <2>1, <2>3, <3>1 DEF OutputsPair, OfOutput, Brings
    <3>3. HasMatchingCall(messages[k].callId, SubSeq(messages, 1, k - 1))
      <4> DEFINE s == SubSeq(messages, 1, k - 1)
      <4>1. PICK j \in 1..(k - 1) : messages[j].role = "assistant" /\ messages[k].callId \in CallIds(messages[j])
        BY <3>2 DEF Paired
      <4>2. DOMAIN s = 1..(k - 1) /\ \A i \in 1..(k - 1) : s[i] = messages[i]
        <5>1. PICK E : messages \in Seq(E)
          BY <2>1 DEF Messages, IsSeq
        <5>2. s = [i \in 1..(k - 1) |-> messages[i]]
          BY <3>1, <5>1
        <5> QED BY <5>2
      <4> HIDE DEF s
      <4>3. HasMatchingCall(messages[k].callId, s)
        BY <4>1, <4>2 DEF HasMatchingCall
      <4> QED BY <4>3 DEF s
    <3> QED BY <3>2, <3>3 DEF Paired
  <2> QED BY <2>2, <2>3
<1> QED BY <1>1, <1>2, <1>3, PTL DEF Spec
=============================================================================
