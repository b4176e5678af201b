---------------------- MODULE ResponsesStream_proofs -----------------------
(***************************************************************************)
(* The promises of a turn that hold for every upstream, body, tool context *)
(* and number of messages: the inductive invariant IInv of TurnSpec and    *)
(* what follows from it. Core is the part about the turn alone, kept by    *)
(* every chunk, by finalize and by fail; Accounted relates it to the       *)
(* messages it was fed, which is what the save at the end depends on;      *)
(* CallsFollowed relates the tool calls in the log to the fragments that   *)
(* named them. The first half is about one call: what the log says of it   *)
(* (CallTold) and how each handler keeps that so (KeepsTold, TellsCalls).  *)
(***************************************************************************)
EXTENDS StreamLemmas

-----------------------------------------------------------------------------
(* The input of a custom tool, as far as it is there. *)

(* Of two sequences of the same length with the same elements there is one. *)
LEMMA SameSeq ==
  ASSUME NEW p, NEW q, IsSeq(p), IsSeq(q), Len(p) = Len(q), \A k \in 1..Len(p) : p[k] = q[k]
  PROVE  p = q
<1>1. PICK S : p \in Seq(S)
  BY DEF IsSeq
<1>2. PICK T : q \in Seq(T)
  BY DEF IsSeq
<1>3. p \in Seq(S \cup T) /\ q \in Seq(S \cup T)
  BY <1>1, <1>2, SeqMonotonic
<1> QED BY <1>3, SeqEqual

(* A part of a sequence. *)
LEMMA PartOf ==
  ASSUME NEW q, IsSeq(q), NEW a \in Nat \ {0}, NEW b \in 0..Len(q), a <= b + 1
  PROVE  LET p == SubSeq(q, a, b)
         IN  /\ IsSeq(p) /\ Len(p) = b - a + 1
             /\ \A k \in 1..Len(p) : p[k] = q[a + k - 1]
<1>1. PICK S : q \in Seq(S)
  BY DEF IsSeq
<1>2. Len(q) \in Nat
  BY SeqFacts
<1>3. \A i \in a..b : q[i] \in S
  BY <1>1, <1>2, ElementOfSeq
<1>4. /\ SubSeq(q, a, b) \in Seq(S)
      /\ Len(SubSeq(q, a, b)) = IF a <= b THEN b - a + 1 ELSE 0
      /\ \A i \in 1..(b - a + 1) : SubSeq(q, a, b)[i] = q[a + i - 1]
  BY <1>1, <1>2, <1>3, SubSeqProperties
<1>5. Len(SubSeq(q, a, b)) = b - a + 1
  BY <1>2, <1>4
<1> QED BY <1>4, <1>5 DEF IsSeq

(* A prefix, element by element. *)
LEMMA PrefixIs ==
  ASSUME NEW p, NEW q, IsSeq(p), IsSeq(q)
  PROVE  IsPrefix(p, q) <=> Len(p) <= Len(q) /\ \A k \in 1..Len(p) : q[k] = p[k]
<1>1. Len(p) \in Nat /\ Len(q) \in Nat
  BY SeqFacts
<1>2. SubSeq(p, 1, Len(p)) = p
  <2>1. PICK S : p \in Seq(S)
    BY DEF IsSeq
  <2> QED BY <2>1, SubSeqFull
<1>3. CASE ~(Len(p) <= Len(q))
  BY <1>3 DEF IsPrefix
<1>4. CASE Len(p) <= Len(q)
  <2> DEFINE r == SubSeq(q, 1, Len(p))
  <2>1. /\ IsSeq(r) /\ Len(r) = Len(p) - 1 + 1
        /\ \A k \in 1..Len(r) : r[k] = q[1 + k - 1]
    BY <1>1, <1>4, PartOf
  <2> HIDE DEF r
  <2>2. Len(r) = Len(p) /\ \A k \in 1..Len(p) : r[k] = q[k]
    BY <1>1, <2>1
  <2>3. ASSUME \A k \in 1..Len(p) : q[k] = p[k] PROVE p = r
    <3>1. \A k \in 1..Len(p) : p[k] = r[k]
      BY <2>2, <2>3
    <3> QED BY <2>1, <2>2, <3>1, SameSeq
  <2>4. p = r => \A k \in 1..Len(p) : q[k] = p[k]
    BY <2>2
  <2> QED BY <1>2, <1>4, <2>3, <2>4 DEF IsPrefix, r
<1> QED BY <1>3, <1>4

(* What is behind a prefix completes it. *)
LEMMA PrefixCompleted ==
  ASSUME NEW p, NEW q, IsSeq(p), IsSeq(q), IsPrefix(p, q)
  PROVE  p \o SubSeq(q, Len(p) + 1, Len(q)) = q
<1> DEFINE r == SubSeq(q, Len(p) + 1, Len(q))
           c == p \o r
<1>1. Len(p) \in Nat /\ Len(q) \in Nat /\ Len(p) <= Len(q) /\ \A k \in 1..Len(p) : q[k] = p[k]
  BY SeqFacts, PrefixIs
<1>2. /\ IsSeq(r) /\ Len(r) = Len(q) - (Len(p) + 1) + 1
      /\ \A k \in 1..Len(r) : r[k] = q[Len(p) + 1 + k - 1]
  BY <1>1, PartOf
<1> HIDE DEF r
<1>3. /\ IsSeq(c) /\ Len(c) = Len(p) + Len(r)
      /\ \A k \in 1..Len(p) : c[k] = p[k]
      /\ \A k \in 1..Len(r) : c[Len(p) + k] = r[k]
  BY <1>2, Concatenated
<1> HIDE DEF c
<1>4. Len(c) = Len(q)
  BY <1>1, <1>2, <1>3
<1>5. ASSUME NEW k \in 1..Len(c) PROVE c[k] = q[k]
  <2>1. CASE k <= Len(p)
    BY <1>1, <1>3, <2>1
  <2>2. CASE ~(k <= Len(p))
    <3> DEFINE j == k - Len(p)
    <3>1. j \in 1..Len(r) /\ Len(p) + j = k /\ Len(p) + 1 + j - 1 = k
      BY <1>1, <1>2, <1>4, <2>2
    <3> HIDE DEF j
    <3> QED BY <1>2, <1>3, <3>1
  <2> QED BY <2>1, <2>2
<1> QED BY <1>3, <1>4, <1>5, SameSeq DEF c, r

(* A prefix of a prefix, and the least and the greatest prefix. *)
LEMMA PrefixOrder ==
  ASSUME NEW p, IsSeq(p)
  PROVE  /\ IsPrefix(<<>>, p) /\ IsPrefix(p, p)
         /\ \A q, r : IsSeq(q) /\ IsSeq(r) /\ IsPrefix(p, q) /\ IsPrefix(q, r) => IsPrefix(p, r)
<1>1. IsSeq(<<>>) /\ Len(<<>>) = 0 /\ Len(p) \in Nat
  BY SeqFacts DEF IsSeq
<1>2. IsPrefix(<<>>, p) /\ IsPrefix(p, p)
  BY <1>1, PrefixIs
<1>3. ASSUME NEW q, NEW r, IsSeq(q), IsSeq(r), IsPrefix(p, q), IsPrefix(q, r)
      PROVE  IsPrefix(p, r)
  <2>1. Len(q) \in Nat /\ Len(r) \in Nat
    BY <1>3, SeqFacts
  <2>2. Len(p) <= Len(q) /\ \A k \in 1..Len(p) : q[k] = p[k]
    BY <1>3, PrefixIs
  <2>3. Len(q) <= Len(r) /\ \A k \in 1..Len(q) : r[k] = q[k]
    BY <1>3, PrefixIs
  <2>4. Len(p) <= Len(r) /\ \A k \in 1..Len(p) : r[k] = p[k]
    BY <1>1, <2>1, <2>2, <2>3
  <2> QED BY <1>3, <2>4, PrefixIs
<1> QED BY <1>2, <1>3

(* Some set of numbers that is not empty has a least. *)
LEMMA LeastOf ==
  ASSUME NEW S, S \subseteq Nat, S # {}
  PROVE  \E x \in S : \A j \in S : x <= j
<1> SUFFICES ASSUME \A x \in S : \E j \in S : ~(x <= j)
             PROVE  FALSE
  OBVIOUS
<1>1. \A x \in S : \E j \in S : j < x
  OBVIOUS
<1> QED BY <1>1, EachFinished!NoDescent

(* Where the input ends, or the arguments do. *)
EndsAt(args, e) ==
  /\ e \in 2..(Len(args) + 1)
  /\ \A j \in 2..(e - 1) : args[j] # "q"
  /\ e <= Len(args) => args[e] = "q"

LEMMA InputEnds ==
  ASSUME NEW args, IsSeq(args), args # <<>>, args[1] = "i"
  PROVE  \E e : EndsAt(args, e) /\ PartialCustomInput(args) = SubSeq(args, 2, e - 1)
<1> DEFINE quotes == {k \in DOMAIN args : args[k] = "q"}
           e == IF quotes = {} THEN Len(args) + 1 ELSE CHOOSE k \in quotes : \A j \in quotes : k <= j
<1>1. Len(args) \in Nat \ {0} /\ DOMAIN args = 1..Len(args)
  <2>1. Len(args) \in Nat /\ DOMAIN args = 1..Len(args)
    BY SeqFacts
  <2>2. PICK S : args \in Seq(S)
    BY DEF IsSeq
  <2>3. Len(args) # 0
    BY <2>2, EmptySeq
  <2> QED BY <2>1, <2>3
<1>2. PartialCustomInput(args) = SubSeq(args, 2, e - 1)
  BY DEF PartialCustomInput
<1>3. CASE quotes = {}
  <2>1. e = Len(args) + 1 /\ \A j \in 2..Len(args) : args[j] # "q"
    BY <1>1, <1>3
  <2> HIDE DEF e
  <2> QED BY <1>1, <1>2, <2>1 DEF EndsAt
<1>4. CASE quotes # {}
  <2>1. quotes \subseteq Nat
    BY <1>1
  <2>2. e \in quotes /\ \A j \in quotes : e <= j
    BY <1>4, <2>1, LeastOf
  <2>3. e \in 1..Len(args) /\ args[e] = "q" /\ \A j \in 1..Len(args) : args[j] = "q" => e <= j
    BY <1>1, <2>2
  <2> HIDE DEF e, quotes
  <2>4. e # 1
    BY <2>3
  <2> QED BY <1>1, <1>2, <2>3, <2>4 DEF EndsAt
<1> QED BY <1>3, <1>4

(* The input is part of the arguments. *)
LEMMA PartialInputIs ==
  ASSUME NEW args, IsSeq(args)
  PROVE  IsSeq(PartialCustomInput(args))
<1>1. CASE args = <<>> \/ args[1] # "i"
  BY <1>1 DEF PartialCustomInput, IsSeq
<1>2. CASE ~(args = <<>> \/ args[1] # "i")
  <2>1. PICK e : EndsAt(args, e) /\ PartialCustomInput(args) = SubSeq(args, 2, e - 1)
    BY <1>2, InputEnds
  <2>2. e - 1 \in 0..Len(args) /\ 2 <= e - 1 + 1
    BY <2>1, SeqFacts DEF EndsAt
  <2>3. IsSeq(SubSeq(args, 2, e - 1))
    BY <2>2, PartOf
  <2> QED BY <2>1, <2>3
<1> QED BY <1>1, <1>2

(* More arguments have more of the input. *)
LEMMA PartialInputGrows ==
  ASSUME NEW args, NEW more, IsSeq(args), IsSeq(more)
  PROVE  IsPrefix(PartialCustomInput(args), PartialCustomInput(args \o more))
<1> DEFINE all == args \o more
           p == PartialCustomInput(args)
           q == PartialCustomInput(all)
<1>1. /\ IsSeq(all) /\ Len(all) = Len(args) + Len(more)
      /\ Len(args) \in Nat /\ Len(more) \in Nat
      /\ \A k \in 1..Len(args) : all[k] = args[k]
  BY Concatenated, SeqFacts
<1>2. IsSeq(p) /\ IsSeq(q)
  BY <1>1, PartialInputIs
<1> HIDE DEF all
<1>3. CASE args = <<>> \/ args[1] # "i"
  <2>1. p = <<>>
    BY <1>3 DEF PartialCustomInput
  <2> QED BY <1>2, <2>1, PrefixOrder DEF all
<1>4. CASE ~(args = <<>> \/ args[1] # "i")
  <2>1. PICK e : EndsAt(args, e) /\ p = SubSeq(args, 2, e - 1)
    BY <1>4, InputEnds
  <2>2. 1 \in 1..Len(args) /\ all # <<>> /\ all[1] = "i"
    <3>1. Len(args) # 0
      <4>1. PICK S : args \in Seq(S)
        BY DEF IsSeq
      <4> QED BY <1>4, <4>1, EmptySeq
    <3> QED BY <1>1, <1>4, <3>1
  <2>3. PICK f : EndsAt(all, f) /\ q = SubSeq(all, 2, f - 1)
    BY <1>1, <2>2, InputEnds
  <2>4. e <= f
    <3> SUFFICES ASSUME ~(e <= f) PROVE FALSE
      OBVIOUS
    <3>1. f \in 2..(e - 1) /\ f \in 1..Len(args) /\ f <= Len(all)
      BY <1>1, <2>1, <2>3 DEF EndsAt
    <3> QED BY <1>1, <2>1, <2>3, <3>1 DEF EndsAt
  <2>5. /\ e \in Nat /\ f \in Nat
        /\ e - 1 \in 0..Len(args) /\ 2 <= e - 1 + 1
        /\ f - 1 \in 0..Len(all) /\ 2 <= f - 1 + 1
    BY <1>1, <2>1, <2>3 DEF EndsAt
  <2>6. Len(p) = e - 1 - 2 + 1 /\ \A k \in 1..Len(p) : p[k] = args[2 + k - 1]
    BY <2>1, <2>5, PartOf
  <2>7. Len(q) = f - 1 - 2 + 1 /\ \A k \in 1..Len(q) : q[k] = all[2 + k - 1]
    BY <1>1, <2>3, <2>5, PartOf
  <2> HIDE DEF p, q
  <2>8. Len(p) <= Len(q)
    BY <2>4, <2>5, <2>6, <2>7
  <2>9. ASSUME NEW k \in 1..Len(p) PROVE q[k] = p[k]
    <3>1. k \in 1..Len(q) /\ 2 + k - 1 \in 1..Len(args)
      BY <1>1, <2>4, <2>5, <2>6, <2>7
    <3> QED BY <1>1, <2>6, <2>7, <3>1
  <2> QED BY <1>2, <2>8, <2>9, PrefixIs DEF p, q, all
<1> QED BY <1>3, <1>4

(* Once the arguments are an object, the input is all there. *)
LEMMA InputWhole ==
  ASSUME NEW c, IsSeq(c.args), IsInputObject(c.args), ResolveToolKind(c.name) = "custom"
  PROVE  /\ PartialCustomInput(c.args) = CustomInput(c.args)
         /\ FinalArguments(c) = CustomInput(c.args)
<1> DEFINE args == c.args
<1>1. /\ Len(args) \in Nat /\ DOMAIN args = 1..Len(args) /\ Len(args) >= 2
      /\ args[1] = "i" /\ args[Len(args)] = "q" /\ \A k \in 2..(Len(args) - 1) : args[k] # "q"
  BY SeqFacts DEF IsInputObject
<1>2. ~BlankArgs(args) /\ ~IsObject(args)
  <2>1. 1 \in DOMAIN args /\ args[1] # "_"
    BY <1>1
  <2>2. ~BlankArgs(args)
    BY <2>1 DEF BlankArgs
  <2>3. ~IsObject(args)
    <3> SUFFICES ASSUME NEW o \in DOMAIN args, NEW e \in DOMAIN args,
                        args[o] \in {"act", "bad", "l"}, args[e] = "r",
                        \A k \in DOMAIN args \ {o, e} : args[k] = "_"
                 PROVE  FALSE
      BY DEF IsObject
    <3>1. o # 1 /\ e # 1
      BY <1>1
    <3> QED BY <2>1, <3>1
  <2> QED BY <2>2, <2>3
<1>3. Canonical(args) = args
  BY <1>2 DEF Canonical
<1>4. args # <<>>
  BY <1>1
<1>5. PICK e : EndsAt(args, e) /\ PartialCustomInput(args) = SubSeq(args, 2, e - 1)
  BY <1>1, <1>4, InputEnds
<1>6. e = Len(args)
  BY <1>1, <1>5 DEF EndsAt
<1> QED BY <1>3, <1>5, <1>6 DEF CustomInput, FinalArguments

-----------------------------------------------------------------------------
(* What the log says of a tool call. *)

(* The log goes on without a word about the item. *)
Unsaid(out, log, id) ==
  /\ IsSeq(out) /\ IsSeq(log) /\ Len(out) <= Len(log)
  /\ \A k \in 1..Len(out) : log[k] = out[k]
  /\ \A k \in (Len(out) + 1)..Len(log) : log[k].item # id

(* Nothing is heard of an item that nothing is said of. *)
LEMMA HeardUnsaid ==
  ASSUME NEW out, NEW log, NEW id, NEW part, Unsaid(out, log, id)
  PROVE  Heard(log, id, part) = Heard(out, id, part)
<1> DEFINE n == Len(out)
           m == Len(log)
           upto(k) == HeardUpTo(out, id, part, IF k <= n THEN k ELSE n)
           S == {k \in Nat : k <= m => HeardUpTo(log, id, part, k) = upto(k)}
<1>1. /\ n \in Nat /\ m \in Nat /\ n <= m
      /\ \A k \in 1..n : log[k] = out[k]
      /\ \A k \in (n + 1)..m : log[k].item # id
  BY SeqFacts DEF Unsaid
<1>2. Heard(out, id, part) = HeardUpTo(out, id, part, n)
  BY HeardUnfolds
<1>3. Heard(log, id, part) = HeardUpTo(log, id, part, m)
  BY HeardUnfolds
<1> HIDE DEF n, m
<1>4. 0 \in S
  <2>1. 0 <= n
    BY <1>1
  <2> QED BY <2>1, HeardUnfolds
<1>5. ASSUME NEW k \in Nat \ {0}, k - 1 \in S PROVE k \in S
  <2> SUFFICES ASSUME k <= m PROVE HeardUpTo(log, id, part, k) = upto(k)
    OBVIOUS
  <2>1. HeardUpTo(log, id, part, k - 1) = upto(k - 1)
    BY <1>1, <1>5
  <2>2. HeardRound(log, id, part, k) /\ HeardRound(out, id, part, k)
    BY HeardUnfolds
  <2>3. CASE k <= n
    <3>1. log[k] = out[k] /\ k - 1 <= n
      BY <1>1, <2>3
    <3> QED BY <2>1, <2>2, <2>3, <3>1 DEF HeardRound
  <2>4. CASE ~(k <= n)
    <3>1. log[k].item # id /\ (k - 1 <= n => k - 1 = n)
      BY <1>1, <2>4
    <3> QED BY <2>1, <2>2, <2>4, <3>1 DEF HeardRound
  <2> QED BY <2>3, <2>4
<1> HIDE DEF S
<1>6. m \in S
  BY <1>1, <1>4, <1>5, Ears!Induction
<1>7. HeardUpTo(log, id, part, m) = HeardUpTo(out, id, part, n)
  BY <1>1, <1>6 DEF S
<1> QED BY <1>2, <1>3, <1>7

(* What the item of a call is known by. *)
TitleOf(c) == Title(ToolItem(c, ResolveToolKind(c.name), <<>>))

(* The item was opened, and closed if it was, under what it is known by. *)
Titled(c, out) ==
  \A k \in DOMAIN out :
    out[k].item = c.item /\ out[k].ev \in {"added", "done"} => Title(out[k].body) = TitleOf(c)

(* A function call's deltas carry its arguments. *)
Mirrored(c, out) ==
  ResolveToolKind(c.name) # "custom" => Heard(out, c.item, 1) = c.args

(* A custom tool's call that did not come out of a buffer. *)
IsCustom(c) == ResolveToolKind(c.name) = "custom" /\ ~c.resolved

(* Its deltas carry what was recorded of its input. *)
Dictated(c, out) ==
  IsCustom(c) =>
    /\ Heard(out, c.item, 1) = c.input /\ IsSeq(c.input)
    /\ IsPrefix(c.input, PartialCustomInput(c.args))

(* They carry the input, which the item has in the end. *)
Exact(c, out) ==
  IsCustom(c) /\ IsInputObject(c.args) =>
    /\ Heard(out, c.item, 1) = CustomInput(c.args)
    /\ EndTexts(out, c.item) = {CustomInput(c.args)}

(* An opened item that goes on. *)
Goes(c, out) ==
  Titled(c, out) /\ Dictated(c, out) /\ EndTexts(out, c.item) = {}

(* A call before the calls are finalized, named by the upstream or not yet. *)
OpenTold(c, out, named) ==
  /\ IsSeq(c.args)
  /\ IF named THEN c.name # "" ELSE ~HasIdentity(c) /\ ~c.added /\ ~c.buffered
  /\ IF c.added THEN Goes(c, out) /\ Mirrored(c, out) /\ ~c.buffered
     ELSE c.emitted = <<>> /\ c.input = <<>>

(* A call while they are finalized, and afterwards. *)
Settled(c, out) ==
  /\ IsSeq(c.args)
  /\ IF c.added
     THEN IF c.done THEN Titled(c, out) /\ Exact(c, out) ELSE Goes(c, out)
     ELSE /\ c.name # "" \/ (~HasIdentity(c) /\ ~c.buffered)
          /\ ~c.done => c.input = <<>>

(* What the log says of call i is what the call holds, if the upstream named *)
(* it at most once, and with both an id and a name.                          *)
CallTold(s, i, named) ==
  IF i \in DOMAIN s.tools.calls
  THEN IF s.tools.finalized THEN Settled(s.tools.calls[i], s.out)
       ELSE OpenTold(s.tools.calls[i], s.out, named)
  ELSE s.tools.finalized \/ ~named

(* Nothing new is known of an item that nothing is said of. *)
LEMMA TitledUnsaid ==
  ASSUME NEW c, NEW out, NEW log, Unsaid(out, log, c.item)
  PROVE  /\ Titled(c, out) => Titled(c, log)
         /\ Mirrored(c, out) => Mirrored(c, log)
         /\ Goes(c, out) => Goes(c, log)
         /\ Exact(c, out) => Exact(c, log)
<1>1. /\ Mirrored(c, out) => Mirrored(c, log)
      /\ Heard(log, c.item, 1) = Heard(out, c.item, 1)
  BY HeardUnsaid DEF Mirrored
<1>2. ASSUME Titled(c, out), NEW k \in DOMAIN log, log[k].item = c.item, log[k].ev \in {"added", "done"}
      PROVE  Title(log[k].body) = TitleOf(c)
  <2>1. k \in DOMAIN out /\ log[k] = out[k]
    BY <1>2, SeqFacts DEF Unsaid
  <2> QED BY <1>2, <2>1 DEF Titled
<1>3. Titled(c, out) => Titled(c, log)
  BY <1>2 DEF Titled
<1>4. EndTexts(log, c.item) = EndTexts(out, c.item)
  <2>1. /\ DOMAIN out = 1..Len(out) /\ DOMAIN log = 1..Len(log)
        /\ Len(out) \in Nat /\ Len(log) \in Nat /\ Len(out) <= Len(log)
        /\ \A k \in 1..Len(out) : log[k] = out[k]
        /\ \A k \in (Len(out) + 1)..Len(log) : log[k].item # c.item
    BY SeqFacts DEF Unsaid
  <2>2. \A k \in DOMAIN log : k \in DOMAIN out \/ log[k].item # c.item
    BY <2>1
  <2>3. \A k \in DOMAIN out : k \in DOMAIN log /\ log[k] = out[k]
    BY <2>1
  <2> QED BY <2>2, <2>3 DEF EndTexts
<1> QED BY <1>1, <1>3, <1>4 DEF Goes, Dictated, Exact

(* A call of which nothing new is said. *)
LEMMA CallUnsaid ==
  ASSUME NEW c, NEW out, NEW log, NEW named, c.added => Unsaid(out, log, c.item)
  PROVE  /\ OpenTold(c, out, named) => OpenTold(c, log, named)
         /\ Settled(c, out) => Settled(c, log)
<1> QED BY TitledUnsaid DEF OpenTold, Settled

(* What is settled was told. *)
LEMMA ToldSettles ==
  ASSUME NEW c, NEW out, NEW named, ~c.done, OpenTold(c, out, named)
  PROVE  Settled(c, out)
<1> QED BY DEF OpenTold, Settled

-----------------------------------------------------------------------------
(* Steps that leave a call alone. *)

(* The log goes on, about the reasoning, the message or no item, and the *)
(* calls stay.                                                           *)
Aside(s, t) ==
  /\ t.tools = s.tools
  /\ IsSeq(s.out) /\ IsSeq(t.out) /\ Len(s.out) <= Len(t.out)
  /\ \A k \in 1..Len(s.out) : t.out[k] = s.out[k]
  /\ \A k \in (Len(s.out) + 1)..Len(t.out) : t.out[k].item \in {<<>>, ReasoningId, MessageId}

(* That changes nothing for any call. *)
LEMMA AsideKeeps ==
  ASSUME NEW s, NEW t, NEW i, NEW named, Shown(s), Aside(s, t), CallTold(s, i, named)
  PROVE  CallTold(t, i, named)
<1>1. CASE i \notin DOMAIN s.tools.calls
  BY <1>1 DEF CallTold, Aside
<1>2. CASE i \in DOMAIN s.tools.calls
  <2>1. s.tools.calls[i].added => Unsaid(s.out, t.out, s.tools.calls[i].item)
    BY <1>2 DEF Aside, Unsaid, Shown, CallShown, IsToolId
  <2> QED BY <1>2, <2>1, CallUnsaid DEF CallTold, Aside
<1> QED BY <1>1, <1>2

(* A handler of the other items leaves the calls aside. *)
LEMMA WritesAside ==
  ASSUME NEW s, NEW t, TurnOK(s), Writes(s, t)
  PROVE  Aside(s, t)
<1> QED BY DEF Writes, Paces, Steps, Grows, TurnOK, Aside

(* Ids of opened calls stay, so two calls of one id now will be two then. *)
LEMMA DistinctBefore ==
  ASSUME NEW s, NEW t, Moves(s, t), Distinct(t)
  PROVE  Distinct(s)
<1> QED BY DEF Moves, Steps, CallsKept, Distinct

(* A step about call j leaves another one alone. *)
LEMMA OtherCallKept ==
  ASSUME NEW s, NEW t, NEW i, NEW j, NEW named, TurnOK(s), Shown(s), Moves(s, t), Distinct(t),
         t.tools.finalized = s.tools.finalized,
         OnlyOf(s, j, t), j \in DOMAIN t.tools.calls, i # j,
         i \in DOMAIN t.tools.calls <=> i \in DOMAIN s.tools.calls,
         i \in DOMAIN s.tools.calls => t.tools.calls[i] = s.tools.calls[i],
         CallTold(s, i, named)
  PROVE  CallTold(t, i, named)
<1>1. CASE i \notin DOMAIN s.tools.calls
  BY <1>1 DEF CallTold
<1>2. CASE i \in DOMAIN s.tools.calls
  <2> DEFINE c == s.tools.calls[i]
  <2>1. ASSUME c.added PROVE Unsaid(s.out, t.out, c.item)
    <3>1. TurnOK(t) /\ Shown(t) /\ Grows(s, t)
      BY DEF Moves, Steps
    <3>2. c.item # <<>>
      BY <1>2, <2>1 DEF Shown, CallShown, IsToolId
    <3>3. t.tools.calls[j].item # c.item
      <4>1. CASE t.tools.calls[j].added
        BY <1>2, <2>1, <4>1 DEF Distinct
      <4>2. CASE ~t.tools.calls[j].added
        BY <3>1, <3>2, <4>2 DEF Shown, CallShown
      <4> QED BY <4>1, <4>2
    <3> QED BY <3>1, <3>2, <3>3 DEF Unsaid, TurnOK, Grows, OnlyOf
  <2> QED BY <1>2, <2>1, CallUnsaid DEF CallTold
<1> QED BY <1>1, <1>2

-----------------------------------------------------------------------------
(* What becomes of a call's own data, step by step. *)

(* What a call is known by depends on its name, its namespace and its id. *)
LEMMA TitlesAlike ==
  ASSUME NEW c, NEW n, n.name = c.name, n.ns = c.ns, n.id = c.id
  PROVE  /\ TitleOf(n) = TitleOf(c)
         /\ \A args : Title(ToolItem(n, ResolveToolKind(c.name), args)) = TitleOf(c)
<1> QED BY DEF TitleOf, Title, ToolItem, ResponseName

(* ensure_output_index changes the call's index only. *)
LEMMA OutputIndexOfCall ==
  ASSUME NEW s, NEW i, TurnOK(s), i \in DOMAIN s.tools.calls
  PROVE  LET c == s.tools.calls[i]
             n == EnsureOutputIndex(s, i).tools.calls[i]
         IN  n = c \/ \E o : n = [c EXCEPT !.output = o]
<1> DEFINE c == s.tools.calls[i]
           base == IF s.tools.base = NoIndex THEN s.env.next ELSE s.tools.base
           u == [s EXCEPT !.tools.base = base, !.tools.calls[i].output = base + i]
<1>1. DOMAIN s = DOMAIN NewTurn /\ DOMAIN s.tools = DOMAIN NewTools /\ DOMAIN c = DOMAIN NewCall
  BY DEF TurnOK, ToolsOK, CallOK
<1>3. CASE c.output # NoIndex
  BY <1>3 DEF EnsureOutputIndex
<1>4. CASE ~(c.output # NoIndex)
  <2>1. EnsureOutputIndex(s, i) = AdvanceOutputIndexTo(u, base + i + 1)
    BY <1>4 DEF EnsureOutputIndex
  <2>2. u.tools.calls[i] = [c EXCEPT !.output = base + i]
    BY <1>1 DEF NewTurn, NewTools
  <2> HIDE DEF u
  <2>3. AdvanceOutputIndexTo(u, base + i + 1).tools = u.tools
    BY DEF AdvanceOutputIndexTo
  <2> QED BY <2>1, <2>2, <2>3
<1> QED BY <1>3, <1>4

(* Apart from its item and its stage, the call has what it had. *)
SameData(c, n) ==
  n.name = c.name /\ n.ns = c.ns /\ n.args = c.args /\ n.emitted = c.emitted
  /\ n.buffered = c.buffered /\ n.resolved = c.resolved /\ n.input = c.input

(* ensure_added opens a named call under what it is known by. *)
LEMMA EnsureAddedOpens ==
  ASSUME NEW s, NEW i, TurnOK(s), i \in DOMAIN s.tools.calls,
         ~s.tools.calls[i].added, s.tools.calls[i].name # ""
  PROVE  LET t == EnsureAdded(s, i)
             n == t.tools.calls[i]
         IN  /\ n.added /\ SameData(s.tools.calls[i], n)
             /\ \E e : /\ Appended(s.out, e, t.out) /\ e.item = n.item /\ e.ev = "added"
                       /\ Title(e.body) = TitleOf(n)
<1> DEFINE c0 == s.tools.calls[i]
           c == OpenedCall(c0, i)
           w == [s EXCEPT !.tools.calls[i] = c]
           u == EnsureOutputIndex(w, i)
           e == [ev |-> "added", item |-> u.tools.calls[i].item,
                 index |-> u.tools.calls[i].output,
                 body |-> ToolItem(u.tools.calls[i], ResolveToolKind(c0.name), <<>>)]
           t == Emit(u, <<e>>)
<1>1. EnsureAdded(s, i) = t
  BY DEF EnsureAdded, OpenedCall
<1>2. CallOK(c0) /\ (c0.done => s.tools.finalized)
  BY DEF TurnOK, ToolsOK
<1>3. CallOK(c) /\ c.added /\ c.done = c0.done
  BY <1>2, CallIdentified
<1>4. SameData(c0, c)
  BY <1>2 DEF OpenedCall, Identified, CallOK, NewCall, SameData
<1>5. e.ev = "added" /\ e.item = u.tools.calls[i].item
      /\ e.body = ToolItem(u.tools.calls[i], ResolveToolKind(c0.name), <<>>)
  OBVIOUS
<1> HIDE DEF c, e
<1>6. Replaced(s, i, c, w)
  BY <1>2, <1>3, CallReplaced
<1> HIDE DEF w
<1>7. TurnOK(w) /\ i \in DOMAIN w.tools.calls /\ w.tools.calls[i] = c /\ w.out = s.out
  BY <1>6 DEF Replaced
<1>8. TurnOK(u) /\ u.out = w.out
  BY <1>7, OutputIndexEnsured
<1>9. u.tools.calls[i] = c \/ \E o : u.tools.calls[i] = [c EXCEPT !.output = o]
  <2>1. \/ u.tools.calls[i] = w.tools.calls[i]
        \/ \E o : u.tools.calls[i] = [w.tools.calls[i] EXCEPT !.output = o]
    BY <1>7, OutputIndexOfCall, ZenonT(60)
  <2> QED BY <1>7, <2>1, Zenon
<1> HIDE DEF u
<1>10. u.tools.calls[i].added /\ SameData(c0, u.tools.calls[i])
  BY <1>3, <1>4, <1>9 DEF SameData, CallOK, NewCall
<1>11. t.tools = u.tools /\ Appended(u.out, e, t.out)
  BY <1>8, EmittedOne, Zenon
<1> HIDE DEF t
<1>12. Title(e.body) = TitleOf(u.tools.calls[i])
  BY <1>5, <1>10 DEF SameData, TitleOf
<1> QED BY <1>1, <1>5, <1>7, <1>8, <1>10, <1>11, <1>12

(* From c to n no more than what was sent of it changed. *)
SameButSent(c, n) ==
  /\ n.added = c.added /\ n.done = c.done /\ n.item = c.item
  /\ n.id = c.id /\ n.name = c.name /\ n.ns = c.ns
  /\ n.args = c.args /\ n.buffered = c.buffered /\ n.resolved = c.resolved

(* The unsent arguments are sent in one delta, if there are any. *)
SendsArguments(c, n, out, log) ==
  /\ SameButSent(c, n) /\ n.input = c.input
  /\ IF PendingArguments(c) = <<>> THEN log = out
     ELSE \E e : /\ Appended(out, e, log)
                 /\ e.item = c.item /\ e.ev = "delta" /\ e.part = 1
                 /\ e.text = PendingArguments(c)

(* emit_arguments_incremental does just that. *)
LEMMA EmitArgumentsSends ==
  ASSUME NEW s, NEW i, TurnOK(s), i \in DOMAIN s.tools.calls
  PROVE  LET t == EmitArgumentsIncremental(s, i)
         IN  SendsArguments(s.tools.calls[i], t.tools.calls[i], s.out, t.out)
<1> DEFINE call == s.tools.calls[i]
           c == [call EXCEPT !.emitted = EmittedAfter(call)]
           u == [s EXCEPT !.tools.calls[i] = c]
           e == ArgsDelta(call, PendingArguments(call))
<1>1. EmitArgumentsIncremental(s, i) =
        IF PendingArguments(call) = <<>> THEN Emit(u, <<>>) ELSE Emit(u, <<e>>)
  BY DEF EmitArgumentsIncremental, IncrementalEvents
<1>2. e.ev = "delta" /\ e.item = call.item /\ e.part = 1 /\ e.text = PendingArguments(call)
  BY DEF ArgsDelta
<1> HIDE DEF e
<1>3. CallOK(call) /\ (call.done => s.tools.finalized)
  BY DEF TurnOK, ToolsOK
<1>4. CallOK(c) /\ c.done = call.done
  BY <1>3 DEF CallOK, NewCall
<1>5. SameButSent(call, c) /\ c.input = call.input
  BY <1>3 DEF SameButSent, CallOK, NewCall
<1> HIDE DEF c
<1>6. Replaced(s, i, c, u)
  BY <1>3, <1>4, CallReplaced
<1> HIDE DEF u
<1>7. TurnOK(u) /\ u.tools.calls[i] = c /\ u.out = s.out
  BY <1>6 DEF Replaced
<1>8. Emit(u, <<e>>).tools = u.tools /\ Appended(u.out, e, Emit(u, <<e>>).out)
  BY <1>7, EmittedOne, Zenon
<1>9. Emit(u, <<>>).tools = u.tools /\ Emit(u, <<>>).out = u.out
  BY <1>7, EmittedNone
<1> QED BY <1>1, <1>2, <1>5, <1>7, <1>8, <1>9 DEF SendsArguments

(* What is new of the input is sent in one delta, if there is anything. *)
SendsInput(c, n, out, log) ==
  /\ SameButSent(c, n)
  /\ \/ n.input = c.input /\ log = out
     \/ \E e : /\ Appended(out, e, log)
               /\ e.item = c.item /\ e.ev = "delta" /\ e.part = 1
               /\ n.input = PartialCustomInput(c.args)
               /\ IsPrefix(c.input, PartialCustomInput(c.args)) =>
                    e.text = SubSeq(PartialCustomInput(c.args), Len(c.input) + 1,
                                    Len(PartialCustomInput(c.args)))

(* emit_custom_input_delta does just that. *)
LEMMA EmitCustomInputSends ==
  ASSUME NEW s, NEW i, TurnOK(s), i \in DOMAIN s.tools.calls
  PROVE  LET t == EmitCustomInputDelta(s, i)
         IN  SendsInput(s.tools.calls[i], t.tools.calls[i], s.out, t.out)
<1> DEFINE call == s.tools.calls[i]
           prefix == PartialCustomInput(call.args)
           sent   == IF IsPrefix(call.input, prefix) THEN Len(call.input) ELSE 0
           delta  == SubSeq(prefix, sent + 1, Len(prefix))
           c == [call EXCEPT !.input = prefix]
           u == [s EXCEPT !.tools.calls[i] = c]
           e == ArgsDelta(call, delta)
<1>1. EmitCustomInputDelta(s, i) =
        IF prefix = call.input \/ delta = <<>> THEN s ELSE Emit(u, <<e>>)
  BY DEF EmitCustomInputDelta
<1>2. /\ e.ev = "delta" /\ e.item = call.item /\ e.part = 1
      /\ IsPrefix(call.input, prefix) =>
           e.text = SubSeq(prefix, Len(call.input) + 1, Len(prefix))
  BY DEF ArgsDelta
<1> HIDE DEF e, delta, sent, prefix
<1>3. CallOK(call) /\ (call.done => s.tools.finalized)
  BY DEF TurnOK, ToolsOK
<1>4. CallOK(c) /\ c.done = call.done
  BY <1>3 DEF CallOK, NewCall
<1>5. SameButSent(call, c) /\ SameButSent(call, call) /\ c.input = prefix
  BY <1>3 DEF SameButSent, CallOK, NewCall
<1> HIDE DEF c
<1>6. Replaced(s, i, c, u)
  BY <1>3, <1>4, CallReplaced
<1> HIDE DEF u
<1>7. TurnOK(u) /\ u.tools.calls[i] = c /\ u.out = s.out
  BY <1>6 DEF Replaced
<1>8. Emit(u, <<e>>).tools = u.tools /\ Appended(u.out, e, Emit(u, <<e>>).out)
  BY <1>7, EmittedOne, Zenon
<1>9. CASE prefix = call.input \/ delta = <<>>
  BY <1>1, <1>5, <1>9 DEF SendsInput
<1>10. CASE ~(prefix = call.input \/ delta = <<>>)
  <2> DEFINE t == EmitCustomInputDelta(s, i)
  <2>1. t.tools.calls[i] = c /\ Appended(s.out, e, t.out)
    BY <1>1, <1>7, <1>8, <1>10
  <2> HIDE DEF t
  <2>2. SendsInput(call, t.tools.calls[i], s.out, t.out)
    BY <1>2, <1>5, <2>1 DEF SendsInput, prefix
  <2> QED BY <2>2 DEF t
<1> QED BY <1>9, <1>10

-----------------------------------------------------------------------------
(* A call before the calls are finalized. *)

(* A delta changes nothing of what its item is known by. *)
LEMMA TitledAppended ==
  ASSUME NEW c, NEW n, NEW out, NEW e, NEW log, Appended(out, e, log), Titled(c, out),
         n.item = c.item, TitleOf(n) = TitleOf(c),
         e.item = c.item /\ e.ev \in {"added", "done"} => Title(e.body) = TitleOf(c)
  PROVE  Titled(n, log)
<1> SUFFICES ASSUME NEW k \in DOMAIN log, log[k].item = n.item, log[k].ev \in {"added", "done"}
             PROVE  Title(log[k].body) = TitleOf(n)
  BY DEF Titled
<1>1. CASE k \in DOMAIN out
  BY <1>1 DEF Appended, Titled
<1>2. CASE k \notin DOMAIN out
  <2>1. log[k] = e
    BY <1>2 DEF Appended
  <2> QED BY <2>1
<1> QED BY <1>1, <1>2

(* Only its end tells the text of an item. *)
LEMMA EndTextsAppended ==
  ASSUME NEW out, NEW e, NEW log, NEW id, Appended(out, e, log), IsSeq(out)
  PROVE  EndTexts(log, id) = EndTexts(out, id) \cup
           (IF e.item = id /\ e.ev = "text_done" THEN {e.text} ELSE {})
<1>1. /\ Len(out) \in Nat /\ DOMAIN log = 1..(Len(out) + 1) /\ DOMAIN out = 1..Len(out)
      /\ log[Len(out) + 1] = e /\ \A k \in 1..Len(out) : log[k] = out[k]
  BY SeqFacts DEF Appended
<1>2. DOMAIN log = DOMAIN out \cup {Len(out) + 1} /\ \A k \in DOMAIN out : log[k] = out[k]
  BY <1>1
<1> QED BY <1>1, <1>2 DEF EndTexts

(* Nothing else changes what an item is said to have in the end. *)
LEMMA EndTextsSame ==
  ASSUME NEW out, NEW e, NEW log, NEW id, Appended(out, e, log), IsSeq(out), e.ev # "text_done"
  PROVE  EndTexts(log, id) = EndTexts(out, id)
<1>1. EndTexts(log, id) = EndTexts(out, id) \cup {}
  BY EndTextsAppended
<1> QED BY <1>1

(* Of an item that opens nothing is heard. *)
LEMMA HeardFresh ==
  ASSUME NEW out, NEW e, NEW log, NEW id, IsSeq(out), Appended(out, e, log), e.ev # "delta",
         \A k \in DOMAIN out : out[k].item # id
  PROVE  Heard(log, id, 1) = <<>>
<1>1. Heard(out, id, 1) = <<>>
  BY HeardNone
<1> QED BY <1>1, HeardAppended

(* The first delta is all that is heard. *)
LEMMA HeardFirst ==
  ASSUME NEW out, NEW e, NEW log, NEW id, IsSeq(out), Appended(out, e, log),
         e.item = id, e.ev = "delta", e.part = 1, IsSeq(e.text),
         Heard(out, id, 1) = <<>>
  PROVE  Heard(log, id, 1) = e.text
<1>1. Heard(log, id, 1) = IF e.item = id /\ e.ev = "delta" /\ e.part = 1
                          THEN Heard(out, id, 1) \o e.text ELSE Heard(out, id, 1)
  BY HeardAppended
<1>2. PICK S : e.text \in Seq(S)
  BY DEF IsSeq
<1> QED BY <1>1, <1>2, ConcatEmptySeq

(* The same of a call's arguments. *)
LEMMA ArgumentsHeard ==
  ASSUME NEW out, NEW e, NEW log, NEW c, IsSeq(out), Appended(out, e, log),
         e.item = c.item, e.ev = "delta", e.part = 1, e.text = c.args, IsSeq(c.args),
         Heard(out, c.item, 1) = <<>>
  PROVE  Heard(log, c.item, 1) = c.args
<1>1. IsSeq(e.text)
  OBVIOUS
<1>2. Heard(log, c.item, 1) = e.text
  BY <1>1, HeardFirst
<1> QED BY <1>2

(* All of the arguments are pending of a call that has sent nothing. *)
LEMMA NothingSent ==
  ASSUME NEW c, c.emitted = <<>>, IsSeq(c.args)
  PROVE  PendingArguments(c) = c.args
<1>1. Len(<<>>) + 1 = 1
  OBVIOUS
<1>2. SubSeq(c.args, 1, Len(c.args)) = c.args
  <2>1. PICK S : c.args \in Seq(S)
    BY DEF IsSeq
  <2> QED BY <2>1, SubSeqFull
<1> QED BY <1>1, <1>2 DEF PendingArguments

(* A named call that is to be opened, and has sent nothing. *)
Fresh(c) ==
  /\ ~c.added /\ c.name # "" /\ ~c.buffered
  /\ IsSeq(c.args) /\ c.emitted = <<>> /\ c.input = <<>>

(* A delta is heard at the end. *)
LEMMA HeardMore ==
  ASSUME NEW out, NEW e, NEW log, NEW id, IsSeq(out), Appended(out, e, log),
         e.item = id, e.ev = "delta", e.part = 1
  PROVE  Heard(log, id, 1) = Heard(out, id, 1) \o e.text
<1> QED BY HeardAppended

(* An item that nothing was said of goes on from where it opens. *)
LEMMA OpeningGoes ==
  ASSUME NEW c, NEW out, NEW e, NEW log, IsSeq(out), Appended(out, e, log), e.item = c.item,
         e.ev = "added", Title(e.body) = TitleOf(c), IsSeq(c.args), c.input = <<>>,
         \A k \in DOMAIN out : out[k].item # c.item
  PROVE  Goes(c, log) /\ Heard(log, c.item, 1) = <<>>
<1>1. Titled(c, log)
  <2>1. Titled(c, out)
    BY DEF Titled
  <2> QED BY <2>1, TitledAppended
<1>2. Heard(log, c.item, 1) = <<>>
  <2>1. e.ev # "delta"
    OBVIOUS
  <2> QED BY <2>1, HeardFresh
<1>3. EndTexts(log, c.item) = {}
  <2>1. EndTexts(out, c.item) = {} /\ e.ev # "text_done"
    BY DEF EndTexts
  <2>2. EndTexts(log, c.item) = EndTexts(out, c.item)
    BY <2>1, EndTextsSame
  <2> QED BY <2>1, <2>2
<1>4. Dictated(c, log)
  <2>1. IsSeq(PartialCustomInput(c.args))
    BY PartialInputIs
  <2>2. IsSeq(<<>>)
    BY DEF IsSeq
  <2>3. IsPrefix(<<>>, PartialCustomInput(c.args))
    BY <2>1, PrefixOrder
  <2> QED BY <1>2, <2>2, <2>3 DEF Dictated
<1> QED BY <1>1, <1>2, <1>3, <1>4 DEF Goes

(* So does one that sends a delta. *)
LEMMA DeltaGoes ==
  ASSUME NEW c, NEW n, NEW out, NEW e, NEW log, IsSeq(out), Goes(c, out), Appended(out, e, log),
         e.ev = "delta", n.item = c.item, TitleOf(n) = TitleOf(c), Dictated(n, log)
  PROVE  Goes(n, log)
<1>1. Titled(c, out) /\ EndTexts(out, c.item) = {}
  BY DEF Goes
<1>2. Titled(n, log)
  BY <1>1, TitledAppended
<1>3. EndTexts(log, n.item) = EndTexts(out, n.item)
  <2>1. e.ev # "text_done"
    OBVIOUS
  <2> QED BY <2>1, EndTextsSame
<1> QED BY <1>1, <1>2, <1>3 DEF Goes

(* And one that sends what is new of its input. *)
LEMMA InputGoes ==
  ASSUME NEW c, NEW n, NEW out, NEW log, IsSeq(out), IsSeq(c.args), Goes(c, out),
         SendsInput(c, n, out, log)
  PROVE  Goes(n, log)
<1> DEFINE prefix == PartialCustomInput(c.args)
<1>1. /\ SameButSent(c, n)
      /\ n.item = c.item /\ n.args = c.args /\ n.name = c.name /\ n.resolved = c.resolved
  BY DEF SendsInput, SameButSent
<1>2. TitleOf(n) = TitleOf(c)
  BY <1>1, TitlesAlike DEF SameButSent
<1>3. CASE n.input = c.input /\ log = out
  BY <1>1, <1>2, <1>3 DEF Goes, Titled, Dictated, IsCustom
<1>4. ASSUME NEW e, Appended(out, e, log), e.item = c.item, e.ev = "delta", e.part = 1,
             n.input = prefix,
             IsPrefix(c.input, prefix) => e.text = SubSeq(prefix, Len(c.input) + 1, Len(prefix))
      PROVE  Goes(n, log)
  <2>1. IsSeq(prefix) /\ IsPrefix(prefix, prefix)
    BY PartialInputIs, PrefixOrder
  <2>2. ASSUME IsCustom(c) PROVE Heard(log, c.item, 1) = prefix
    <3>1. Heard(out, c.item, 1) = c.input /\ IsSeq(c.input) /\ IsPrefix(c.input, prefix)
      BY <2>2 DEF Goes, Dictated
    <3> HIDE DEF prefix
    <3>2. c.input \o SubSeq(prefix, Len(c.input) + 1, Len(prefix)) = prefix
      BY <2>1, <3>1, PrefixCompleted
    <3>3. Heard(log, c.item, 1) = Heard(out, c.item, 1) \o e.text
      BY <1>4, HeardMore
    <3>4. e.text = SubSeq(prefix, Len(c.input) + 1, Len(prefix))
      BY <1>4, <3>1
    <3> QED BY <3>1, <3>2, <3>3, <3>4
  <2>3. IsCustom(n) => IsCustom(c)
    BY <1>1 DEF IsCustom
  <2>4. Dictated(n, log)
    BY <1>1, <1>4, <2>1, <2>2, <2>3 DEF Dictated
  <2> QED BY <1>1, <1>2, <1>4, <2>4, DeltaGoes
<1> QED BY <1>3, <1>4 DEF SendsInput

(* Of an item that no opened call had, nothing was said before it opens. *)
LEMMA FreshOpens ==
  ASSUME NEW s, NEW i, TurnOK(s), Shown(s), i \in DOMAIN s.tools.calls,
         ~s.tools.calls[i].done, ~s.tools.calls[i].added, s.tools.calls[i].name # "",
         IsSeq(s.tools.calls[i].args), s.tools.calls[i].input = <<>>,
         Distinct(EnsureAdded(s, i))
  PROVE  LET t == EnsureAdded(s, i)
             n == t.tools.calls[i]
         IN  /\ TurnOK(t) /\ i \in DOMAIN t.tools.calls /\ ~n.done
             /\ n.added /\ SameData(s.tools.calls[i], n)
             /\ Goes(n, t.out)
             /\ Heard(t.out, n.item, 1) = <<>>
<1> DEFINE t == EnsureAdded(s, i)
           n == t.tools.calls[i]
<1>1. n.added /\ SameData(s.tools.calls[i], n)
  BY EnsureAddedOpens
<1>2. PICK e : /\ Appended(s.out, e, t.out) /\ e.item = n.item /\ e.ev = "added"
               /\ Title(e.body) = TitleOf(n)
  BY EnsureAddedOpens
<1>3. Touches(s, i, t)
  BY EnsureAddedTouches
<1> HIDE DEF t
<1>4. TurnOK(t) /\ Shown(t) /\ i \in DOMAIN t.tools.calls /\ ~n.done
  BY <1>3 DEF Touches, Moves, Steps
<1>5. IsToolId(n.item)
  BY <1>1, <1>4 DEF Shown, CallShown
<1>6. ASSUME NEW k \in DOMAIN s.out PROVE s.out[k].item # n.item
  <2>1. CASE s.out[k].item \in {<<>>, ReasoningId, MessageId}
    BY <1>5, <2>1 DEF IsToolId
  <2>2. CASE FromCall(s, s.out[k].item)
    <3>1. PICK j \in DOMAIN s.tools.calls :
            s.tools.calls[j].added /\ s.tools.calls[j].item = s.out[k].item
      BY <2>2 DEF FromCall
    <3>2. j # i /\ j \in DOMAIN t.tools.calls /\ t.tools.calls[j] = s.tools.calls[j]
      BY <1>3, <3>1 DEF Touches
    <3> QED BY <1>1, <1>4, <3>1, <3>2 DEF Distinct, t
  <2> QED BY <2>1, <2>2 DEF Shown
<1> HIDE DEF n
<1>7. n.input = <<>> /\ IsSeq(n.args) /\ IsSeq(s.out)
  BY <1>1 DEF SameData, TurnOK
<1>8. Goes(n, t.out) /\ Heard(t.out, n.item, 1) = <<>>
  BY <1>2, <1>6, <1>7, OpeningGoes
<1> QED BY <1>1, <1>4, <1>8 DEF t, n

(* A call that just opened, and whose deltas are not of an input. *)
JustOpened(c) ==
  c.added /\ ~c.buffered /\ c.name # "" /\ IsSeq(c.args) /\ c.emitted = <<>> /\ ~IsCustom(c)

(* The unsent arguments of a call that has sent nothing are its arguments, *)
(* and after them the log has them all.                                    *)
LEMMA ArgumentsTold ==
  ASSUME NEW c, NEW n, NEW out, NEW log, SendsArguments(c, n, out, log), IsSeq(out),
         JustOpened(c), Goes(c, out), Heard(out, c.item, 1) = <<>>
  PROVE  OpenTold(n, log, TRUE)
<1>1. SameButSent(c, n)
  BY DEF SendsArguments
<1>2. PendingArguments(c) = c.args
  BY NothingSent DEF JustOpened
<1>3. TitleOf(n) = TitleOf(c)
  BY <1>1, TitlesAlike DEF SameButSent
<1>4. Titled(c, out) /\ EndTexts(out, c.item) = {}
  BY DEF Goes
<1>5. Dictated(n, log)
  BY <1>1 DEF JustOpened, SameButSent, IsCustom, Dictated
<1>6. CASE c.args = <<>>
  <2>1. log = out
    BY <1>2, <1>6 DEF SendsArguments
  <2> QED BY <1>1, <1>3, <1>4, <1>5, <1>6, <2>1
         DEF JustOpened, SameButSent, OpenTold, Titled, Mirrored, Goes
<1>7. CASE c.args # <<>>
  <2>1. PICK e : /\ Appended(out, e, log)
                 /\ e.item = c.item /\ e.ev = "delta" /\ e.part = 1 /\ e.text = c.args
    BY <1>2, <1>7 DEF SendsArguments
  <2>2. Titled(n, log)
    BY <1>1, <1>3, <1>4, <2>1, TitledAppended DEF SameButSent
  <2>3. Heard(log, c.item, 1) = c.args
    <3>1. IsSeq(c.args)
      BY DEF JustOpened
    <3> QED BY <2>1, <3>1, ArgumentsHeard
  <2>4. EndTexts(log, n.item) = {}
    BY <1>1, <1>4, <2>1, EndTextsAppended DEF SameButSent
  <2> QED BY <1>1, <1>5, <2>2, <2>3, <2>4 DEF JustOpened, SameButSent, OpenTold, Mirrored, Goes
<1> QED BY <1>6, <1>7

(* emit_arguments_incremental right after the item opened. *)
LEMMA ArgumentsSent ==
  ASSUME NEW s, NEW i, TurnOK(s), i \in DOMAIN s.tools.calls,
         JustOpened(s.tools.calls[i]),
         Goes(s.tools.calls[i], s.out), Heard(s.out, s.tools.calls[i].item, 1) = <<>>
  PROVE  LET t == EmitArgumentsIncremental(s, i)
         IN  OpenTold(t.tools.calls[i], t.out, TRUE)
<1> DEFINE t == EmitArgumentsIncremental(s, i)
<1>1. SendsArguments(s.tools.calls[i], t.tools.calls[i], s.out, t.out)
  BY EmitArgumentsSends
<1>2. IsSeq(s.out)
  BY DEF TurnOK
<1> HIDE DEF t
<1>3. OpenTold(t.tools.calls[i], t.out, TRUE)
  BY <1>1, <1>2, ArgumentsTold
<1> QED BY <1>3 DEF t

(* A custom call's deltas are of its input, as far as it is there. *)
LEMMA InputSent ==
  ASSUME NEW s, NEW i, TurnOK(s), i \in DOMAIN s.tools.calls,
         s.tools.calls[i].added, ~s.tools.calls[i].buffered, s.tools.calls[i].name # "",
         IsSeq(s.tools.calls[i].args), Goes(s.tools.calls[i], s.out),
         ResolveToolKind(s.tools.calls[i].name) = "custom"
  PROVE  LET t == EmitCustomInputDelta(s, i)
         IN  OpenTold(t.tools.calls[i], t.out, TRUE)
<1> DEFINE t == EmitCustomInputDelta(s, i)
           c == s.tools.calls[i]
           n == t.tools.calls[i]
<1>1. SendsInput(c, n, s.out, t.out)
  BY EmitCustomInputSends
<1>2. SameButSent(c, n)
  BY <1>1 DEF SendsInput
<1>3. /\ n.name = c.name /\ n.added /\ ~n.buffered /\ IsSeq(n.args)
      /\ ResolveToolKind(n.name) = "custom"
  BY <1>2 DEF SameButSent
<1>4. IsSeq(s.out)
  BY DEF TurnOK
<1> HIDE DEF t, c, n
<1>5. Goes(n, t.out)
  BY <1>1, <1>4, InputGoes DEF c
<1>6. n.name # ""
  BY <1>3 DEF c
<1>7. OpenTold(n, t.out, TRUE)
  BY <1>3, <1>5, <1>6 DEF OpenTold, Mirrored
<1> QED BY <1>7 DEF t, n

(* A touched turn still agrees with its log. *)
LEMMA TouchesShown ==
  ASSUME NEW s, NEW i, NEW t, Touches(s, i, t), Shown(s), i \in DOMAIN s.tools.calls,
         ~s.tools.calls[i].done
  PROVE  TurnOK(t) /\ Shown(t) /\ i \in DOMAIN t.tools.calls /\ ~t.tools.calls[i].done
<1> QED BY DEF Touches, Moves, Steps

(* ensure_added and then emit_arguments_incremental: a call surfaces with *)
(* all that was held back of it.                                          *)
LEMMA SurfaceTells ==
  ASSUME NEW s, NEW i, TurnOK(s), Shown(s), i \in DOMAIN s.tools.calls,
         ~s.tools.calls[i].done, Fresh(s.tools.calls[i]), ~IsCustom(s.tools.calls[i]),
         Distinct(EmitArgumentsIncremental(EnsureAdded(s, i), i))
  PROVE  LET t == EmitArgumentsIncremental(EnsureAdded(s, i), i)
         IN  OpenTold(t.tools.calls[i], t.out, TRUE)
<1> DEFINE u == EnsureAdded(s, i)
           n == u.tools.calls[i]
<1>1. Touches(s, i, u)
  BY EnsureAddedTouches
<1>2. TurnOK(u) /\ i \in DOMAIN u.tools.calls /\ ~u.tools.calls[i].done
  BY <1>1, TouchesShown
<1>3. Distinct(u)
  <2>1. Touches(u, i, EmitArgumentsIncremental(u, i))
    BY <1>2, EmitArgumentsTouches
  <2> QED BY <2>1, DistinctBefore DEF Touches
<1>4. /\ ~s.tools.calls[i].added /\ s.tools.calls[i].name # ""
      /\ IsSeq(s.tools.calls[i].args) /\ s.tools.calls[i].input = <<>>
  BY DEF Fresh
<1>5. /\ n.added /\ SameData(s.tools.calls[i], n) /\ Goes(n, u.out)
      /\ Heard(u.out, n.item, 1) = <<>>
  BY <1>3, <1>4, FreshOpens
<1> HIDE DEF u
<1>6. JustOpened(n)
  BY <1>5 DEF Fresh, SameData, JustOpened, IsCustom
<1> QED BY <1>2, <1>5, <1>6, ArgumentsSent DEF u

(* ensure_added alone, of a custom call. *)
LEMMA CustomOpens ==
  ASSUME NEW s, NEW i, TurnOK(s), Shown(s), i \in DOMAIN s.tools.calls,
         ~s.tools.calls[i].done, Fresh(s.tools.calls[i]),
         ResolveToolKind(s.tools.calls[i].name) = "custom", Distinct(EnsureAdded(s, i))
  PROVE  LET t == EnsureAdded(s, i)
         IN  OpenTold(t.tools.calls[i], t.out, TRUE)
<1> DEFINE u == EnsureAdded(s, i)
           n == u.tools.calls[i]
<1>1. /\ ~s.tools.calls[i].added /\ s.tools.calls[i].name # ""
      /\ IsSeq(s.tools.calls[i].args) /\ s.tools.calls[i].input = <<>>
  BY DEF Fresh
<1>2. n.added /\ SameData(s.tools.calls[i], n) /\ Goes(n, u.out)
  BY <1>1, FreshOpens
<1> HIDE DEF u
<1> QED BY <1>2 DEF Fresh, SameData, OpenTold, Mirrored, u

(* A sequence of two elements. *)
LEMMA Pair == ASSUME NEW a, NEW b PROVE IsSeq(<<a, b>>)
<1>1. <<a, b>> \in Seq({a, b})
  OBVIOUS
<1> QED BY <1>1 DEF IsSeq

(* The arguments of a nested call are a sequence, too. *)
LEMMA NestedIsSeq == ASSUME NEW args, IsSeq(args) PROVE IsSeq(NestedArguments(args))
<1>1. IsSeq(<<"l", "r">>)
  BY Pair
<1> QED BY <1>1 DEF NestedArguments

(* What a call in the buffer becomes when it leaves it. *)
LEMMA LeavesBuffer ==
  ASSUME NEW c, CallOK(c), ~c.added, c.name # "", c.emitted = <<>>, c.input = <<>>, IsSeq(c.args)
  PROVE  /\ Resolvable(c) => /\ Fresh(Resolved(c)) /\ ~IsCustom(Resolved(c))
                             /\ Resolved(c).name = ActionOf(c.args)
         /\ Fresh(Degraded(c)) /\ ~IsCustom(Degraded(c))
<1>1. IsSeq(NestedArguments(c.args))
  BY NestedIsSeq
<1>2. ASSUME Resolvable(c)
      PROVE  Fresh(Resolved(c)) /\ ~IsCustom(Resolved(c)) /\ Resolved(c).name = ActionOf(c.args)
  <2>1. ActionOf(c.args) # ""
    BY <1>2 DEF Resolvable
  <2>2. /\ Resolved(c).added = c.added /\ Resolved(c).emitted = c.emitted /\ ~Resolved(c).buffered
        /\ Resolved(c).name = ActionOf(c.args) /\ Resolved(c).args = NestedArguments(c.args)
      /\ Resolved(c).input = c.input /\ Resolved(c).resolved
    BY DEF Resolved, CallOK, NewCall
  <2> QED BY <1>1, <2>1, <2>2 DEF Fresh, IsCustom
<1>3. Fresh(Degraded(c)) /\ ~IsCustom(Degraded(c))
  <2>1. CASE ~IsNested(c.name)
    BY <2>1 DEF Degraded, Fresh, IsCustom, CallOK, NewCall
  <2>2. CASE IsNested(c.name)
    <3>1. Spec_(c.name).name # ""
      BY ToolsAssumption DEF Spec_
    <3>2. /\ Degraded(c).added = c.added /\ Degraded(c).emitted = c.emitted /\ ~Degraded(c).buffered
          /\ Degraded(c).name = Spec_(c.name).name /\ Degraded(c).args = NestedArguments(c.args)
          /\ Degraded(c).input = c.input /\ Degraded(c).resolved
      BY <2>2 DEF Degraded, CallOK, NewCall
    <3> QED BY <1>1, <3>1, <3>2 DEF Fresh, IsCustom
  <2> QED BY <2>1, <2>2
<1> QED BY <1>2, <1>3

(* The call is still the same item when it leaves the buffer. *)
LEMMA BufferLeft ==
  ASSUME NEW s, NEW i, TurnOK(s), i \in DOMAIN s.tools.calls
  PROVE  LET found == [s EXCEPT !.tools.calls[i] = Resolved(s.tools.calls[i])]
             freed == [s EXCEPT !.tools.calls[i] = Degraded(s.tools.calls[i])]
         IN  /\ Touches(s, i, found) /\ found.tools.calls[i] = Resolved(s.tools.calls[i])
             /\ Touches(s, i, freed) /\ freed.tools.calls[i] = Degraded(s.tools.calls[i])
<1> DEFINE call == s.tools.calls[i]
           found == [s EXCEPT !.tools.calls[i] = Resolved(call)]
           freed == [s EXCEPT !.tools.calls[i] = Degraded(call)]
<1>1. /\ CallOK(Resolved(call)) /\ SameCall(call, Resolved(call))
      /\ CallOK(Degraded(call)) /\ SameCall(call, Degraded(call))
  BY NestedCalls DEF TurnOK, ToolsOK
<1>2. ASSUME NEW c, CallOK(c), SameCall(call, c)
      PROVE  LET u == [s EXCEPT !.tools.calls[i] = c]
             IN  Touches(s, i, u) /\ u.tools.calls[i] = c
  BY <1>2, CallUpdated, SMTT(40)
<1>3. Touches(s, i, found) /\ found.tools.calls[i] = Resolved(call)
  BY <1>1, <1>2, Zenon
<1>4. Touches(s, i, freed) /\ freed.tools.calls[i] = Degraded(call)
  BY <1>1, <1>2, Zenon
<1> QED BY <1>3, <1>4

(* push_buffered: the call stays in its buffer, or surfaces with all of its *)
(* arguments under what it turned out to be.                                *)
LEMMA PushBufferedTells ==
  ASSUME NEW s, NEW i, TurnOK(s), Shown(s), i \in DOMAIN s.tools.calls,
         ~s.tools.calls[i].done, ~s.tools.calls[i].added, s.tools.calls[i].name # "",
         s.tools.calls[i].emitted = <<>>, s.tools.calls[i].input = <<>>,
         IsSeq(s.tools.calls[i].args), Distinct(PushBuffered(s, i))
  PROVE  LET t == PushBuffered(s, i)
         IN  OpenTold(t.tools.calls[i], t.out, TRUE)
<1> DEFINE call == s.tools.calls[i]
           surface(t) == EmitArgumentsIncremental(EnsureAdded(t, i), i)
           found == [s EXCEPT !.tools.calls[i] = Resolved(call)]
           freed == [s EXCEPT !.tools.calls[i] = Degraded(call)]
<1>1. PushBuffered(s, i) =
        IF Resolvable(call)
        THEN IF ResolveToolKind(ActionOf(call.args)) = "custom"
             THEN EnsureAdded(found, i) ELSE surface(found)
        ELSE IF Len(call.args) > BufferMax THEN surface(freed) ELSE s
  BY DEF PushBuffered
<1>2. CallOK(call)
  BY DEF TurnOK, ToolsOK
<1>3. CallOK(call)
  BY DEF TurnOK, ToolsOK
<1>4. Touches(s, i, found) /\ found.tools.calls[i] = Resolved(call)
  BY BufferLeft
<1>5. Touches(s, i, freed) /\ freed.tools.calls[i] = Degraded(call)
  BY BufferLeft
<1>6. /\ Resolvable(call) => /\ Fresh(Resolved(call)) /\ ~IsCustom(Resolved(call))
                              /\ Resolved(call).name = ActionOf(call.args)
      /\ Fresh(Degraded(call)) /\ ~IsCustom(Degraded(call))
  BY <1>2, LeavesBuffer
<1> HIDE DEF found, freed
<1>7. /\ TurnOK(found) /\ Shown(found) /\ i \in DOMAIN found.tools.calls
      /\ ~found.tools.calls[i].done
  BY <1>4, TouchesShown
<1>8. /\ TurnOK(freed) /\ Shown(freed) /\ i \in DOMAIN freed.tools.calls
      /\ ~freed.tools.calls[i].done
  BY <1>5, TouchesShown
<1>9. CASE Resolvable(call) /\ ResolveToolKind(ActionOf(call.args)) = "custom"
  <2>1. PushBuffered(s, i) = EnsureAdded(found, i)
    BY <1>1, <1>9
  <2> QED BY <1>4, <1>6, <1>7, <1>9, <2>1, CustomOpens
<1>10. CASE Resolvable(call) /\ ~(ResolveToolKind(ActionOf(call.args)) = "custom")
  <2>1. PushBuffered(s, i) = surface(found)
    BY <1>1, <1>10
  <2> QED BY <1>4, <1>6, <1>7, <1>10, <2>1, SurfaceTells
<1>11. CASE ~Resolvable(call) /\ Len(call.args) > BufferMax
  <2>1. PushBuffered(s, i) = surface(freed)
    BY <1>1, <1>11
  <2> QED BY <1>5, <1>6, <1>8, <2>1, SurfaceTells
<1>12. CASE ~Resolvable(call) /\ ~(Len(call.args) > BufferMax)
  <2>1. PushBuffered(s, i) = s
    BY <1>1, <1>12
  <2> QED BY <2>1 DEF OpenTold
<1> QED BY <1>9, <1>10, <1>11, <1>12

-----------------------------------------------------------------------------
(* A fragment of a call. *)

(* The log has the arguments of an open call but for the newest fragment. *)
Awaits(c, out, fragment) ==
  /\ c.added /\ ~c.buffered /\ c.name # "" /\ IsSeq(c.args) /\ Goes(c, out)
  /\ ResolveToolKind(c.name) # "custom" =>
       IsSeq(Heard(out, c.item, 1)) /\ c.args = Heard(out, c.item, 1) \o fragment

(* Without a fragment there is nothing to wait for. *)
LEMMA NothingAwaited ==
  ASSUME NEW c, NEW out, Awaits(c, out, <<>>)
  PROVE  OpenTold(c, out, TRUE)
<1>1. ASSUME NEW q, IsSeq(q) PROVE q \o <<>> = q
  <2>1. PICK S : q \in Seq(S)
    BY <1>1 DEF IsSeq
  <2> QED BY <2>1, ConcatEmptySeq
<1>2. Mirrored(c, out)
  BY <1>1 DEF Awaits, Mirrored
<1> QED BY <1>2 DEF Awaits, OpenTold

(* The fragment's delta completes what is heard. *)
LEMMA FragmentHeard ==
  ASSUME NEW out, NEW e, NEW log, NEW c, IsSeq(out), Appended(out, e, log),
         e.item = c.item, e.ev = "delta", e.part = 1, Awaits(c, out, e.text),
         ResolveToolKind(c.name) # "custom"
  PROVE  OpenTold(c, log, TRUE)
<1>1. Heard(log, c.item, 1) = Heard(out, c.item, 1) \o e.text
  BY HeardMore
<1>2. Mirrored(c, log)
  BY <1>1 DEF Awaits, Mirrored
<1>3. Goes(c, log)
  <2>1. Goes(c, out)
    BY DEF Awaits
  <2>2. Dictated(c, log)
    BY DEF Dictated, IsCustom
  <2> QED BY <2>1, <2>2, DeltaGoes
<1> QED BY <1>2, <1>3 DEF Awaits, OpenTold

(* What a fragment makes of a call. *)
Applied(o, d, c) ==
  /\ c.id = IF d.id = <<>> THEN o.id ELSE d.id
  /\ c.name = IF d.name = "" THEN o.name ELSE d.name
  /\ c.args = o.args \o d.args
  /\ c.ns = o.ns /\ c.item = o.item /\ c.emitted = o.emitted
  /\ c.added = o.added /\ c.buffered = o.buffered
  /\ c.input = o.input /\ c.resolved = o.resolved /\ c.done = o.done

(* The call of an index, a new one if there is none yet. *)
CallOf(s, i) == IF i \in DOMAIN s.tools.calls THEN s.tools.calls[i] ELSE NewCall

(* apply_tool_call_delta does that to its call and leaves the others. *)
LEMMA CallApplied ==
  ASSUME NEW s, NEW d, NEW why, TurnOK(s)
  PROVE  LET t == ApplyToolCallDelta(s, d, why)
         IN  /\ Applied(CallOf(s, d.index), d, t.tools.calls[d.index])
             /\ DOMAIN t.tools.calls = DOMAIN s.tools.calls \cup {d.index}
             /\ \A j \in DOMAIN s.tools.calls \ {d.index} : t.tools.calls[j] = s.tools.calls[j]
<1> DEFINE x == d.index
           old == CallOf(s, x)
           new == [old EXCEPT !.id = IF d.id = <<>> THEN @ ELSE d.id,
                              !.name = IF d.name = "" THEN @ ELSE d.name,
                              !.args = @ \o d.args,
                              !.reasoning = IF @ = <<>> THEN why ELSE @]
           calls == [i \in DOMAIN s.tools.calls \cup {x} |-> IF i = x THEN new ELSE s.tools.calls[i]]
           t == ApplyToolCallDelta(s, d, why)
<1>1. t = [s EXCEPT !.tools.calls = calls]
  BY DEF ApplyToolCallDelta, CallOf
<1>2. DOMAIN old = DOMAIN NewCall
  BY DEF TurnOK, ToolsOK, CallOK, CallOf
<1> HIDE DEF old, t
<1>3. Applied(old, d, new)
  BY <1>2 DEF Applied, NewCall
<1> HIDE DEF new
<1>4. DOMAIN s = DOMAIN NewTurn /\ DOMAIN s.tools = DOMAIN NewTools
  BY DEF TurnOK, ToolsOK
<1>5. /\ DOMAIN calls = DOMAIN s.tools.calls \cup {x} /\ calls[x] = new
      /\ \A i \in DOMAIN s.tools.calls \ {x} : calls[i] = s.tools.calls[i]
  OBVIOUS
<1> HIDE DEF calls
<1>6. t.tools.calls = calls
  BY <1>1, <1>4 DEF NewTurn, NewTools
<1> QED BY <1>3, <1>5, <1>6 DEF old, t

(* A named call that waits for its newest fragment to be sent, or to open. *)
Ready(c, out, fragment) ==
  IF c.added THEN Awaits(c, out, fragment)
  ELSE c.name # "" /\ IsSeq(c.args) /\ c.emitted = <<>> /\ c.input = <<>>

(* A call that is new holds nothing that could be told. *)
LEMMA NewCallTold == \A out : OpenTold(NewCall, out, FALSE)
<1>1. IsSeq(<<>>)
  BY DEF IsSeq
<1> QED BY <1>1 DEF OpenTold, NewCall, HasIdentity

(* What was recorded of the input is a part of it still. *)
LEMMA AppliedGoes ==
  ASSUME NEW o, NEW c, NEW more, NEW out, Goes(o, out), IsSeq(o.args), IsSeq(more),
         c.args = o.args \o more, c.name = o.name, c.item = o.item, c.input = o.input,
         c.resolved = o.resolved, TitleOf(c) = TitleOf(o)
  PROVE  Goes(c, out)
<1>1. Titled(c, out) /\ EndTexts(out, c.item) = {}
  BY DEF Goes, Titled
<1>2. ASSUME IsCustom(c)
      PROVE  /\ Heard(out, c.item, 1) = c.input /\ IsSeq(c.input)
             /\ IsPrefix(c.input, PartialCustomInput(c.args))
  <2>1. IsCustom(o)
    BY <1>2 DEF IsCustom
  <2>2. /\ Heard(out, o.item, 1) = o.input /\ IsSeq(o.input)
        /\ IsPrefix(o.input, PartialCustomInput(o.args))
    BY <2>1 DEF Goes, Dictated
  <2>3. IsPrefix(PartialCustomInput(o.args), PartialCustomInput(c.args))
    BY PartialInputGrows
  <2>4. IsSeq(o.args \o more)
    BY Concatenated
  <2>5. IsSeq(PartialCustomInput(o.args)) /\ IsSeq(PartialCustomInput(c.args))
    BY <2>4, PartialInputIs
  <2>6. IsPrefix(o.input, PartialCustomInput(c.args))
    BY <2>2, <2>3, <2>5, PrefixOrder
  <2> QED BY <2>2, <2>6
<1> QED BY <1>1, <1>2 DEF Goes, Dictated

(* A fragment that names the call, or comes after one that did, makes it    *)
(* ready; any other leaves it unknown.                                      *)
LEMMA FragmentApplied ==
  ASSUME NEW o, NEW d, NEW c, NEW out, NEW named, Applied(o, d, c), OpenTold(o, out, named),
         IsSeq(d.args), d.id # <<>> \/ d.name # "" => ~named /\ d.id # <<>> /\ d.name # ""
  PROVE  IF named \/ d.id # <<>> THEN HasIdentity(c) /\ Ready(c, out, d.args)
         ELSE ~HasIdentity(c) /\ OpenTold(c, out, FALSE)
<1>1. IsSeq(c.args)
  <2>1. IsSeq(o.args)
    BY DEF OpenTold
  <2>2. c.args = o.args \o d.args
    BY DEF Applied
  <2>3. \A p, q : IsSeq(p) /\ IsSeq(q) => IsSeq(p \o q)
    BY Concatenated
  <2>4. IsSeq(o.args \o d.args)
    BY <2>1, <2>3, Zenon
  <2> QED BY <2>2, <2>4
<1>2. CASE ~named /\ d.id = <<>>
  <2>1. ~HasIdentity(c)
    BY <1>2 DEF Applied, OpenTold, HasIdentity
  <2> QED BY <1>1, <1>2, <2>1 DEF Applied, OpenTold
<1>3. CASE ~named /\ d.id # <<>>
  <2>1. c.name # "" /\ ~c.added /\ c.emitted = <<>> /\ c.input = <<>>
    BY <1>3 DEF Applied, OpenTold
  <2> QED BY <1>1, <1>3, <2>1 DEF HasIdentity, Ready
<1>4. CASE named
  <2>1. d.id = <<>> /\ d.name = ""
    BY <1>4
  <2>2. c.id = o.id /\ c.name = o.name /\ c.name # ""
    BY <1>4, <2>1 DEF Applied, OpenTold
  <2>3. TitleOf(c) = TitleOf(o)
    BY <2>2, TitlesAlike DEF Applied
  <2>4. CASE ~c.added
    BY <1>1, <1>4, <2>2, <2>4 DEF Applied, OpenTold, Ready, HasIdentity
  <2>5. CASE c.added
    <3>1. Goes(o, out) /\ Mirrored(o, out) /\ ~o.buffered /\ IsSeq(o.args)
      BY <2>5 DEF Applied, OpenTold
    <3>2. Goes(c, out)
      <4>1. /\ c.args = o.args \o d.args /\ c.item = o.item /\ c.input = o.input
            /\ c.resolved = o.resolved
        BY DEF Applied
      <4>2. c.name = o.name
        BY <2>2
      <4> QED BY <2>3, <3>1, <4>1, <4>2, AppliedGoes, Zenon
    <3>3. ResolveToolKind(c.name) # "custom" =>
             IsSeq(Heard(out, c.item, 1)) /\ c.args = Heard(out, c.item, 1) \o d.args
      BY <2>2, <3>1 DEF Applied, Mirrored
    <3>4. ~c.buffered
      BY <3>1 DEF Applied
    <3>5. Awaits(c, out, d.args)
      BY <1>1, <2>2, <2>5, <3>2, <3>3, <3>4 DEF Awaits
    <3>6. HasIdentity(c)
      BY <2>2 DEF HasIdentity
    <3> QED BY <1>4, <2>5, <3>5, <3>6 DEF Ready
  <2> QED BY <1>4, <2>4, <2>5
<1> QED BY <1>2, <1>3, <1>4

(* The call waits in the buffer now, or not: nothing else of it changed. *)
Unheld(c, n) ==
  /\ n.added = c.added /\ n.name = c.name /\ n.args = c.args /\ n.emitted = c.emitted
  /\ n.input = c.input

(* maybe_start_nested_buffer. *)
LEMMA NestedBufferHolds ==
  ASSUME NEW s, NEW i, TurnOK(s), i \in DOMAIN s.tools.calls
  PROVE  LET t == MaybeStartNestedBuffer(s, i)
         IN  Unheld(s.tools.calls[i], t.tools.calls[i]) /\ t.out = s.out
<1> DEFINE call == s.tools.calls[i]
           u == EnsureOutputIndex(s, i)
           c == [u.tools.calls[i] EXCEPT !.buffered = TRUE]
           t == [u EXCEPT !.tools.calls[i] = c]
<1>1. MaybeStartNestedBuffer(s, i) =
        IF call.added \/ call.buffered \/ call.resolved \/ ~IsNested(call.name) THEN s ELSE t
  BY DEF MaybeStartNestedBuffer
<1>2. TurnOK(u) /\ u.out = s.out /\ i \in DOMAIN u.tools.calls
  BY OutputIndexEnsured
<1>3. u.tools.calls[i] = call \/ \E o : u.tools.calls[i] = [call EXCEPT !.output = o]
  BY OutputIndexOfCall, Zenon
<1> HIDE DEF u
<1>4. CallOK(call)
  BY DEF TurnOK, ToolsOK
<1>5. CallOK(u.tools.calls[i])
  BY <1>2 DEF TurnOK, ToolsOK
<1>6. Unheld(call, u.tools.calls[i])
  BY <1>3, <1>4 DEF Unheld, CallOK, NewCall
<1>7. CallOK(c) /\ c.done = u.tools.calls[i].done /\ Unheld(call, c)
  BY <1>5, <1>6 DEF Unheld, CallOK, NewCall
<1> HIDE DEF c
<1>8. Replaced(u, i, c, t)
  <2>1. c.done => u.tools.finalized
    BY <1>2, <1>7 DEF TurnOK, ToolsOK
  <2> QED BY <1>2, <1>7, <2>1, CallReplaced
<1> HIDE DEF t
<1>9. Unheld(call, t.tools.calls[i]) /\ t.out = s.out
  BY <1>2, <1>7, <1>8 DEF Replaced
<1> QED BY <1>1, <1>9 DEF Unheld

(* push_delta's last part, for a call that has an identity and is not held  *)
(* in a buffer: it opens with all it has, or its newest fragment is sent.   *)
LEMMA PushIdentifiedTells ==
  ASSUME NEW s, NEW d, NEW fresh, TurnOK(s), Shown(s), d.index \in DOMAIN s.tools.calls,
         ~s.tools.calls[d.index].done, ~s.tools.calls[d.index].buffered,
         fresh <=> ~s.tools.calls[d.index].added,
         Ready(s.tools.calls[d.index], s.out, d.args),
         Distinct(PushIdentified(s, d, fresh))
  PROVE  LET t == PushIdentified(s, d, fresh)
         IN  OpenTold(t.tools.calls[d.index], t.out, TRUE)
<1> DEFINE i  == d.index
           c  == s.tools.calls[i]
           s1 == EnsureAdded(s, i)
           n  == s1.tools.calls[i]
           custom == ResolveToolKind(c.name) = "custom"
           e  == ArgsDelta(n, d.args)
           t  == PushIdentified(s, d, fresh)
<1>1. t = IF custom THEN EmitCustomInputDelta(s1, i)
          ELSE IF fresh THEN EmitArgumentsIncremental(s1, i)
          ELSE IF d.args = <<>> THEN s1 ELSE Emit(s1, <<e>>)
  BY DEF PushIdentified
<1>2. e.ev = "delta" /\ e.item = n.item /\ e.part = 1 /\ e.text = d.args
  BY DEF ArgsDelta
<1>3. Touches(s, i, s1)
  BY EnsureAddedTouches
<1>4. TurnOK(s1) /\ i \in DOMAIN s1.tools.calls /\ ~n.done
  BY <1>3, TouchesShown
<1>5. ~c.added => Fresh(c)
  BY DEF Ready, Fresh
<1>6. c.added => s1 = s
  BY SMTT(40) DEF EnsureAdded
<1>7. CASE ~c.added /\ custom
  <2>1. t = EmitCustomInputDelta(s1, i)
    BY <1>1, <1>7
  <2>2. Distinct(s1)
    <3>1. Touches(s1, i, EmitCustomInputDelta(s1, i))
      BY <1>4, EmitCustomInputTouches
    <3> QED BY <2>1, <3>1, DistinctBefore DEF Touches
  <2>3. n.added /\ SameData(c, n) /\ Goes(n, s1.out)
    BY <1>5, <1>7, <2>2, FreshOpens DEF Fresh
  <2> HIDE DEF s1
  <2> QED BY <1>4, <1>5, <1>7, <2>1, <2>3, InputSent DEF Fresh, SameData
<1>8. CASE ~c.added /\ ~custom
  <2>1. t = EmitArgumentsIncremental(s1, i)
    BY <1>1, <1>8
  <2>2. ~IsCustom(c)
    BY <1>8 DEF IsCustom
  <2> QED BY <1>5, <1>8, <2>1, <2>2, SurfaceTells
<1>9. CASE c.added
  <2>1. Awaits(c, s.out, d.args) /\ n = c
    BY <1>6, <1>9 DEF Ready
  <2>2. CASE custom
    <3>1. t = EmitCustomInputDelta(s, i)
      BY <1>1, <1>6, <1>9, <2>2
    <3> QED BY <2>1, <2>2, <3>1, InputSent DEF Awaits
  <2>3. CASE ~custom /\ d.args = <<>>
    <3>1. t = s
      BY <1>1, <1>6, <1>9, <2>3
    <3>2. OpenTold(c, s.out, TRUE)
      BY <2>1, <2>3, NothingAwaited
    <3> QED BY <3>1, <3>2
  <2>4. CASE ~custom /\ d.args # <<>>
    <3>1. t = Emit(s, <<e>>)
      BY <1>1, <1>6, <1>9, <2>4
    <3> HIDE DEF e, s1
    <3>2. Emit(s, <<e>>).tools = s.tools /\ Appended(s.out, e, Emit(s, <<e>>).out)
      BY EmittedOne, Zenon
    <3>3. t.tools = s.tools /\ Appended(s.out, e, t.out) /\ IsSeq(s.out)
      BY <3>1, <3>2 DEF TurnOK
    <3> HIDE DEF t
    <3>4. OpenTold(c, t.out, TRUE)
      BY <1>2, <2>1, <2>4, <3>3, FragmentHeard
    <3> QED BY <3>3, <3>4 DEF t
  <2> QED BY <2>2, <2>3, <2>4
<1> QED BY <1>7, <1>8, <1>9

(* Once the fragment is applied, the rest of push_delta is about its call. *)
LEMMA ToolsPushDeltaTouches ==
  ASSUME NEW s, NEW d, NEW why, TurnOK(s), d.index \in Nat, IsSeq(d.id), ~s.tools.finalized
  PROVE  LET s1 == ApplyToolCallDelta(s, d, why)
         IN  /\ Moves(s, s1) /\ TurnOK(s1) /\ d.index \in DOMAIN s1.tools.calls
             /\ s1.out = s.out /\ s1.tools.finalized = s.tools.finalized
             /\ ~s1.tools.calls[d.index].done
             /\ Touches(s1, d.index, ToolsPushDelta(s, d, why))
<1> DEFINE i  == d.index
           s1 == ApplyToolCallDelta(s, d, why)
           fresh == ~s1.tools.calls[i].added
           s2 == IF fresh THEN MaybeStartNestedBuffer(s1, i) ELSE s1
           t  == ToolsPushDelta(s, d, why)
<1>1. t = IF ~HasIdentity(s1.tools.calls[i]) THEN s1
          ELSE IF s2.tools.calls[i].buffered THEN PushBuffered(s2, i)
          ELSE PushIdentified(s2, d, fresh)
  BY DEF ToolsPushDelta
<1>2. /\ Silent(s, s1) /\ s1.reasoning = s.reasoning /\ s1.message = s.message
      /\ s1.tools.finalized = s.tools.finalized /\ i \in DOMAIN s1.tools.calls
  BY DeltaApplied
<1> HIDE DEF s1
<1>3. Moves(s, s1) /\ TurnOK(s1) /\ s1.out = s.out
  BY <1>2, SilentMoves DEF Silent
<1>4. ~s1.tools.calls[i].done
  BY <1>2, <1>3 DEF TurnOK, ToolsOK
<1>5. Touches(s1, i, s2)
  BY <1>2, <1>3, StartNestedBufferTouches, TouchesReflexive
<1> HIDE DEF s2, fresh
<1>6. TurnOK(s2) /\ i \in DOMAIN s2.tools.calls /\ ~s2.tools.calls[i].done
  BY <1>2, <1>4, <1>5 DEF Touches, Moves, Steps
<1>7. Touches(s2, i, PushBuffered(s2, i)) /\ Touches(s2, i, PushIdentified(s2, d, fresh))
  BY <1>6, PushBufferedTouches, PushIdentifiedTouches
<1>8. Touches(s1, i, t)
  BY <1>1, <1>2, <1>3, <1>5, <1>7, TouchesReflexive, TouchesTransitive
<1> QED BY <1>2, <1>3, <1>4, <1>8 DEF s1

(* push_delta tells of its call what it holds from now on. *)
LEMMA FragmentTells ==
  ASSUME NEW s, NEW d, NEW why, NEW named, TurnOK(s), Shown(s), d.index \in Nat, IsSeq(d.id),
         IsSeq(d.args), ~s.tools.finalized, CallTold(s, d.index, named),
         d.id # <<>> \/ d.name # "" => ~named /\ d.id # <<>> /\ d.name # "",
         Distinct(ToolsPushDelta(s, d, why))
  PROVE  LET t == ToolsPushDelta(s, d, why)
         IN  OpenTold(t.tools.calls[d.index], t.out, named \/ d.id # <<>>)
<1> DEFINE i  == d.index
           s1 == ApplyToolCallDelta(s, d, why)
           c  == s1.tools.calls[i]
           fresh == ~c.added
           s2 == IF fresh THEN MaybeStartNestedBuffer(s1, i) ELSE s1
           n  == s2.tools.calls[i]
           t  == ToolsPushDelta(s, d, why)
           now == named \/ d.id # <<>>
<1>1. t = IF ~HasIdentity(c) THEN s1
          ELSE IF n.buffered THEN PushBuffered(s2, i) ELSE PushIdentified(s2, d, fresh)
  BY DEF ToolsPushDelta
<1>2. /\ Moves(s, s1) /\ TurnOK(s1) /\ i \in DOMAIN s1.tools.calls /\ s1.out = s.out /\ ~c.done
  BY ToolsPushDeltaTouches
<1>3. Applied(CallOf(s, i), d, c)
  BY CallApplied
<1>4. OpenTold(CallOf(s, i), s.out, named)
  <2>1. CASE i \in DOMAIN s.tools.calls
    BY <2>1 DEF CallTold, CallOf
  <2>2. CASE i \notin DOMAIN s.tools.calls
    BY <2>2, NewCallTold DEF CallTold, CallOf, OpenTold
  <2> QED BY <2>1, <2>2
<1>5. IF now THEN HasIdentity(c) /\ Ready(c, s.out, d.args)
      ELSE ~HasIdentity(c) /\ OpenTold(c, s.out, FALSE)
  BY <1>3, <1>4, FragmentApplied, ZenonT(40)
<1>6. CASE ~now
  BY <1>1, <1>2, <1>5, <1>6, ZenonT(40) DEF OpenTold
<1>7. CASE now
  <2> HIDE DEF s1
  <2>1. Ready(c, s1.out, d.args) /\ HasIdentity(c)
    BY <1>2, <1>5, <1>7
  <2>2. Shown(s1)
    BY <1>2 DEF Moves, Steps
  <2>3. Touches(s1, i, s2)
    BY <1>2, StartNestedBufferTouches, TouchesReflexive
  <2>4. TurnOK(s2) /\ Shown(s2) /\ i \in DOMAIN s2.tools.calls /\ ~n.done
    BY <1>2, <2>2, <2>3, TouchesShown
  <2>5. Unheld(c, n) /\ s2.out = s1.out /\ (c.added => n = c)
    <3>1. CASE fresh
      <4>1. s2 = MaybeStartNestedBuffer(s1, i)
        BY <3>1
      <4> QED BY <1>2, <3>1, <4>1, NestedBufferHolds
    <3>2. CASE ~fresh
      BY <3>2 DEF Unheld
    <3> QED BY <3>1, <3>2
  <2> HIDE DEF s2
  <2>6. Ready(n, s2.out, d.args)
    BY <2>1, <2>5 DEF Ready, Unheld
  <2>7. CASE n.buffered
    <3>1. t = PushBuffered(s2, i)
      BY <1>1, <2>1, <2>7
    <3>2. ~n.added
      BY <2>6, <2>7 DEF Ready, Awaits
    <3>3. OpenTold(t.tools.calls[i], t.out, TRUE)
      BY <2>4, <2>6, <3>1, <3>2, PushBufferedTells DEF Ready
    <3> QED BY <1>7, <3>3 DEF OpenTold
  <2>8. CASE ~n.buffered
    <3>1. t = PushIdentified(s2, d, fresh)
      BY <1>1, <2>1, <2>8
    <3>2. fresh <=> ~n.added
      BY <2>5 DEF Unheld
    <3> HIDE DEF fresh
    <3>3. OpenTold(t.tools.calls[i], t.out, TRUE)
      BY <2>4, <2>6, <2>8, <3>1, <3>2, PushIdentifiedTells
    <3> QED BY <1>7, <3>3 DEF OpenTold
  <2> QED BY <2>7, <2>8
<1> QED BY <1>6, <1>7

(* Whether call i is named, once the fragment is taken in. *)
NowNamed(d, i, named) == named \/ NamesCall(d, i)

(* push_delta, for any call. *)
LEMMA ToolsPushDeltaTells ==
  ASSUME NEW s, NEW d, NEW why, NEW i, NEW named, TurnOK(s), Shown(s), d.index \in Nat,
         IsSeq(d.id), IsSeq(d.args), CallTold(s, i, named),
         NamesCall(d, i) => ~named /\ d.id # <<>> /\ d.name # "",
         Distinct(ToolsPushDelta(s, d, why))
  PROVE  CallTold(ToolsPushDelta(s, d, why), i, NowNamed(d, i, named))
<1> SUFFICES CallTold(ToolsPushDelta(s, d, why), i, named \/ NamesCall(d, i))
  BY DEF NowNamed
<1> DEFINE t  == ToolsPushDelta(s, d, why)
           j  == d.index
           s1 == ApplyToolCallDelta(s, d, why)
<1>1. CASE s.tools.finalized
  <2>1. t = s
    BY <1>1 DEF ToolsPushDelta
  <2> QED BY <1>1, <2>1 DEF CallTold
<1>2. CASE ~s.tools.finalized
  <2>1. /\ Moves(s, s1) /\ TurnOK(s1) /\ j \in DOMAIN s1.tools.calls /\ s1.out = s.out
        /\ s1.tools.finalized = s.tools.finalized /\ Touches(s1, j, t)
    BY <1>2, ToolsPushDeltaTouches
  <2>2. /\ DOMAIN s1.tools.calls = DOMAIN s.tools.calls \cup {j}
        /\ \A x \in DOMAIN s.tools.calls \ {j} : s1.tools.calls[x] = s.tools.calls[x]
    BY CallApplied, ZenonT(40)
  <2>3. CASE i = j
    <3>4. d.id # <<>> \/ d.name # "" => ~named /\ d.id # <<>> /\ d.name # ""
      BY <2>3 DEF NamesCall
    <3>5. CallTold(s, d.index, named)
      BY <2>3
    <3>6. OpenTold(t.tools.calls[d.index], t.out, named \/ d.id # <<>>)
      BY <1>2, <3>4, <3>5, FragmentTells
    <3>1. OpenTold(t.tools.calls[i], t.out, named \/ d.id # <<>>)
      BY <2>3, <3>6
    <3> HIDE DEF t, s1
    <3>2. i \in DOMAIN t.tools.calls /\ ~t.tools.finalized
      BY <1>2, <2>1, <2>3 DEF Touches
    <3>3. NamesCall(d, i) <=> d.id # <<>>
      BY <2>3 DEF NamesCall
    <3> QED BY <3>1, <3>2, <3>3 DEF CallTold, OpenTold, t
  <2>4. CASE i # j
    <3> HIDE DEF t, s1
    <3>1. Moves(s, t) /\ t.tools.finalized = s.tools.finalized /\ j \in DOMAIN t.tools.calls
      BY <2>1, MovesTransitive DEF Touches
    <3>2. OnlyOf(s, j, t)
      BY <2>1 DEF Touches, OnlyOf
    <3>3. /\ i \in DOMAIN t.tools.calls <=> i \in DOMAIN s.tools.calls
          /\ i \in DOMAIN s.tools.calls => t.tools.calls[i] = s.tools.calls[i]
      BY <2>1, <2>2, <2>4 DEF Touches
    <3>4. Distinct(t)
      BY DEF t
    <3>5. CallTold(t, i, named)
      BY <2>4, <3>1, <3>2, <3>3, <3>4, OtherCallKept
    <3> QED BY <2>4, <3>5 DEF NamesCall, CallTold, t, OpenTold
  <2> QED BY <2>3, <2>4
<1> QED BY <1>1, <1>2

-----------------------------------------------------------------------------
(* The end of a call. *)

(* A log that goes on with events that tell nothing new of the item. *)
LEMMA TitledLonger ==
  ASSUME NEW c, NEW n, NEW out, NEW events, IsSeq(out), IsSeq(events), Titled(c, out),
         n.item = c.item, TitleOf(n) = TitleOf(c),
         \A k \in DOMAIN events :
           events[k].item = c.item /\ events[k].ev \in {"added", "done"}
             => Title(events[k].body) = TitleOf(c)
  PROVE  Titled(n, out \o events)
<1> DEFINE log == out \o events
<1> SUFFICES ASSUME NEW k \in DOMAIN log, log[k].item = n.item, log[k].ev \in {"added", "done"}
             PROVE  Title(log[k].body) = TitleOf(n)
  BY DEF Titled
<1>1. /\ IsSeq(log) /\ Len(log) = Len(out) + Len(events)
      /\ \A j \in 1..Len(out) : log[j] = out[j]
      /\ \A j \in 1..Len(events) : log[Len(out) + j] = events[j]
  BY Concatenated
<1>2. /\ DOMAIN log = 1..(Len(out) + Len(events)) /\ Len(out) \in Nat /\ Len(events) \in Nat
      /\ DOMAIN out = 1..Len(out) /\ DOMAIN events = 1..Len(events)
  BY <1>1, SeqFacts
<1> HIDE DEF log
<1>3. CASE k <= Len(out)
  BY <1>1, <1>2, <1>3 DEF Titled
<1>4. CASE ~(k <= Len(out))
  <2>1. k - Len(out) \in DOMAIN events /\ log[k] = events[k - Len(out)]
    <3>1. k - Len(out) \in 1..Len(events) /\ Len(out) + (k - Len(out)) = k
      BY <1>2, <1>4
    <3> QED BY <1>1, <1>2, <3>1
  <2> QED BY <2>1
<1> QED BY <1>3, <1>4

(* The events of the end are at most a delta, the text and the end. *)
LEMMA LastEvents ==
  ASSUME NEW residue, NEW d, NEW e, residue = <<>> \/ \E r : residue = <<r>> /\ r.ev = "delta",
         d.ev = "text_done"
  PROVE  /\ IsSeq(residue \o <<d, e>>)
         /\ \A k \in DOMAIN (residue \o <<d, e>>) :
              (residue \o <<d, e>>)[k].ev \in {"added", "done"} => (residue \o <<d, e>>)[k] = e
<1> DEFINE q == residue \o <<d, e>>
<1>1. IsSeq(<<d, e>>) /\ Len(<<d, e>>) = 2 /\ <<d, e>>[1] = d /\ <<d, e>>[2] = e
  BY Pair
<1>2. IsSeq(residue) /\ \A k \in 1..Len(residue) : residue[k].ev = "delta"
  <2>1. CASE residue = <<>>
    <3>1. IsSeq(<<>>) /\ Len(<<>>) = 0
      BY DEF IsSeq
    <3> QED BY <2>1, <3>1
  <2>2. ASSUME NEW r, residue = <<r>>, r.ev = "delta"
        PROVE  IsSeq(residue) /\ \A k \in 1..Len(residue) : residue[k].ev = "delta"
    <3>1. IsSeq(<<r>>) /\ Len(<<r>>) = 1 /\ <<r>>[1] = r
      BY Single
    <3> QED BY <2>2, <3>1
  <2> QED BY <2>1, <2>2
<1>3. /\ IsSeq(q) /\ Len(q) = Len(residue) + 2
      /\ \A k \in 1..Len(residue) : q[k] = residue[k]
      /\ q[Len(residue) + 1] = d /\ q[Len(residue) + 2] = e
  BY <1>1, <1>2, Concatenated
<1>4. DOMAIN q = 1..(Len(residue) + 2) /\ Len(residue) \in Nat
  BY <1>2, <1>3, SeqFacts
<1> HIDE DEF q
<1>5. \A k \in DOMAIN q : k \in 1..Len(residue) \/ k = Len(residue) + 1 \/ k = Len(residue) + 2
  BY <1>4
<1>6. \A k \in DOMAIN q : q[k].ev \in {"added", "done"} => q[k] = e
  BY <1>2, <1>3, <1>5
<1> QED BY <1>3, <1>6 DEF q

(* What leaves the buffer at the end has a name. *)
LEMMA FlushSettles ==
  ASSUME NEW c, NEW out, CallOK(c), ~c.done, Settled(c, out)
  PROVE  Settled(FlushBuffered(c), out) /\ FlushBuffered(c).added = c.added
<1>1. CASE ~c.buffered \/ c.added
  BY <1>1 DEF FlushBuffered
<1>2. CASE ~(~c.buffered \/ c.added)
  <2>1. ~c.added /\ c.name # "" /\ c.input = <<>> /\ IsSeq(c.args)
    BY <1>2 DEF Settled
  <2>2. IsSeq(NestedArguments(c.args))
    BY <2>1, NestedIsSeq
  <2>3. CASE Resolvable(c)
    <3>1. FlushBuffered(c) = Resolved(c)
      BY <1>2, <2>3 DEF FlushBuffered
    <3>2. /\ Resolved(c).name # "" /\ Resolved(c).added = c.added
          /\ Resolved(c).input = c.input /\ Resolved(c).args = NestedArguments(c.args)
      BY <2>3 DEF Resolved, Resolvable, CallOK, NewCall
    <3> QED BY <2>1, <2>2, <3>1, <3>2 DEF Settled
  <2>4. CASE ~Resolvable(c)
    <3>1. FlushBuffered(c) = Degraded(c)
      BY <1>2, <2>4 DEF FlushBuffered
    <3>2. Degraded(c).added = c.added
      BY NestedCalls DEF SameCall
    <3>3. Degraded(c).name # "" /\ Degraded(c).input = c.input /\ IsSeq(Degraded(c).args)
      <4>1. CASE ~IsNested(c.name)
        BY <2>1, <4>1 DEF Degraded, CallOK, NewCall
      <4>2. CASE IsNested(c.name)
        <5>1. Spec_(c.name).name # ""
          BY <2>1, ToolsAssumption DEF Spec_
        <5>2. /\ Degraded(c).name = Spec_(c.name).name /\ Degraded(c).input = c.input
              /\ Degraded(c).args = NestedArguments(c.args)
          BY <4>2 DEF Degraded, CallOK, NewCall
        <5> QED BY <2>2, <5>1, <5>2
      <4> QED BY <4>1, <4>2
    <3> QED BY <2>1, <3>1, <3>2, <3>3 DEF Settled
  <2> QED BY <2>3, <2>4
<1> QED BY <1>1, <1>2

(* Sending the rest of the arguments settles nothing anew. *)
LEMMA SendingSettles ==
  ASSUME NEW c, NEW n, NEW out, NEW log, SendsArguments(c, n, out, log), IsSeq(out),
         ~c.done, ~n.done, ResolveToolKind(c.name) # "custom", Settled(c, out)
  PROVE  Settled(n, log)
<1>1. SameButSent(c, n) /\ n.input = c.input
  BY DEF SendsArguments
<1>2. TitleOf(n) = TitleOf(c)
  BY <1>1, TitlesAlike DEF SameButSent
<1>3. IsSeq(n.args)
  BY <1>1 DEF SameButSent, Settled
<1>4. CASE ~c.added
  BY <1>1, <1>3, <1>4 DEF SameButSent, Settled, HasIdentity
<1>5. CASE c.added
  <2>1. Goes(c, out)
    BY <1>5 DEF Settled
  <2>2. n.item = c.item /\ n.name = c.name /\ n.added = c.added
    BY <1>1 DEF SameButSent
  <2>3. Dictated(n, log)
    BY <2>2 DEF Dictated, IsCustom
  <2>4. Goes(n, log)
    <3>1. CASE log = out
      BY <1>2, <2>1, <2>2, <2>3, <3>1 DEF Goes, Titled
    <3>2. ASSUME NEW e, Appended(out, e, log), e.ev = "delta"
          PROVE  Goes(n, log)
      BY <1>2, <2>1, <2>2, <2>3, <3>2, DeltaGoes
    <3> QED BY <3>1, <3>2 DEF SendsArguments
  <2> QED BY <1>3, <1>5, <2>2, <2>4 DEF Settled
<1> QED BY <1>4, <1>5

(* The call is the same but for being done. *)
SameButDone(c, n) ==
  /\ n.added = c.added /\ n.item = c.item /\ n.buffered = c.buffered
  /\ n.id = c.id /\ n.name = c.name /\ n.ns = c.ns
  /\ n.args = c.args /\ n.resolved = c.resolved /\ n.done

(* Two sequences of one event make one of two. *)
LEMMA OneAndOne ==
  ASSUME NEW x, NEW y, NEW z, IsSeq(x), IsSeq(y), IsSeq(z), Len(x) = 1, Len(y) = 1, Len(z) = 2,
         z[1] = x[1], z[2] = y[1]
  PROVE  z = x \o y
<1>1. /\ IsSeq(x \o y) /\ Len(x \o y) = Len(x) + Len(y)
      /\ \A k \in 1..Len(x) : (x \o y)[k] = x[k]
      /\ \A k \in 1..Len(y) : (x \o y)[Len(x) + k] = y[k]
  BY Concatenated
<1>2. Len(x \o y) = 2 /\ (x \o y)[1] = x[1] /\ (x \o y)[2] = y[1]
  BY <1>1
<1>3. \A k \in 1..Len(z) : z[k] = (x \o y)[k]
  BY <1>2
<1> QED BY <1>1, <1>2, <1>3, SameSeq

LEMMA PairIs == ASSUME NEW a, NEW b PROVE <<a, b>> = <<a>> \o <<b>>
<1>1. IsSeq(<<a>>) /\ IsSeq(<<b>>) /\ Len(<<a>>) = 1 /\ Len(<<b>>) = 1
  BY Single
<1>2. IsSeq(<<a, b>>) /\ Len(<<a, b>>) = 2 /\ <<a, b>>[1] = <<a>>[1] /\ <<a, b>>[2] = <<b>>[1]
  BY Pair
<1> QED BY <1>1, <1>2, OneAndOne

(* The last events are told one after the other. *)
LEMMA LastInOrder ==
  ASSUME NEW out, NEW residue, NEW d, NEW e, IsSeq(out), IsSeq(residue)
  PROVE  out \o (residue \o <<d, e>>) = ((out \o residue) \o <<d>>) \o <<e>>
<1>1. PICK S : out \in Seq(S)
  BY DEF IsSeq
<1>2. PICK T : residue \in Seq(T)
  BY DEF IsSeq
<1> DEFINE U == (S \cup T) \cup {d, e}
<1>3. out \in Seq(U) /\ residue \in Seq(U)
  BY <1>1, <1>2, SeqMonotonic
<1>4. <<d>> \in Seq(U) /\ <<e>> \in Seq(U)
  <2>1. d \in U /\ e \in U
    OBVIOUS
  <2> HIDE DEF U
  <2> QED BY <2>1
<1>5. <<d, e>> = <<d>> \o <<e>>
  BY PairIs
<1> HIDE DEF U
<1>6. /\ (out \o residue) \in Seq(U) /\ (out \o residue) \o <<d>> \in Seq(U)
      /\ <<d>> \o <<e>> \in Seq(U)
  BY <1>3, <1>4, ConcatProperties
<1>7. out \o (residue \o (<<d>> \o <<e>>)) = (out \o residue) \o (<<d>> \o <<e>>)
  BY <1>3, <1>6, ConcatAssociative
<1>8. (out \o residue) \o (<<d>> \o <<e>>) = ((out \o residue) \o <<d>>) \o <<e>>
  BY <1>4, <1>6, ConcatAssociative
<1> QED BY <1>7, <1>8, <1>5

(* The delta of what finalize_state found unsent of an input. *)
LastDelta(c) == IF ResidualInput(c) = <<>> THEN <<>> ELSE <<ArgsDelta(c, ResidualInput(c))>>

(* A custom call's last events complete its input, and tell all of it. *)
LEMMA LastInput ==
  ASSUME NEW c, NEW out, NEW residue, NEW d, NEW e, IsSeq(out), IsSeq(c.args), Goes(c, out),
         residue = LastDelta(c),
         d.ev = "text_done", d.item = c.item, d.text = FinalArguments(c), e.ev = "done",
         IsCustom(c), IsInputObject(c.args)
  PROVE  /\ Heard(out \o (residue \o <<d, e>>), c.item, 1) = CustomInput(c.args)
         /\ EndTexts(out \o (residue \o <<d, e>>), c.item) = {CustomInput(c.args)}
<1> DEFINE full == CustomInput(c.args)
           rest == ResidualInput(c)
           l1 == out \o residue
           l2 == l1 \o <<d>>
           l3 == l2 \o <<e>>
<1>1. FinalArguments(c) = full /\ PartialCustomInput(c.args) = full
  BY InputWhole DEF IsCustom
<1>2. /\ Heard(out, c.item, 1) = c.input /\ IsSeq(c.input) /\ IsPrefix(c.input, full)
      /\ EndTexts(out, c.item) = {}
  BY <1>1 DEF Goes, Dictated
<1>3. IsSeq(full)
  BY <1>1, PartialInputIs
<1>4. rest = SubSeq(full, Len(c.input) + 1, Len(full))
  BY <1>1, <1>2 DEF ResidualInput
<1> HIDE DEF full, rest
<1>5. c.input \o rest = full
  BY <1>2, <1>3, <1>4, PrefixCompleted
<1>6. IsSeq(residue) /\ IsSeq(l1) /\ Heard(l1, c.item, 1) = full /\ EndTexts(l1, c.item) = {}
  <2>1. CASE rest = <<>>
    <3>1. residue = <<>> /\ IsSeq(<<>>)
      BY <2>1 DEF rest, IsSeq, LastDelta
    <3>2. ASSUME NEW q, IsSeq(q) PROVE q \o <<>> = q
      <4>1. PICK S : q \in Seq(S)
        BY <3>2 DEF IsSeq
      <4> QED BY <4>1, ConcatEmptySeq
    <3>3. l1 = out /\ c.input = full
      BY <1>2, <1>5, <2>1, <3>1, <3>2
    <3> QED BY <1>2, <3>1, <3>3
  <2>2. CASE rest # <<>>
    <3> DEFINE r == ArgsDelta(c, rest)
    <3>1. residue = <<r>>
      BY <2>2 DEF rest, LastDelta
    <3>2. r.ev = "delta" /\ r.item = c.item /\ r.part = 1 /\ r.text = rest
      BY DEF ArgsDelta
    <3> HIDE DEF r
    <3>3. Appended(out, r, l1) /\ IsSeq(residue)
      BY <3>1, LogAppended, Single
    <3>4. Heard(l1, c.item, 1) = Heard(out, c.item, 1) \o r.text
      BY <3>2, <3>3, HeardMore
    <3>5. EndTexts(l1, c.item) = EndTexts(out, c.item)
      <4>1. r.ev # "text_done"
        BY <3>2
      <4> QED BY <3>3, <4>1, EndTextsSame
    <3>6. IsSeq(l1)
      BY <3>3 DEF Appended
    <3> QED BY <1>2, <1>5, <3>2, <3>3, <3>4, <3>5, <3>6
  <2> QED BY <2>1, <2>2
<1> HIDE DEF l1
<1>7. Appended(l1, d, l2)
  BY <1>6, LogAppended
<1> HIDE DEF l2
<1>8. IsSeq(l2) /\ Heard(l2, c.item, 1) = full /\ EndTexts(l2, c.item) = {full}
  <2>1. IsSeq(l2)
    BY <1>7 DEF Appended
  <2>2. Heard(l2, c.item, 1) = Heard(l1, c.item, 1)
    <3>1. d.ev # "delta"
      OBVIOUS
    <3> QED BY <1>6, <1>7, <3>1, HeardAppended
  <2>3. EndTexts(l2, c.item) = EndTexts(l1, c.item) \cup {d.text}
    BY <1>6, <1>7, EndTextsAppended
  <2>4. d.text = full
    BY <1>1
  <2> QED BY <1>6, <2>1, <2>2, <2>3, <2>4
<1>9. Appended(l2, e, l3)
  BY <1>8, LogAppended
<1>10. out \o (residue \o <<d, e>>) = l3
  <2>1. l3 = ((out \o residue) \o <<d>>) \o <<e>>
    BY DEF l1, l2, l3
  <2>2. IsSeq(residue)
    BY <1>6
  <2>3. out \o (residue \o <<d, e>>) = ((out \o residue) \o <<d>>) \o <<e>>
    BY <2>2, LastInOrder
  <2> HIDE DEF l3
  <2> QED BY <2>1, <2>3
<1> HIDE DEF l3
<1>11. Heard(l3, c.item, 1) = full /\ EndTexts(l3, c.item) = {full}
  <2>1. e.ev # "delta" /\ e.ev # "text_done"
    OBVIOUS
  <2>2. Heard(l3, c.item, 1) = Heard(l2, c.item, 1)
    BY <1>8, <1>9, <2>1, HeardAppended
  <2>3. EndTexts(l3, c.item) = EndTexts(l2, c.item)
    BY <1>8, <1>9, <2>1, EndTextsSame
  <2> QED BY <1>8, <2>2, <2>3
<1> QED BY <1>11, <1>10 DEF full

(* The last events close the item under what it is known by. *)
LEMMA ClosingSettles ==
  ASSUME NEW c, NEW n, NEW out, NEW events, IsSeq(out), IsSeq(events), SameButDone(c, n),
         ~c.done, Settled(c, out),
         \A k \in DOMAIN events :
           events[k].ev \in {"added", "done"} => Title(events[k].body) = TitleOf(c),
         Goes(c, out) => Exact(n, out \o events)
  PROVE  Settled(n, out \o events)
<1>1. TitleOf(n) = TitleOf(c)
  BY TitlesAlike DEF SameButDone
<1>2. IsSeq(n.args) /\ n.done
  BY DEF SameButDone, Settled
<1>3. CASE c.added
  <2>1. Goes(c, out) /\ Titled(c, out)
    BY <1>3 DEF Settled, Goes
  <2>2. n.item = c.item
    BY DEF SameButDone
  <2>3. Titled(n, out \o events)
    BY <1>1, <2>1, <2>2, TitledLonger
  <2> HIDE DEF Titled
  <2>4. n.added
    BY <1>3 DEF SameButDone
  <2> QED BY <1>2, <2>1, <2>3, <2>4 DEF Settled
<1>4. CASE ~c.added
  BY <1>2, <1>4 DEF SameButDone, Settled, HasIdentity
<1> QED BY <1>3, <1>4

(* The turn with another call under an index. *)
WithCall(s, i, c) == [s EXCEPT !.tools.calls[i] = c]

(* A call that has ended, and a turn in which it has. *)
EndedCall(c, input) == [c EXCEPT !.done = TRUE, !.input = input]

WithEnded(s, i, input) ==
  [s EXCEPT !.tools.calls[i].done = TRUE, !.tools.calls[i].input = input]

(* The last stage of finalize_state replaces the call and adds the events. *)
LEMMA LastStage ==
  ASSUME NEW s, NEW i, NEW c, NEW index \in Nat, NEW item, NEW events, IsSeq(events),
         TurnOK(s), s.tools.finalized, i \in DOMAIN s.tools.calls, CallOK(c)
  PROVE  LET t == Emit(AppendCompletedItem(WithCall(s, i, c), index, item), events)
         IN  t.tools.calls[i] = c /\ t.out = s.out \o events
<1> DEFINE u == WithCall(s, i, c)
           w == AppendCompletedItem(u, index, item)
<1>1. Replaced(s, i, c, u)
  <2>1. c.done => s.tools.finalized
    OBVIOUS
  <2> QED BY <2>1, CallReplaced DEF WithCall
<1> HIDE DEF u
<1>2. TurnOK(u) /\ u.tools.calls[i] = c /\ u.out = s.out
  BY <1>1 DEF Replaced
<1>3. Completes(u, index, item, w)
  BY <1>2, ItemAppended
<1> HIDE DEF w
<1>4. TurnOK(w) /\ w.tools = u.tools /\ w.out = u.out
  BY <1>3 DEF Completes
<1>5. Emit(w, events).tools = w.tools /\ Emit(w, events).out = w.out \o events
  BY <1>4, Emitted, Zenon
<1> QED BY <1>2, <1>4, <1>5 DEF w, u

(* What is set twice in a row might be set at once. *)
LEMMA DoneAndInput ==
  ASSUME NEW s, NEW i, NEW input, TurnOK(s), i \in DOMAIN s.tools.calls
  PROVE  WithEnded(s, i, input) = WithCall(s, i, EndedCall(s.tools.calls[i], input))
<1> DEFINE c  == [s.tools.calls[i] EXCEPT !.done = TRUE, !.input = input]
           c1 == [s.tools.calls[i] EXCEPT !.done = TRUE]
           k1 == [s.tools.calls EXCEPT ![i] = c1]
           h1 == [s.tools EXCEPT !.calls = k1]
           u1 == [s EXCEPT !.tools = h1]
           k2 == [s.tools.calls EXCEPT ![i] = c]
           h2 == [s.tools EXCEPT !.calls = k2]
<1>1. "tools" \in DOMAIN s /\ "calls" \in DOMAIN s.tools
  BY DEF TurnOK, NewTurn, ToolsOK, NewTools
<1>2. u1.tools = h1 /\ h1.calls = k1 /\ k1[i] = c1
  BY <1>1
<1>3. [u1 EXCEPT !.tools.calls[i].input = input] =
        [u1 EXCEPT !.tools = [h1 EXCEPT !.calls = [k1 EXCEPT ![i] = [c1 EXCEPT !.input = input]]]]
  <2> HIDE DEF u1, h1, k1, c1
  <2> QED BY <1>2
<1>4. [s EXCEPT !.tools.calls[i].done = TRUE, !.tools.calls[i].input = input] =
        [u1 EXCEPT !.tools.calls[i].input = input]
  OBVIOUS
<1>5. [c1 EXCEPT !.input = input] = c
  OBVIOUS
<1>6. [k1 EXCEPT ![i] = c] = k2
  OBVIOUS
<1>7. [h1 EXCEPT !.calls = k2] = h2
  BY <1>1
<1>8. [u1 EXCEPT !.tools = h2] = [s EXCEPT !.tools = h2]
  BY <1>1
<1>9. [s EXCEPT !.tools.calls[i].done = TRUE, !.tools.calls[i].input = input]
        = [s EXCEPT !.tools.calls[i] = c]
  <2> HIDE DEF u1, h1, k1, c1, c
  <2> QED BY <1>3, <1>4, <1>5, <1>6, <1>7, <1>8
<1> QED BY <1>9 DEF WithEnded, WithCall, EndedCall

(* The turn after finalize_state has flushed the call and opened it. *)
OpenToClose(s, i) ==
  LET flushed == [s EXCEPT !.tools.calls[i] = FlushBuffered(s.tools.calls[i])]
  IN  IF HasIdentity(flushed.tools.calls[i]) THEN EnsureAdded(flushed, i) ELSE flushed

(* What was flushed, opened and sent before the call closes is settled. *)
LEMMA ReadyToCloseSettles ==
  ASSUME NEW s, NEW i, TurnOK(s), Shown(s), i \in DOMAIN s.tools.calls,
         ~s.tools.calls[i].done, Settled(s.tools.calls[i], s.out), Distinct(ReadyToClose(s, i))
  PROVE  LET t == ReadyToClose(s, i)
         IN  /\ Touches(s, i, t) /\ TurnOK(t) /\ i \in DOMAIN t.tools.calls
             /\ t.tools.finalized = s.tools.finalized /\ ~t.tools.calls[i].done
             /\ Settled(t.tools.calls[i], t.out)
             /\ t.tools.calls[i].name = OpenToClose(s, i).tools.calls[i].name
<1> DEFINE c == FlushBuffered(s.tools.calls[i])
           flushed == [s EXCEPT !.tools.calls[i] = c]
           s1 == IF HasIdentity(flushed.tools.calls[i]) THEN EnsureAdded(flushed, i) ELSE flushed
           n == s1.tools.calls[i]
           custom == ResolveToolKind(n.name) = "custom"
           t == ReadyToClose(s, i)
<1>1. t = IF custom THEN s1 ELSE EmitArgumentsIncremental(s1, i)
  BY DEF ReadyToClose
<1>2. s1 = OpenToClose(s, i)
  BY DEF OpenToClose
<1>3. CallOK(s.tools.calls[i]) /\ CallOK(c) /\ SameCall(s.tools.calls[i], c)
  BY NestedCalls DEF TurnOK, ToolsOK
<1>4. Settled(c, s.out) /\ ~c.done
  BY <1>3, FlushSettles DEF SameCall
<1> HIDE DEF c
<1>5. Replaced(s, i, c, flushed)
  BY <1>3, CallReplaced DEF SameCall
<1>6. Touches(s, i, flushed)
  BY <1>3, <1>5, ReplacedTouches
<1> HIDE DEF flushed
<1>7. /\ TurnOK(flushed) /\ Shown(flushed) /\ i \in DOMAIN flushed.tools.calls
      /\ ~flushed.tools.calls[i].done /\ flushed.tools.calls[i] = c /\ flushed.out = s.out
  BY <1>5, <1>6, TouchesShown DEF Replaced
<1>8. Touches(flushed, i, s1)
  BY <1>7, EnsureAddedTouches, TouchesReflexive
<1>9. TurnOK(s1) /\ Shown(s1) /\ i \in DOMAIN s1.tools.calls /\ ~n.done
  BY <1>7, <1>8, TouchesShown
<1>10. Touches(s1, i, t)
  <2> HIDE DEF s1
  <2> QED BY <1>1, <1>9, EmitArgumentsTouches, TouchesReflexive
<1>11. Distinct(s1)
  BY <1>10, DistinctBefore DEF Touches
<1>12. Settled(n, s1.out)
  <2>1. CASE ~HasIdentity(c)
    BY <1>4, <1>7, <2>1
  <2>2. CASE HasIdentity(c)
    <3>1. s1 = EnsureAdded(flushed, i)
      BY <1>7, <2>2
    <3>2. CASE c.added
      BY <1>4, <1>7, <3>1, <3>2 DEF EnsureAdded
    <3>3. CASE ~c.added
      <4>1. c.name # "" /\ c.input = <<>> /\ IsSeq(c.args)
        BY <1>4, <2>2, <3>3 DEF Settled
      <4>2. n.added /\ Goes(n, s1.out) /\ SameData(c, n)
        BY <1>7, <1>11, <3>1, <3>3, <4>1, FreshOpens
      <4>3. IsSeq(n.args)
        BY <4>1, <4>2 DEF SameData
      <4> QED BY <1>9, <4>2, <4>3 DEF Settled
    <3> QED BY <3>2, <3>3
  <2> QED BY <2>1, <2>2
<1> HIDE DEF s1
<1>13. Settled(t.tools.calls[i], t.out) /\ t.tools.calls[i].name = n.name
  <2>1. CASE custom
    BY <1>1, <1>12, <2>1
  <2>2. CASE ~custom
    <3>1. t = EmitArgumentsIncremental(s1, i)
      BY <1>1, <2>2
    <3>2. SendsArguments(n, t.tools.calls[i], s1.out, t.out)
      BY <1>9, <3>1, EmitArgumentsSends
    <3>3. IsSeq(s1.out)
      BY <1>9 DEF TurnOK
    <3> HIDE DEF t
    <3>4. ~t.tools.calls[i].done
      BY <1>9, <1>10, TouchesShown
    <3>5. Settled(t.tools.calls[i], t.out)
      BY <1>9, <1>12, <2>2, <3>2, <3>3, <3>4, SendingSettles
    <3> QED BY <3>2, <3>5 DEF SendsArguments, SameButSent
  <2> QED BY <2>1, <2>2
<1> HIDE DEF t
<1>14. Touches(s, i, t)
  <2>1. Touches(s, i, s1)
    BY <1>6, <1>8, TouchesTransitive
  <2> QED BY <1>10, <2>1, TouchesTransitive
<1>15. TurnOK(t) /\ i \in DOMAIN t.tools.calls /\ ~t.tools.calls[i].done /\ t.tools.finalized = s.tools.finalized
  BY <1>14, TouchesShown DEF Touches
<1> QED BY <1>13, <1>14, <1>15, <1>2 DEF t

(* finalize_state leaves the call settled. *)
LEMMA FinalizeStateSettles ==
  ASSUME NEW s, NEW i, TurnOK(s), Shown(s), s.tools.finalized, i \in DOMAIN s.tools.calls,
         ~s.tools.calls[i].done, Settled(s.tools.calls[i], s.out),
         Distinct(FinalizeState(s, i))
  PROVE  LET t == FinalizeState(s, i)
         IN  Settled(t.tools.calls[i], t.out)
<1> DEFINE s2 == ReadyToClose(s, i)
           custom == ResolveToolKind(OpenToClose(s, i).tools.calls[i].name) = "custom"
           call == s2.tools.calls[i]
           full == FinalArguments(call)
           residue == IF ~custom \/ ResidualInput(call) = <<>> THEN <<>>
                      ELSE <<ArgsDelta(call, ResidualInput(call))>>
           input == IF custom THEN full ELSE call.input
           c == EndedCall(call, input)
           d == [ev |-> "text_done", item |-> call.item, part |-> 1, text |-> full]
           e == [ev |-> "done", item |-> call.item, index |-> IndexOrZero(call),
                 body |-> FinalItem(call)]
           s3 == WithEnded(s2, i, input)
           t == FinalizeState(s, i)
<1>1. t = Emit(AppendCompletedItem(s3, IndexOrZero(call), FinalItem(call)), residue \o <<d, e>>)
  BY ZenonT(40) DEF FinalizeState, ReadyToClose, OpenToClose, WithEnded
<1>2. residue = <<>> \/ \E r : residue = <<r>> /\ r.ev = "delta"
  BY DEF ArgsDelta
<1>3. /\ d.ev = "text_done" /\ d.item = call.item /\ d.text = FinalArguments(call)
      /\ e.ev = "done" /\ e.body = FinalItem(call)
  OBVIOUS
<1>4. Title(FinalItem(call)) = TitleOf(call)
  BY TitlesAlike DEF FinalItem
<1>5. residue = IF ~custom \/ ResidualInput(call) = <<>> THEN <<>>
                 ELSE <<ArgsDelta(call, ResidualInput(call))>>
  OBVIOUS
<1> HIDE DEF custom, residue, d, e, input, full, s2
<1>6. Finishes(s2, i, t)
  BY FinalizeStateFinishes DEF s2
<1>7. Distinct(s2)
  BY <1>6, DistinctBefore DEF Finishes
<1>8. /\ TurnOK(s2) /\ i \in DOMAIN s2.tools.calls /\ s2.tools.finalized
      /\ ~call.done /\ Settled(call, s2.out)
      /\ custom <=> ResolveToolKind(call.name) = "custom"
  BY <1>7, ReadyToCloseSettles DEF s2, custom
<1>9. CallOK(call)
  BY <1>8 DEF TurnOK, ToolsOK
<1>10. CallOK(c) /\ SameButDone(call, c)
  BY <1>9 DEF SameButDone, CallOK, NewCall, EndedCall
<1>11. s3 = WithCall(s2, i, c)
  <2>1. TurnOK(s2) /\ i \in DOMAIN s2.tools.calls
    BY <1>8
  <2> QED BY <2>1, DoneAndInput
<1>12. IndexOrZero(call) \in Nat
  BY <1>9 DEF IndexOrZero, CallOK, NoIndex
<1> HIDE DEF c, s3
<1> DEFINE events == residue \o <<d, e>>
<1>13. /\ c.item = call.item /\ c.args = call.args
       /\ c.name = call.name /\ c.resolved = call.resolved
  BY <1>10 DEF SameButDone
<1>14. /\ IsSeq(events)
       /\ \A k \in DOMAIN events : events[k].ev \in {"added", "done"} => events[k] = e
  BY <1>2, <1>3, LastEvents
<1>15. \A k \in DOMAIN events :
         events[k].ev \in {"added", "done"} => Title(events[k].body) = TitleOf(call)
  BY <1>3, <1>4, <1>14
<1>16. t = Emit(AppendCompletedItem(WithCall(s2, i, c), IndexOrZero(call), FinalItem(call)), events)
  BY <1>1, <1>11
<1>17. ASSUME Goes(call, s2.out) PROVE Exact(c, s2.out \o events)
  <2> SUFFICES ASSUME IsCustom(call), IsInputObject(call.args)
               PROVE  /\ Heard(s2.out \o events, call.item, 1) = CustomInput(call.args)
                      /\ EndTexts(s2.out \o events, call.item) = {CustomInput(call.args)}
    BY <1>10, <1>13 DEF Exact, IsCustom
  <2>1. residue = LastDelta(call)
    BY <1>8, <1>5 DEF IsCustom, LastDelta
  <2>2. IsSeq(s2.out) /\ IsSeq(call.args)
    BY <1>8 DEF TurnOK, Settled
  <2> HIDE DEF call
  <2> QED BY <1>3, <1>17, <2>1, <2>2, LastInput
<1> HIDE DEF events, t
<1>18. t.tools.calls[i] = c /\ t.out = s2.out \o events
  BY <1>8, <1>10, <1>12, <1>14, <1>16, LastStage
<1>19. IsSeq(s2.out)
  BY <1>8 DEF TurnOK
<1>20. Settled(c, s2.out \o events)
  BY <1>8, <1>10, <1>14, <1>15, <1>17, <1>19, ClosingSettles
<1> QED BY <1>18, <1>20, SMTT(40) DEF t

-----------------------------------------------------------------------------
(* Steps that keep the log true to every call. *)
KeepsTold(s, t) ==
  /\ Moves(s, t)
  /\ Shown(s) /\ Distinct(t) => \A i, named : CallTold(s, i, named) => CallTold(t, i, named)

(* No step at all does. *)
LEMMA KeepsReflexive == ASSUME NEW s, TurnOK(s) PROVE KeepsTold(s, s)
<1> QED BY MovesReflexive DEF KeepsTold

(* Two such steps do together. *)
LEMMA KeepsTransitive ==
  ASSUME NEW s, NEW t, NEW u, TurnOK(s), KeepsTold(s, t), KeepsTold(t, u)
  PROVE  KeepsTold(s, u)
<1>1. Moves(s, t) /\ Moves(t, u)
  BY DEF KeepsTold
<1>2. Moves(s, u)
  BY <1>1, MovesTransitive
<1>3. Distinct(u) => Distinct(t)
  BY <1>1, DistinctBefore
<1>4. Shown(s) => Shown(t)
  BY <1>1 DEF Moves, Steps
<1> QED BY <1>2, <1>3, <1>4 DEF KeepsTold

(* The handlers of the other items do. *)
LEMMA WritesKeep ==
  ASSUME NEW s, NEW t, TurnOK(s), Writes(s, t)
  PROVE  KeepsTold(s, t)
<1>1. Aside(s, t)
  BY WritesAside
<1>2. \A i, named : Shown(s) /\ CallTold(s, i, named) => CallTold(t, i, named)
  BY <1>1, AsideKeeps
<1> QED BY <1>2 DEF KeepsTold, Writes

(* So does finalize_state. *)
LEMMA FinalizeStateKeeps ==
  ASSUME NEW s, NEW j, TurnOK(s), s.tools.finalized, j \in DOMAIN s.tools.calls,
         ~s.tools.calls[j].done
  PROVE  KeepsTold(s, FinalizeState(s, j))
<1> DEFINE t == FinalizeState(s, j)
<1>1. Finishes(s, j, t)
  BY FinalizeStateFinishes
<1>2. ASSUME Shown(s), Distinct(t), NEW i, NEW named, CallTold(s, i, named)
      PROVE  CallTold(t, i, named)
  <2>1. CASE i = j
    <3>1. Settled(s.tools.calls[j], s.out)
      BY <1>2, <2>1 DEF CallTold
    <3>2. Settled(t.tools.calls[j], t.out)
      BY <1>2, <3>1, FinalizeStateSettles
    <3> HIDE DEF t
    <3>3. t.tools.finalized /\ DOMAIN t.tools.calls = DOMAIN s.tools.calls
      BY <1>1 DEF Finishes
    <3> QED BY <2>1, <3>2, <3>3 DEF CallTold
  <2>2. CASE i # j
    <3> HIDE DEF t
    <3>1. /\ Moves(s, t) /\ t.tools.finalized /\ OnlyOf(s, j, t)
          /\ DOMAIN t.tools.calls = DOMAIN s.tools.calls
          /\ i \in DOMAIN s.tools.calls => t.tools.calls[i] = s.tools.calls[i]
      BY <1>1, <2>2 DEF Finishes
    <3>2. t.tools.finalized = s.tools.finalized
      <4>1. s.tools.finalized \in BOOLEAN /\ t.tools.finalized \in BOOLEAN
        BY <3>1 DEF TurnOK, ToolsOK, Moves, Steps
      <4> QED BY <3>1, <4>1
    <3> QED BY <1>2, <2>2, <3>1, <3>2, OtherCallKept
  <2> QED BY <2>1, <2>2
<1> QED BY <1>1, <1>2 DEF KeepsTold, Finishes

(* After k rounds of finalize's loop. *)
FinishingTold(none, s, t, k) == Finishing(0, s, t, k) /\ KeepsTold(s, t)

ToldFinished == INSTANCE Iteration_proofs WITH Step <- FinalizeNext, Holds <- FinishingTold

(* A round of the loop is about a call that is not done. *)
LEMMA NextUnfinished ==
  ASSUME NEW t, NEW k, TurnOK(t), Cardinality(Unfinished(t)) # 0
  PROVE  \E i \in Unfinished(t) : FinalizeNext(0, t, k) = FinalizeState(t, i)
<1>1. IsFiniteSet(Unfinished(t)) /\ Unfinished(t) \subseteq Nat
  BY UnfinishedFinite
<1>2. Unfinished(t) # {}
  BY FS_EmptySet
<1>3. \E x \in Unfinished(t) : \A j \in Unfinished(t) : x <= j
  <2> SUFFICES ASSUME \A x \in Unfinished(t) : \E j \in Unfinished(t) : ~(x <= j)
               PROVE  FALSE
    OBVIOUS
  <2>1. \A x \in Unfinished(t) : \E j \in Unfinished(t) : j < x
    BY <1>1
  <2> QED BY <1>1, <1>2, <2>1, EachFinished!NoDescent
<1>4. (CHOOSE i \in Unfinished(t) : \A j \in Unfinished(t) : i <= j) \in Unfinished(t)
  BY <1>3
<1> QED BY <1>4 DEF FinalizeNext

(* finalize of the tool-call store keeps the log true. *)
LEMMA ToolsFinalizeKeeps ==
  ASSUME NEW s, TurnOK(s)
  PROVE  KeepsTold(s, ToolsFinalize(s))
<1>1. CASE s.tools.finalized
  BY <1>1, KeepsReflexive DEF ToolsFinalize
<1>2. CASE ~s.tools.finalized
  <2> DEFINE s0 == [s EXCEPT !.tools.finalized = TRUE]
             n  == Cardinality(Unfinished(s))
             t  == EachUnfinished!Iterate(0, s0, n)
  <2>1. ToolsFinalize(s) = t
    BY <1>2 DEF ToolsFinalize
  <2>2. /\ DOMAIN s0 = DOMAIN s /\ s0.env = s.env /\ s0.reasoning = s.reasoning
        /\ s0.message = s.message /\ s0.think = s.think /\ s0.out = s.out
        /\ s0.tools = [s.tools EXCEPT !.finalized = TRUE]
    BY DEF TurnOK, NewTurn
  <2> HIDE DEF s0
  <2>3. s0.tools.calls = s.tools.calls /\ s0.tools.finalized /\ ToolsOK(s0.tools)
    BY <2>2 DEF TurnOK, ToolsOK, NewTools
  <2>4. TurnOK(s0)
    BY <2>2, <2>3 DEF TurnOK
  <2>5. KeepsTold(s, s0)
    <3>1. Silent(s, s0)
      BY <2>2, <2>3, <2>4 DEF Silent, SameCall, Kept
    <3>2. Moves(s, s0)
      BY <2>2, <3>1, SilentMoves
    <3>3. \A i \in DOMAIN s.tools.calls : ~s.tools.calls[i].done
      BY <1>2 DEF TurnOK, ToolsOK
    <3>4. \A i, named : CallTold(s, i, named) => CallTold(s0, i, named)
      BY <1>2, <2>2, <2>3, <3>3, ToldSettles DEF CallTold
    <3> QED BY <3>2, <3>4 DEF KeepsTold
  <2>6. n = Cardinality(Unfinished(s0)) /\ n \in Nat
    BY <2>3, UnfinishedFinite DEF Unfinished
  <2> HIDE DEF n
  <2>7. FinishingTold(0, s0, t, n)
    <3>1. FinishingTold(0, s0, s0, 0)
      BY <2>3, <2>4, <2>6, MovesReflexive, KeepsReflexive DEF Finishing, FinishingTold
    <3>2. ASSUME NEW u, NEW k \in 1..n, FinishingTold(0, s0, u, k - 1)
          PROVE  FinishingTold(0, s0, FinalizeNext(0, u, k), k)
      <4>1. Finishing(0, s0, u, k - 1) /\ KeepsTold(s0, u)
        BY <3>2 DEF FinishingTold
      <4>2. Finishing(0, s0, FinalizeNext(0, u, k), k)
        BY <2>4, <2>6, <4>1, FinishingStep
      <4>3. TurnOK(u) /\ u.tools.finalized /\ Cardinality(Unfinished(u)) # 0
        BY <2>6, <4>1 DEF Finishing, Moves, Steps
      <4>4. KeepsTold(u, FinalizeNext(0, u, k))
        <5>1. PICK i \in Unfinished(u) : FinalizeNext(0, u, k) = FinalizeState(u, i)
          BY <4>3, NextUnfinished
        <5> QED BY <4>3, <5>1, FinalizeStateKeeps DEF Unfinished
      <4>5. KeepsTold(s0, FinalizeNext(0, u, k))
        BY <2>4, <4>1, <4>4, KeepsTransitive
      <4> QED BY <4>2, <4>5 DEF FinishingTold
    <3>3. \A u : \A k \in 1..n : FinishingTold(0, s0, u, k - 1)
                                 => FinishingTold(0, s0, FinalizeNext(0, u, k), k)
      BY <3>2
    <3>4. FinishingTold(0, s0, ToldFinished!Iterate(0, s0, n), n)
      BY <2>6, <3>1, <3>3, ToldFinished!LoopInvariant
    <3> QED BY <3>4 DEF EachUnfinished!Iterate, ToldFinished!Iterate
  <2> HIDE DEF t
  <2> QED BY <2>1, <2>5, <2>7, KeepsTransitive DEF FinishingTold
<1> QED BY <1>1, <1>2

-----------------------------------------------------------------------------
(* The calls of a chunk. *)

(* One of the first k fragments gives call i an id or a name. *)
NamedBy(calls, k, i) == \E j \in 1..k : NamesCall(calls[j], i)

(* One at most does, if none did before, and it gives both. *)
NamesWhole(calls, k, i, named) ==
  \A j \in 1..k : NamesCall(calls[j], i) =>
    /\ ~named /\ calls[j].id # <<>> /\ calls[j].name # ""
    /\ \A l \in 1..k : NamesCall(calls[l], i) => l = j

(* What was told of the calls is told of them still. *)
StaysTold(s, t) ==
  /\ Shown(s) => Shown(t)
  /\ Distinct(t) => Distinct(s)
  /\ Shown(s) /\ Distinct(t) => \A i, named : CallTold(s, i, named) => CallTold(t, i, named)

(* Or was, and the first k fragments have been taken in. *)
TellsCalls(s, t, calls, k) ==
  /\ Shown(s) => Shown(t)
  /\ Distinct(t) => Distinct(s)
  /\ Shown(s) /\ Distinct(t) =>
       \A i : \A named \in BOOLEAN :
         CallTold(s, i, named) /\ NamesWhole(calls, k, i, named) =>
           CallTold(t, i, named \/ NamedBy(calls, k, i))

(* The handlers of the items keep what was told. *)
LEMMA KeepsStays ==
  ASSUME NEW s, NEW t, KeepsTold(s, t)
  PROVE  StaysTold(s, t)
<1> QED BY DistinctBefore DEF KeepsTold, StaysTold, Moves, Steps

(* So do those that leave the calls aside. *)
LEMMA AsideStays ==
  ASSUME NEW s, NEW t, Aside(s, t), Shown(s) => Shown(t)
  PROVE  StaysTold(s, t)
<1>1. Distinct(t) => Distinct(s)
  BY DEF Aside, Distinct
<1> QED BY <1>1, AsideKeeps DEF StaysTold

(* And two such steps together. *)
LEMMA StaysTransitive ==
  ASSUME NEW s, NEW t, NEW u, StaysTold(s, t), StaysTold(t, u)
  PROVE  StaysTold(s, u)
<1> QED BY DEF StaysTold

(* Where no fragment is, none is taken in. *)
LEMMA StaysTells ==
  ASSUME NEW s, NEW t, NEW calls, StaysTold(s, t)
  PROVE  TellsCalls(s, t, calls, 0)
<1>1. \A i : ~NamedBy(calls, 0, i)
  BY DEF NamedBy
<1>2. \A i : \A named \in BOOLEAN : (named \/ NamedBy(calls, 0, i)) = named
  BY <1>1
<1> QED BY <1>2 DEF TellsCalls, StaysTold

(* A step that takes in none may come before. *)
LEMMA StaysThenTells ==
  ASSUME NEW s, NEW t, NEW u, NEW calls, NEW k, StaysTold(s, t), TellsCalls(t, u, calls, k)
  PROVE  TellsCalls(s, u, calls, k)
<1> QED BY DEF TellsCalls, StaysTold

(* Or after. *)
LEMMA TellsThenStays ==
  ASSUME NEW s, NEW t, NEW u, NEW calls, NEW k, TellsCalls(s, t, calls, k), StaysTold(t, u)
  PROVE  TellsCalls(s, u, calls, k)
<1> QED BY DEF TellsCalls, StaysTold

(* When the calls are finalized, it does not matter who named them. *)
LEMMA SettledTells ==
  ASSUME NEW s, NEW t, NEW calls, NEW k, StaysTold(s, t), t.tools.finalized
  PROVE  TellsCalls(s, t, calls, k)
<1>1. \A i, named, now : CallTold(t, i, named) => CallTold(t, i, now)
  BY DEF CallTold
<1> QED BY <1>1 DEF StaysTold, TellsCalls

(* One tool-call fragment of a chunk. *)
LEMMA PushToolCallDeltaTells ==
  ASSUME NEW s, NEW d \in CallSet, NEW why, TurnOK(s), Shown(s),
         NEW i, NEW named, CallTold(s, i, named),
         NamesCall(d, i) => ~named /\ d.id # <<>> /\ d.name # "",
         Distinct(PushToolCallDelta(s, d, why))
  PROVE  CallTold(PushToolCallDelta(s, d, why), i, NowNamed(d, i, named))
<1> DEFINE u == ForceInlineThinkToText(s)
<1>1. KeepsTold(s, u) /\ TurnOK(u)
  BY ForceInlineThinkToTextWrites, WritesKeep, WritesOK
<1>2. PushToolCallDelta(s, d, why) = ToolsPushDelta(u, d, why)
  BY DEF PushToolCallDelta
<1> HIDE DEF u
<1>3. d.index \in Nat /\ IsSeq(d.id) /\ IsSeq(d.args)
  BY DEF CallSet, IsSeq
<1>4. Moves(u, ToolsPushDelta(u, d, why))
  BY <1>1, <1>3, ToolsPushDeltaAdvances DEF Advances
<1>5. Distinct(ToolsPushDelta(u, d, why)) /\ Distinct(u) /\ Shown(u)
  BY <1>1, <1>2, <1>4, DistinctBefore DEF KeepsTold, Moves, Steps
<1>6. CallTold(u, i, named)
  BY <1>1, <1>5 DEF KeepsTold
<1>7. CallTold(ToolsPushDelta(u, d, why), i, NowNamed(d, i, named))
  BY <1>1, <1>3, <1>5, <1>6, ToolsPushDeltaTells, Zenon
<1> QED BY <1>2, <1>7, Zenon

(* One more fragment. *)
LEMMA OneMoreTells ==
  ASSUME NEW s, NEW t, NEW calls, NEW k \in Nat \ {0}, NEW why, calls[k] \in CallSet,
         TurnOK(t), TellsCalls(s, t, calls, k - 1)
  PROVE  TellsCalls(s, PushToolCallDelta(t, calls[k], why), calls, k)
<1> DEFINE d == calls[k]
           u == PushToolCallDelta(t, d, why)
<1>1. Moves(t, u)
  BY PushToolCallDeltaAdvances DEF Advances
<1>2. /\ Shown(s) => Shown(t) /\ Shown(u)
      /\ Distinct(u) => Distinct(t) /\ Distinct(s)
  BY <1>1, DistinctBefore DEF Moves, Steps, TellsCalls
<1> SUFFICES ASSUME Shown(s), Distinct(u), NEW i, NEW named \in BOOLEAN,
                    CallTold(s, i, named), NamesWhole(calls, k, i, named)
             PROVE  CallTold(u, i, named \/ NamedBy(calls, k, i))
  BY <1>2 DEF TellsCalls
<1> DEFINE before == named \/ NamedBy(calls, k - 1, i)
<1>3. 1..k = 1..(k - 1) \cup {k} /\ k \notin 1..(k - 1)
  OBVIOUS
<1>4. NamesWhole(calls, k - 1, i, named)
  BY <1>3 DEF NamesWhole
<1>5. CallTold(t, i, before)
  BY <1>2, <1>4 DEF TellsCalls
<1>6. NamesCall(d, i) => ~before /\ d.id # <<>> /\ d.name # ""
  BY <1>3 DEF NamesWhole, NamedBy
<1>7. NowNamed(d, i, before) = (named \/ NamedBy(calls, k, i))
  BY <1>3 DEF NamedBy, NowNamed
<1> HIDE DEF before
<1>8. CallTold(u, i, NowNamed(d, i, before))
  BY <1>2, <1>5, <1>6, PushToolCallDeltaTells, Zenon
<1> QED BY <1>7, <1>8, Zenon

(* After k of the calls of a chunk. *)
TellingCalls(x, s, t, k) == PushingCalls(x, s, t, k) /\ TellsCalls(s, t, x.calls, k)

CallsHeard == INSTANCE Iteration_proofs WITH Step <- PushCall, Holds <- TellingCalls

(* All the tool-call fragments of a chunk. *)
LEMMA ToolCallEventsTells ==
  ASSUME NEW s, NEW calls \in Seq(CallSet), NEW hint, TurnOK(s)
  PROVE  TellsCalls(s, ToolCallEvents(s, calls, hint), calls, Len(calls))
<1> DEFINE active == ActiveReasoningText(s)
           why    == IF active = <<>> THEN hint ELSE active
           s1     == IF active = <<>> THEN s ELSE ReasoningFinalize(s)
           s2     == ForceInlineThinkToText(s1)
           x      == [calls |-> calls, why |-> why]
           n      == Len(calls)
           t      == EachCall!Iterate(x, s2, n)
<1>1. ToolCallEvents(s, calls, hint) = t
  BY DEF ToolCallEvents
<1>2. StaysTold(s, s1) /\ TurnOK(s1)
  BY ReasoningFinalizeWrites, WritesReflexive, WritesKeep, KeepsStays, WritesOK
<1> HIDE DEF s1
<1>3. StaysTold(s1, s2) /\ TurnOK(s2)
  BY <1>2, ForceInlineThinkToTextWrites, WritesKeep, KeepsStays, WritesOK
<1>4. x.calls = calls /\ n \in Nat /\ \A k \in 1..n : calls[k] \in CallSet
  BY LenProperties
<1> HIDE DEF s2, x, n, why
<1>5. TellingCalls(x, s2, s2, 0)
  BY <1>3, AdvancesReflexive, KeepsReflexive, KeepsStays, StaysTells DEF PushingCalls, TellingCalls
<1>6. ASSUME NEW u, NEW k \in 1..n, TellingCalls(x, s2, u, k - 1)
      PROVE  TellingCalls(x, s2, PushCall(x, u, k), k)
  <2>1. Advances(s2, u) /\ TurnOK(u) /\ TellsCalls(s2, u, calls, k - 1)
    BY <1>4, <1>6, AdvancesOK DEF PushingCalls, TellingCalls
  <2>2. PushCall(x, u, k) = PushToolCallDelta(u, calls[k], x.why)
    BY <1>4 DEF PushCall
  <2>3. Advances(u, PushCall(x, u, k))
    BY <1>4, <2>1, <2>2, PushToolCallDeltaAdvances
  <2>4. Advances(s2, PushCall(x, u, k))
    BY <1>3, <2>1, <2>3, AdvancesTransitive
  <2>5. k \in Nat \ {0} /\ calls[k] \in CallSet
    BY <1>4
  <2>6. TellsCalls(s2, PushCall(x, u, k), calls, k)
    BY <2>1, <2>2, <2>5, OneMoreTells
  <2> QED BY <1>3, <1>4, <2>4, <2>6 DEF PushingCalls, TellingCalls
<1>7. TellingCalls(x, s2, CallsHeard!Iterate(x, s2, n), n)
  <2>1. \A u : \A k \in 1..n : TellingCalls(x, s2, u, k - 1) => TellingCalls(x, s2, PushCall(x, u, k), k)
    BY <1>6
  <2> QED BY <1>4, <1>5, <2>1, CallsHeard!LoopInvariant
<1>8. TellingCalls(x, s2, t, n)
  BY <1>7 DEF EachCall!Iterate, CallsHeard!Iterate
<1> HIDE DEF t
<1>9. TellsCalls(s2, t, calls, n)
  BY <1>4, <1>8 DEF TellingCalls
<1>10. TellsCalls(s, t, calls, n)
  BY <1>2, <1>3, <1>9, StaysTransitive, StaysThenTells
<1> QED BY <1>1, <1>10 DEF n

(* Everything a chunk without an error says. *)
LEMMA ProcessedTells ==
  ASSUME NEW s, NEW c \in ChunkSet(Seq(CallSet)), TurnOK(s)
  PROVE  TellsCalls(s, Processed(s, c), c.calls, Len(c.calls))
<1> DEFINE reasoning == ReasoningField(c)
           s2 == IF reasoning = <<>> THEN s ELSE ReasoningPushDelta(s, reasoning)
           a  == AddAnnotations(s2, c.anns)
           s3 == ContentEvents(a, c.content, reasoning)
           s4 == IF c.calls = <<>> THEN s3 ELSE ToolCallEvents(s3, c.calls, reasoning)
           s5 == RefusalEvents(s4, c.refusal)
           n  == Len(c.calls)
<1>1. Processed(s, c) = s5
  BY DEF Processed
<1>2. c.content \in ContentSet /\ c.calls \in Seq(CallSet)
  BY DEF ChunkSet
<1>3. Writes(s, s2) /\ TurnOK(s2)
  BY ReasoningPushDeltaWrites, WritesReflexive, WritesOK
<1> HIDE DEF s2, reasoning
<1>4. Writes(s2, a) /\ TurnOK(a)
  BY <1>3, AddAnnotationsWrites, WritesOK
<1> HIDE DEF a
<1>5. Writes(a, s3) /\ TurnOK(s3)
  BY <1>2, <1>4, ContentEventsWrites, WritesOK
<1> HIDE DEF s3
<1>6. StaysTold(s, s3)
  BY <1>3, <1>4, <1>5, WritesTransitive, WritesKeep, KeepsStays
<1>7. Advances(s3, s4) /\ TurnOK(s4)
  BY <1>2, <1>5, ToolCallEventsAdvances, AdvancesReflexive, AdvancesOK
<1>8. TellsCalls(s3, s4, c.calls, n)
  <2>1. c.calls = <<>> => n = 0
    BY SMT
  <2> QED BY <1>2, <1>5, <2>1, ToolCallEventsTells, KeepsReflexive, KeepsStays, StaysTells
<1> HIDE DEF s4, n
<1>9. StaysTold(s4, s5)
  BY <1>7, RefusalEventsWrites, WritesKeep, KeepsStays
<1> HIDE DEF s5
<1>10. TellsCalls(s, s5, c.calls, n)
  BY <1>6, <1>8, <1>9, StaysThenTells, TellsThenStays
<1> QED BY <1>1, <1>10 DEF n

-----------------------------------------------------------------------------
(* The turn as a whole. *)

(* Where the terminal events are. *)
VerdictsIn(out) == {k \in DOMAIN out : out[k].ev \in {"completed", "failed"}}

(* The turn's items and its log agree, in their stages and in their texts.   *)
Sound(s) == TurnOK(s) /\ Shown(s) /\ Told(s) /\ (Distinct(s) => InOrder(s))

(* Created and in_progress are first and only first.                         *)
Begun(s) ==
  /\ IF s.env.started
     THEN Len(s.out) >= 2 /\ s.out[1].ev = "created" /\ s.out[2].ev = "in_progress"
     ELSE s.out = <<>>
  /\ \A k \in 3..Len(s.out) : s.out[k].ev \notin {"created", "in_progress"}

(* What a terminal event lists has ended.                                    *)
Ruled(s) ==
  \A k \in VerdictsIn(s.out) : \A j \in DOMAIN s.out[k].output :
    /\ s.out[k].output[j].id = ReasoningId => s.reasoning.life = "done"
    /\ s.out[k].output[j].id = MessageId => s.message.life = "done"

(* A completed turn has one terminal event, and its calls are finalized   *)
(* and done; one that is not has none.                                    *)
Concluded(s) ==
  IF s.env.completed
  THEN /\ s.env.started /\ s.tools.finalized /\ Unfinished(s) = {}
       /\ \E k : VerdictsIn(s.out) = {k}
       /\ Ruled(s)
  ELSE ~s.tools.finalized /\ VerdictsIn(s.out) = {}

(* The invariant of a turn. *)
Core(s) == Sound(s) /\ Begun(s) /\ Concluded(s)

(* A move keeps a turn sound. *)
LEMMA SoundMoves ==
  ASSUME NEW s, NEW t, Sound(s), Moves(s, t)
  PROVE  Sound(t)
<1>1. Distinct(t) => Distinct(s)
  BY DEF Moves, Steps, CallsKept, Distinct
<1> QED BY <1>1 DEF Sound, Moves, Steps

(* Only the envelope's flags change.                                         *)
LEMMA SoundFlags ==
  ASSUME NEW s, NEW t, Sound(s), TurnOK(t), t.env.items = s.env.items,
         t.reasoning = s.reasoning, t.message = s.message, t.tools = s.tools,
         t.out = s.out
  PROVE  Sound(t)
<1>1. Shown(t)
  BY DEF Sound, Shown, ItemsShown, FromCall
<1>2. Distinct(t) => InOrder(t)
  BY DEF Sound, Distinct, InOrder
<1>3. Told(t)
  BY StillTold DEF Sound
<1> QED BY <1>1, <1>2, <1>3 DEF Sound

(* The log has a response event more.                                        *)
Rendered(s, t, name, status, output) ==
  /\ Sound(t)
  /\ \E e : /\ Appended(s.out, e, t.out)
            /\ e.ev = name /\ e.item = <<>> /\ e.output = output
  /\ t.env = [s.env EXCEPT !.status = status]
  /\ t.reasoning = s.reasoning /\ t.message = s.message
  /\ t.think = s.think /\ t.tools = s.tools

(* A response event is no event of an item and changes the status only. *)
LEMMA ResponseEventRenders ==
  ASSUME NEW s, NEW name, NEW status \in Statuses, NEW output, Sound(s)
  PROVE  Rendered(s, ResponseEvent(s, name, status, output), name, status, output)
<1> DEFINE u == [s EXCEPT !.env.status = status]
           e == [ev |-> name, item |-> <<>>, status |-> status, output |-> output,
                 model |-> s.env.model, usage |-> s.env.usage]
           t == Emit(u, <<e>>)
<1>1. ResponseEvent(s, name, status, output) = t
  BY DEF ResponseEvent
<1>2. e.ev = name /\ e.item = <<>> /\ e.output = output
  OBVIOUS
<1>3. TurnOK(s)
  BY DEF Sound
<1>4. /\ DOMAIN u = DOMAIN s /\ u.reasoning = s.reasoning /\ u.message = s.message
      /\ u.think = s.think /\ u.tools = s.tools /\ u.out = s.out
      /\ u.env = [s.env EXCEPT !.status = status]
  BY <1>3 DEF TurnOK, NewTurn
<1> HIDE DEF u, e
<1>5. EnvOK(u.env) /\ u.env.items = s.env.items
  BY <1>3, <1>4 DEF TurnOK, EnvOK, NewEnvelope
<1>6. TurnOK(u)
  BY <1>3, <1>4, <1>5 DEF TurnOK
<1>7. Sound(u)
  BY <1>4, <1>5, <1>6, SoundFlags
<1>8. /\ TurnOK(t) /\ t.env = u.env /\ t.reasoning = u.reasoning /\ t.message = u.message
      /\ t.think = u.think /\ t.tools = u.tools /\ Appended(u.out, e, t.out)
  BY <1>6, EmittedOne, Zenon
<1> HIDE DEF t
<1>9. \A id : id # <<>> => (Opened(t.out, id) <=> Opened(u.out, id))
                           /\ (Closed(t.out, id) <=> Closed(u.out, id))
  BY <1>2, <1>8 DEF Appended
<1>10. Shown(u)
  BY <1>7 DEF Sound
<1>11. Shown(t)
  <2>1. ItemsShown(t)
    BY <1>8, <1>10 DEF Shown, ItemsShown
  <2>2. /\ LifeShown(t.reasoning.life, t.out, ReasoningId)
        /\ LifeShown(t.message.life, t.out, MessageId)
    BY <1>8, <1>9, <1>10 DEF Shown, LifeShown, ReasoningId, MessageId
  <2>3. \A i \in DOMAIN t.tools.calls : CallShown(t.tools.calls[i], t.out)
    BY <1>8, <1>9, <1>10 DEF Shown, CallShown, IsToolId
  <2>4. \A id : FromCall(t, id) <=> FromCall(u, id)
    BY <1>8 DEF FromCall
  <2>5. Len(u.out) \in Nat
    BY <1>6, SeqFacts DEF TurnOK
  <2>6. \A k \in DOMAIN t.out : \/ t.out[k].item \in {<<>>, ReasoningId, MessageId}
                                \/ FromCall(t, t.out[k].item)
    BY <1>2, <1>8, <1>10, <2>4, <2>5, SMTT(30) DEF Shown, Appended
  <2> QED BY <2>1, <2>2, <2>3, <2>6 DEF Shown
<1>12. ASSUME Distinct(t) PROVE InOrder(t)
  <2>1. InOrder(u)
    BY <1>7, <1>8, <1>12 DEF Sound, Distinct
  <2>2. Orderly(t.out)
    BY <1>2, <1>8, <2>1 DEF InOrder, Appended, Fits
  <2>3. \A i \in DOMAIN u.tools.calls : u.tools.calls[i].added => u.tools.calls[i].item # <<>>
    BY <1>10 DEF Shown, CallShown, IsToolId
  <2> QED BY <1>8, <1>9, <2>1, <2>2, <2>3 DEF InOrder
<1>13. Told(t)
  <2>1. e.item \notin {ReasoningId, MessageId} /\ Told(u)
    BY <1>2, <1>7 DEF Sound, ReasoningId, MessageId
  <2> QED BY <1>6, <2>1, AsideTold DEF t
<1>14. Sound(t)
  BY <1>8, <1>11, <1>12, <1>13 DEF Sound
<1> QED BY <1>1, <1>2, <1>4, <1>8, <1>14 DEF Rendered

(* It is about no call. *)
LEMMA RenderedAside ==
  ASSUME NEW s, NEW t, NEW name, NEW status, NEW output, Sound(s),
         Rendered(s, t, name, status, output)
  PROVE  Aside(s, t)
<1>1. PICK e : Appended(s.out, e, t.out) /\ e.item = <<>>
  BY DEF Rendered
<1>2. IsSeq(s.out) /\ IsSeq(t.out) /\ Len(t.out) = Len(s.out) + 1 /\ Len(s.out) \in Nat
      /\ (\A k \in 1..Len(s.out) : t.out[k] = s.out[k]) /\ t.out[Len(s.out) + 1] = e
  BY <1>1, SeqFacts DEF Appended, Sound, TurnOK
<1>3. t.tools = s.tools
  BY DEF Rendered
<1> QED BY <1>1, <1>2, <1>3 DEF Aside

(* So what was told of the calls is told of them still. *)
LEMMA RenderedStays ==
  ASSUME NEW s, NEW t, NEW name, NEW status, NEW output, Sound(s),
         Rendered(s, t, name, status, output)
  PROVE  StaysTold(s, t)
<1>1. Aside(s, t)
  BY RenderedAside
<1>2. Shown(t)
  BY DEF Rendered, Sound
<1> QED BY <1>1, <1>2, AsideStays

(* As when nothing is said and the calls are the same. *)
LEMMA StaysAlike ==
  ASSUME NEW s, NEW t, t.tools = s.tools, t.out = s.out, Shown(t)
  PROVE  StaysTold(s, t)
<1> QED BY DEF StaysTold, Distinct, CallTold

(* No step at all. *)
LEMMA StaysReflexive == ASSUME NEW s PROVE StaysTold(s, s)
<1> QED BY DEF StaysTold

(* ensure_started: created and in_progress the first time, nothing        *)
(* afterwards.                                                            *)
LEMMA EnsureStartedBegins ==
  ASSUME NEW s, Sound(s), Begun(s)
  PROVE  LET t == EnsureStarted(s)
         IN  /\ Sound(t) /\ Begun(t) /\ t.env.started
             /\ t.env.completed = s.env.completed /\ t.env.finish = s.env.finish
             /\ t.tools = s.tools
             /\ s.env.started => t = s
             /\ VerdictsIn(s.out) = {} => VerdictsIn(t.out) = {}
             /\ StaysTold(s, t)
<1>1. CASE s.env.started
  BY <1>1, StaysReflexive DEF EnsureStarted
<1>2. CASE ~s.env.started
  <2> DEFINE u == [s EXCEPT !.env.started = TRUE]
             v == ResponseEvent(u, "created", "in_progress", <<>>)
             t == ResponseEvent(v, "in_progress", "in_progress", <<>>)
  <2>1. EnsureStarted(s) = t
    BY <1>2 DEF EnsureStarted
  <2>2. TurnOK(s) /\ s.out = <<>>
    BY <1>2 DEF Sound, Begun
  <2>3. /\ DOMAIN u = DOMAIN s /\ u.reasoning = s.reasoning /\ u.message = s.message
        /\ u.think = s.think /\ u.tools = s.tools /\ u.out = s.out
        /\ u.env = [s.env EXCEPT !.started = TRUE]
    BY <2>2 DEF TurnOK, NewTurn
  <2> HIDE DEF u
  <2>4. /\ EnvOK(u.env) /\ u.env.items = s.env.items /\ u.env.started
        /\ u.env.completed = s.env.completed /\ u.env.finish = s.env.finish
    BY <2>2, <2>3 DEF TurnOK, EnvOK, NewEnvelope
  <2>5. TurnOK(u)
    BY <2>2, <2>3, <2>4 DEF TurnOK
  <2>6. Sound(u)
    BY <2>3, <2>4, <2>5, SoundFlags
  <2>7. Rendered(u, v, "created", "in_progress", <<>>)
    BY <2>6, ResponseEventRenders DEF Statuses
  <2> HIDE DEF v
  <2>8. Rendered(v, t, "in_progress", "in_progress", <<>>)
    <3>1. Sound(v) /\ "in_progress" \in Statuses
      BY <2>7 DEF Statuses, Rendered
    <3> QED BY <3>1, ResponseEventRenders
  <2> HIDE DEF t
  <2>9. Len(u.out) = 0
    BY <2>2, <2>3
  <2>10. /\ Len(t.out) = 2 /\ DOMAIN t.out = 1..2
         /\ t.out[1].ev = "created" /\ t.out[2].ev = "in_progress"
    <3>1. PICK d : Appended(u.out, d, v.out) /\ d.ev = "created"
      BY <2>7 DEF Rendered
    <3>2. PICK e : Appended(v.out, e, t.out) /\ e.ev = "in_progress"
      BY <2>8 DEF Rendered
    <3>3. Len(v.out) = 1 /\ v.out[1] = d
      BY <2>9, <3>1 DEF Appended
    <3>4. Len(t.out) = 2 /\ DOMAIN t.out = 1..2 /\ t.out[2] = e
      BY <3>2, <3>3 DEF Appended
    <3>5. t.out[1] = v.out[1]
      BY <3>2, <3>3 DEF Appended
    <3> QED BY <3>1, <3>2, <3>3, <3>4, <3>5
  <2>11. /\ t.env.started /\ t.env.completed = s.env.completed /\ t.env.finish = s.env.finish
         /\ t.tools = s.tools
    <3>1. v.env = [u.env EXCEPT !.status = "in_progress"] /\ v.tools = u.tools
      BY <2>7 DEF Rendered
    <3>2. t.env = [v.env EXCEPT !.status = "in_progress"] /\ t.tools = v.tools
      BY <2>8 DEF Rendered
    <3> QED BY <2>3, <2>4, <3>1, <3>2 DEF EnvOK, NewEnvelope
  <2>12. VerdictsIn(t.out) = {}
    BY <2>10 DEF VerdictsIn
  <2>13. Begun(t)
    BY <2>10, <2>11 DEF Begun
  <2>14. StaysTold(s, t)
    <3>1. StaysTold(u, v)
      BY <2>6, <2>7, RenderedStays
    <3>4. Sound(v)
      BY <2>7 DEF Rendered
    <3>2. StaysTold(v, t)
      BY <2>8, <3>4, RenderedStays
    <3>3. StaysTold(s, u)
      BY <2>3, <2>6, StaysAlike DEF Sound
    <3> QED BY <3>1, <3>2, <3>3, StaysTransitive
  <2> QED BY <1>2, <2>1, <2>8, <2>11, <2>12, <2>13, <2>14 DEF Rendered
<1> QED BY <1>1, <1>2

(* The same, for the whole invariant of a turn. *)
LEMMA EnsureStartedCore ==
  ASSUME NEW s, Core(s)
  PROVE  LET t == EnsureStarted(s)
         IN  /\ Core(t) /\ t.env.started
             /\ t.env.completed = s.env.completed /\ t.env.finish = s.env.finish
             /\ s.env.started => t = s
             /\ StaysTold(s, t)
<1> DEFINE t == EnsureStarted(s)
<1>1. /\ Sound(t) /\ Begun(t) /\ t.env.started
      /\ t.env.completed = s.env.completed /\ t.env.finish = s.env.finish
      /\ t.tools = s.tools
      /\ s.env.started => t = s
      /\ VerdictsIn(s.out) = {} => VerdictsIn(t.out) = {}
      /\ StaysTold(s, t)
  BY EnsureStartedBegins DEF Core
<1> HIDE DEF t
<1>2. Concluded(t)
  BY <1>1 DEF Core, Concluded, Unfinished
<1>3. Core(t)
  BY <1>1, <1>2 DEF Core
<1> QED BY <1>1, <1>3 DEF t

(* The invariant does not depend on the rest of the envelope. *)
LEMMA FlagsCore ==
  ASSUME NEW s, NEW t, Core(s), TurnOK(t), t.env.items = s.env.items,
         t.env.started = s.env.started, t.env.completed = s.env.completed,
         t.reasoning = s.reasoning, t.message = s.message, t.tools = s.tools,
         t.out = s.out
  PROVE  Core(t)
<1>1. Sound(t)
  BY SoundFlags DEF Core
<1>2. Begun(t)
  BY DEF Core, Begun
<1>3. Concluded(t)
  BY DEF Core, Concluded, Ruled, Unfinished
<1> QED BY <1>1, <1>2, <1>3 DEF Core

(* apply_metadata changes the model and the usage. *)
LEMMA MetadataCore ==
  ASSUME NEW s, NEW model, NEW usage, Core(s)
  PROVE  LET t == ApplyMetadata(s, model, usage)
         IN  /\ Core(t)
             /\ t.env.started = s.env.started /\ t.env.completed = s.env.completed
             /\ t.env.status = s.env.status /\ t.env.finish = s.env.finish
             /\ t.reasoning = s.reasoning /\ t.message = s.message
             /\ t.tools = s.tools /\ t.out = s.out
<1> DEFINE t == ApplyMetadata(s, model, usage)
<1>1. TurnOK(s)
  BY DEF Core, Sound
<1>2. /\ DOMAIN t = DOMAIN s /\ t.reasoning = s.reasoning /\ t.message = s.message
      /\ t.think = s.think /\ t.tools = s.tools /\ t.out = s.out
      /\ t.env = [s.env EXCEPT !.model = IF @ = "" THEN model ELSE @,
                               !.usage = IF usage = 0 THEN @ ELSE usage]
  BY <1>1 DEF TurnOK, NewTurn, ApplyMetadata
<1> HIDE DEF t
<1>3. /\ EnvOK(t.env) /\ t.env.items = s.env.items
      /\ t.env.started = s.env.started /\ t.env.completed = s.env.completed
      /\ t.env.status = s.env.status /\ t.env.finish = s.env.finish
  BY <1>1, <1>2 DEF TurnOK, EnvOK, NewEnvelope
<1>4. TurnOK(t)
  BY <1>1, <1>2, <1>3 DEF TurnOK
<1>5. Core(t)
  BY <1>2, <1>3, <1>4, FlagsCore
<1> QED BY <1>2, <1>3, <1>5 DEF t

(* The turn with another finish reason. *)
WithFinish(s, finish) == [s EXCEPT !.env.finish = finish]

(* A finish reason is remembered. *)
LEMMA FinishCore ==
  ASSUME NEW s, NEW finish, Core(s)
  PROVE  LET t == WithFinish(s, finish)
         IN  /\ Core(t)
             /\ t.env.started = s.env.started /\ t.env.completed = s.env.completed
             /\ t.env.status = s.env.status /\ t.env.finish = finish
             /\ t.reasoning = s.reasoning /\ t.message = s.message
             /\ t.tools = s.tools /\ t.out = s.out
<1> DEFINE t == WithFinish(s, finish)
<1>1. TurnOK(s)
  BY DEF Core, Sound
<1>2. /\ DOMAIN t = DOMAIN s /\ t.reasoning = s.reasoning /\ t.message = s.message
      /\ t.think = s.think /\ t.tools = s.tools /\ t.out = s.out
      /\ t.env = [s.env EXCEPT !.finish = finish]
  BY <1>1 DEF TurnOK, NewTurn, WithFinish
<1> HIDE DEF t
<1>3. /\ EnvOK(t.env) /\ t.env.items = s.env.items
      /\ t.env.started = s.env.started /\ t.env.completed = s.env.completed
      /\ t.env.status = s.env.status /\ t.env.finish = finish
  BY <1>1, <1>2 DEF TurnOK, EnvOK, NewEnvelope
<1>4. TurnOK(t)
  BY <1>1, <1>2, <1>3 DEF TurnOK
<1>5. Core(t)
  BY <1>2, <1>3, <1>4, FlagsCore
<1> QED BY <1>2, <1>3, <1>5 DEF t

(* What the handlers of a started turn emit is no response event.            *)
LEMMA MovesLog ==
  ASSUME NEW s, NEW t, TurnOK(s), Moves(s, t), s.env.started, Begun(s)
  PROVE  /\ Begun(t)
         /\ VerdictsIn(t.out) = VerdictsIn(s.out)
         /\ \A k \in VerdictsIn(s.out) : t.out[k] = s.out[k]
         /\ Ruled(s) => Ruled(t)
<1>1. /\ DOMAIN s.out = 1..Len(s.out) /\ Len(s.out) \in Nat
      /\ DOMAIN t.out = 1..Len(t.out) /\ Len(t.out) \in Nat
  BY SeqFacts DEF Moves, Steps, TurnOK
<1>2. /\ Len(s.out) <= Len(t.out)
      /\ \A k \in 1..Len(s.out) : t.out[k] = s.out[k]
      /\ \A k \in (Len(s.out) + 1)..Len(t.out) : t.out[k].ev \notin Envelope
  BY DEF Moves, Steps, Grows
<1>3. t.env.started = s.env.started
  BY DEF Moves, Steps, Kept
<1>4. Begun(t)
  <2>1. Len(s.out) >= 2 /\ s.out[1].ev = "created" /\ s.out[2].ev = "in_progress"
    BY DEF Begun
  <2>2. Len(t.out) >= 2 /\ t.out[1].ev = "created" /\ t.out[2].ev = "in_progress"
    BY <1>1, <1>2, <2>1
  <2>3. \A k \in 3..Len(t.out) : t.out[k].ev \notin {"created", "in_progress"}
    <3> TAKE k \in 3..Len(t.out)
    <3>1. CASE k <= Len(s.out)
      BY <1>1, <1>2, <3>1 DEF Begun
    <3>2. CASE k > Len(s.out)
      BY <1>1, <1>2, <3>2 DEF Envelope
    <3> QED BY <1>1, <3>1, <3>2
  <2> QED BY <1>3, <2>2, <2>3 DEF Begun
<1>5. VerdictsIn(t.out) = VerdictsIn(s.out)
  <2>1. \A k \in DOMAIN t.out : (k \in DOMAIN s.out /\ t.out[k] = s.out[k])
                                \/ t.out[k].ev \notin Envelope
    BY <1>1, <1>2
  <2>2. \A k \in DOMAIN s.out : k \in DOMAIN t.out /\ t.out[k] = s.out[k]
    BY <1>1, <1>2
  <2> QED BY <2>1, <2>2 DEF VerdictsIn, Envelope
<1>6. \A k \in VerdictsIn(s.out) : t.out[k] = s.out[k]
  BY <1>1, <1>2 DEF VerdictsIn
<1>7. Ruled(s) => Ruled(t)
  BY <1>5, <1>6 DEF Ruled, Moves, Steps
<1> QED BY <1>4, <1>5, <1>6, <1>7

(* A handler that advances a started turn keeps its invariant. *)
LEMMA AdvancesCore ==
  ASSUME NEW s, NEW t, Core(s), s.env.started, Advances(s, t)
  PROVE  Core(t)
<1>1. Moves(s, t) /\ TurnOK(s) /\ Begun(s) /\ Sound(s)
  BY DEF Advances, Core, Sound
<1>2. Begun(t) /\ VerdictsIn(t.out) = VerdictsIn(s.out) /\ (Ruled(s) => Ruled(t))
  BY <1>1, MovesLog
<1>3. Sound(t)
  BY <1>1, SoundMoves
<1>4. t.env.started = s.env.started /\ t.env.completed = s.env.completed
      /\ t.tools.finalized = s.tools.finalized
  BY DEF Advances, Moves, Steps, Kept
<1>5. s.tools.finalized => Unfinished(t) = Unfinished(s)
  BY DEF Advances, Unfinished
<1>6. Concluded(t)
  BY <1>2, <1>4, <1>5 DEF Core, Concluded
<1> QED BY <1>2, <1>3, <1>6 DEF Core

-----------------------------------------------------------------------------
(* Nothing is left open, and no response event has said so yet.              *)
AllClosed(s) == \A k \in DOMAIN s.out : s.out[k].item # <<>> => Closed(s.out, s.out[k].item)

(* t is the completed turn s with nothing left open. *)
Flushed(s, t) ==
  /\ Sound(t) /\ Begun(t)
  /\ t.env.started /\ t.env.completed /\ t.tools.finalized
  /\ t.env.finish = s.env.finish
  /\ VerdictsIn(t.out) = {}
  /\ AllClosed(t) /\ Unfinished(t) = {} /\ StaysTold(s, t)

(* flush_open_items, in the order it has: think, reasoning, message,      *)
(* tools; nothing is open afterwards.                                     *)
LEMMA FlushOpenItemsFlushes ==
  ASSUME NEW s, Core(s), ~s.env.completed
  PROVE  Flushed(s, FlushOpenItems([s EXCEPT !.env.completed = TRUE]))
<1> DEFINE s0 == [s EXCEPT !.env.completed = TRUE]
           s1 == EnsureStarted(s0)
           s2 == ThinkFlushOnFinalize(s1)
           s3 == ReasoningFinalize(s2)
           s4 == MessageFinalize(s3)
           s5 == ToolsFinalize(s4)
<1>1. FlushOpenItems(s0) = s5
  BY DEF FlushOpenItems
<1>2. TurnOK(s) /\ Sound(s) /\ Begun(s) /\ ~s.tools.finalized /\ VerdictsIn(s.out) = {}
  BY DEF Core, Sound, Concluded
<1>3. /\ DOMAIN s0 = DOMAIN s /\ s0.reasoning = s.reasoning /\ s0.message = s.message
      /\ s0.think = s.think /\ s0.tools = s.tools /\ s0.out = s.out
      /\ s0.env = [s.env EXCEPT !.completed = TRUE]
  BY <1>2 DEF TurnOK, NewTurn
<1> HIDE DEF s0
<1>4. /\ EnvOK(s0.env) /\ s0.env.items = s.env.items /\ s0.env.started = s.env.started
      /\ s0.env.completed /\ s0.env.finish = s.env.finish
  BY <1>2, <1>3 DEF TurnOK, EnvOK, NewEnvelope
<1>5. TurnOK(s0)
  BY <1>2, <1>3, <1>4 DEF TurnOK
<1>6. Sound(s0)
  BY <1>2, <1>3, <1>4, <1>5, SoundFlags
<1>7. Begun(s0)
  BY <1>2, <1>3, <1>4 DEF Begun
<1>8. /\ Sound(s1) /\ Begun(s1) /\ s1.env.started
      /\ s1.env.completed /\ s1.env.finish = s.env.finish
      /\ ~s1.tools.finalized /\ VerdictsIn(s1.out) = {}
      /\ StaysTold(s0, s1)
  <2>1. /\ Sound(s1) /\ Begun(s1) /\ s1.env.started
        /\ s1.env.completed = s0.env.completed /\ s1.env.finish = s0.env.finish
        /\ s1.tools = s0.tools
        /\ VerdictsIn(s0.out) = {} => VerdictsIn(s1.out) = {}
        /\ StaysTold(s0, s1)
    BY <1>6, <1>7, EnsureStartedBegins
  <2> HIDE DEF s1
  <2> QED BY <1>2, <1>3, <1>4, <2>1
<1> HIDE DEF s1
<1>9. TurnOK(s1)
  BY <1>8 DEF Sound
<1>10. Writes(s1, s2) /\ TurnOK(s2)
  BY <1>9, ThinkFlushOnFinalizeWrites, WritesOK
<1> HIDE DEF s2
<1>11. Writes(s2, s3) /\ TurnOK(s3) /\ s3.reasoning.life # "open"
  BY <1>10, ReasoningFinalizeWrites, WritesOK
<1> HIDE DEF s3
<1>12. Writes(s3, s4) /\ TurnOK(s4) /\ s4.message.life # "open" /\ s4.reasoning = s3.reasoning
  BY <1>11, MessageFinalizeWrites, WritesOK
<1> HIDE DEF s4
<1>13. Writes(s1, s3)
  BY <1>9, <1>10, <1>11, WritesTransitive
<1>14. Writes(s1, s4) /\ Advances(s1, s4)
  BY <1>9, <1>12, <1>13, WritesTransitive, WritesAdvance
<1>15. ~s4.tools.finalized
  BY <1>8, <1>14 DEF Advances
<1>16. /\ Moves(s4, s5) /\ s5.reasoning = s4.reasoning /\ s5.message = s4.message
       /\ s5.tools.finalized /\ Unfinished(s5) = {}
  BY <1>12, <1>15, ToolsFinalizeMoves
<1> HIDE DEF s5
<1>17. Moves(s1, s5)
  BY <1>9, <1>14, <1>16, MovesTransitive DEF Advances
<1>18. Begun(s5) /\ VerdictsIn(s5.out) = {}
  BY <1>8, <1>9, <1>17, MovesLog
<1>19. Sound(s5)
  BY <1>8, <1>17, SoundMoves
<1>20. s5.env.started /\ s5.env.completed /\ s5.env.finish = s.env.finish
  BY <1>8, <1>17 DEF Moves, Steps, Kept
<1>21. AllClosed(s5)
  <2> SUFFICES ASSUME NEW k \in DOMAIN s5.out, s5.out[k].item # <<>>
               PROVE  Closed(s5.out, s5.out[k].item)
    BY DEF AllClosed
  <2>1. Shown(s5) /\ TurnOK(s5)
    BY <1>19 DEF Sound
  <2>2. Opened(s5.out, s5.out[k].item)
    BY DEF Opened
  <2>3. s5.reasoning.life \in {"not_started", "done"} /\ s5.message.life \in {"not_started", "done"}
    BY <1>11, <1>12, <1>16, <2>1 DEF TurnOK, ReasoningOK, MessageOK, Lifecycle
  <2>4. CASE s5.out[k].item \in {ReasoningId, MessageId}
    BY <2>1, <2>2, <2>3, <2>4 DEF Shown, LifeShown
  <2>5. CASE FromCall(s5, s5.out[k].item)
    <3>1. PICK i \in DOMAIN s5.tools.calls : /\ s5.tools.calls[i].added
                                             /\ s5.tools.calls[i].item = s5.out[k].item
      BY <2>5 DEF FromCall
    <3>2. s5.tools.calls[i].done
      BY <1>16 DEF Unfinished
    <3> QED BY <2>1, <3>1, <3>2 DEF Shown, CallShown
  <2> QED BY <2>1, <2>4, <2>5 DEF Shown
<1>22. StaysTold(s, s5)
  <2>1. StaysTold(s, s0)
    BY <1>3, <1>6, StaysAlike DEF Sound
  <2>2. StaysTold(s1, s4)
    BY <1>9, <1>14, WritesKeep, KeepsStays
  <2>3. StaysTold(s4, s5)
    BY <1>12, ToolsFinalizeKeeps, KeepsStays DEF s5
  <2> QED BY <1>8, <2>1, <2>2, <2>3, StaysTransitive
<1>23. Flushed(s, s5)
  BY <1>16, <1>18, <1>19, <1>20, <1>21, <1>22 DEF Flushed
<1> QED BY <1>1, <1>23 DEF s0

-----------------------------------------------------------------------------
(* How a turn ends, and how it goes on. *)

(* The turn has got its terminal event, and it is the last one.              *)
Ended(s, t) ==
  /\ Core(t) /\ t.env.completed /\ AllClosed(t)
  /\ Len(t.out) \in Nat /\ VerdictsIn(t.out) = {Len(t.out)}
  /\ t.env.finish = s.env.finish
  /\ StaysTold(s, t)

(* A response event after everything was closed is a terminal event. *)
LEMMA VerdictEnds ==
  ASSUME NEW s, NEW u, NEW t, NEW name \in {"completed", "failed"}, NEW status, Flushed(s, u),
         Rendered(u, t, name, status, CompletedOutputItems(u.env))
  PROVE  /\ Ended(s, t) /\ t.env.status = status
         /\ t.out[Len(t.out)].output = CompletedOutputItems(u.env)
<1>1. TurnOK(u) /\ Sound(u) /\ Shown(u) /\ Sound(t) /\ TurnOK(t)
  BY DEF Flushed, Sound, Rendered
<1>2. PICK e : /\ Appended(u.out, e, t.out)
               /\ e.ev = name /\ e.item = <<>> /\ e.output = CompletedOutputItems(u.env)
  BY DEF Rendered
<1>3. Len(u.out) \in Nat /\ Len(t.out) = Len(u.out) + 1
  BY <1>1, <1>2, SeqFacts DEF TurnOK, Appended
<1>4. /\ DOMAIN t.out = 1..Len(t.out) /\ DOMAIN u.out = 1..Len(u.out)
      /\ \A k \in DOMAIN u.out : t.out[k] = u.out[k]
      /\ t.out[Len(t.out)] = e
  BY <1>2, <1>3 DEF Appended
<1>5. t.env = [u.env EXCEPT !.status = status] /\ t.tools = u.tools
      /\ t.reasoning = u.reasoning /\ t.message = u.message
  BY DEF Rendered
<1>6. /\ t.env.started = u.env.started /\ t.env.completed = u.env.completed
      /\ t.env.finish = u.env.finish /\ t.env.status = status /\ t.env.items = u.env.items
  BY <1>1, <1>5 DEF TurnOK, EnvOK, NewEnvelope
<1>7. VerdictsIn(t.out) = {Len(t.out)}
  <2>1. \A k \in DOMAIN u.out : t.out[k].ev \notin {"completed", "failed"}
    BY <1>4 DEF Flushed, VerdictsIn
  <2>2. \A k \in DOMAIN t.out : k \in DOMAIN u.out \/ k = Len(t.out)
    BY <1>3, <1>4
  <2>3. Len(t.out) \in DOMAIN t.out
    BY <1>3, <1>4
  <2> QED BY <1>2, <1>4, <2>1, <2>2, <2>3 DEF VerdictsIn
<1>8. Begun(t)
  <2>1. Len(u.out) >= 2 /\ u.out[1].ev = "created" /\ u.out[2].ev = "in_progress"
    BY DEF Flushed, Begun
  <2>2. Len(t.out) >= 2 /\ t.out[1].ev = "created" /\ t.out[2].ev = "in_progress"
    BY <1>3, <1>4, <2>1
  <2>3. \A k \in 3..Len(t.out) : t.out[k].ev \notin {"created", "in_progress"}
    <3> TAKE k \in 3..Len(t.out)
    <3>1. CASE k \in DOMAIN u.out
      BY <1>3, <1>4, <3>1 DEF Flushed, Begun
    <3>2. CASE k = Len(t.out)
      BY <1>2, <1>4, <3>2
    <3> QED BY <1>3, <1>4, <3>1, <3>2
  <2> QED BY <1>6, <2>2, <2>3 DEF Begun, Flushed
<1>9. Ruled(t)
  <2> SUFFICES ASSUME NEW j \in DOMAIN e.output
               PROVE  /\ e.output[j].id = ReasoningId => t.reasoning.life = "done"
                      /\ e.output[j].id = MessageId => t.message.life = "done"
    BY <1>4, <1>7 DEF Ruled
  <2>1. EnvOK(u.env)
    BY <1>1 DEF TurnOK
  <2>2. PICK i \in DOMAIN u.env.items : e.output[j] = u.env.items[i].item
    BY <1>2, <2>1, OutputFromItems
  <2> QED BY <1>1, <1>5, <2>2 DEF Shown, ItemsShown
<1>10. Concluded(t)
  BY <1>5, <1>6, <1>7, <1>9 DEF Concluded, Flushed, Unfinished
<1>11. AllClosed(t)
  <2> SUFFICES ASSUME NEW k \in DOMAIN t.out, t.out[k].item # <<>>
               PROVE  Closed(t.out, t.out[k].item)
    BY DEF AllClosed
  <2>1. k \in DOMAIN u.out
    BY <1>2, <1>3, <1>4
  <2>2. Closed(u.out, t.out[k].item)
    BY <1>4, <2>1 DEF Flushed, AllClosed
  <2> QED BY <1>2, <2>2 DEF Appended
<1>12. Core(t)
  BY <1>1, <1>8, <1>10 DEF Core
<1>13. StaysTold(s, t)
  BY <1>1, RenderedStays, StaysTransitive DEF Flushed
<1> QED BY <1>2, <1>3, <1>4, <1>6, <1>7, <1>11, <1>12, <1>13 DEF Ended, Flushed

(* The finish reasons that say the text was cut off. *)
CutOff == {"length", "content_filter"}

(* What decides whether the turn may be continued from.                      *)
Judged(s, t, cleanly) ==
  IsPersistable(t.env.status) <=>
    IF s.env.finish # "" THEN s.env.finish \notin CutOff
    ELSE cleanly /\ t.out[Len(t.out)].output # <<>>

(* finalize of a turn that is not completed ends it, with a status that   *)
(* tells whether it is worth continuing from.                             *)
LEMMA FinalizeEnds ==
  ASSUME NEW s, NEW cleanly \in BOOLEAN, Core(s), ~s.env.completed
  PROVE  Ended(s, Finalize(s, cleanly)) /\ Judged(s, Finalize(s, cleanly), cleanly)
<1> DEFINE u == FlushOpenItems([s EXCEPT !.env.completed = TRUE])
           output == CompletedOutputItems(u.env)
           t == TerminalEvent(u, cleanly)
<1>1. Finalize(s, cleanly) = t
  BY DEF Finalize
<1>2. Flushed(s, u)
  BY FlushOpenItemsFlushes
<1> HIDE DEF u
<1>3. u.env.finish = s.env.finish /\ Sound(u)
  BY <1>2 DEF Flushed
<1>4. CASE u.env.finish # "" \/ (output # <<>> /\ cleanly)
  <2> DEFINE status == StatusFromFinishReason(u.env.finish)
  <2>1. t = ResponseEvent(u, "completed", status, output)
    BY <1>4 DEF TerminalEvent, CompletedEvent
  <2>2. status \in Statuses
    BY DEF StatusFromFinishReason, Statuses
  <2>3. IsPersistable(status) <=> u.env.finish \notin CutOff
    BY DEF IsPersistable, StatusFromFinishReason, CutOff
  <2> HIDE DEF status, t
  <2>4. Rendered(u, t, "completed", status, output)
    BY <1>3, <2>1, <2>2, ResponseEventRenders
  <2>5. /\ Ended(s, t) /\ t.env.status = status
        /\ t.out[Len(t.out)].output = output
    BY <1>2, <2>4, VerdictEnds
  <2>6. Judged(s, t, cleanly)
    <3>1. CASE u.env.finish # ""
      BY <1>3, <2>3, <2>5, <3>1 DEF Judged
    <3>2. CASE u.env.finish = ""
      BY <1>3, <1>4, <2>3, <2>5, <3>2 DEF Judged, CutOff
    <3> QED BY <3>1, <3>2
  <2> QED BY <1>1, <2>5, <2>6
<1>5. CASE ~(u.env.finish # "" \/ (output # <<>> /\ cleanly)) /\ output # <<>>
  <2>1. t = ResponseEvent(u, "completed", "incomplete", output)
    BY <1>5 DEF TerminalEvent, TruncatedEvent
  <2> HIDE DEF t
  <2>2. Rendered(u, t, "completed", "incomplete", output)
    BY <1>3, <2>1, ResponseEventRenders DEF Statuses
  <2>3. Ended(s, t) /\ t.env.status = "incomplete"
    BY <1>2, <2>2, VerdictEnds
  <2>4. Judged(s, t, cleanly)
    BY <1>3, <1>5, <2>3 DEF Judged, IsPersistable
  <2> QED BY <1>1, <2>3, <2>4
<1>6. CASE ~(u.env.finish # "" \/ (output # <<>> /\ cleanly)) /\ output = <<>>
  <2>1. t = ResponseEvent(u, "failed", "failed", output)
    BY <1>6 DEF TerminalEvent, FailedEvent
  <2> HIDE DEF t
  <2>2. Rendered(u, t, "failed", "failed", output)
    BY <1>3, <2>1, ResponseEventRenders DEF Statuses
  <2>3. Ended(s, t) /\ t.env.status = "failed" /\ t.out[Len(t.out)].output = output
    BY <1>2, <2>2, VerdictEnds
  <2>4. Judged(s, t, cleanly)
    BY <1>3, <1>6, <2>3 DEF Judged, IsPersistable
  <2> QED BY <1>1, <2>3, <2>4
<1> QED BY <1>4, <1>5, <1>6

(* fail of a turn that is not completed ends it as failed. *)
LEMMA FailEnds ==
  ASSUME NEW s, Core(s), ~s.env.completed
  PROVE  Ended(s, Fail(s)) /\ Fail(s).env.status = "failed"
<1> DEFINE u == FlushOpenItems([s EXCEPT !.env.completed = TRUE])
           output == CompletedOutputItems(u.env)
           t == ResponseEvent(u, "failed", "failed", output)
<1>1. Fail(s) = t
  BY DEF Fail, FailedEvent
<1>2. Flushed(s, u)
  BY FlushOpenItemsFlushes
<1> HIDE DEF u
<1>3. Sound(u)
  BY <1>2 DEF Flushed
<1>4. Rendered(u, t, "failed", "failed", output)
  BY <1>3, ResponseEventRenders DEF Statuses
<1> HIDE DEF t
<1>5. Ended(s, t) /\ t.env.status = "failed"
  BY <1>2, <1>4, VerdictEnds
<1> QED BY <1>1, <1>5

-----------------------------------------------------------------------------
(* A turn that has ended: its verdict stands, and what is still said is said *)
(* of no item of it.                                                         *)
Stands(s, t) ==
  /\ t.env.completed /\ t.env.status = s.env.status
  /\ VerdictsIn(t.out) = VerdictsIn(s.out)
  /\ \A k \in VerdictsIn(s.out) : t.out[k] = s.out[k]
  /\ \A k \in (Len(s.out) + 1)..Len(t.out) :
       t.out[k].ev \notin Envelope /\ t.out[k].item \in {ReasoningId, MessageId}
  /\ Silenced(s, t)

(* A chunk without an error completes nothing; and of a completed turn it *)
(* leaves the verdict standing.                                           *)
LEMMA ChunkGoesOn ==
  ASSUME NEW s, NEW c \in ChunkSet(Seq(CallSet)), Core(s), ~c.error
  PROVE  LET t == ProcessChatChunk(s, c)
         IN  /\ Core(t)
             /\ t.env.completed = s.env.completed
             /\ t.env.finish = IF c.finish = "" THEN s.env.finish ELSE c.finish
             /\ s.env.completed => Stands(s, t)
             /\ TellsCalls(s, t, c.calls, Len(c.calls))
<1> DEFINE s1 == ApplyMetadata(s, c.model, c.usage)
           s2 == EnsureStarted(s1)
           s3 == Processed(s2, c)
           t  == IF c.finish = "" THEN s3 ELSE [s3 EXCEPT !.env.finish = c.finish]
<1>1. ProcessChatChunk(s, c) = t
  BY DEF ProcessChatChunk, Processed
<1>2. /\ Core(s1)
      /\ s1.env.started = s.env.started /\ s1.env.completed = s.env.completed
      /\ s1.env.status = s.env.status /\ s1.env.finish = s.env.finish
      /\ s1.reasoning = s.reasoning /\ s1.message = s.message
      /\ s1.tools = s.tools /\ s1.out = s.out
  BY MetadataCore
<1> HIDE DEF s1
<1>3. /\ Core(s2) /\ s2.env.started
      /\ s2.env.completed = s1.env.completed /\ s2.env.finish = s1.env.finish
      /\ s1.env.started => s2 = s1
      /\ StaysTold(s1, s2)
  BY <1>2, EnsureStartedCore
<1> HIDE DEF s2
<1>4. TurnOK(s2) /\ Begun(s2)
  BY <1>3 DEF Core, Sound
<1>5. Advances(s2, s3) /\ TellsCalls(s2, s3, c.calls, Len(c.calls))
  BY <1>4, ProcessedAdvances, ProcessedTells
<1> HIDE DEF s3
<1>6. Core(s3) /\ Moves(s2, s3)
  BY <1>3, <1>5, AdvancesCore DEF Advances
<1>7. /\ s3.env.completed = s2.env.completed /\ s3.env.finish = s2.env.finish
      /\ s3.env.status = s2.env.status
  BY <1>6 DEF Moves, Steps, Kept
<1>8. /\ Core(t) /\ t.env.completed = s3.env.completed /\ t.env.status = s3.env.status
      /\ t.out = s3.out /\ t.tools = s3.tools
      /\ t.env.finish = IF c.finish = "" THEN s3.env.finish ELSE c.finish
  <2> DEFINE w == WithFinish(s3, c.finish)
  <2>1. /\ Core(w) /\ w.env.completed = s3.env.completed /\ w.env.status = s3.env.status
        /\ w.out = s3.out /\ w.tools = s3.tools /\ w.env.finish = c.finish
    BY <1>6, FinishCore
  <2>2. t = IF c.finish = "" THEN s3 ELSE w
    BY DEF WithFinish
  <2> HIDE DEF w, t
  <2> QED BY <1>6, <2>1, <2>2
<1> HIDE DEF t
<1>9. ASSUME s.env.completed PROVE Stands(s, t)
  <2>1. s2 = s1
    BY <1>2, <1>3, <1>9 DEF Core, Concluded
  <2>2. /\ VerdictsIn(s3.out) = VerdictsIn(s2.out)
        /\ \A k \in VerdictsIn(s2.out) : s3.out[k] = s2.out[k]
    BY <1>3, <1>4, <1>6, MovesLog
  <2>3. s2.tools.finalized /\ Shown(s2)
    BY <1>2, <1>3, <1>9, <2>1 DEF Core, Concluded, Sound
  <2>4. \A k \in (Len(s2.out) + 1)..Len(s3.out) :
          s3.out[k].ev \notin Envelope /\ s3.out[k].item \in {ReasoningId, MessageId}
    BY <1>5, <1>6, <2>3 DEF Advances, Moves, Steps, Grows
  <2>5. Silenced(s2, s3)
    BY <1>6, <2>3 DEF Moves, Steps
  <2>6. Silenced(s, t)
    BY <1>2, <1>8, <2>1, <2>5 DEF Silenced
  <2> QED BY <1>2, <1>7, <1>8, <1>9, <2>1, <2>2, <2>4, <2>6 DEF Stands
<1>10. TellsCalls(s, t, c.calls, Len(c.calls))
  <2>1. Shown(s1) /\ Shown(t)
    BY <1>2, <1>8 DEF Core, Sound
  <2>2. StaysTold(s, s1) /\ StaysTold(s3, t)
    BY <1>2, <1>8, <2>1, StaysAlike
  <2> QED BY <1>3, <1>5, <2>2, StaysTransitive, StaysThenTells, TellsThenStays
<1> QED BY <1>1, <1>2, <1>3, <1>7, <1>8, <1>9, <1>10

-----------------------------------------------------------------------------
(* What the messages of a stream amount to. *)

(* The first message that ends the turn, if there is one.                    *)
LEMMA EndFound ==
  ASSUME NEW q, IsSeq(q)
  PROVE  \/ EndIn(q) = 0 /\ \A k \in DOMAIN q : ~IsTerminator(q[k])
         \/ /\ EndIn(q) \in DOMAIN q /\ EndIn(q) # 0 /\ IsTerminator(q[EndIn(q)])
            /\ \A j \in DOMAIN q : IsTerminator(q[j]) => EndIn(q) <= j
<1> DEFINE at == {k \in DOMAIN q : IsTerminator(q[k])}
<1>1. CASE at = {}
  BY <1>1 DEF EndIn
<1>2. CASE at # {}
  <2>1. DOMAIN q = 1..Len(q) /\ Len(q) \in Nat
    BY SeqFacts
  <2>2. at \subseteq Nat
    BY <2>1
  <2>3. \E k \in at : \A j \in at : k <= j
    <3> SUFFICES ASSUME \A k \in at : \E j \in at : ~(k <= j) PROVE FALSE
      OBVIOUS
    <3>1. \A k \in at : \E j \in at : j < k
      BY <2>2
    <3> QED BY <1>2, <2>2, <3>1, Segments!NoDescent
  <2>4. EndIn(q) = CHOOSE k \in at : \A j \in at : k <= j
    BY <1>2 DEF EndIn
  <2>5. EndIn(q) \in at /\ \A j \in at : EndIn(q) <= j
    BY <2>3, <2>4
  <2> QED BY <2>1, <2>5
<1> QED BY <1>1, <1>2

(* An appended message is the last one, and the others are where they     *)
(* were.                                                                  *)
LEMMA PrefixOf ==
  ASSUME NEW q, NEW m, NEW n \in 0..Len(q), IsSeq(q)
  PROVE  /\ SubSeq(Append(q, m), 1, n) = SubSeq(q, 1, n)
         /\ SubSeq(q, 1, Len(q)) = q
         /\ \A k \in DOMAIN q : Append(q, m)[k] = q[k]
         /\ Append(q, m)[Len(q) + 1] = m
         /\ Len(Append(q, m)) = Len(q) + 1 /\ IsSeq(Append(q, m))
<1>1. PICK S : q \in Seq(S)
  BY DEF IsSeq
<1> DEFINE T == S \cup {m}
<1>2. q \in Seq(T) /\ m \in T
  BY <1>1, SeqMonotonic
<1> HIDE DEF T
<1>3. Append(q, m) \in Seq(T) /\ Len(Append(q, m)) = Len(q) + 1
      /\ Len(q) \in Nat /\ DOMAIN q = 1..Len(q)
  BY <1>2
<1>4. \A k \in DOMAIN q : Append(q, m)[k] = q[k]
  BY <1>2
<1>5. Append(q, m)[Len(q) + 1] = m
  BY <1>2
<1>6. SubSeq(Append(q, m), 1, n) = SubSeq(q, 1, n)
  BY <1>2, <1>3, <1>4
<1>7. SubSeq(q, 1, Len(q)) = q
  BY <1>2
<1> QED BY <1>3, <1>4, <1>5, <1>6, <1>7 DEF IsSeq

(* Of a stream that has not ended, one more message ends it if it is a    *)
(* terminator.                                                            *)
LEMMA NotEndedYet ==
  ASSUME NEW q, NEW m, IsSeq(q), EndIn(q) = 0
  PROVE  /\ TurnChunks(q) = q
         /\ ~IsTerminator(m) => EndIn(Append(q, m)) = 0
         /\ IsTerminator(m) => /\ EndIn(Append(q, m)) = Len(q) + 1
                               /\ TurnChunks(Append(q, m)) = q
<1> DEFINE r == Append(q, m)
<1>1. DOMAIN q = 1..Len(q) /\ Len(q) \in Nat
  BY SeqFacts
<1>2. /\ SubSeq(r, 1, Len(q)) = SubSeq(q, 1, Len(q))
      /\ SubSeq(q, 1, Len(q)) = q
      /\ \A k \in DOMAIN q : r[k] = q[k]
      /\ r[Len(q) + 1] = m
      /\ Len(r) = Len(q) + 1 /\ IsSeq(r)
  BY <1>1, PrefixOf
<1> HIDE DEF r
<1>3. DOMAIN r = 1..(Len(q) + 1)
  BY <1>2, SeqFacts
<1>4. \A k \in DOMAIN q : ~IsTerminator(q[k])
  BY EndFound
<1>5. TurnChunks(q) = q
  BY <1>2 DEF TurnChunks
<1>6. \A k \in DOMAIN r : k # Len(q) + 1 => ~IsTerminator(r[k])
  BY <1>1, <1>2, <1>3, <1>4
<1>7. ASSUME ~IsTerminator(m) PROVE EndIn(r) = 0
  BY <1>2, <1>3, <1>6, <1>7, EndFound
<1>8. ASSUME IsTerminator(m) PROVE EndIn(r) = Len(q) + 1
  BY <1>1, <1>2, <1>3, <1>6, <1>8, EndFound
<1>9. ASSUME IsTerminator(m) PROVE TurnChunks(r) = q
  <2>1. EndIn(r) # 0 /\ EndIn(r) - 1 = Len(q)
    BY <1>1, <1>8, <1>9
  <2> QED BY <1>2, <2>1 DEF TurnChunks
<1> QED BY <1>5, <1>7, <1>8, <1>9 DEF r

(* What is said after the end changes nothing.                               *)
LEMMA AfterTheEnd ==
  ASSUME NEW q, NEW m, NEW output, IsSeq(q), EndIn(q) # 0
  PROVE  /\ EndIn(Append(q, m)) = EndIn(q)
         /\ WorthSaving(Append(q, m), output) <=> WorthSaving(q, output)
<1> DEFINE r == Append(q, m)
           n == EndIn(q) - 1
<1>1. DOMAIN q = 1..Len(q) /\ Len(q) \in Nat
  BY SeqFacts
<1>2. /\ EndIn(q) \in DOMAIN q /\ IsTerminator(q[EndIn(q)])
      /\ \A j \in DOMAIN q : IsTerminator(q[j]) => EndIn(q) <= j
  BY EndFound
<1>3. n \in 0..Len(q)
  BY <1>1, <1>2
<1>4. /\ SubSeq(r, 1, n) = SubSeq(q, 1, n)
      /\ \A k \in DOMAIN q : r[k] = q[k]
      /\ Len(r) = Len(q) + 1 /\ IsSeq(r)
  BY <1>3, PrefixOf
<1> HIDE DEF r, n
<1>5. DOMAIN r = 1..(Len(q) + 1)
  BY <1>4, SeqFacts
<1>6. EndIn(q) \in DOMAIN r /\ IsTerminator(r[EndIn(q)])
  BY <1>1, <1>2, <1>4, <1>5
<1>7. EndIn(r) \in DOMAIN r /\ EndIn(r) <= EndIn(q) /\ IsTerminator(r[EndIn(r)])
  BY <1>4, <1>6, EndFound
<1>8. EndIn(r) \in DOMAIN q
  BY <1>1, <1>2, <1>5, <1>7
<1>9. EndIn(r) = EndIn(q)
  BY <1>1, <1>2, <1>4, <1>7, <1>8
<1>10. TurnChunks(r) = TurnChunks(q)
  BY <1>4, <1>9 DEF TurnChunks, n
<1>11. r[EndIn(q)] = q[EndIn(q)]
  BY <1>2, <1>4
<1>12. WorthSaving(r, output) <=> WorthSaving(q, output)
  BY <1>9, <1>10, <1>11 DEF WorthSaving
<1> QED BY <1>9, <1>12 DEF r

-----------------------------------------------------------------------------
(* f is the last finish reason among the chunks, "" when none has one.       *)
FinishIs(chunks, f) ==
  IF f = "" THEN \A k \in DOMAIN chunks : chunks[k].finish = ""
  ELSE \E k \in DOMAIN chunks :
         /\ chunks[k].finish = f
         /\ \A j \in (k + 1)..Len(chunks) : chunks[j].finish = ""

(* What the finish reasons of the chunks are when the last one is f. *)
LEMMA FinishNamed ==
  ASSUME NEW chunks, NEW f, IsSeq(chunks), FinishIs(chunks, f)
  PROVE  /\ FinishReasons(chunks) # {} <=> f # ""
         /\ f # "" => LastFinish(chunks) = f
<1>1. DOMAIN chunks = 1..Len(chunks) /\ Len(chunks) \in Nat
  BY SeqFacts
<1>2. FinishReasons(chunks) # {} <=> f # ""
  BY DEF FinishIs, FinishReasons
<1>3. ASSUME f # "" PROVE LastFinish(chunks) = f
  <2> DEFINE NamesLast(g) == \E k \in DOMAIN chunks :
                          /\ chunks[k].finish = g
                          /\ \A j \in (k + 1)..Len(chunks) : chunks[j].finish = ""
  <2>1. f \in FinishReasons(chunks) /\ NamesLast(f)
    BY <1>3 DEF FinishIs, FinishReasons
  <2>2. ASSUME NEW g \in FinishReasons(chunks), NamesLast(g) PROVE g = f
    <3>1. PICK i \in DOMAIN chunks : /\ chunks[i].finish = g
                                     /\ \A j \in (i + 1)..Len(chunks) : chunks[j].finish = ""
      BY <2>2
    <3>2. PICK k \in DOMAIN chunks : /\ chunks[k].finish = f
                                     /\ \A j \in (k + 1)..Len(chunks) : chunks[j].finish = ""
      BY <2>1
    <3>3. g # ""
      BY DEF FinishReasons
    <3> DEFINE n == Len(chunks)
    <3>4. i \in 1..n /\ k \in 1..n /\ n \in Nat
      BY <1>1
    <3> HIDE DEF n
    <3>5. i < k => k \in (i + 1)..n
      BY <3>4
    <3>6. k < i => i \in (k + 1)..n
      BY <3>4
    <3>7. ~(i < k) /\ ~(k < i)
      BY <1>3, <3>1, <3>2, <3>3, <3>5, <3>6 DEF n
    <3>8. i = k
      BY <3>4, <3>7
    <3> QED BY <3>1, <3>2, <3>8
  <2>3. LastFinish(chunks) = CHOOSE g \in FinishReasons(chunks) : NamesLast(g)
    BY DEF LastFinish
  <2> HIDE DEF NamesLast
  <2> QED BY <2>1, <2>2, <2>3
<1> QED BY <1>2, <1>3

(* The last finish reason after one more message. *)
LEMMA FinishAppended ==
  ASSUME NEW q, NEW f, NEW m, IsSeq(q), FinishIs(q, f)
  PROVE  FinishIs(Append(q, m), IF m.finish = "" THEN f ELSE m.finish)
<1> DEFINE r == Append(q, m)
           n == Len(q)
<1>1. DOMAIN q = 1..n /\ n \in Nat
  BY SeqFacts
<1>2. /\ \A k \in 1..n : r[k] = q[k]
      /\ r[n + 1] = m
      /\ Len(r) = n + 1 /\ IsSeq(r)
  BY <1>1, PrefixOf
<1>3. DOMAIN r = 1..(n + 1)
  BY <1>2, SeqFacts
<1> HIDE DEF r, n
<1>4. CASE m.finish = "" /\ f = ""
  <2>1. \A k \in 1..n : q[k].finish = ""
    BY <1>1, <1>4 DEF FinishIs
  <2>2. \A k \in 1..(n + 1) : r[k].finish = ""
    <3> TAKE k \in 1..(n + 1)
    <3>1. k \in 1..n \/ k = n + 1
      BY <1>1
    <3> QED BY <1>2, <1>4, <2>1, <3>1
  <2>3. FinishIs(r, "")
    BY <1>3, <2>2 DEF FinishIs
  <2> QED BY <1>4, <2>3 DEF r
<1>5. CASE m.finish = "" /\ f # ""
  <2>1. PICK k \in 1..n : q[k].finish = f /\ \A j \in (k + 1)..n : q[j].finish = ""
    BY <1>1, <1>5 DEF FinishIs, n
  <2>2. \A j \in (k + 1)..(n + 1) : r[j].finish = ""
    <3> TAKE j \in (k + 1)..(n + 1)
    <3>1. (j \in (k + 1)..n /\ j \in 1..n) \/ j = n + 1
      BY <1>1
    <3> QED BY <1>2, <1>5, <2>1, <3>1
  <2>3. k \in 1..(n + 1)
    BY <1>1
  <2>4. r[k].finish = f
    BY <1>2, <2>1
  <2>5. FinishIs(r, f)
    BY <1>2, <1>3, <1>5, <2>2, <2>3, <2>4 DEF FinishIs
  <2> QED BY <1>5, <2>5 DEF r
<1>6. CASE m.finish # ""
  <2>1. n + 1 \in 1..(n + 1) /\ ((n + 1) + 1)..(n + 1) = {}
    BY <1>1
  <2>2. r[n + 1].finish = m.finish
    BY <1>2
  <2>3. FinishIs(r, m.finish)
    BY <1>2, <1>3, <1>6, <2>1, <2>2 DEF FinishIs
  <2> QED BY <1>6, <2>3 DEF r
<1> QED BY <1>4, <1>5, <1>6

-----------------------------------------------------------------------------
(* The reading of the whole stream agrees with what the turn was judged by.  *)
LEMMA JudgedByDone ==
  ASSUME NEW q, NEW s, NEW t, IsSeq(q), EndIn(q) = 0, FinishIs(q, s.env.finish),
         Judged(s, t, TRUE)
  PROVE  IsPersistable(t.env.status)
           <=> WorthSaving(Append(q, Done), t.out[Len(t.out)].output)
<1> DEFINE r == Append(q, Done)
<1>1. Len(q) \in Nat
  BY SeqFacts
<1>2. EndIn(r) = Len(q) + 1 /\ TurnChunks(r) = q
  BY NotEndedYet DEF IsTerminator
<1>3. r[Len(q) + 1] = Done
  BY <1>1, PrefixOf
<1> HIDE DEF r
<1>4. EndIn(r) # 0 /\ ~r[EndIn(r)].error
  <2>1. ~Done.error
    BY DEF Done, EmptyChunk
  <2>2. r[EndIn(r)] = Done /\ EndIn(r) # 0
    BY <1>1, <1>2, <1>3
  <2> QED BY <2>1, <2>2
<1>5. /\ FinishReasons(q) # {} <=> s.env.finish # ""
      /\ s.env.finish # "" => LastFinish(q) = s.env.finish
  BY FinishNamed
<1>6. WorthSaving(r, t.out[Len(t.out)].output)
        <=> IF s.env.finish # "" THEN s.env.finish \notin CutOff
            ELSE t.out[Len(t.out)].output # <<>>
  BY <1>2, <1>4, <1>5 DEF WorthSaving, CutOff
<1> QED BY <1>6 DEF Judged, r

(* A stream that stops without [DONE] is judged by its finish reason      *)
(* alone.                                                                 *)
LEMMA JudgedByEnd ==
  ASSUME NEW q, NEW s, NEW t, NEW output, IsSeq(q), EndIn(q) = 0, FinishIs(q, s.env.finish),
         Judged(s, t, FALSE)
  PROVE  IsPersistable(t.env.status) <=> WorthSaving(q, output)
<1>1. TurnChunks(q) = q
  BY NotEndedYet
<1>2. /\ FinishReasons(q) # {} <=> s.env.finish # ""
      /\ s.env.finish # "" => LastFinish(q) = s.env.finish
  BY FinishNamed
<1>3. WorthSaving(q, output) <=> s.env.finish # "" /\ s.env.finish \notin CutOff
  BY <1>1, <1>2 DEF WorthSaving, CutOff
<1> QED BY <1>3 DEF Judged

(* A stream that an error ended is not worth saving. *)
LEMMA FailedIsNotWorth ==
  ASSUME NEW q, NEW m, NEW output, IsSeq(q), EndIn(q) = 0, m.error
  PROVE  ~WorthSaving(Append(q, m), output)
<1> DEFINE r == Append(q, m)
<1>1. Len(q) \in Nat
  BY SeqFacts
<1>2. EndIn(r) = Len(q) + 1
  BY NotEndedYet DEF IsTerminator
<1>3. r[Len(q) + 1] = m
  BY <1>1, PrefixOf
<1> HIDE DEF r
<1> QED BY <1>1, <1>2, <1>3 DEF WorthSaving, r

-----------------------------------------------------------------------------
(* The run of a turn. *)

(* The turn under way: sound, and completed once its stream has been read.   *)
Standing ==
  /\ Core(st)
  /\ phase \in {"reading", "ended", "closed", "dropped", "answered"}
  /\ phase \in {"ended", "closed"} => st.env.completed

(* The turn against what upstream said: it is completed by the first message *)
(* that ends it, it knows the last finish reason until then, and its status  *)
(* afterwards is worth what the stream was.                                  *)
Accounted ==
  /\ phase # "answered" => IsSeq(fed)
  /\ phase = "reading" => (st.env.completed <=> EndIn(fed) # 0)
  /\ phase = "reading" /\ ~st.env.completed => FinishIs(fed, st.env.finish)
  /\ phase # "answered" /\ st.env.completed =>
       (IsPersistable(st.env.status) <=> WorthSaving(fed, Verdict.output))
  /\ phase \in {"reading", "ended"} => saved = NotSaved
  /\ phase = "closed" => (saved # NotSaved <=> ShouldPersist(st))

(* The first n messages give call i an id or a name. *)
IsNamed(messages, n, i) == NamedAt(messages, n, i) # {}

(* The log is true to every call that they name once, and wholly. *)
ToldOf(s, messages, n) ==
  Distinct(s) =>
    \A i : GivenOnce(messages, n, i) => CallTold(s, i, IsNamed(messages, n, i))

(* What the log says of the calls, and the messages said. *)
CallsFollowed == ToldOf(st, fed, Len(fed))

(* The inductive invariant. *)
IInv == Standing /\ Accounted /\ CallsFollowed

-----------------------------------------------------------------------------
(* The empty sequence. *)
LEMMA EmptySequence == IsSeq(<<>>) /\ DOMAIN <<>> = {} /\ Len(<<>>) = 0
<1>1. <<>> \in Seq({}) /\ Len(<<>>) = 0 /\ 1..0 = {}
  OBVIOUS
<1>2. DOMAIN <<>> = 1..Len(<<>>)
  BY <1>1, LenProperties
<1> QED BY <1>1, <1>2 DEF IsSeq

(* A new turn satisfies the invariant of a turn. *)
LEMMA NewTurnCore ==
  /\ Core(NewTurn) /\ ~NewTurn.env.completed /\ ~NewTurn.env.started
  /\ NewTurn.env.finish = ""
<1>1. /\ NewTurn.env = NewEnvelope /\ NewTurn.reasoning = NewReasoning
      /\ NewTurn.message = NewMessage /\ NewTurn.think = NewThink
      /\ NewTurn.tools = NewTools /\ NewTurn.out = <<>>
  BY DEF NewTurn
<1>2. EnvOK(NewEnvelope)
  <2>1. NewEnvelope.items = <<>>
    BY DEF NewEnvelope
  <2>2. IsSeq(NewEnvelope.items) /\ \A k \in DOMAIN NewEnvelope.items : NewEnvelope.items[k].index \in Nat
    BY <2>1, EmptySequence
  <2> QED BY <2>2 DEF EnvOK, NewEnvelope, Statuses
<1>3. ReasoningOK(NewReasoning)
  BY DEF ReasoningOK, NewReasoning, Lifecycle
<1>4. MessageOK(NewMessage)
  BY EmptySequence DEF MessageOK, NewMessage, Lifecycle
<1>5. ThinkOK(NewThink)
  BY DEF ThinkOK, NewThink, Phases
<1>6. ToolsOK(NewTools) /\ DOMAIN NewTools.calls = {} /\ ~NewTools.finalized
  <2>1. NewTools.calls = <<>> /\ NewTools.base = NoIndex /\ NewTools.finalized = FALSE
    BY DEF NewTools
  <2>2. DOMAIN NewTools.calls = {}
    BY <2>1, EmptySequence
  <2> QED BY <2>1, <2>2, FS_EmptySet DEF ToolsOK
<1>7. TurnOK(NewTurn)
  BY <1>1, <1>2, <1>3, <1>4, <1>5, <1>6, EmptySequence DEF TurnOK
<1>8. /\ NewEnvelope.items = <<>> /\ ~NewEnvelope.started /\ ~NewEnvelope.completed
      /\ NewEnvelope.finish = ""
      /\ NewReasoning.life = "not_started" /\ NewMessage.life = "not_started"
  BY DEF NewEnvelope, NewReasoning, NewMessage
<1>9. /\ DOMAIN NewTurn.out = {} /\ DOMAIN NewTurn.env.items = {}
      /\ DOMAIN NewTurn.tools.calls = {} /\ Len(NewTurn.out) = 0 /\ NewTurn.out = <<>>
      /\ ~NewTurn.tools.finalized
      /\ ~NewTurn.env.started /\ ~NewTurn.env.completed /\ NewTurn.env.finish = ""
      /\ NewTurn.reasoning.life = "not_started" /\ NewTurn.message.life = "not_started"
  BY <1>1, <1>6, <1>8, EmptySequence
<1>10. Shown(NewTurn)
  BY <1>9 DEF Shown, ItemsShown, LifeShown, Opened, Closed
<1>11. InOrder(NewTurn)
  BY <1>9 DEF InOrder, Orderly
<1>12. Begun(NewTurn)
  <2>1. 3..0 = {}
    OBVIOUS
  <2>2. 3..Len(NewTurn.out) = {}
    BY <1>9, <2>1, Zenon
  <2> QED BY <1>9, <2>2, Zenon DEF Begun
<1>13. Concluded(NewTurn)
  BY <1>9 DEF Concluded, VerdictsIn
<1>14. Told(NewTurn)
  <2>1. NewTurn.reasoning.text = <<>> /\ NewTurn.message.segments = <<>>
    BY <1>1 DEF NewReasoning, NewMessage
  <2>2. DOMAIN NewTurn.message.segments = {} /\ IsSeq(NewTurn.out)
    BY <1>9, <2>1, EmptySequence
  <2>3. Heard(NewTurn.out, ReasoningId, 1) = <<>>
    BY <1>9, <2>2, HeardNone
  <2> QED BY <1>9, <2>1, <2>2, <2>3 DEF Told, ReasoningTold, MessageTold
<1> QED BY <1>7, <1>9, <1>10, <1>11, <1>12, <1>13, <1>14 DEF Core, Sound

-----------------------------------------------------------------------------
(* The calls of the turn against what upstream said of them. *)

(* What NamedAt has. *)
LEMMA NamedWhere ==
  ASSUME NEW messages, NEW n, NEW i
  PROVE  \A p : p \in NamedAt(messages, n, i) <=>
           \E k \in 1..n : \E j \in DOMAIN messages[k].calls :
             NamesCall(messages[k].calls[j], i) /\ p = <<k, j>>
<1> QED BY DEF NamedAt

(* One message more: if all of them name the call once, so do those before, *)
(* and the fragments of the last name it only if those do not.              *)
LEMMA GivenBefore ==
  ASSUME NEW messages, NEW n \in Nat, NEW i, NEW calls, calls = messages[n + 1].calls,
         IsSeq(calls), GivenOnce(messages, n + 1, i)
  PROVE  /\ GivenOnce(messages, n, i)
         /\ NamesWhole(calls, Len(calls), i, IsNamed(messages, n, i))
         /\ IsNamed(messages, n + 1, i)
              = (IsNamed(messages, n, i) \/ NamedBy(calls, Len(calls), i))
<1> DEFINE old == NamedAt(messages, n, i)
           new == NamedAt(messages, n + 1, i)
<1>1. 1..(n + 1) = 1..n \cup {n + 1} /\ n + 1 \notin 1..n
  OBVIOUS
<1>2. DOMAIN calls = 1..Len(calls)
  BY SeqFacts
<1>3. \A p \in old : p \in new
  BY <1>1, NamedWhere
<1>4. \A p \in old : p[1] # n + 1
  BY <1>1, NamedWhere
<1>5. ASSUME NEW j \in 1..Len(calls), NamesCall(calls[j], i)
      PROVE  <<n + 1, j>> \in new /\ messages[n + 1].calls[j] = calls[j]
  BY <1>1, <1>2, <1>5, NamedWhere
<1>6. \A p \in new : p \in old \/ \E j \in 1..Len(calls) : NamesCall(calls[j], i)
  BY <1>1, <1>2, NamedWhere
<1>7. \A p \in new : /\ messages[p[1]].calls[p[2]].id # <<>> /\ messages[p[1]].calls[p[2]].name # ""
                     /\ \A q \in new : p = q
  BY DEF GivenOnce
<1> HIDE DEF old, new
<1>8. GivenOnce(messages, n, i)
  BY <1>3, <1>7 DEF GivenOnce, old
<1>9. ASSUME NEW j \in 1..Len(calls), NamesCall(calls[j], i)
      PROVE  /\ old = {} /\ calls[j].id # <<>> /\ calls[j].name # ""
             /\ \A l \in 1..Len(calls) : NamesCall(calls[l], i) => l = j
  <2> DEFINE p == <<n + 1, j>>
  <2>1. p \in new /\ p[1] = n + 1 /\ p[2] = j /\ messages[n + 1].calls[j] = calls[j]
    BY <1>5, <1>9
  <2>2. \A l \in 1..Len(calls) : NamesCall(calls[l], i) => <<n + 1, l>> \in new
    BY <1>5
  <2>3. \A q \in new : p = q
    BY <1>7, <2>1
  <2>4. old = {}
    BY <1>3, <1>4, <2>1, <2>3
  <2>5. calls[j].id # <<>> /\ calls[j].name # ""
    BY <1>7, <2>1
  <2>6. \A l \in 1..Len(calls) : NamesCall(calls[l], i) => l = j
    BY <2>2, <2>3
  <2> QED BY <2>4, <2>5, <2>6
<1>10. NamesWhole(calls, Len(calls), i, IsNamed(messages, n, i))
  BY <1>9 DEF NamesWhole, IsNamed, old
<1>11. new # {} <=> (old # {} \/ NamedBy(calls, Len(calls), i))
  BY <1>3, <1>5, <1>6 DEF NamedBy
<1> QED BY <1>8, <1>10, <1>11 DEF IsNamed, old, new

(* One message more is taken in. *)
LEMMA MessageHeard ==
  ASSUME NEW messages, NEW n \in Nat, NEW calls, calls = messages[n + 1].calls, IsSeq(calls),
         NEW s, NEW t, Shown(s), TellsCalls(s, t, calls, Len(calls)), ToldOf(s, messages, n)
  PROVE  ToldOf(t, messages, n + 1)
<1> SUFFICES ASSUME Distinct(t), NEW i, GivenOnce(messages, n + 1, i)
             PROVE  CallTold(t, i, IsNamed(messages, n + 1, i))
  BY DEF ToldOf
<1> DEFINE named == IsNamed(messages, n, i)
<1>1. /\ GivenOnce(messages, n, i)
      /\ NamesWhole(calls, Len(calls), i, named)
      /\ IsNamed(messages, n + 1, i) = (named \/ NamedBy(calls, Len(calls), i))
  BY GivenBefore
<1>2. Distinct(s)
  BY DEF TellsCalls
<1>3. CallTold(s, i, named)
  BY <1>1, <1>2 DEF ToldOf
<1>4. named \in BOOLEAN
  BY DEF IsNamed
<1> HIDE DEF named
<1>5. CallTold(t, i, named \/ NamedBy(calls, Len(calls), i))
  BY <1>1, <1>3, <1>4 DEF TellsCalls
<1> QED BY <1>1, <1>5, Zenon

(* Only the messages so far count. *)
LEMMA SameMessages ==
  ASSUME NEW s, NEW messages, NEW others, NEW n, ToldOf(s, messages, n),
         \A k \in 1..n : others[k] = messages[k]
  PROVE  ToldOf(s, others, n)
<1>1. \A i, p : p \in NamedAt(others, n, i) <=> p \in NamedAt(messages, n, i)
  BY NamedWhere
<1>2. \A i : NamedAt(others, n, i) = NamedAt(messages, n, i)
  BY <1>1
<1>3. \A i : \A p \in NamedAt(messages, n, i) : others[p[1]] = messages[p[1]]
  BY NamedWhere
<1>4. \A i : GivenOnce(others, n, i) => GivenOnce(messages, n, i)
  BY <1>2, <1>3 DEF GivenOnce
<1>5. \A i : IsNamed(others, n, i) = IsNamed(messages, n, i)
  BY <1>2 DEF IsNamed
<1> QED BY <1>4, <1>5 DEF ToldOf

(* A message of the stream. *)
LEMMA StreamHeard ==
  ASSUME NEW messages, IsSeq(messages), NEW m, IsSeq(m.calls),
         NEW s, NEW t, Shown(s), TellsCalls(s, t, m.calls, Len(m.calls)),
         ToldOf(s, messages, Len(messages))
  PROVE  LET r == Append(messages, m) IN ToldOf(t, r, Len(r))
<1> DEFINE r == Append(messages, m)
           n == Len(messages)
<1>1. n \in Nat /\ Len(r) = n + 1 /\ r[n + 1] = m /\ \A k \in 1..n : r[k] = messages[k]
  BY SeqFacts DEF IsSeq
<1> HIDE DEF r
<1>2. ToldOf(s, r, n)
  BY <1>1, SameMessages
<1>3. ToldOf(t, r, n + 1)
  BY <1>1, <1>2, MessageHeard
<1> QED BY <1>1, <1>3 DEF r

(* The end of it. *)
LEMMA EndHeard ==
  ASSUME NEW messages, NEW n, NEW s, NEW t, Shown(s), StaysTold(s, t), ToldOf(s, messages, n)
  PROVE  ToldOf(t, messages, n)
<1> QED BY DEF ToldOf, StaysTold

(* [DONE], which names no call. *)
LEMMA DoneHeard ==
  ASSUME NEW messages, IsSeq(messages), NEW s, NEW t, Shown(s), StaysTold(s, t),
         ToldOf(s, messages, Len(messages))
  PROVE  LET r == Append(messages, Done) IN ToldOf(t, r, Len(r))
<1>1. Done.calls = <<>>
  BY DEF Done, EmptyChunk
<1>2. TellsCalls(s, t, Done.calls, Len(Done.calls)) /\ IsSeq(Done.calls)
  BY <1>1, EmptySequence, StaysTells
<1> QED BY <1>2, StreamHeard

(* A new turn has no calls. *)
LEMMA NothingNamed ==
  ASSUME NEW s, NEW messages, DOMAIN s.tools.calls = {}
  PROVE  ToldOf(s, messages, 0)
<1>1. \A i : ~IsNamed(messages, 0, i)
  BY NamedWhere DEF IsNamed
<1> QED BY <1>1 DEF ToldOf, CallTold

(* Any chunk, an error or not, before or after the end of the turn. *)
LEMMA ChunkTells ==
  ASSUME NEW s, NEW c \in ChunkSet(Seq(CallSet)), Core(s)
  PROVE  TellsCalls(s, ProcessChatChunk(s, c), c.calls, Len(c.calls))
<1>1. CASE c.error
  <2>1. ProcessChatChunk(s, c) = Fail(s)
    BY <1>1 DEF ProcessChatChunk
  <2>2. CASE s.env.completed
    <3>1. Fail(s) = s /\ s.tools.finalized
      BY <2>2 DEF Fail, Core, Concluded
    <3> QED BY <2>1, <3>1, StaysReflexive, SettledTells
  <2>3. CASE ~s.env.completed
    <3>1. Ended(s, Fail(s))
      BY <2>3, FailEnds
    <3>2. StaysTold(s, Fail(s)) /\ Fail(s).tools.finalized
      BY <3>1 DEF Ended, Core, Concluded
    <3> QED BY <2>1, <3>2, SettledTells
  <2> QED BY <2>2, <2>3
<1>2. CASE ~c.error
  BY <1>2, ChunkGoesOn
<1> QED BY <1>1, <1>2

(* finalize. *)
LEMMA FinalizeStays ==
  ASSUME NEW s, NEW cleanly \in BOOLEAN, Core(s)
  PROVE  StaysTold(s, Finalize(s, cleanly))
<1>1. CASE s.env.completed
  BY <1>1, StaysReflexive DEF Finalize
<1>2. CASE ~s.env.completed
  BY <1>2, FinalizeEnds DEF Ended
<1> QED BY <1>1, <1>2

-----------------------------------------------------------------------------
(* A body answered as a stream. *)

(* A choice becomes a chunk as a stream's chunks are.                        *)
LEMMA FakeDeltaIsChunk ==
  ASSUME NEW m \in ChunkSet(Seq(BodyCallSet))
  PROVE  /\ ChatMessageToFakeDelta(m) \in ChunkSet(Seq(CallSet))
         /\ ChatMessageToFakeDelta(m).error = m.error
<1> DEFINE c == ChatMessageToFakeDelta(m)
           calls == [k \in DOMAIN m.calls |->
                      [index |-> k - 1, id |-> m.calls[k].id, name |-> m.calls[k].name,
                       args |-> m.calls[k].args]]
<1>1. m.calls \in Seq(BodyCallSet) /\ m.reasoning \in Seq(STRING)
  BY DEF ChunkSet
<1>2. calls \in Seq(CallSet)
  <2>1. DOMAIN m.calls = 1..Len(m.calls) /\ Len(m.calls) \in Nat
    BY <1>1
  <2>2. ASSUME NEW k \in DOMAIN m.calls
        PROVE  [index |-> k - 1, id |-> m.calls[k].id, name |-> m.calls[k].name,
                args |-> m.calls[k].args] \in CallSet
    <3>1. k - 1 \in Nat
      BY <2>1
    <3>2. m.calls[k] \in BodyCallSet
      BY <1>1, <2>1
    <3> QED BY <3>1, <3>2 DEF CallSet, BodyCallSet
  <2>3. calls \in [1..Len(m.calls) -> CallSet]
    BY <2>1, <2>2
  <2> QED BY <2>1, <2>3, IsASeq
<1>3. ReasoningField(m) \in Seq(STRING)
  <2>1. <<>> \in Seq(STRING)
    OBVIOUS
  <2> QED BY <1>1, <2>1 DEF ReasoningField
<1>4. c = [m EXCEPT !.reasoning = ReasoningField(m), !.calls = calls]
  BY DEF ChatMessageToFakeDelta
<1> HIDE DEF c, calls
<1>5. c \in ChunkSet(Seq(CallSet)) /\ c.error = m.error
  BY <1>2, <1>3, <1>4 DEF ChunkSet
<1> QED BY <1>5 DEF c

(* After k of the choices of a body. *)
PushingChoices(chunks, s, t, k) == Core(t) /\ ~t.env.completed /\ ToldOf(t, chunks, k)

ChoicesPushed == INSTANCE Iteration_proofs WITH Step <- PushChoice, Holds <- PushingChoices

(* sse_events_from_buffered_chat: the loop over the choices and then      *)
(* finalize end the new turn, and the log is true to the calls.           *)
LEMMA BurstEnds ==
  ASSUME NEW b \in Bodies
  PROVE  LET r == Append(FakeChunks(b), Done)
         IN  /\ \E s : Ended(s, SseEventsFromBufferedChat(b))
             /\ ToldOf(SseEventsFromBufferedChat(b), r, Len(r))
<1> DEFINE chunks == FakeChunks(b)
           s0 == ApplyMetadata(NewTurn, b.model, b.usage)
           n  == Len(b.choices)
           s  == EachChoice!Iterate(chunks, s0, n)
<1>1. b.choices \in Seq(ChunkSet(Seq(BodyCallSet))) /\ \A k \in DOMAIN b.choices : ~b.choices[k].error
  BY BodiesAssumption
<1>2. n \in Nat /\ DOMAIN b.choices = 1..n
  BY <1>1
<1>3. ASSUME NEW k \in 1..n
      PROVE  chunks[k] \in ChunkSet(Seq(CallSet)) /\ ~chunks[k].error
  <2>1. b.choices[k] \in ChunkSet(Seq(BodyCallSet)) /\ ~b.choices[k].error
    BY <1>1, <1>2
  <2>2. chunks[k] = ChatMessageToFakeDelta(b.choices[k])
    BY <1>2 DEF FakeChunks
  <2> QED BY <2>1, <2>2, FakeDeltaIsChunk
<1>4. Core(s0) /\ ~s0.env.completed /\ DOMAIN s0.tools.calls = {}
  <2>1. Core(NewTurn) /\ ~NewTurn.env.completed
    BY NewTurnCore
  <2>2. DOMAIN NewTurn.tools.calls = {}
    BY EmptySequence DEF NewTurn, NewTools
  <2> HIDE DEF s0
  <2>3. Core(s0) /\ s0.env.completed = NewTurn.env.completed /\ s0.tools = NewTurn.tools
    BY <2>1, MetadataCore DEF s0
  <2> QED BY <2>1, <2>2, <2>3
<1>5. SseEventsFromBufferedChat(b) = Finalize(s, TRUE)
  BY DEF SseEventsFromBufferedChat
<1>11. IsSeq(chunks) /\ Len(chunks) = n
  <2>1. chunks \in [1..n -> {chunks[k] : k \in 1..n}]
    BY <1>2 DEF FakeChunks
  <2>2. chunks \in Seq({chunks[k] : k \in 1..n})
    BY <1>2, <2>1, IsASeq
  <2>3. DOMAIN chunks = 1..n
    BY <2>1
  <2> HIDE DEF chunks, n
  <2>4. Len(chunks) = n
    BY <1>2, <2>2, <2>3, LenProperties
  <2> QED BY <2>2, <2>4 DEF IsSeq
<1> HIDE DEF chunks, s0, n
<1>6. ASSUME NEW t, NEW k \in 1..n, PushingChoices(chunks, s0, t, k - 1)
      PROVE  PushingChoices(chunks, s0, PushChoice(chunks, t, k), k)
  <2>1. Core(t) /\ ~t.env.completed /\ ToldOf(t, chunks, k - 1)
    BY <1>6 DEF PushingChoices
  <2> DEFINE c == chunks[k]
             u == ProcessChatChunk(t, c)
  <2>2. c \in ChunkSet(Seq(CallSet)) /\ ~c.error
    BY <1>3
  <2> HIDE DEF c
  <2>3. Core(u) /\ u.env.completed = t.env.completed
    BY <2>1, <2>2, ChunkGoesOn
  <2>4. PushChoice(chunks, t, k) = u
    BY DEF PushChoice, c
  <2>5. TellsCalls(t, u, c.calls, Len(c.calls)) /\ IsSeq(c.calls) /\ Shown(t)
    BY <2>1, <2>2, ChunkTells DEF ChunkSet, IsSeq, Core, Sound
  <2>6. k - 1 \in Nat /\ (k - 1) + 1 = k /\ c.calls = chunks[k].calls
    BY <1>2 DEF c
  <2> HIDE DEF u
  <2>7. ToldOf(u, chunks, (k - 1) + 1)
    BY <2>1, <2>5, <2>6, MessageHeard
  <2> QED BY <2>1, <2>3, <2>4, <2>6, <2>7 DEF PushingChoices
<1>7. PushingChoices(chunks, s0, s0, 0)
  BY <1>4, NothingNamed DEF PushingChoices
<1>8. PushingChoices(chunks, s0, ChoicesPushed!Iterate(chunks, s0, n), n)
  <2>1. \A t : \A k \in 1..n : PushingChoices(chunks, s0, t, k - 1)
                              => PushingChoices(chunks, s0, PushChoice(chunks, t, k), k)
    BY <1>6
  <2> QED BY <1>2, <1>7, <2>1, ChoicesPushed!LoopInvariant
<1>9. PushingChoices(chunks, s0, s, n)
  BY <1>8 DEF EachChoice!Iterate, ChoicesPushed!Iterate
<1> HIDE DEF s
<1>10. Ended(s, Finalize(s, TRUE))
  BY <1>9, FinalizeEnds DEF PushingChoices
<1>12. ToldOf(Finalize(s, TRUE), Append(chunks, Done), Len(Append(chunks, Done)))
  <2>1. Shown(s) /\ ToldOf(s, chunks, Len(chunks))
    BY <1>9, <1>11 DEF PushingChoices, Core, Sound
  <2>2. StaysTold(s, Finalize(s, TRUE))
    BY <1>10 DEF Ended
  <2> QED BY <1>11, <2>1, <2>2, DoneHeard
<1> QED BY <1>5, <1>10, <1>12 DEF chunks

-----------------------------------------------------------------------------
(* The verdict of a turn that has just ended is its last event; of one that  *)
(* has ended before, it is the one it was.                                   *)
VerdictOf(s) == s.out[CHOOSE k \in VerdictsIn(s.out) : TRUE]

(* The verdict of the run's properties is that of the turn. *)
LEMMA VerdictsAt == TerminalAt = VerdictsIn(st.out) /\ Verdict = VerdictOf(st)
<1> QED BY DEF TerminalAt, Verdict, VerdictsIn, VerdictOf

(* A turn that has just ended has its verdict last. *)
LEMMA VerdictIsLast ==
  ASSUME NEW s, NEW t, Ended(s, t)
  PROVE  VerdictOf(t) = t.out[Len(t.out)]
<1> QED BY DEF Ended, VerdictOf

(* A turn whose verdict stands has the verdict it had. *)
LEMMA VerdictKept ==
  ASSUME NEW s, NEW t, Core(s), s.env.completed, Stands(s, t)
  PROVE  VerdictOf(t) = VerdictOf(s)
<1>1. PICK k : VerdictsIn(s.out) = {k}
  BY DEF Core, Concluded
<1> QED BY <1>1 DEF Stands, VerdictOf

(* What a step does to the turn.                                             *)
Continues(s, t) ==
  /\ Core(t)
  /\ IF s.env.completed THEN t = s \/ Stands(s, t)
     ELSE t.env.completed => \E x : Ended(x, t)

(* process_chat_chunk, of an error chunk and of any other, before and     *)
(* after the turn is completed.                                           *)
LEMMA ChunkContinues ==
  ASSUME NEW s, NEW c \in ChunkSet(Seq(CallSet)), Core(s)
  PROVE  /\ Continues(s, ProcessChatChunk(s, c))
         /\ ~s.env.completed /\ c.error =>
              /\ Ended(s, ProcessChatChunk(s, c))
              /\ ProcessChatChunk(s, c).env.status = "failed"
<1>1. CASE c.error /\ s.env.completed
  BY <1>1 DEF ProcessChatChunk, Fail, Continues
<1>2. CASE c.error /\ ~s.env.completed
  <2>1. ProcessChatChunk(s, c) = Fail(s)
    BY <1>2 DEF ProcessChatChunk
  <2>2. Ended(s, Fail(s)) /\ Fail(s).env.status = "failed"
    BY <1>2, FailEnds
  <2> QED BY <1>2, <2>1, <2>2 DEF Continues, Ended
<1>3. CASE ~c.error
  <2> DEFINE t == ProcessChatChunk(s, c)
  <2>1. Core(t) /\ t.env.completed = s.env.completed /\ (s.env.completed => Stands(s, t))
    BY <1>3, ChunkGoesOn
  <2> QED BY <1>3, <2>1 DEF Continues
<1> QED BY <1>1, <1>2, <1>3

(* finalize completes a turn, once. *)
LEMMA FinalizeContinues ==
  ASSUME NEW s, NEW cleanly \in BOOLEAN, Core(s)
  PROVE  Continues(s, Finalize(s, cleanly)) /\ Finalize(s, cleanly).env.completed
<1>1. CASE s.env.completed
  BY <1>1 DEF Finalize, Continues
<1>2. CASE ~s.env.completed
  BY <1>2, FinalizeEnds DEF Continues, Ended
<1> QED BY <1>1, <1>2

-----------------------------------------------------------------------------
(* A turn begins in the invariant. *)
LEMMA InitStanding ==
  ASSUME TurnInit
  PROVE  IInv
<1>1. st = NewTurn /\ phase = "reading" /\ fed = <<>> /\ saved = NotSaved
  BY DEF TurnInit, Init
<1>2. Standing
  BY <1>1, NewTurnCore DEF Standing
<1>3. EndIn(fed) = 0
  BY <1>1, EmptySequence, EndFound
<1>4. FinishIs(fed, "")
  BY <1>1, EmptySequence DEF FinishIs
<1>5. Accounted
  BY <1>1, <1>3, <1>4, NewTurnCore, EmptySequence DEF Accounted
<1>6. CallsFollowed
  <2>1. DOMAIN st.tools.calls = {} /\ Len(fed) = 0
    BY <1>1, EmptySequence DEF NewTurn, NewTools
  <2> QED BY <2>1, NothingNamed DEF CallsFollowed
<1> QED BY <1>2, <1>5, <1>6 DEF IInv

(* A chunk is a chunk and not [DONE]: the assumption on Upstreams. *)
LEMMA ReceivesChunk ==
  ASSUME ReceiveChunk
  PROVE  \E c : /\ c \in ChunkSet(Seq(CallSet)) /\ c # Done
                /\ st' = ProcessChatChunk(st, c) /\ fed' = Append(fed, c)
<1>1. PICK chunks \in Upstreams : \E c \in chunks : /\ st' = ProcessChatChunk(st, c)
                                                    /\ fed' = Append(fed, c)
  BY DEF ReceiveChunk
<1> QED BY <1>1, ChunksAssumption

(* What a step of the turn does to its state, whatever the step.             *)
LEMMA StepContinues ==
  ASSUME Standing, Accounted, TurnNext
  PROVE  Continues(st, st')
<1>1. Core(st)
  BY DEF Standing
<1>2. ASSUME ReceiveChunk PROVE Continues(st, st')
  <2>1. PICK c : c \in ChunkSet(Seq(CallSet)) /\ st' = ProcessChatChunk(st, c)
    BY <1>2, ReceivesChunk
  <2> QED BY <1>1, <2>1, ChunkContinues
<1>3. ASSUME ReceiveDone PROVE Continues(st, st')
  BY <1>1, <1>3, FinalizeContinues DEF ReceiveDone
<1>4. ASSUME EndOfStream PROVE Continues(st, st')
  BY <1>1, <1>4, FinalizeContinues DEF EndOfStream
<1>5. ASSUME st' = st PROVE Continues(st, st')
  <2>1. Core(st')
    BY <1>1, <1>5
  <2>2. st.env.completed = st'.env.completed
    BY <1>5
  <2> QED BY <1>5, <2>1 DEF Continues
<1>6. ASSUME AnswerInABurst PROVE Continues(st, st')
  <2>1. PICK b \in Bodies : st' = SseEventsFromBufferedChat(b)
    BY <1>6 DEF AnswerInABurst
  <2>2. PICK x : Ended(x, st')
    BY <2>1, BurstEnds
  <2>3. ~st.env.completed
    <3>1. phase = "reading" /\ EndIn(fed) = 0
      BY <1>6, EmptySequence, EndFound DEF AnswerInABurst
    <3> QED BY <3>1 DEF Accounted
  <2> QED BY <2>2, <2>3 DEF Continues, Ended
<1> QED BY <1>2, <1>3, <1>4, <1>5, <1>6
        DEF TurnNext, Streamed, Next, Persist, Disconnect, AnswerInFull

(* Every step keeps the turn sound and completed once it was read. *)
LEMMA StandingStep ==
  ASSUME IInv, [TurnNext]_turnVars
  PROVE  Standing'
<1>1. Standing /\ Accounted
  BY DEF IInv
<1>2. CASE TurnNext
  <2>1. Core(st')
    BY <1>1, <1>2, StepContinues DEF Continues
  <2>2. phase' \in {"reading", "ended", "closed", "dropped", "answered"}
    BY <1>1, <1>2 DEF TurnNext, Streamed, Next, ReceiveChunk, ReceiveDone, EndOfStream,
                      Persist, Disconnect, AnswerInFull, AnswerInABurst, Standing
  <2>3. ASSUME phase' \in {"ended", "closed"} PROVE st'.env.completed
    <3>1. CASE EndOfStream
      BY <1>1, <3>1, FinalizeContinues DEF EndOfStream, Standing
    <3>2. CASE Persist
      BY <1>1, <3>2 DEF Persist, Standing
    <3> QED BY <1>2, <2>3, <3>1, <3>2
            DEF TurnNext, Streamed, Next, ReceiveChunk, ReceiveDone, Disconnect,
                AnswerInFull, AnswerInABurst
  <2> QED BY <2>1, <2>2, <2>3 DEF Standing
<1>3. CASE UNCHANGED turnVars
  BY <1>1, <1>3 DEF Standing, turnVars, vars
<1> QED BY <1>2, <1>3

(* Accounted of a stream still read, of one that is read no more.            *)
Balanced(s, messages) ==
  /\ IsSeq(messages)
  /\ s.env.completed <=> EndIn(messages) # 0
  /\ ~s.env.completed => FinishIs(messages, s.env.finish)
  /\ s.env.completed =>
       (IsPersistable(s.env.status) <=> WorthSaving(messages, VerdictOf(s).output))

(* A chunk keeps the account: after the end it changes nothing of it, an  *)
(* error makes the turn one that is not worth saving, and any other chunk *)
(* may name a finish reason.                                              *)
LEMMA ChunkBalances ==
  ASSUME NEW s, NEW messages, NEW c \in ChunkSet(Seq(CallSet)), c # Done,
         Core(s), Balanced(s, messages)
  PROVE  Balanced(ProcessChatChunk(s, c), Append(messages, c))
<1> DEFINE t == ProcessChatChunk(s, c)
           r == Append(messages, c)
<1>1. IsSeq(messages) /\ Len(messages) \in Nat
  BY SeqFacts DEF Balanced
<1>2. IsSeq(r)
  BY <1>1, AppendIsSeq
<1>3. CASE s.env.completed
  <2>1. EndIn(messages) # 0
    BY <1>3 DEF Balanced
  <2>2. EndIn(r) # 0 /\ \A output : WorthSaving(r, output) <=> WorthSaving(messages, output)
    BY <1>1, <2>1, AfterTheEnd
  <2>3. t = s \/ Stands(s, t)
    BY <1>3, ChunkContinues DEF Continues
  <2> HIDE DEF t, r
  <2>4. t.env.completed /\ t.env.status = s.env.status /\ VerdictOf(t) = VerdictOf(s)
    BY <1>3, <2>3, VerdictKept DEF Stands
  <2>5. Balanced(t, r)
    BY <1>2, <1>3, <2>2, <2>4 DEF Balanced
  <2> QED BY <2>5 DEF t, r
<1>4. CASE ~s.env.completed /\ c.error
  <2>1. Ended(s, t) /\ t.env.status = "failed"
    BY <1>4, ChunkContinues
  <2>2. EndIn(messages) = 0
    BY <1>4 DEF Balanced
  <2>3. EndIn(r) = Len(messages) + 1
    BY <1>1, <1>4, <2>2, NotEndedYet DEF IsTerminator
  <2>4. \A output : ~WorthSaving(r, output)
    BY <1>1, <1>4, <2>2, FailedIsNotWorth
  <2> HIDE DEF t, r
  <2>5. Balanced(t, r)
    BY <1>1, <1>2, <2>1, <2>3, <2>4 DEF Balanced, Ended, IsPersistable
  <2> QED BY <2>5 DEF t, r
<1>5. CASE ~s.env.completed /\ ~c.error
  <2>1. /\ ~t.env.completed
        /\ t.env.finish = IF c.finish = "" THEN s.env.finish ELSE c.finish
    BY <1>5, ChunkGoesOn
  <2>2. EndIn(messages) = 0 /\ FinishIs(messages, s.env.finish)
    BY <1>5 DEF Balanced
  <2>3. EndIn(r) = 0
    BY <1>1, <1>5, <2>2, NotEndedYet DEF IsTerminator
  <2>4. FinishIs(r, t.env.finish)
    BY <1>1, <2>1, <2>2, FinishAppended
  <2> HIDE DEF t, r
  <2>5. Balanced(t, r)
    BY <1>2, <2>1, <2>3, <2>4 DEF Balanced
  <2> QED BY <2>5 DEF t, r
<1> QED BY <1>3, <1>4, <1>5

(* [DONE] keeps the account. *)
LEMMA DoneBalances ==
  ASSUME NEW s, NEW messages, Core(s), Balanced(s, messages)
  PROVE  Balanced(Finalize(s, TRUE), Append(messages, Done))
<1> DEFINE t == Finalize(s, TRUE)
           r == Append(messages, Done)
<1>1. IsSeq(messages) /\ Len(messages) \in Nat
  BY SeqFacts DEF Balanced
<1>2. IsSeq(r)
  BY <1>1, AppendIsSeq
<1>3. CASE s.env.completed
  <2>1. EndIn(messages) # 0 /\ t = s
    BY <1>3 DEF Balanced, Finalize
  <2>2. EndIn(r) # 0 /\ \A output : WorthSaving(r, output) <=> WorthSaving(messages, output)
    BY <1>1, <2>1, AfterTheEnd
  <2> HIDE DEF t, r
  <2>3. Balanced(t, r)
    BY <1>2, <1>3, <2>1, <2>2 DEF Balanced
  <2> QED BY <2>3 DEF t, r
<1>4. CASE ~s.env.completed
  <2>1. Ended(s, t) /\ Judged(s, t, TRUE)
    BY <1>4, FinalizeEnds
  <2>2. EndIn(messages) = 0 /\ FinishIs(messages, s.env.finish)
    BY <1>4 DEF Balanced
  <2>3. EndIn(r) = Len(messages) + 1
    BY <1>1, <2>2, NotEndedYet DEF IsTerminator
  <2>4. IsPersistable(t.env.status) <=> WorthSaving(r, t.out[Len(t.out)].output)
    BY <1>1, <2>1, <2>2, JudgedByDone
  <2>5. VerdictOf(t) = t.out[Len(t.out)]
    BY <2>1, VerdictIsLast
  <2> HIDE DEF t, r
  <2>6. Balanced(t, r)
    BY <1>1, <1>2, <2>1, <2>3, <2>4, <2>5 DEF Balanced, Ended
  <2> QED BY <2>6 DEF t, r
<1> QED BY <1>3, <1>4

(* The end of the bytes leaves a completed turn whose status is worth     *)
(* what the stream was.                                                   *)
LEMMA EndBalances ==
  ASSUME NEW s, NEW messages, Core(s), Balanced(s, messages)
  PROVE  LET t == Finalize(s, FALSE)
         IN  /\ t.env.completed
             /\ IsPersistable(t.env.status) <=> WorthSaving(messages, VerdictOf(t).output)
<1> DEFINE t == Finalize(s, FALSE)
<1>1. CASE s.env.completed
  BY <1>1 DEF Balanced, Finalize
<1>2. CASE ~s.env.completed
  <2>1. Ended(s, t) /\ Judged(s, t, FALSE)
    BY <1>2, FinalizeEnds
  <2>2. IsSeq(messages) /\ EndIn(messages) = 0 /\ FinishIs(messages, s.env.finish)
    BY <1>2 DEF Balanced
  <2>3. IsPersistable(t.env.status) <=> WorthSaving(messages, VerdictOf(t).output)
    BY <2>1, <2>2, JudgedByEnd
  <2> QED BY <2>1, <2>3 DEF Ended
<1> QED BY <1>1, <1>2

(* While the stream is read, Accounted is Balanced. *)
LEMMA ReadingBalances ==
  ASSUME phase = "reading"
  PROVE  Accounted <=> Balanced(st, fed) /\ saved = NotSaved
<1>1. Verdict = VerdictOf(st)
  BY VerdictsAt
<1> QED BY <1>1 DEF Accounted, Balanced

(* VerdictsAt after a step. *)
LEMMA NextVerdict == Verdict' = VerdictOf(st')
<1> QED BY DEF Verdict, TerminalAt, VerdictOf, VerdictsIn

(* ReadingBalances after a step. *)
LEMMA ReadingGoesOn ==
  ASSUME phase' = "reading", saved' = NotSaved, Balanced(st', fed')
  PROVE  Accounted'
<1> QED BY NextVerdict DEF Accounted, Balanced

(* A saved message is not the absence of one. *)
LEMMA AMessageIsSaved == \A s : BuildAssistantMessage(s) # NotSaved
<1> SUFFICES ASSUME NEW s PROVE BuildAssistantMessage(s) # NotSaved
  OBVIOUS
<1>1. "none" \in DOMAIN NotSaved
  BY DEF NotSaved
<1>2. DOMAIN BuildAssistantMessage(s) = {"content", "calls", "reasoning"}
  BY DEF BuildAssistantMessage
<1> QED BY <1>1, <1>2

(* Every step keeps the account of the turn against what upstream said. *)
LEMMA AccountedStep ==
  ASSUME IInv, [TurnNext]_turnVars
  PROVE  Accounted'
<1>1. Standing /\ Accounted /\ Core(st)
  BY DEF IInv, Standing
<1>2. ASSUME ReceiveChunk PROVE Accounted'
  <2>1. PICK c : /\ c \in ChunkSet(Seq(CallSet)) /\ c # Done
                 /\ st' = ProcessChatChunk(st, c) /\ fed' = Append(fed, c)
    BY <1>2, ReceivesChunk
  <2>2. phase = "reading" /\ phase' = "reading" /\ saved' = saved
    BY <1>2 DEF ReceiveChunk
  <2>3. Balanced(st, fed) /\ saved = NotSaved
    BY <1>1, <2>2, ReadingBalances
  <2>4. Balanced(st', fed')
    BY <1>1, <2>1, <2>3, ChunkBalances
  <2> QED BY <2>2, <2>3, <2>4, ReadingGoesOn
<1>3. ASSUME ReceiveDone PROVE Accounted'
  <2>1. /\ phase = "reading" /\ phase' = "reading" /\ saved' = saved
        /\ st' = Finalize(st, TRUE) /\ fed' = Append(fed, Done)
    BY <1>3 DEF ReceiveDone
  <2>2. Balanced(st, fed) /\ saved = NotSaved
    BY <1>1, <2>1, ReadingBalances
  <2>3. Balanced(st', fed')
    BY <1>1, <2>1, <2>2, DoneBalances
  <2> QED BY <2>1, <2>2, <2>3, ReadingGoesOn
<1>4. ASSUME EndOfStream PROVE Accounted'
  <2>1. /\ phase = "reading" /\ phase' = "ended" /\ saved' = saved
        /\ st' = Finalize(st, FALSE) /\ fed' = fed
    BY <1>4 DEF EndOfStream
  <2>2. Balanced(st, fed) /\ saved = NotSaved
    BY <1>1, <2>1, ReadingBalances
  <2>3. IsPersistable(st'.env.status) <=> WorthSaving(fed, VerdictOf(st').output)
    BY <1>1, <2>1, <2>2, EndBalances
  <2>4. IsSeq(fed)
    BY <2>2 DEF Balanced
  <2> QED BY <2>1, <2>2, <2>3, <2>4, NextVerdict DEF Accounted
<1>5. ASSUME Persist PROVE Accounted'
  <2>1. /\ phase = "ended" /\ phase' = "closed" /\ st' = st /\ fed' = fed
        /\ saved' = IF ShouldPersist(st) THEN BuildAssistantMessage(st) ELSE saved
    BY <1>5 DEF Persist
  <2>2. Verdict' = Verdict
    BY <2>1, VerdictsAt, NextVerdict
  <2>3. saved' # NotSaved <=> ShouldPersist(st)
    BY <1>1, <2>1, AMessageIsSaved DEF Accounted
  <2>4. ShouldPersist(st') <=> ShouldPersist(st)
    BY <2>1
  <2> QED BY <1>1, <2>1, <2>2, <2>3, <2>4 DEF Accounted
<1>6. ASSUME Disconnect PROVE Accounted'
  <2>1. /\ phase \in {"reading", "ended"} /\ phase' = "dropped"
        /\ st' = st /\ fed' = fed
    BY <1>6 DEF Disconnect
  <2>2. Verdict' = Verdict
    BY <2>1, VerdictsAt, NextVerdict
  <2> QED BY <1>1, <2>1, <2>2 DEF Accounted
<1>7. ASSUME phase' = "answered" PROVE Accounted'
  BY <1>7 DEF Accounted
<1>8. CASE UNCHANGED turnVars
  <2>1. st' = st /\ fed' = fed /\ phase' = phase /\ saved' = saved
    BY <1>8 DEF turnVars, vars
  <2>2. Verdict' = Verdict
    BY <2>1, VerdictsAt, NextVerdict
  <2> QED BY <1>1, <2>1, <2>2 DEF Accounted
<1> QED BY <1>2, <1>3, <1>4, <1>5, <1>6, <1>7, <1>8
        DEF TurnNext, Streamed, Next, AnswerInFull, AnswerInABurst

(* Every step keeps the log true to the calls. *)
LEMMA FollowedStep ==
  ASSUME IInv, [TurnNext]_turnVars
  PROVE  CallsFollowed'
<1>1. Core(st) /\ Shown(st) /\ ToldOf(st, fed, Len(fed)) /\ Accounted
  BY DEF IInv, Standing, Core, Sound, CallsFollowed
<1>2. ASSUME phase = "reading" PROVE IsSeq(fed)
  BY <1>1, <1>2 DEF Accounted
<1>3. ASSUME ReceiveChunk PROVE CallsFollowed'
  <2>1. PICK c : /\ c \in ChunkSet(Seq(CallSet))
                 /\ st' = ProcessChatChunk(st, c) /\ fed' = Append(fed, c)
    BY <1>3, ReceivesChunk
  <2>2. IsSeq(fed)
    BY <1>2, <1>3 DEF ReceiveChunk
  <2>3. TellsCalls(st, st', c.calls, Len(c.calls)) /\ IsSeq(c.calls)
    BY <1>1, <2>1, ChunkTells DEF ChunkSet, IsSeq
  <2> QED BY <1>1, <2>1, <2>2, <2>3, StreamHeard DEF CallsFollowed
<1>4. ASSUME ReceiveDone PROVE CallsFollowed'
  <2>1. IsSeq(fed) /\ fed' = Append(fed, Done) /\ st' = Finalize(st, TRUE)
    BY <1>2, <1>4 DEF ReceiveDone
  <2>2. StaysTold(st, st')
    BY <1>1, <2>1, FinalizeStays
  <2> QED BY <1>1, <2>1, <2>2, DoneHeard DEF CallsFollowed
<1>5. ASSUME EndOfStream PROVE CallsFollowed'
  <2>1. fed' = fed /\ st' = Finalize(st, FALSE)
    BY <1>5 DEF EndOfStream
  <2>2. StaysTold(st, st')
    BY <1>1, <2>1, FinalizeStays
  <2> QED BY <1>1, <2>1, <2>2, EndHeard DEF CallsFollowed
<1>6. ASSUME st' = st, fed' = fed PROVE CallsFollowed'
  BY <1>1, <1>6 DEF CallsFollowed
<1>7. ASSUME AnswerInABurst PROVE CallsFollowed'
  <2>1. PICK b \in Bodies : /\ st' = SseEventsFromBufferedChat(b)
                            /\ fed' = Append(FakeChunks(b), Done)
    BY <1>7 DEF AnswerInABurst
  <2> QED BY <2>1, BurstEnds DEF CallsFollowed
<1> QED BY <1>3, <1>4, <1>5, <1>6, <1>7
        DEF TurnNext, Streamed, Next, Persist, Disconnect, AnswerInFull, turnVars, vars

(* The inductive invariant: the turn is sound and accounted for in every  *)
(* state that stream_chat_to_responses, or an answer in full, can reach.  *)
THEOREM TurnInvariant == TurnSpec => []IInv
<1>1. TurnInit => IInv
  BY InitStanding
<1>2. IInv /\ [TurnNext]_turnVars => IInv'
  <2> SUFFICES ASSUME IInv, [TurnNext]_turnVars PROVE IInv'
    OBVIOUS
  <2> QED BY StandingStep, AccountedStep, FollowedStep DEF IInv
<1> QED BY <1>1, <1>2, PTL DEF TurnSpec

-----------------------------------------------------------------------------
(* Every sub-state keeps to its declared values, for every upstream and   *)
(* every tool context.                                                    *)
THEOREM TypeCorrect == TurnSpec => []TypeOK
<1>1. IInv => TypeOK
  <2> SUFFICES ASSUME IInv PROVE TypeOK
    OBVIOUS
  <2>1. TurnOK(st) /\ phase \in {"reading", "ended", "closed", "dropped", "answered"}
    BY DEF IInv, Standing, Core, Sound
  <2>2. /\ DOMAIN st = DOMAIN NewTurn /\ EnvOK(st.env) /\ ReasoningOK(st.reasoning)
        /\ MessageOK(st.message) /\ ThinkOK(st.think) /\ ToolsOK(st.tools)
    BY <2>1 DEF TurnOK
  <2>3. /\ st.env.started \in BOOLEAN /\ st.env.completed \in BOOLEAN
        /\ st.env.status \in Statuses /\ st.env.next \in Nat
    BY <2>2 DEF EnvOK
  <2>4. /\ st.reasoning.life \in Lifecycle /\ st.reasoning.index \in Nat
        /\ st.message.life \in Lifecycle /\ st.message.index \in Nat
        /\ st.think.phase \in Phases
    BY <2>2 DEF ReasoningOK, MessageOK, ThinkOK
  <2>5. /\ st.tools.finalized \in BOOLEAN /\ st.tools.base \in Nat \cup {NoIndex}
        /\ DOMAIN Calls \subseteq Nat
        /\ \A i \in DOMAIN Calls : CallOK(Calls[i])
    BY <2>2 DEF ToolsOK, Calls
  <2>6. \A i \in DOMAIN Calls : /\ DOMAIN Calls[i] = DOMAIN NewCall
                                /\ Calls[i].output \in Nat \cup {NoIndex}
                                /\ Calls[i].added \in BOOLEAN
                                /\ Calls[i].done \in BOOLEAN
                                /\ Calls[i].buffered \in BOOLEAN
    BY <2>5 DEF CallOK
  <2> QED BY <2>1, <2>2, <2>3, <2>4, <2>5, <2>6 DEF TypeOK
<1> QED BY <1>1, TurnInvariant, PTL

(* ensure_started, finalize and fail, reached from every handler: created *)
(* and in_progress come first and once, and there is exactly one terminal *)
(* event once the turn is completed and none before.                      *)
THEOREM LifecycleKept == TurnSpec => []LifecycleProtocol
<1>1. IInv => LifecycleProtocol
  <2> SUFFICES ASSUME IInv PROVE LifecycleProtocol
    OBVIOUS
  <2>1. Standing /\ Begun(st) /\ Concluded(st)
    BY DEF IInv, Standing, Core
  <2>2. Cardinality(TerminalAt) = IF st.env.completed THEN 1 ELSE 0
    <3>1. TerminalAt = VerdictsIn(st.out)
      BY VerdictsAt
    <3>2. CASE st.env.completed
      <4>1. PICK k : TerminalAt = {k}
        BY <2>1, <3>1, <3>2 DEF Concluded
      <4> QED BY <3>2, <4>1, FS_Singleton
    <3>3. CASE ~st.env.completed
      <4>1. TerminalAt = {}
        BY <2>1, <3>1, <3>3 DEF Concluded
      <4> QED BY <3>3, <4>1, FS_EmptySet
    <3> QED BY <3>2, <3>3
  <2> QED BY <2>1, <2>2 DEF LifecycleProtocol, Begun, Standing
<1> QED BY <1>1, TurnInvariant, PTL

(* Every output item is added before anything is said of it, added once,  *)
(* and closed for good, whatever the upstream interleaves, as long as it  *)
(* does not give one id to two calls.                                     *)
THEOREM ItemsInOrder == TurnSpec => []ItemProtocol
<1>1. IInv => ItemProtocol
  <2> SUFFICES ASSUME IInv, ItemsDistinct,
                      NEW k \in DOMAIN st.out, st.out[k].item # <<>>
               PROVE  LET before == {j \in 1..(k - 1) : st.out[j].item = st.out[k].item}
                      IN  /\ st.out[k].ev = "added" <=> before = {}
                          /\ \A j \in before : st.out[j].ev # "done"
    BY DEF ItemProtocol
  <2>1. Distinct(st) => InOrder(st)
    BY DEF IInv, Standing, Core, Sound
  <2>2. Distinct(st)
    BY DEF ItemsDistinct, Distinct, Calls
  <2>3. Orderly(st.out)
    BY <2>1, <2>2 DEF InOrder
  <2>4. /\ st.out[k].ev = "added" <=> \A j \in 1..(k - 1) : st.out[j].item # st.out[k].item
        /\ \A j \in 1..(k - 1) : st.out[j].item = st.out[k].item => st.out[j].ev # "done"
    BY <2>3 DEF Orderly
  <2> QED BY <2>4
<1> QED BY <1>1, TurnInvariant, PTL

(* push_text_delta, close_segment, push_refusal_part and their callers:   *)
(* whatever the upstream mixes, each part of the message is opened, told  *)
(* by its deltas and closed with just that text and its annotations, and  *)
(* the two items close with the texts a client has put together.          *)
THEOREM PartsKept == TurnSpec => []PartProtocol
<1>1. IInv => PartProtocol
  <2> SUFFICES ASSUME IInv PROVE PartProtocol
    OBVIOUS
  <2>1. ReasoningTold(st.reasoning, st.out) /\ MessageTold(st.message, st.out)
    BY DEF IInv, Standing, Core, Sound, Told
  <2>2. ReasoningReassembles
    BY <2>1 DEF ReasoningReassembles, Reassembled, ReasoningTold
  <2>3. \A k \in DOMAIN st.message.segments : PartTold(st.out, k, st.message.segments[k])
    BY <2>1 DEF MessageTold
  <2>4. \A k \in DOMAIN st.out : st.out[k].item = MessageId /\ st.out[k].ev = "done" =>
          /\ st.out[k].body.parts = ContentParts(st.message)
          /\ \A j \in DOMAIN st.message.segments : st.message.segments[j].closed
    BY <2>1 DEF MessageTold, Delivered
  <2> QED BY <2>2, <2>3, <2>4 DEF PartProtocol
<1> QED BY <1>1, TurnInvariant, PTL

(* The calls of the run's properties are those of the turn. *)
LEMMA CallFollowed ==
  ASSUME IInv, NEW i \in DOMAIN Calls, NamedOnce(i)
  PROVE  IF st.tools.finalized THEN Settled(Calls[i], st.out)
         ELSE OpenTold(Calls[i], st.out, IsNamed(fed, Len(fed), i))
<1>1. Distinct(st) /\ GivenOnce(fed, Len(fed), i)
  BY DEF NamedOnce, ItemsDistinct, Distinct, Calls
<1> QED BY <1>1 DEF IInv, CallsFollowed, ToldOf, CallTold, Calls

(* push_delta, with everything that keeps arguments back: those a call    *)
(* got before it had its id and name, and those of a namespace call       *)
(* without an action. While a function call is open its argument deltas   *)
(* are the arguments that came, none missing and none sent twice.         *)
THEOREM ArgumentsKept == TurnSpec => []ArgumentsMirrored
<1>1. IInv => ArgumentsMirrored
  <2> SUFFICES ASSUME IInv, NEW i \in DOMAIN Calls, Calls[i].added, ~Calls[i].done, NamedOnce(i),
                      ResolveToolKind(Calls[i].name) # "custom"
               PROVE  Reassembled(Calls[i].item, 1) = Calls[i].args
    BY DEF ArgumentsMirrored
  <2>1. ~st.tools.finalized
    BY DEF IInv, Standing, Core, Concluded, Unfinished, Calls
  <2>2. OpenTold(Calls[i], st.out, IsNamed(fed, Len(fed), i))
    BY <2>1, CallFollowed
  <2> QED BY <2>2 DEF OpenTold, Mirrored, Reassembled
<1> QED BY <1>1, TurnInvariant, PTL

(* ensure_added, push_delta, finalize_state: a call is closed under the   *)
(* type, call id, name and namespace it was opened with, the one whose    *)
(* action was found in its arguments, or never found, too.                *)
THEOREM IdentityKept == TurnSpec => []IdentityStable
<1>1. IInv => IdentityStable
  <2> SUFFICES ASSUME IInv, NEW i \in DOMAIN Calls, Calls[i].done, Calls[i].added, NamedOnce(i),
                      NEW j \in DOMAIN st.out, NEW k \in DOMAIN st.out,
                      st.out[j].item = Calls[i].item, st.out[j].ev = "added",
                      st.out[k].item = Calls[i].item, st.out[k].ev = "done"
               PROVE  Title(st.out[j].body) = Title(st.out[k].body)
    BY DEF IdentityStable
  <2>1. ToolsOK(st.tools)
    BY DEF IInv, Standing, Core, Sound, TurnOK
  <2>2. st.tools.finalized
    BY <2>1 DEF ToolsOK, Calls
  <2>3. Titled(Calls[i], st.out)
    BY <2>2, CallFollowed DEF Settled, Goes
  <2>4. Title(st.out[j].body) = TitleOf(Calls[i]) /\ Title(st.out[k].body) = TitleOf(Calls[i])
    BY <2>3 DEF Titled
  <2> QED BY <2>4
<1> QED BY <1>1, TurnInvariant, PTL

(* emit_custom_input_delta, finalize_state: what the deltas of a custom    *)
(* tool's call and the end of its item carry is the input that is in its  *)
(* arguments, once these are whole.                                       *)
THEOREM CustomInputKept == TurnSpec => []CustomInputExact
<1>1. IInv => CustomInputExact
  <2> SUFFICES ASSUME IInv, NEW i \in DOMAIN Calls, Calls[i].done, Calls[i].added, NamedOnce(i),
                      ~Calls[i].resolved, ResolveToolKind(Calls[i].name) = "custom",
                      IsInputObject(Calls[i].args)
               PROVE  /\ Reassembled(Calls[i].item, 1) = CustomInput(Calls[i].args)
                      /\ EndTexts(st.out, Calls[i].item) = {CustomInput(Calls[i].args)}
    BY DEF CustomInputExact
  <2>1. ToolsOK(st.tools)
    BY DEF IInv, Standing, Core, Sound, TurnOK
  <2>2. st.tools.finalized
    BY <2>1 DEF ToolsOK, Calls
  <2>3. Exact(Calls[i], st.out)
    BY <2>2, CallFollowed DEF Settled
  <2> QED BY <2>3 DEF Exact, IsCustom, Reassembled
<1> QED BY <1>1, TurnInvariant, PTL

(* A turn that ran to its end is saved exactly when the stream was worth  *)
(* saving: should_persist against the messages themselves.                *)
THEOREM SavedWhenWorthIt == TurnSpec => []SavedIffWorthSaving
<1>1. IInv => SavedIffWorthSaving
  <2> SUFFICES ASSUME IInv, phase = "closed"
               PROVE  saved # NotSaved <=> WorthSaving(fed, Verdict.output)
    BY DEF SavedIffWorthSaving
  <2>1. st.env.completed
    BY DEF IInv, Standing
  <2>2. saved # NotSaved <=> ShouldPersist(st)
    BY DEF IInv, Accounted
  <2>3. IsPersistable(st.env.status) <=> WorthSaving(fed, Verdict.output)
    BY <2>1 DEF IInv, Accounted
  <2> QED BY <2>1, <2>2, <2>3 DEF ShouldPersist
<1> QED BY <1>1, TurnInvariant, PTL

(* The step that completes a turn (finalize or fail) ends with the        *)
(* terminal event and leaves no item open, those opened by the flush      *)
(* itself included.                                                       *)
THEOREM EverythingCloses == TurnSpec => AllClosedAtTerminal
<1>1. IInv /\ [TurnNext]_turnVars =>
        (~st.env.completed /\ st'.env.completed =>
          /\ st'.out[Len(st'.out)].ev \in {"completed", "failed"}
          /\ \A id \in {st'.out[k].item : k \in DOMAIN st'.out} \ {<<>>} :
               \E k \in DOMAIN st'.out : st'.out[k].item = id /\ st'.out[k].ev = "done")
  <2> SUFFICES ASSUME IInv, [TurnNext]_turnVars, ~st.env.completed, st'.env.completed
               PROVE  /\ st'.out[Len(st'.out)].ev \in {"completed", "failed"}
                      /\ \A id \in {st'.out[k].item : k \in DOMAIN st'.out} \ {<<>>} :
                           \E k \in DOMAIN st'.out : st'.out[k].item = id /\ st'.out[k].ev = "done"
    OBVIOUS
  <2>1. st' # st
    OBVIOUS
  <2>2. TurnNext
    BY <2>1 DEF turnVars, vars
  <2>3. PICK x : Ended(x, st')
    BY <2>2, StepContinues DEF IInv, Continues
  <2>4. Len(st'.out) \in VerdictsIn(st'.out)
    BY <2>3 DEF Ended
  <2>5. AllClosed(st')
    BY <2>3 DEF Ended
  <2> QED BY <2>4, <2>5 DEF VerdictsIn, AllClosed, Closed
<1> QED BY <1>1, TurnInvariant, PTL DEF TurnSpec, AllClosedAtTerminal

(* After the terminal event nothing the upstream sends changes the        *)
(* status, gives a second verdict or touches an item of the response.     *)
THEOREM VerdictIsFinal == TurnSpec => VerdictStands
<1>1. IInv /\ [TurnNext]_turnVars =>
        (st.env.completed =>
          /\ st'.env.completed
          /\ st'.env.status = st.env.status
          /\ \A k \in (Len(st.out) + 1)..Len(st'.out) :
               /\ st'.out[k].ev \notin {"completed", "failed"}
               /\ \A j \in DOMAIN Verdict.output : Verdict.output[j].id # st'.out[k].item)
  <2> SUFFICES ASSUME IInv, [TurnNext]_turnVars, st.env.completed
               PROVE  /\ st'.env.completed
                      /\ st'.env.status = st.env.status
                      /\ \A k \in (Len(st.out) + 1)..Len(st'.out) :
                           /\ st'.out[k].ev \notin {"completed", "failed"}
                           /\ \A j \in DOMAIN Verdict.output :
                                Verdict.output[j].id # st'.out[k].item
    OBVIOUS
  <2>1. Core(st) /\ IsSeq(st.out)
    BY DEF IInv, Standing, Core, Sound, TurnOK
  <2>2. CASE st' = st
    <3>1. Len(st.out) \in Nat
      BY <2>1, SeqFacts
    <3>2. (Len(st.out) + 1)..Len(st'.out) = {}
      BY <2>2, <3>1
    <3> QED BY <2>2, <3>2
  <2>3. CASE Stands(st, st')
    <3>1. PICK v : VerdictsIn(st.out) = {v}
      BY <2>1 DEF Core, Concluded
    <3>2. Verdict = st.out[v]
      BY <3>1, VerdictsAt DEF VerdictOf
    <3>3. /\ \A j \in DOMAIN st.out[v].output :
               /\ st.out[v].output[j].id = ReasoningId => st.reasoning.life = "done"
               /\ st.out[v].output[j].id = MessageId => st.message.life = "done"
      BY <2>1, <3>1 DEF Core, Concluded, Ruled
    <3>4. ASSUME NEW k \in (Len(st.out) + 1)..Len(st'.out)
          PROVE  /\ st'.out[k].ev \notin {"completed", "failed"}
                 /\ \A j \in DOMAIN Verdict.output : Verdict.output[j].id # st'.out[k].item
      <4>1. st'.out[k].ev \notin Envelope /\ st'.out[k].item \in {ReasoningId, MessageId}
        BY <2>3 DEF Stands
      <4>2. /\ st.reasoning.life = "done" => st'.out[k].item # ReasoningId
            /\ st.message.life = "done" => st'.out[k].item # MessageId
        BY <2>3 DEF Stands, Silenced
      <4> QED BY <3>2, <3>3, <4>1, <4>2 DEF Envelope
    <3> QED BY <2>3, <3>4 DEF Stands
  <2>4. CASE TurnNext
    <3>1. st' = st \/ Stands(st, st')
      BY <2>4, StepContinues DEF IInv, Continues
    <3> QED BY <2>2, <2>3, <3>1
  <2>5. CASE UNCHANGED turnVars
    BY <2>2, <2>5 DEF turnVars, vars
  <2> QED BY <2>4, <2>5
<1> QED BY <1>1, TurnInvariant, PTL DEF TurnSpec, VerdictStands
=============================================================================
