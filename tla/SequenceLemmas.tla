---------------------------- MODULE SequenceLemmas --------------------------
(***************************************************************************)
(* Lemmas about sequences that the library does not have: a queue whose    *)
(* front goes out while its back grows, as _msgQueue does in the TCP       *)
(* server and in the TCP client; induction over the natural numbers, and   *)
(* with it what a recursive function and FlattenSeq compute, of which the  *)
(* file formats are made.                                                  *)
(***************************************************************************)
EXTENDS SequencesExt, SequenceTheorems, WellFoundedInduction, TLAPS

(* The front of the queue moves to the end of what went out.               *)
LEMMA MoveFront ==
    ASSUME NEW S, NEW b \in Seq(S), NEW q \in Seq(S), q # <<>>
    PROVE  Append(b, Head(q)) \o Tail(q) = b \o q
<1>1. Head(q) \in S /\ Tail(q) \in Seq(S) /\ Append(b, Head(q)) \in Seq(S)
  BY HeadTailProperties
<1>2. Len(Append(b, Head(q)) \o Tail(q)) = Len(b \o q)
  BY <1>1
<1>3. ASSUME NEW k \in 1 .. Len(b \o q)
      PROVE  (Append(b, Head(q)) \o Tail(q))[k] = (b \o q)[k]
  BY <1>1, <1>3
<1> QED
  BY <1>1, <1>2, <1>3, ConcatProperties, SeqEqual

(* What is appended to the queue is appended to the whole.                 *)
LEMMA AppendBehind ==
    ASSUME NEW S, NEW b \in Seq(S), NEW q \in Seq(S), NEW e \in S
    PROVE  b \o Append(q, e) = Append(b \o q, e)
<1>1. b \o q \in Seq(S) /\ Append(q, e) \in Seq(S)
  BY ConcatProperties
<1>2. Len(b \o Append(q, e)) = Len(Append(b \o q, e))
  BY <1>1
<1>3. ASSUME NEW k \in 1 .. Len(Append(b \o q, e))
      PROVE  (b \o Append(q, e))[k] = Append(b \o q, e)[k]
  BY <1>1, <1>3
<1> QED
  BY <1>1, <1>2, <1>3, ConcatProperties, SeqEqual

-----------------------------------------------------------------------------
(* Induction over the natural numbers, for a set instead of a predicate.   *)
LEMMA InductionOnSet ==
    ASSUME NEW S, 0 \in S, \A n \in Nat : n \in S => n + 1 \in S
    PROVE  \A n \in Nat : n \in S
<1> DEFINE T == Nat \ S
           R == OpToRel(<, Nat)
<1>1. SUFFICES ASSUME T # {} PROVE FALSE
  OBVIOUS
<1>2. IsWellFoundedOn(R, Nat)
  BY NatLessThanWellFounded
<1>3. T \subseteq Nat
  OBVIOUS
<1> HIDE DEF T, R
<1>4. PICK x \in T : \A y \in T : ~ (<<y, x>> \in R)
  BY <1>1, <1>2, <1>3, WFMin
<1>5. x \in Nat /\ x # 0
  BY DEF T
<1>6. x - 1 \in T
  BY <1>5 DEF T
<1>7. <<x - 1, x>> \in R
  BY <1>5 DEF R, OpToRel
<1> QED
  BY <1>4, <1>6, <1>7

\* f is defined by recursion: it begins with b and goes on with step.
Recurs(f, n, b, step) ==
    /\ n >= 1 => f[1] = b
    /\ \A i \in 1 .. n - 1 : f[i + 1] = step[i + 1][f[i]]

(* A recursive function exists, and has the type of its steps.             *)
LEMMA RecursionExists ==
    ASSUME NEW T, NEW n \in Nat, NEW b \in T, NEW step \in [1 .. n -> [T -> T]]
    PROVE  \E f \in [1 .. n -> T] : Recurs(f, n, b, step)
<1> DEFINE S == {m \in Nat : m <= n => \E f \in [1 .. m -> T] : Recurs(f, m, b, step)}
<1>1. 0 \in S
  <2>1. [i \in 1 .. 0 |-> b] \in [1 .. 0 -> T]
    OBVIOUS
  <2>2. Recurs([i \in 1 .. 0 |-> b], 0, b, step)
    BY DEF Recurs
  <2> QED
    BY <2>1, <2>2
<1>2. ASSUME NEW m \in Nat, m \in S
      PROVE  m + 1 \in S
  <2> SUFFICES ASSUME m + 1 <= n
               PROVE  \E f \in [1 .. m + 1 -> T] : Recurs(f, m + 1, b, step)
    OBVIOUS
  <2>1. PICK f \in [1 .. m -> T] : Recurs(f, m, b, step)
    BY <1>2
  <2> DEFINE next == IF m = 0 THEN b ELSE step[m + 1][f[m]]
             g == [i \in 1 .. m + 1 |-> IF i = m + 1 THEN next ELSE f[i]]
  <2>2. next \in T
    <3>1. CASE m = 0
      BY <3>1
    <3>2. CASE m # 0
      <4>1. m \in 1 .. m /\ m + 1 \in 1 .. n
        BY <3>2
      <4>2. step[m + 1] \in [T -> T] /\ f[m] \in T
        BY <4>1
      <4> QED
        BY <3>2, <4>2
    <3> QED
      BY <3>1, <3>2
  <2>3. g \in [1 .. m + 1 -> T] /\ g[m + 1] = next /\ \A i \in 1 .. m : g[i] = f[i]
    <3> HIDE DEF next
    <3> QED
      BY <2>2
  <2> HIDE DEF g
  <2>4. g[1] = b
    BY <2>1, <2>3 DEF Recurs
  <2>5. ASSUME NEW i \in 1 .. m
        PROVE  g[i + 1] = step[i + 1][g[i]]
    <3>1. CASE i = m
      BY <2>3, <3>1
    <3>2. CASE i # m
      <4>1. i \in 1 .. m - 1 /\ i + 1 \in 1 .. m
        BY <3>2
      <4>2. f[i + 1] = step[i + 1][f[i]]
        BY <2>1, <4>1 DEF Recurs
      <4> QED
        BY <2>3, <4>1, <4>2
    <3> QED
      BY <3>1, <3>2
  <2>6. Recurs(g, m + 1, b, step)
    BY <2>4, <2>5 DEF Recurs
  <2> QED
    BY <2>3, <2>6
<1>3. n \in S
  <2> HIDE DEF S
  <2> QED
    BY <1>1, <1>2, InductionOnSet
<1> QED
  BY <1>3

\* c[i] appends g[i], a sequence of elements of X.
Appends(c, X, g, n) ==
    /\ c \in [1 .. n -> [Seq(X) -> Seq(X)]]
    /\ \A i \in 1 .. n : \A t \in Seq(X) : c[i][t] = t \o g[i]

LEMMA AppendsExists ==
    ASSUME NEW X, NEW n \in Nat, NEW g \in [1 .. n -> Seq(X)]
    PROVE  \E c : Appends(c, X, g, n)
<1> DEFINE c == [i \in 1 .. n |-> [t \in Seq(X) |-> t \o g[i]]]
<1>1. ASSUME NEW t \in Seq(X), NEW i \in 1 .. n
      PROVE  t \o g[i] \in Seq(X)
  BY ConcatProperties
<1>2. ASSUME NEW i \in 1 .. n
      PROVE  [t \in Seq(X) |-> t \o g[i]] \in [Seq(X) -> Seq(X)]
  BY <1>1
<1>3. Appends(c, X, g, n)
  BY <1>2 DEF Appends
<1> QED
  BY <1>3

\* f is the recursive function by which FlattenSeq flattens g[1], ..., g[m].
Flattens(f, X, g, m) ==
    /\ f \in [1 .. m -> Seq(X)]
    /\ f[1] = g[1]
    /\ \A i \in 1 .. m - 1 : f[i + 1] = f[i] \o g[i + 1]
    /\ FlattenSeq([i \in 1 .. m |-> g[i]]) = f[m]

LEMMA FlattensExists ==
    ASSUME NEW X, NEW m \in Nat \ {0}, NEW g \in [1 .. m -> Seq(X)]
    PROVE  \E f : Flattens(f, X, g, m)
<1> DEFINE ss == [i \in 1 .. m |-> g[i]]
           Is(f) == f = [i \in 1 .. m |-> IF i = 1 THEN ss[i] ELSE f[i - 1] \o ss[i]]
<1>1. 1 \in 1 .. m /\ m \in 1 .. m /\ g[1] \in Seq(X) /\ m \in Nat
  OBVIOUS
<1>2. PICK step : Appends(step, X, g, m)
  BY <1>1, AppendsExists
<1>3. PICK f \in [1 .. m -> Seq(X)] : Recurs(f, m, g[1], step)
  <2>1. step \in [1 .. m -> [Seq(X) -> Seq(X)]]
    BY <1>2 DEF Appends
  <2> QED
    BY <1>1, <2>1, RecursionExists
<1>4. f[1] = g[1]
  BY <1>1, <1>3 DEF Recurs
<1>5. ASSUME NEW i \in 1 .. m - 1
      PROVE  f[i + 1] = f[i] \o g[i + 1]
  <2>1. i \in 1 .. m /\ i + 1 \in 1 .. m
    OBVIOUS
  <2>2. f[i + 1] = step[i + 1][f[i]]
    BY <1>3 DEF Recurs
  <2> QED
    BY <1>2, <2>1, <2>2 DEF Appends
<1>6. ASSUME NEW i \in 1 .. m
      PROVE  f[i] = IF i = 1 THEN ss[i] ELSE f[i - 1] \o ss[i]
  <2>1. CASE i = 1
    BY <1>4, <2>1
  <2>2. CASE i # 1
    <3>1. i - 1 \in 1 .. m - 1 /\ (i - 1) + 1 = i
      BY <2>2
    <3>2. f[(i - 1) + 1] = f[i - 1] \o g[(i - 1) + 1]
      BY <1>5, <3>1
    <3> QED
      BY <2>2, <3>1, <3>2
  <2> QED
    BY <2>1, <2>2
<1>7. Is(f)
  <2> HIDE DEF ss
  <2> QED
    BY <1>6
<1>8. FlattenSeq(ss) = (CHOOSE h : Is(h))[m]
  BY <1>1 DEF FlattenSeq
<1> DEFINE h == CHOOSE h : Is(h)
<1>9. Is(h)
  <2> HIDE DEF Is
  <2> QED
    BY <1>7
<1> HIDE DEF h
<1>10. ASSUME NEW i \in 1 .. m
       PROVE  h[i] = IF i = 1 THEN ss[i] ELSE h[i - 1] \o ss[i]
  <2> HIDE DEF ss
  <2> QED
    BY <1>9
<1>11. h[m] = f[m]
  <2> DEFINE S == {i \in Nat : i \in 1 .. m => h[i] = f[i]}
  <2>1. 0 \in S
    OBVIOUS
  <2>2. ASSUME NEW i \in Nat, i \in S
        PROVE  i + 1 \in S
    <3> SUFFICES ASSUME i + 1 \in 1 .. m PROVE h[i + 1] = f[i + 1]
      OBVIOUS
    <3> HIDE DEF ss
    <3>1. h[i + 1] = IF i + 1 = 1 THEN ss[i + 1] ELSE h[(i + 1) - 1] \o ss[i + 1]
      BY <1>10
    <3>2. f[i + 1] = IF i + 1 = 1 THEN ss[i + 1] ELSE f[(i + 1) - 1] \o ss[i + 1]
      BY <1>6
    <3>3. (i + 1) - 1 = i /\ (i = 0 \/ h[i] = f[i])
      BY <2>2
    <3> QED
      BY <3>1, <3>2, <3>3
  <2> HIDE DEF S
  <2>3. m \in S
    BY <2>1, <2>2, InductionOnSet
  <2> QED
    BY <1>1, <2>3 DEF S
<1>12. FlattenSeq(ss) = f[m]
  BY <1>8, <1>11 DEF h
<1> QED
  BY <1>3, <1>4, <1>5, <1>12 DEF Flattens

\* What is flattened goes on with what is added at its end.
GoesOn(X, g, n) ==
    /\ FlattenSeq([i \in 1 .. n |-> g[i]]) \in Seq(X)
    /\ FlattenSeq([i \in 1 .. n + 1 |-> g[i]])
          = FlattenSeq([i \in 1 .. n |-> g[i]]) \o g[n + 1]

LEMMA FlattenEmpty ==
    ASSUME NEW g
    PROVE  FlattenSeq([i \in 1 .. 0 |-> g[i]]) = <<>>
<1>1. [i \in 1 .. 0 |-> g[i]] = <<>>
  OBVIOUS
<1> QED
  BY <1>1 DEF FlattenSeq

LEMMA FlattenGoesOn ==
    ASSUME NEW X, NEW n \in Nat, NEW g \in [1 .. n + 1 -> Seq(X)]
    PROVE  GoesOn(X, g, n)
<1> DEFINE N == n + 1
<1>1. PICK h : Flattens(h, X, g, N)
  <2>1. N \in Nat \ {0} /\ g \in [1 .. N -> Seq(X)]
    OBVIOUS
  <2> HIDE DEF N
  <2> QED
    BY <2>1, FlattensExists
<1>2. CASE n = 0
  <2>1. FlattenSeq([i \in 1 .. n |-> g[i]]) = <<>>
    BY <1>2, FlattenEmpty
  <2>2. h[1] = g[1] /\ g[1] \in Seq(X)
    BY <1>1, <1>2 DEF Flattens
  <2>3. FlattenSeq([i \in 1 .. n + 1 |-> g[i]]) = h[n + 1]
    BY <1>1 DEF Flattens
  <2>4. <<>> \o g[1] = g[1]
    BY <2>2, ConcatEmptySeq
  <2>5. <<>> \in Seq(X) /\ g[n + 1] = g[1] /\ h[n + 1] = g[1]
    BY <1>2, <2>2
  <2> QED
    BY <2>1, <2>3, <2>4, <2>5 DEF GoesOn
<1>3. CASE n # 0
  <2> DEFINE e == [i \in 1 .. n |-> g[i]]
  <2>1. n \in Nat \ {0} /\ e \in [1 .. n -> Seq(X)] /\ \A i \in 1 .. n : e[i] = g[i]
    BY <1>3
  <2>2. FlattenSeq([i \in 1 .. n |-> e[i]]) = FlattenSeq([i \in 1 .. n |-> g[i]])
    <3>1. [i \in 1 .. n |-> e[i]] = [i \in 1 .. n |-> g[i]]
      BY <2>1
    <3> HIDE DEF e
    <3> QED
      BY <3>1
  <2> HIDE DEF e
  <2>3. PICK f : Flattens(f, X, e, n)
    BY <2>1, FlattensExists
  <2>4. h[n] = f[n]
    <3> DEFINE S == {i \in Nat : i \in 1 .. n => h[i] = f[i]}
    <3>1. 0 \in S
      OBVIOUS
    <3>2. ASSUME NEW i \in Nat, i \in S
          PROVE  i + 1 \in S
      <4> SUFFICES ASSUME i + 1 \in 1 .. n PROVE h[i + 1] = f[i + 1]
        OBVIOUS
      <4>1. CASE i = 0
        BY <1>1, <2>1, <2>3, <4>1 DEF Flattens
      <4>2. CASE i # 0
        <5>1. i \in 1 .. n - 1 /\ i \in 1 .. (n + 1) - 1 /\ h[i] = f[i]
          BY <3>2, <4>2
        <5>2. h[i + 1] = h[i] \o g[i + 1]
          BY <1>1, <5>1 DEF Flattens
        <5>3. f[i + 1] = f[i] \o e[i + 1]
          BY <2>3, <5>1 DEF Flattens
        <5> QED
          BY <2>1, <5>1, <5>2, <5>3
      <4> QED
        BY <4>1, <4>2
    <3> HIDE DEF S
    <3>3. n \in S
      BY <3>1, <3>2, InductionOnSet
    <3> QED
      BY <1>3, <3>3 DEF S
  <2>5. h[n + 1] = h[n] \o g[n + 1]
    <3>1. n \in 1 .. (n + 1) - 1
      BY <1>3
    <3> QED
      BY <1>1, <3>1 DEF Flattens
  <2>6. FlattenSeq([i \in 1 .. n + 1 |-> g[i]]) = h[n + 1]
    BY <1>1 DEF Flattens
  <2>7. FlattenSeq([i \in 1 .. n |-> g[i]]) = f[n] /\ f[n] \in Seq(X)
    BY <2>1, <2>2, <2>3 DEF Flattens
  <2> QED
    BY <2>4, <2>5, <2>6, <2>7 DEF GoesOn
<1> QED
  BY <1>2, <1>3
=============================================================================
