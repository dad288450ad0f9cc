----------------------------- MODULE Json_proof -----------------------------
(***************************************************************************)
(* Proofs about the strings of json.hpp, for every string of bytes: what   *)
(* the lexer accepts, dump can write, and what dump writes, the lexer      *)
(* reads back.                                                             *)
(*                                                                         *)
(* The two sides know UTF-8 by different means: dump runs an automaton     *)
(* over the bytes (Decode), the lexer demands a range for each byte behind *)
(* the first (Following), and both agree on what a character is (IsChar).  *)
(***************************************************************************)
EXTENDS Json, SequenceLemmas

\* A byte as the unsigned number that decode and the lexer take it for.
Octet == 0 .. 255

-----------------------------------------------------------------------------
(* The automaton of dump.                                                  *)

(* An error in a string is final.                                          *)
LEMMA DecodeReject == \A b \in Octet : Decode(Reject, b) = Reject
  BY DEF Decode, Reject, Accept, Octet

(* The classes that matter after a first byte, and within a character.     *)
LEMMA ByteClasses ==
    \A b \in Octet :
        /\ b \in 0 .. 127 => ByteClass(b) = 0
        /\ b \in 194 .. 223 => ByteClass(b) = 2
        /\ b = 224 => ByteClass(b) = 10
        /\ b \in 225 .. 236 \union {238, 239} => ByteClass(b) = 3
        /\ b = 237 => ByteClass(b) = 4
        /\ b = 240 => ByteClass(b) = 11
        /\ b \in 241 .. 243 => ByteClass(b) = 6
        /\ b = 244 => ByteClass(b) = 5
        /\ b \in {192, 193} \union 245 .. 255 => ByteClass(b) = 8
        /\ b \in 128 .. 143 => ByteClass(b) = 1
        /\ b \in 144 .. 159 => ByteClass(b) = 9
        /\ b \in 160 .. 191 => ByteClass(b) = 7
<1> SUFFICES ASSUME NEW b \in Octet
             PROVE  /\ b \in 0 .. 127 => ByteClass(b) = 0
                    /\ b \in 194 .. 223 => ByteClass(b) = 2
                    /\ b = 224 => ByteClass(b) = 10
                    /\ b \in 225 .. 236 \union {238, 239} => ByteClass(b) = 3
                    /\ b = 237 => ByteClass(b) = 4
                    /\ b = 240 => ByteClass(b) = 11
                    /\ b \in 241 .. 243 => ByteClass(b) = 6
                    /\ b = 244 => ByteClass(b) = 5
                    /\ b \in {192, 193} \union 245 .. 255 => ByteClass(b) = 8
                    /\ b \in 128 .. 143 => ByteClass(b) = 1
                    /\ b \in 144 .. 159 => ByteClass(b) = 9
                    /\ b \in 160 .. 191 => ByteClass(b) = 7
  OBVIOUS
<1>1. b \in 0 .. 127 => ByteClass(b) = 0
  BY DEF ByteClass
<1>2. b \in 194 .. 223 => ByteClass(b) = 2
  BY DEF ByteClass
<1>3. b = 224 => ByteClass(b) = 10
  BY DEF ByteClass
<1>4. b \in 225 .. 236 \union {238, 239} => ByteClass(b) = 3
  BY DEF ByteClass
<1>5. b = 237 => ByteClass(b) = 4
  BY DEF ByteClass
<1>6. b = 240 => ByteClass(b) = 11
  BY DEF ByteClass
<1>7. b \in 241 .. 243 => ByteClass(b) = 6
  BY DEF ByteClass
<1>8. b = 244 => ByteClass(b) = 5
  BY DEF ByteClass
<1>9. b \in {192, 193} \union 245 .. 255 => ByteClass(b) = 8
  BY DEF ByteClass
<1>10. b \in 128 .. 143 => ByteClass(b) = 1
  BY DEF ByteClass
<1>11. b \in 144 .. 159 => ByteClass(b) = 9
  BY DEF ByteClass
<1>12. b \in 160 .. 191 => ByteClass(b) = 7
  BY DEF ByteClass
<1> QED
  BY <1>1, <1>2, <1>3, <1>4, <1>5, <1>6, <1>7, <1>8, <1>9, <1>10, <1>11, <1>12

(* Where the automaton goes from a first byte.                             *)
LEMMA DecodeFirst ==
    \A b \in Octet :
        /\ b \in 0 .. 127 => Decode(Accept, b) = Accept
        /\ b \in 194 .. 223 => Decode(Accept, b) = 2
        /\ b = 224 => Decode(Accept, b) = 4
        /\ b \in 225 .. 236 \union {238, 239} => Decode(Accept, b) = 3
        /\ b = 237 => Decode(Accept, b) = 5
        /\ b = 240 => Decode(Accept, b) = 6
        /\ b \in 241 .. 243 => Decode(Accept, b) = 7
        /\ b = 244 => Decode(Accept, b) = 8
        /\ b \in 128 .. 193 \union 245 .. 255 => Decode(Accept, b) = Reject
<1> SUFFICES ASSUME NEW b \in Octet
             PROVE  /\ b \in 0 .. 127 => Decode(Accept, b) = Accept
                    /\ b \in 194 .. 223 => Decode(Accept, b) = 2
                    /\ b = 224 => Decode(Accept, b) = 4
                    /\ b \in 225 .. 236 \union {238, 239} => Decode(Accept, b) = 3
                    /\ b = 237 => Decode(Accept, b) = 5
                    /\ b = 240 => Decode(Accept, b) = 6
                    /\ b \in 241 .. 243 => Decode(Accept, b) = 7
                    /\ b = 244 => Decode(Accept, b) = 8
                    /\ b \in 128 .. 193 \union 245 .. 255 => Decode(Accept, b) = Reject
  OBVIOUS
<1>1. Decode(Accept, b) = FirstState[ByteClass(b) + 1]
  BY DEF Decode, Accept
<1>2. /\ b \in 0 .. 127 => ByteClass(b) = 0
      /\ b \in 194 .. 223 => ByteClass(b) = 2
      /\ b = 224 => ByteClass(b) = 10
      /\ b \in 225 .. 236 \union {238, 239} => ByteClass(b) = 3
      /\ b = 237 => ByteClass(b) = 4
      /\ b = 240 => ByteClass(b) = 11
      /\ b \in 241 .. 243 => ByteClass(b) = 6
      /\ b = 244 => ByteClass(b) = 5
      /\ b \in 128 .. 193 \union 245 .. 255 => ByteClass(b) \in {1, 7, 8, 9}
  <2>1. b \in 128 .. 193 =>
           b \in 128 .. 143 \/ b \in 144 .. 159 \/ b \in 160 .. 191 \/ b \in {192, 193}
    OBVIOUS
  <2> QED
    BY <2>1, ByteClasses
<1>3. /\ FirstState[1] = 0 /\ FirstState[2] = 1 /\ FirstState[3] = 2 /\ FirstState[4] = 3
      /\ FirstState[5] = 5 /\ FirstState[6] = 8 /\ FirstState[7] = 7 /\ FirstState[8] = 1
      /\ FirstState[9] = 1 /\ FirstState[10] = 1 /\ FirstState[11] = 4 /\ FirstState[12] = 6
  BY DEF FirstState
<1> QED
  BY <1>1, <1>2, <1>3 DEF Accept, Reject

(* And from a byte within a character: back to Accept, or to an error.     *)
LEMMA DecodeTail ==
    \A b \in Octet :
        /\ Decode(2, b) = IF b \in Tail8 THEN Accept ELSE Reject
        /\ Decode(3, b) = IF b \in Tail8 THEN 2 ELSE Reject
        /\ Decode(4, b) = IF b \in 160 .. 191 THEN 2 ELSE Reject
        /\ Decode(5, b) = IF b \in 128 .. 159 THEN 2 ELSE Reject
        /\ Decode(6, b) = IF b \in 144 .. 191 THEN 3 ELSE Reject
        /\ Decode(7, b) = IF b \in Tail8 THEN 3 ELSE Reject
        /\ Decode(8, b) = IF b \in 128 .. 143 THEN 3 ELSE Reject
<1> SUFFICES ASSUME NEW b \in Octet
             PROVE  /\ Decode(2, b) = IF b \in Tail8 THEN Accept ELSE Reject
                    /\ Decode(3, b) = IF b \in Tail8 THEN 2 ELSE Reject
                    /\ Decode(4, b) = IF b \in 160 .. 191 THEN 2 ELSE Reject
                    /\ Decode(5, b) = IF b \in 128 .. 159 THEN 2 ELSE Reject
                    /\ Decode(6, b) = IF b \in 144 .. 191 THEN 3 ELSE Reject
                    /\ Decode(7, b) = IF b \in Tail8 THEN 3 ELSE Reject
                    /\ Decode(8, b) = IF b \in 128 .. 143 THEN 3 ELSE Reject
  OBVIOUS
<1>1. /\ b \in 128 .. 143 <=> ByteClass(b) = 1
      /\ b \in 144 .. 159 <=> ByteClass(b) = 9
      /\ b \in 160 .. 191 <=> ByteClass(b) = 7
  <2>1. \/ b \in 0 .. 127 \/ b \in 194 .. 223 \/ b = 224 \/ b \in 225 .. 236 \union {238, 239}
        \/ b = 237 \/ b = 240 \/ b \in 241 .. 243 \/ b = 244
        \/ b \in {192, 193} \union 245 .. 255
        \/ b \in 128 .. 143 \/ b \in 144 .. 159 \/ b \in 160 .. 191
    BY DEF Octet
  <2> QED
    BY <2>1, ByteClasses
<1>2. /\ Decode(2, b) = IF ByteClass(b) \in {1, 7, 9} THEN Accept ELSE Reject
      /\ Decode(3, b) = IF ByteClass(b) \in {1, 7, 9} THEN 2 ELSE Reject
      /\ Decode(4, b) = IF ByteClass(b) = 7 THEN 2 ELSE Reject
      /\ Decode(5, b) = IF ByteClass(b) \in {1, 9} THEN 2 ELSE Reject
      /\ Decode(6, b) = IF ByteClass(b) \in {7, 9} THEN 3 ELSE Reject
      /\ Decode(7, b) = IF ByteClass(b) \in {1, 7, 9} THEN 3 ELSE Reject
      /\ Decode(8, b) = IF ByteClass(b) = 1 THEN 3 ELSE Reject
  BY DEF Decode, Accept
<1>3. /\ b \in Tail8 <=> ByteClass(b) \in {1, 7, 9}
      /\ b \in 128 .. 159 <=> ByteClass(b) \in {1, 9}
      /\ b \in 144 .. 191 <=> ByteClass(b) \in {7, 9}
  BY <1>1 DEF Tail8, Octet
<1> QED
  BY <1>1, <1>2, <1>3

(* The automaton stays within its nine states.                             *)
LEMMA DecodeType == \A s \in 0 .. 8, b \in Octet : Decode(s, b) \in 0 .. 8
<1> SUFFICES ASSUME NEW s \in 0 .. 8, NEW b \in Octet PROVE Decode(s, b) \in 0 .. 8
  OBVIOUS
<1>1. CASE s = 0
  <2>1. \/ b \in 0 .. 127 \/ b \in 194 .. 223 \/ b = 224 \/ b = 237 \/ b = 240 \/ b = 244
        \/ b \in 225 .. 236 \union {238, 239} \/ b \in 241 .. 243
        \/ b \in 128 .. 193 \union 245 .. 255
    BY DEF Octet
  <2> QED
    BY <1>1, <2>1, DecodeFirst DEF Accept, Reject
<1>2. CASE s = 1
  BY <1>2, DecodeReject DEF Reject
<1>3. CASE s \in 2 .. 8
  BY <1>3, DecodeTail DEF Accept, Reject
<1> QED
  BY <1>1, <1>2, <1>3

(* The states of decode on the bytes of u.                                 *)
Path(w, u) ==
    /\ w \in [0 .. Len(u) -> 0 .. 8]
    /\ w[0] = Accept
    /\ \A i \in 1 .. Len(u) : w[i] = Decode(w[i - 1], u[i])

(* There is a path for every string: the recursion of dump terminates.     *)
LEMMA PathExists == \A u \in Seq(Octet) : \E w : Path(w, u)
<1> SUFFICES ASSUME NEW u \in Seq(Octet) PROVE \E w : Path(w, u)
  OBVIOUS
<1> DEFINE n == Len(u)
           step == [i \in 1 .. n + 1 |->
                       [s \in 0 .. 8 |-> IF i = 1 THEN s ELSE Decode(s, u[i - 1])]]
<1>1. n \in Nat /\ n = Len(u)
  OBVIOUS
<1> HIDE DEF n
<1>2. step \in [1 .. n + 1 -> [0 .. 8 -> 0 .. 8]]
  <2>1. ASSUME NEW i \in 1 .. n + 1, NEW s \in 0 .. 8
        PROVE  (IF i = 1 THEN s ELSE Decode(s, u[i - 1])) \in 0 .. 8
    <3>1. CASE i = 1
      BY <3>1
    <3>2. CASE i # 1
      <4>1. i - 1 \in 1 .. n
        BY <1>1, <3>2
      <4>2. u[i - 1] \in Octet
        BY <1>1, <4>1, ElementOfSeq
      <4> QED
        BY <3>2, <4>2, DecodeType
    <3> QED
      BY <3>1, <3>2
  <2> QED
    BY <2>1
<1>3. PICK f \in [1 .. n + 1 -> 0 .. 8] : Recurs(f, n + 1, Accept, step)
  <2>1. Accept \in 0 .. 8 /\ n + 1 \in Nat
    BY <1>1 DEF Accept
  <2> HIDE DEF step
  <2> QED
    BY <1>2, <2>1, RecursionExists
<1> DEFINE w == [i \in 0 .. n |-> f[i + 1]]
<1>4. w \in [0 .. n -> 0 .. 8]
  BY <1>1, <1>3
<1>5. w[0] = Accept
  BY <1>1, <1>3 DEF Recurs
<1>6. ASSUME NEW i \in 1 .. n
      PROVE  w[i] = Decode(w[i - 1], u[i])
  <2>1. f[i + 1] = step[i + 1][f[i]]
    <3> HIDE DEF step
    <3> QED
      BY <1>1, <1>3 DEF Recurs
  <2>2. i + 1 \in 1 .. n + 1 /\ i \in 1 .. n + 1 /\ i + 1 # 1 /\ (i + 1) - 1 = i
    BY <1>1
  <2>3. f[i] \in 0 .. 8
    BY <1>3, <2>2
  <2>4. step[i + 1][f[i]] = Decode(f[i], u[(i + 1) - 1])
    BY <2>2, <2>3
  <2>5. w[i] = f[i + 1] /\ w[i - 1] = f[(i - 1) + 1] /\ (i - 1) + 1 = i
    BY <1>1
  <2> HIDE DEF w, step
  <2> QED
    BY <2>1, <2>2, <2>4, <2>5
<1>7. Path(w, u)
  <2> HIDE DEF w
  <2> QED
    BY <1>1, <1>4, <1>5, <1>6 DEF Path
<1> QED
  BY <1>7

(* decode accepts after all the bytes of u.                                *)
Accepts(w, u) == Path(w, u) /\ w[Len(u)] = Accept

(* A string without an error has a path, and one with a path to Accept has *)
(* no error: dump runs along it.                                           *)
LEMMA DumpableAccepts ==
    \A u \in Seq(Octet) : \A w : Path(w, u) => (Dumpable(u) <=> w[Len(u)] = Accept)
<1> SUFFICES ASSUME NEW u \in Seq(Octet), NEW w, Path(w, u)
             PROVE  Dumpable(u) <=> w[Len(u)] = Accept
  OBVIOUS
<1> DEFINE n == Len(u)
           Is(f) == f = [i \in 0 .. n |-> IF i = 0 THEN Accept ELSE Decode(f[i - 1], u[i])]
           state == CHOOSE f : Is(f)
<1>1. n \in Nat
  OBVIOUS
<1>2. Dumpable(u) <=> state[n] = Accept
  BY DEF Dumpable
<1>3. /\ w = [i \in 0 .. n |-> w[i]] /\ w[0] = Accept
      /\ \A i \in 1 .. n : w[i] = Decode(w[i - 1], u[i])
  BY DEF Path
<1> HIDE DEF n
<1>4. \A i \in 0 .. n : w[i] = IF i = 0 THEN Accept ELSE Decode(w[i - 1], u[i])
  BY <1>1, <1>3
<1>5. Is(w)
  BY <1>3, <1>4
<1>6. Is(state)
  <2> HIDE DEF Is
  <2> QED
    BY <1>5
<1> HIDE DEF state
<1>7. \A i \in 0 .. n : state[i] = IF i = 0 THEN Accept ELSE Decode(state[i - 1], u[i])
  BY <1>6
<1> DEFINE S == {i \in Nat : i <= n => state[i] = w[i]}
<1>8. 0 \in S
  BY <1>1, <1>4, <1>7
<1>9. ASSUME NEW i \in Nat, i \in S
      PROVE  i + 1 \in S
  <2> SUFFICES ASSUME i + 1 <= n PROVE state[i + 1] = w[i + 1]
    OBVIOUS
  <2>1. i + 1 \in 0 .. n /\ i + 1 # 0 /\ (i + 1) - 1 = i
    BY <1>1
  <2>2. state[i + 1] = Decode(state[(i + 1) - 1], u[i + 1])
    BY <1>7, <2>1
  <2>3. w[i + 1] = Decode(w[(i + 1) - 1], u[i + 1])
    BY <1>4, <2>1
  <2>4. state[i] = w[i]
    BY <1>1, <1>9
  <2> QED
    BY <2>1, <2>2, <2>3, <2>4
<1>10. n \in S
  <2> HIDE DEF S
  <2> QED
    BY <1>1, <1>8, <1>9, InductionOnSet
<1>11. state[n] = w[n]
  BY <1>10, <1>1
<1> QED
  BY <1>2, <1>11 DEF n

(* So a string can be dumped iff a path for it ends in Accept.             *)
LEMMA DumpablePath ==
    \A u \in Seq(Octet) : Dumpable(u) <=> \E w : Accepts(w, u)
  BY PathExists, DumpableAccepts DEF Accepts

(* The empty string can be dumped.                                         *)
LEMMA EmptyDumpable == Dumpable(<<>>)
<1> DEFINE w == [i \in {0} |-> Accept]
<1>1. w \in [0 .. 0 -> 0 .. 8] /\ w[0] = Accept /\ Len(<<>>) = 0 /\ 1 .. 0 = {}
  BY DEF Accept
<1>2. Accepts(w, <<>>)
  BY <1>1 DEF Accepts, Path
<1> QED
  BY <1>2, DumpablePath, EmptySeq

(* One string behind the other.                                            *)
LEMMA ConcatDumpable ==
    \A u, v \in Seq(Octet) : Dumpable(u) /\ Dumpable(v) => Dumpable(u \o v)
<1> SUFFICES ASSUME NEW u \in Seq(Octet), NEW v \in Seq(Octet), Dumpable(u), Dumpable(v)
             PROVE  Dumpable(u \o v)
  OBVIOUS
<1>1. PICK a : Accepts(a, u)
  BY DumpablePath
<1>2. PICK b : Accepts(b, v)
  BY DumpablePath
<1> DEFINE m == Len(u)
           n == Len(v)
           w == [i \in 0 .. m + n |-> IF i <= m THEN a[i] ELSE b[i - m]]
<1>3. m \in Nat /\ n \in Nat /\ u \o v \in Seq(Octet) /\ Len(u \o v) = m + n
  BY ConcatProperties
<1>4. /\ \A i \in 1 .. m : (u \o v)[i] = u[i]
      /\ \A i \in 1 .. n : (u \o v)[m + i] = v[i]
  BY <1>3, ConcatProperties
<1>5. /\ a \in [0 .. m -> 0 .. 8] /\ a[0] = Accept /\ a[m] = Accept
      /\ \A i \in 1 .. m : a[i] = Decode(a[i - 1], u[i])
  BY <1>1 DEF Accepts, Path
<1>6. /\ b \in [0 .. n -> 0 .. 8] /\ b[0] = Accept /\ b[n] = Accept
      /\ \A i \in 1 .. n : b[i] = Decode(b[i - 1], v[i])
  BY <1>2 DEF Accepts, Path
<1> HIDE DEF m, n
<1>7. /\ \A i \in 0 .. m : w[i] = a[i]
      /\ \A i \in 0 .. n : w[m + i] = b[i]
  <2>1. \A i \in 0 .. m : w[i] = a[i]
    BY <1>3
  <2>2. ASSUME NEW i \in 0 .. n
        PROVE  w[m + i] = b[i]
    <3>1. m + i \in 0 .. m + n /\ (m + i) - m = i
      BY <1>3
    <3>2. CASE i = 0
      BY <1>3, <1>5, <1>6, <3>2
    <3>3. CASE i # 0
      <4>1. ~ (m + i <= m)
        BY <1>3, <3>3
      <4> QED
        BY <3>1, <4>1
    <3> QED
      BY <3>2, <3>3
  <2> QED
    BY <2>1, <2>2
<1>8. w \in [0 .. m + n -> 0 .. 8]
  <2>1. ASSUME NEW i \in 0 .. m + n
        PROVE  (IF i <= m THEN a[i] ELSE b[i - m]) \in 0 .. 8
    <3>1. CASE i <= m
      BY <1>3, <1>5, <3>1
    <3>2. CASE ~ (i <= m)
      <4>1. i - m \in 0 .. n
        BY <1>3, <3>2
      <4> QED
        BY <1>6, <3>2, <4>1
    <3> QED
      BY <3>1, <3>2
  <2> QED
    BY <2>1
<1> HIDE DEF w
<1>9. ASSUME NEW i \in 1 .. m + n
      PROVE  w[i] = Decode(w[i - 1], (u \o v)[i])
  <2>1. CASE i <= m
    <3>1. i \in 1 .. m /\ i \in 0 .. m /\ i - 1 \in 0 .. m
      BY <1>3, <2>1
    <3> QED
      BY <1>4, <1>5, <1>7, <3>1
  <2>2. CASE ~ (i <= m)
    <3> DEFINE k == i - m
    <3>1. k \in 1 .. n /\ k \in 0 .. n /\ k - 1 \in 0 .. n /\ i = m + k /\ i - 1 = m + (k - 1)
      BY <1>3, <2>2
    <3> HIDE DEF k
    <3>2. (u \o v)[m + k] = v[k] /\ w[m + k] = b[k] /\ w[m + (k - 1)] = b[k - 1]
      BY <1>4, <1>7, <3>1
    <3> QED
      BY <1>6, <3>1, <3>2
  <2> QED
    BY <2>1, <2>2
<1>10. w[0] = Accept /\ w[m + n] = Accept
  BY <1>3, <1>5, <1>6, <1>7
<1>11. Accepts(w, u \o v)
  <2>1. Path(w, u \o v)
    BY <1>3, <1>8, <1>9, <1>10 DEF Path
  <2> QED
    BY <1>3, <1>10, <2>1 DEF Accepts
<1> QED
  BY <1>3, <1>11, DumpablePath

-----------------------------------------------------------------------------
(* The characters of UTF-8.                                                *)

Second(c) ==
    CASE c = 224 -> 160 .. 191
      [] c = 237 -> 128 .. 159
      [] c = 240 -> 144 .. 191
      [] c = 244 -> 128 .. 143
      [] OTHER -> Tail8

IsChar(u) ==
    /\ u \in Seq(Octet)
    /\ \/ Len(u) = 1 /\ u[1] \in 0 .. 127
       \/ Len(u) = 2 /\ u[1] \in 194 .. 223 /\ u[2] \in Tail8
       \/ Len(u) = 3 /\ u[1] \in 224 .. 239 /\ u[2] \in Second(u[1]) /\ u[3] \in Tail8
       \/ Len(u) = 4 /\ u[1] \in 240 .. 244 /\ u[2] \in Second(u[1]) /\ u[3] \in Tail8
                     /\ u[4] \in Tail8

(* The automaton restricts the second byte as the lexer does.              *)
LEMMA SecondByte ==
    \A c \in 224 .. 244, b \in Octet :
        Decode(Decode(Accept, c), b) =
            IF b \in Second(c) THEN (IF c < 240 THEN 2 ELSE 3) ELSE Reject
<1> SUFFICES ASSUME NEW c \in 224 .. 244, NEW b \in Octet
             PROVE  Decode(Decode(Accept, c), b) =
                        IF b \in Second(c) THEN (IF c < 240 THEN 2 ELSE 3) ELSE Reject
  OBVIOUS
<1>0. c \in Octet
  BY DEF Octet
<1>1. CASE c = 224
  <2>1. Second(c) = 160 .. 191
    BY <1>1 DEF Second
  <2> QED
    BY <1>0, <1>1, <2>1, DecodeFirst, DecodeTail
<1>2. CASE c = 237
  <2>1. Second(c) = 128 .. 159
    BY <1>2 DEF Second
  <2> QED
    BY <1>0, <1>2, <2>1, DecodeFirst, DecodeTail
<1>3. CASE c = 240
  <2>1. Second(c) = 144 .. 191
    BY <1>3 DEF Second
  <2> QED
    BY <1>0, <1>3, <2>1, DecodeFirst, DecodeTail
<1>4. CASE c = 244
  <2>1. Second(c) = 128 .. 143
    BY <1>4 DEF Second
  <2> QED
    BY <1>0, <1>4, <2>1, DecodeFirst, DecodeTail
<1>5. CASE c \in 225 .. 236 \union {238, 239}
  <2>1. Second(c) = Tail8
    BY <1>5 DEF Second
  <2> QED
    BY <1>0, <1>5, <2>1, DecodeFirst, DecodeTail
<1>6. CASE c \in 241 .. 243
  <2>1. Second(c) = Tail8
    BY <1>6 DEF Second
  <2> QED
    BY <1>0, <1>6, <2>1, DecodeFirst, DecodeTail
<1> QED
  BY <1>1, <1>2, <1>3, <1>4, <1>5, <1>6

(* A character of UTF-8 can be dumped.                                     *)
LEMMA CharDumpable == \A u : IsChar(u) => Dumpable(u)
<1> SUFFICES ASSUME NEW u, IsChar(u) PROVE Dumpable(u)
  OBVIOUS
<1>1. u \in Seq(Octet) /\ Len(u) \in 1 .. 4 /\ \A i \in 1 .. Len(u) : u[i] \in Octet
  BY ElementOfSeq DEF IsChar
<1>2. PICK w : Path(w, u)
  BY <1>1, PathExists
<1>3. w[0] = Accept /\ \A i \in 1 .. Len(u) : w[i] = Decode(w[i - 1], u[i])
  BY <1>2 DEF Path
<1>4. w[1] = Decode(Accept, u[1])
  BY <1>1, <1>3
<1>5. CASE Len(u) = 1
  <2>1. u[1] \in 0 .. 127 /\ u[1] \in Octet
    BY <1>1, <1>5 DEF IsChar
  <2>2. w[1] = Accept
    BY <1>4, <2>1, DecodeFirst
  <2> QED
    BY <1>1, <1>2, <1>5, <2>2, DumpableAccepts
<1>6. CASE Len(u) = 2
  <2>1. w[2] = Decode(Decode(Accept, u[1]), u[2])
    BY <1>3, <1>4, <1>6
  <2>2. w[2] = Accept
    BY <1>1, <1>6, <2>1, DecodeFirst, DecodeTail DEF IsChar
  <2> QED
    BY <1>1, <1>2, <1>6, <2>2, DumpableAccepts
<1>7. CASE Len(u) = 3
  <2>1. w[2] = Decode(Decode(Accept, u[1]), u[2]) /\ w[3] = Decode(w[2], u[3])
    BY <1>3, <1>4, <1>7
  <2>2. u[1] \in 224 .. 239 /\ u[2] \in Second(u[1]) /\ u[3] \in Tail8
    BY <1>7 DEF IsChar
  <2>3. w[2] = 2
    <3>1. u[1] \in 224 .. 244 /\ u[1] < 240
      BY <2>2
    <3>2. u[2] \in Octet
      BY <1>1, <1>7
    <3>3. Decode(Decode(Accept, u[1]), u[2]) =
              IF u[2] \in Second(u[1]) THEN (IF u[1] < 240 THEN 2 ELSE 3) ELSE Reject
      BY <3>1, <3>2, SecondByte
    <3> QED
      BY <2>1, <2>2, <3>1, <3>3
  <2>4. w[3] = Accept
    BY <1>1, <1>7, <2>1, <2>2, <2>3, DecodeTail
  <2> QED
    BY <1>1, <1>2, <1>7, <2>4, DumpableAccepts
<1>8. CASE Len(u) = 4
  <2>1. w[2] = Decode(Decode(Accept, u[1]), u[2]) /\ w[3] = Decode(w[2], u[3])
        /\ w[4] = Decode(w[3], u[4])
    BY <1>3, <1>4, <1>8
  <2>2. u[1] \in 240 .. 244 /\ u[2] \in Second(u[1]) /\ u[3] \in Tail8 /\ u[4] \in Tail8
    BY <1>8 DEF IsChar
  <2>3. w[2] = 3
    <3>1. u[1] \in 224 .. 244 /\ ~ (u[1] < 240)
      BY <2>2
    <3>2. u[2] \in Octet
      BY <1>1, <1>8
    <3>3. Decode(Decode(Accept, u[1]), u[2]) =
              IF u[2] \in Second(u[1]) THEN (IF u[1] < 240 THEN 2 ELSE 3) ELSE Reject
      BY <3>1, <3>2, SecondByte
    <3> QED
      BY <2>1, <2>2, <3>1, <3>3
  <2>4. w[3] = 2 /\ w[4] = Accept
    BY <1>1, <1>8, <2>1, <2>2, <2>3, DecodeTail
  <2> QED
    BY <1>1, <1>2, <1>8, <2>4, DumpableAccepts
<1> QED
  BY <1>1, <1>5, <1>6, <1>7, <1>8

-----------------------------------------------------------------------------
(* The characters that the lexer finds.                                    *)

(* What must follow a byte, by its class.                                  *)
LEMMA FollowingIs ==
    \A c \in Int :
        /\ c \in 32 .. 127 => Following(c) = <<>>
        /\ c \in 194 .. 223 => Following(c) = <<Tail8>>
        /\ c \in 224 .. 239 => Following(c) = <<Second(c), Tail8>>
        /\ c \in 240 .. 244 => Following(c) = <<Second(c), Tail8, Tail8>>
        /\ c \notin 32 .. 127 \union 194 .. 244 => Following(c) = <<{}>>
<1> SUFFICES ASSUME NEW c \in Int
             PROVE  /\ c \in 32 .. 127 => Following(c) = <<>>
                    /\ c \in 194 .. 223 => Following(c) = <<Tail8>>
                    /\ c \in 224 .. 239 => Following(c) = <<Second(c), Tail8>>
                    /\ c \in 240 .. 244 => Following(c) = <<Second(c), Tail8, Tail8>>
                    /\ c \notin 32 .. 127 \union 194 .. 244 => Following(c) = <<{}>>
  OBVIOUS
<1>1. c \in 32 .. 127 => Following(c) = <<>>
  BY DEF Following
<1>2. c \in 194 .. 223 => Following(c) = <<Tail8>>
  BY DEF Following
<1>3. ASSUME c \in 224 .. 239
      PROVE  Following(c) = <<Second(c), Tail8>>
  <2>1. CASE c = 224
    BY <2>1 DEF Following, Second
  <2>2. CASE c = 237
    BY <2>2 DEF Following, Second
  <2>3. CASE c \in 225 .. 236 \union {238, 239}
    <3>1. Second(c) = Tail8
      BY <2>3 DEF Second
    <3>2. c \notin 32 .. 127 /\ c \notin 194 .. 223 /\ c # 224 /\ c # 237 /\ c # 240
          /\ c \notin 241 .. 243 /\ c # 244
      BY <2>3
    <3>3. Following(c) = <<Tail8, Tail8>>
      BY <2>3, <3>2 DEF Following
    <3> QED
      BY <3>1, <3>3
  <2> QED
    BY <1>3, <2>1, <2>2, <2>3
<1>4. ASSUME c \in 240 .. 244
      PROVE  Following(c) = <<Second(c), Tail8, Tail8>>
  <2>1. CASE c = 240
    BY <2>1 DEF Following, Second
  <2>2. CASE c = 244
    BY <2>2 DEF Following, Second
  <2>3. CASE c \in 241 .. 243
    <3>1. Second(c) = Tail8
      BY <2>3 DEF Second
    <3>2. Following(c) = <<Tail8, Tail8, Tail8>>
      BY <2>3 DEF Following
    <3> QED
      BY <3>1, <3>2
  <2> QED
    BY <1>4, <2>1, <2>2, <2>3
<1>5. c \notin 32 .. 127 \union 194 .. 244 => Following(c) = <<{}>>
  BY DEF Following
<1> QED
  BY <1>1, <1>2, <1>3, <1>4, <1>5

\* What the lexer copies: a character behind which it found what must follow.
Follows(t, j) ==
    \A k \in 1 .. Len(Following(At(t, j))) : At(t, j + k) \in Following(At(t, j))[k]
Copied(t, j) == SubSeq(t, j, j + Len(Following(At(t, j))))

(* A byte is a number.                                                     *)
LEMMA OctetInt == Octet \subseteq Int
  BY DEF Octet

(* At gives a byte of the text, or the end behind the last one.            *)
LEMMA AtIs ==
    ASSUME NEW t \in Seq(Octet), NEW j \in Nat
    PROVE  /\ At(t, j) \in Int
           /\ At(t, j) # EOF => j \in 1 .. Len(t) /\ At(t, j) = t[j] /\ t[j] \in Octet
           /\ j \in 1 .. Len(t) => At(t, j) = t[j] /\ t[j] \in Octet
<1>1. DOMAIN t = 1 .. Len(t)
  BY LenProperties
<1>2. CASE j \in 1 .. Len(t)
  <2>1. At(t, j) = t[j]
    BY <1>1, <1>2 DEF At
  <2>2. t[j] \in Octet
    BY <1>2, ElementOfSeq
  <2>3. t[j] \in Int
    BY <2>2, OctetInt
  <2> QED
    BY <1>2, <2>1, <2>2, <2>3
<1>3. CASE j \notin 1 .. Len(t)
  <2>1. At(t, j) = EOF
    BY <1>1, <1>3 DEF At
  <2> QED
    BY <1>3, <2>1 DEF EOF
<1> QED
  BY <1>2, <1>3

\* A byte was found, and not the end.
LEMMA FoundIs ==
    ASSUME NEW t \in Seq(Octet), NEW j \in Nat, NEW X, EOF \notin X, At(t, j) \in X
    PROVE  j \in 1 .. Len(t) /\ At(t, j) = t[j] /\ t[j] \in X /\ t[j] \in Octet
<1>1. At(t, j) # EOF
  OBVIOUS
<1> QED
  BY <1>1, AtIs

(* A second byte is a byte,                                                *)
LEMMA SecondOctet == \A c \in Int : Second(c) \subseteq 128 .. 191
  BY DEF Second, Tail8

(* so the end of a text never follows a byte that demands another one.     *)
LEMMA NotFollowing == EOF \notin Tail8 /\ \A c \in Int : EOF \notin Second(c)
  BY SecondOctet DEF EOF, Tail8

(* The bytes of a part of t.                                               *)
LEMMA PartOf ==
    ASSUME NEW t \in Seq(Octet), NEW j \in Nat, NEW n \in Nat, j >= 1, j + n <= Len(t)
    PROVE  /\ SubSeq(t, j, j + n) \in Seq(Octet)
           /\ Len(SubSeq(t, j, j + n)) = n + 1
           /\ \A i \in 1 .. n + 1 : SubSeq(t, j, j + n)[i] = t[j + i - 1]
<1>1. j \in 1 .. Len(t) + 1 /\ j + n \in j - 1 .. Len(t)
  OBVIOUS
<1>2. /\ SubSeq(t, j, j + n) \in Seq(Octet)
      /\ Len(SubSeq(t, j, j + n)) = IF j <= j + n THEN (j + n) - j + 1 ELSE 0
      /\ \A i \in 1 .. (j + n) - j + 1 : SubSeq(t, j, j + n)[i] = t[j + i - 1]
  BY <1>1, SubSeqProperties
<1> QED
  BY <1>2

(* What the lexer copies without an escape is a character.                 *)
LEMMA CopiedIsChar ==
    ASSUME NEW t \in Seq(Octet), NEW j \in Nat, Follows(t, j)
    PROVE  /\ IsChar(Copied(t, j))
           /\ j \in 1 .. Len(t)
           /\ j + Len(Following(At(t, j))) <= Len(t)
<1> DEFINE c == At(t, j)
<1>1. c \in Int
  BY AtIs
<1>2. \A k \in 1 .. Len(Following(c)) : At(t, j + k) \in Following(c)[k]
  BY DEF Follows
<1>3. c \in 32 .. 127 \union 194 .. 244
  <2> SUFFICES ASSUME c \notin 32 .. 127 \union 194 .. 244 PROVE FALSE
    OBVIOUS
  <2>1. Following(c) = <<{}>>
    BY <1>1, FollowingIs
  <2> HIDE DEF c
  <2>2. Len(Following(c)) = 1 /\ Following(c)[1] = {} /\ 1 \in 1 .. 1
    BY <2>1
  <2> QED
    BY <1>2, <2>2
<1>4. j \in 1 .. Len(t) /\ c = t[j] /\ Len(t) \in Nat
  <2> DEFINE X == 32 .. 127 \union 194 .. 244
  <2>1. EOF \notin X
    BY DEF EOF
  <2>2. At(t, j) \in X
    BY <1>3
  <2> HIDE DEF c, X
  <2>3. j \in 1 .. Len(t) /\ At(t, j) = t[j]
    BY <2>1, <2>2, FoundIs
  <2> QED
    BY <2>3, LenProperties DEF c
<1>5. Copied(t, j) = SubSeq(t, j, j + Len(Following(c)))
  BY DEF Copied
<1> HIDE DEF c
<1>6. CASE c \in 32 .. 127
  <2>1. Len(Following(c)) = 0
    BY <1>1, <1>6, FollowingIs
  <2>2. j + 0 <= Len(t)
    BY <1>4
  <2>3. /\ SubSeq(t, j, j + 0) \in Seq(Octet)
        /\ Len(SubSeq(t, j, j + 0)) = 0 + 1
        /\ \A i \in 1 .. 0 + 1 : SubSeq(t, j, j + 0)[i] = t[j + i - 1]
    BY <1>4, <2>2, PartOf
  <2>0. j + 1 - 1 = j /\ j + 2 - 1 = j + 1 /\ j + 3 - 1 = j + 2 /\ j + 4 - 1 = j + 3
    OBVIOUS
  <2> DEFINE u == SubSeq(t, j, j + 0)
  <2>4. u \in Seq(Octet) /\ Len(u) = 1 /\ u[1] = t[j]
    BY <2>0, <2>3
  <2>5. Copied(t, j) = u
    BY <1>5, <2>1
  <2> HIDE DEF u
  <2>6. IsChar(u)
    BY <1>4, <1>6, <2>4 DEF IsChar
  <2> QED
    BY <1>4, <2>1, <2>2, <2>5, <2>6 DEF c
<1>7. CASE c \in 194 .. 223
  <2>1. Following(c) = <<Tail8>>
    BY <1>1, <1>7, FollowingIs
  <2>2. Len(Following(c)) = 1 /\ Following(c)[1] = Tail8
    BY <2>1
  <2>3. At(t, j + 1) \in Tail8
    BY <1>2, <2>2
  <2>4. j + 1 \in 1 .. Len(t) /\ t[j + 1] \in Tail8
    <3>1. j + 1 \in Nat
      OBVIOUS
    <3> QED
      BY <2>3, <3>1, FoundIs, NotFollowing
  <2>5. /\ SubSeq(t, j, j + 1) \in Seq(Octet)
        /\ Len(SubSeq(t, j, j + 1)) = 1 + 1
        /\ \A i \in 1 .. 1 + 1 : SubSeq(t, j, j + 1)[i] = t[j + i - 1]
    BY <1>4, <2>4, PartOf
  <2>0. j + 1 - 1 = j /\ j + 2 - 1 = j + 1 /\ j + 3 - 1 = j + 2 /\ j + 4 - 1 = j + 3
    OBVIOUS
  <2> DEFINE u == SubSeq(t, j, j + 1)
  <2>6. u \in Seq(Octet) /\ Len(u) = 2 /\ u[1] = t[j] /\ u[2] = t[j + 1]
    BY <2>0, <2>5
  <2>7. Copied(t, j) = u
    BY <1>5, <2>2
  <2> HIDE DEF u
  <2>8. IsChar(u)
    BY <1>4, <1>7, <2>4, <2>6 DEF IsChar
  <2> QED
    BY <1>4, <2>2, <2>4, <2>7, <2>8 DEF c
<1>8. CASE c \in 224 .. 239
  <2>1. Following(c) = <<Second(c), Tail8>>
    BY <1>1, <1>8, FollowingIs
  <2>2. Len(Following(c)) = 2 /\ Following(c)[1] = Second(c) /\ Following(c)[2] = Tail8
    BY <2>1
  <2>3. At(t, j + 1) \in Second(c) /\ At(t, j + 2) \in Tail8
    BY <1>2, <2>2
  <2>4. /\ j + 1 \in 1 .. Len(t) /\ t[j + 1] \in Second(c)
        /\ j + 2 \in 1 .. Len(t) /\ t[j + 2] \in Tail8
    <3>1. j + 1 \in Nat /\ j + 2 \in Nat
      OBVIOUS
    <3>2. EOF \notin Second(c) /\ EOF \notin Tail8
      BY <1>1, NotFollowing
    <3>3. j + 1 \in 1 .. Len(t) /\ t[j + 1] \in Second(c)
      BY <2>3, <3>1, <3>2, FoundIs
    <3>4. j + 2 \in 1 .. Len(t) /\ t[j + 2] \in Tail8
      BY <2>3, <3>1, <3>2, FoundIs
    <3> QED
      BY <3>3, <3>4
  <2>5. /\ SubSeq(t, j, j + 2) \in Seq(Octet)
        /\ Len(SubSeq(t, j, j + 2)) = 2 + 1
        /\ \A i \in 1 .. 2 + 1 : SubSeq(t, j, j + 2)[i] = t[j + i - 1]
    BY <1>4, <2>4, PartOf
  <2>0. j + 1 - 1 = j /\ j + 2 - 1 = j + 1 /\ j + 3 - 1 = j + 2 /\ j + 4 - 1 = j + 3
    OBVIOUS
  <2> DEFINE u == SubSeq(t, j, j + 2)
  <2>6. u \in Seq(Octet) /\ Len(u) = 3 /\ u[1] = t[j] /\ u[2] = t[j + 1] /\ u[3] = t[j + 2]
    BY <2>0, <2>5
  <2>7. Copied(t, j) = u
    BY <1>5, <2>2
  <2> HIDE DEF u
  <2>8. IsChar(u)
    BY <1>4, <1>8, <2>4, <2>6 DEF IsChar
  <2> QED
    BY <1>4, <2>2, <2>4, <2>7, <2>8 DEF c
<1>9. CASE c \in 240 .. 244
  <2>1. Following(c) = <<Second(c), Tail8, Tail8>>
    BY <1>1, <1>9, FollowingIs
  <2>2. /\ Len(Following(c)) = 3 /\ Following(c)[1] = Second(c)
        /\ Following(c)[2] = Tail8 /\ Following(c)[3] = Tail8
    BY <2>1
  <2>3. At(t, j + 1) \in Second(c) /\ At(t, j + 2) \in Tail8 /\ At(t, j + 3) \in Tail8
    BY <1>2, <2>2
  <2>4. /\ j + 1 \in 1 .. Len(t) /\ t[j + 1] \in Second(c)
        /\ j + 2 \in 1 .. Len(t) /\ t[j + 2] \in Tail8
        /\ j + 3 \in 1 .. Len(t) /\ t[j + 3] \in Tail8
    <3>1. j + 1 \in Nat /\ j + 2 \in Nat /\ j + 3 \in Nat
      OBVIOUS
    <3>2. EOF \notin Second(c) /\ EOF \notin Tail8
      BY <1>1, NotFollowing
    <3>3. j + 1 \in 1 .. Len(t) /\ t[j + 1] \in Second(c)
      BY <2>3, <3>1, <3>2, FoundIs
    <3>4. j + 2 \in 1 .. Len(t) /\ t[j + 2] \in Tail8
      BY <2>3, <3>1, <3>2, FoundIs
    <3>5. j + 3 \in 1 .. Len(t) /\ t[j + 3] \in Tail8
      BY <2>3, <3>1, <3>2, FoundIs
    <3> QED
      BY <3>3, <3>4, <3>5
  <2>5. /\ SubSeq(t, j, j + 3) \in Seq(Octet)
        /\ Len(SubSeq(t, j, j + 3)) = 3 + 1
        /\ \A i \in 1 .. 3 + 1 : SubSeq(t, j, j + 3)[i] = t[j + i - 1]
    BY <1>4, <2>4, PartOf
  <2>0. j + 1 - 1 = j /\ j + 2 - 1 = j + 1 /\ j + 3 - 1 = j + 2 /\ j + 4 - 1 = j + 3
    OBVIOUS
  <2> DEFINE u == SubSeq(t, j, j + 3)
  <2>6. /\ u \in Seq(Octet) /\ Len(u) = 4 /\ u[1] = t[j] /\ u[2] = t[j + 1]
        /\ u[3] = t[j + 2] /\ u[4] = t[j + 3]
    BY <2>0, <2>5
  <2>7. Copied(t, j) = u
    BY <1>5, <2>2
  <2> HIDE DEF u
  <2>8. IsChar(u)
    BY <1>4, <1>9, <2>4, <2>6 DEF IsChar
  <2> QED
    BY <1>4, <2>2, <2>4, <2>7, <2>8 DEF c
<1> QED
  BY <1>3, <1>6, <1>7, <1>8, <1>9

(* A code point that is no surrogate becomes one character.                *)
LEMMA Utf8IsChar ==
    ASSUME NEW cp \in Nat, cp < 1114112, cp < 55296 \/ 57343 < cp
    PROVE  IsChar(Utf8(cp))
<1> DEFINE tail(n) == 128 + (n % 64)
<1>1. \A n \in Nat : tail(n) \in Tail8 /\ tail(n) \in Octet
  BY DEF Tail8, Octet
<1>2. cp \div 64 \in Nat /\ cp \div 4096 \in Nat /\ cp \div 262144 \in Nat
  OBVIOUS
<1>3. CASE cp < 128
  <2>1. Utf8(cp) = <<cp>>
    BY <1>3 DEF Utf8
  <2> QED
    BY <1>3, <2>1 DEF IsChar, Octet
<1>4. CASE 127 < cp /\ cp < 2048
  <2>1. Utf8(cp) = <<192 + (cp \div 64), tail(cp)>>
    BY <1>4 DEF Utf8
  <2>2. 192 + (cp \div 64) \in 194 .. 223
    BY <1>4
  <2> DEFINE a == 192 + (cp \div 64)
             b == tail(cp)
  <2>3. a \in 194 .. 223 /\ a \in Octet /\ b \in Tail8 /\ b \in Octet /\ Utf8(cp) = <<a, b>>
    BY <1>1, <2>1, <2>2 DEF Octet
  <2> HIDE DEF a, b
  <2> QED
    BY <2>3 DEF IsChar
<1>5. CASE 2047 < cp /\ cp < 65536
  <2>1. Utf8(cp) = <<224 + (cp \div 4096), tail(cp \div 64), tail(cp)>>
    BY <1>5 DEF Utf8
  <2> DEFINE a == 224 + (cp \div 4096)
             b == tail(cp \div 64)
             c == tail(cp)
  <2>2. a \in 224 .. 239 /\ a \in Octet
    BY <1>5 DEF Octet
  <2>3. a = 224 => b \in 160 .. 191
    <3> SUFFICES ASSUME a = 224 PROVE b \in 160 .. 191
      OBVIOUS
    <3>1. cp \div 64 \in 32 .. 63
      BY <1>5
    <3>2. (cp \div 64) % 64 = cp \div 64
      BY <3>1
    <3> QED
      BY <3>1, <3>2
  <2>4. a = 237 => b \in 128 .. 159
    <3> SUFFICES ASSUME a = 237 PROVE b \in 128 .. 159
      OBVIOUS
    <3>1. 53247 < cp /\ cp < 55296
      BY <1>5
    <3>2. 831 < cp \div 64 /\ cp \div 64 < 864
      BY <3>1
    <3>3. (cp \div 64) % 64 = (cp \div 64) - 832
      BY <3>2
    <3> QED
      BY <3>2, <3>3
  <2>5. b \in Tail8 /\ b \in Octet /\ c \in Tail8 /\ c \in Octet
    BY <1>1, <1>2
  <2>6. Utf8(cp) = <<a, b, c>>
    BY <2>1
  <2> HIDE DEF a, b, c
  <2>7. b \in Second(a)
    <3>1. CASE a = 224
      BY <2>3, <3>1 DEF Second
    <3>2. CASE a = 237
      BY <2>4, <3>2 DEF Second
    <3>3. CASE a \notin {224, 237}
      BY <2>2, <2>5, <3>3 DEF Second
    <3> QED
      BY <3>1, <3>2, <3>3
  <2> QED
    BY <2>2, <2>5, <2>6, <2>7 DEF IsChar
<1>6. CASE 65535 < cp
  <2>1. Utf8(cp) = <<240 + (cp \div 262144), tail(cp \div 4096), tail(cp \div 64), tail(cp)>>
    BY <1>6 DEF Utf8
  <2> DEFINE a == 240 + (cp \div 262144)
             b == tail(cp \div 4096)
             c == tail(cp \div 64)
             d == tail(cp)
  <2>2. a \in 240 .. 244 /\ a \in Octet
    BY <1>6 DEF Octet
  <2>3. a = 240 => b \in 144 .. 191
    <3> SUFFICES ASSUME a = 240 PROVE b \in 144 .. 191
      OBVIOUS
    <3>1. cp \div 4096 \in 16 .. 63
      BY <1>6
    <3>2. (cp \div 4096) % 64 = cp \div 4096
      BY <3>1
    <3> QED
      BY <3>1, <3>2
  <2>4. a = 244 => b \in 128 .. 143
    <3> SUFFICES ASSUME a = 244 PROVE b \in 128 .. 143
      OBVIOUS
    <3>1. 255 < cp \div 4096 /\ cp \div 4096 < 272
      BY <1>6
    <3>2. (cp \div 4096) % 64 = (cp \div 4096) - 256
      BY <3>1
    <3> QED
      BY <3>1, <3>2
  <2>5. /\ b \in Tail8 /\ b \in Octet /\ c \in Tail8 /\ c \in Octet
        /\ d \in Tail8 /\ d \in Octet
    BY <1>1, <1>2
  <2>6. Utf8(cp) = <<a, b, c, d>>
    BY <2>1
  <2> HIDE DEF a, b, c, d
  <2>7. b \in Second(a)
    <3>1. CASE a = 240
      BY <2>3, <3>1 DEF Second
    <3>2. CASE a = 244
      BY <2>4, <3>2 DEF Second
    <3>3. CASE a \notin {240, 244}
      BY <2>2, <2>5, <3>3 DEF Second
    <3> QED
      BY <3>1, <3>2, <3>3
  <2> QED
    BY <2>2, <2>5, <2>6, <2>7 DEF IsChar
<1> QED
  BY <1>3, <1>4, <1>5, <1>6

(* A hexadecimal digit is less than 16.                                    *)
LEMMA HexIs ==
    \A c \in Hex : hexCharToBin(c) \in Nat /\ hexCharToBin(c) < 16
<1> SUFFICES ASSUME NEW c \in Hex PROVE hexCharToBin(c) \in Nat /\ hexCharToBin(c) < 16
  OBVIOUS
<1>1. CASE c \in Digit
  <2>1. hexCharToBin(c) = c - 48
    BY <1>1 DEF hexCharToBin, Digit
  <2> QED
    BY <1>1, <2>1 DEF Digit
<1>2. CASE c \in 65 .. 70
  <2>1. hexCharToBin(c) = c - 55
    BY <1>2 DEF hexCharToBin, Digit
  <2> QED
    BY <1>2, <2>1
<1>3. CASE c \in 97 .. 102
  <2>1. hexCharToBin(c) = c - 87
    BY <1>3 DEF hexCharToBin, Digit
  <2> QED
    BY <1>3, <2>1
<1> QED
  BY <1>1, <1>2, <1>3 DEF Hex

(* The end of a text is no digit.                                          *)
LEMMA EndIsNoHex == EOF \notin Hex
  BY DEF EOF, Hex, Digit

(* Four digits make a number of 16 bits.                                   *)
LEMMA CodepointIs ==
    ASSUME NEW t \in Seq(Octet), NEW i \in Nat, Codepoint(t, i) # -1
    PROVE  /\ Codepoint(t, i) \in Nat /\ Codepoint(t, i) < 65536
           /\ i + 3 <= Len(t)
<1> DEFINE h(k) == hexCharToBin(t[i + k])
<1>1. /\ \A k \in 0 .. 3 : At(t, i + k) \in Hex
      /\ Codepoint(t, i) = 4096 * h(0) + 256 * h(1) + 16 * h(2) + h(3)
  BY DEF Codepoint
<1>2. ASSUME NEW k \in 0 .. 3
      PROVE  i + k \in 1 .. Len(t) /\ t[i + k] \in Hex
  <2>1. i + k \in Nat /\ At(t, i + k) \in Hex
    BY <1>1
  <2> QED
    BY <2>1, EndIsNoHex, FoundIs
<1>3. \A k \in 0 .. 3 : h(k) \in Nat /\ h(k) < 16
  BY <1>2, HexIs
<1>4. i + 3 <= Len(t)
  BY <1>2, LenProperties
<1> HIDE DEF h
<1>5. Codepoint(t, i) = 4096 * h(0) + 256 * h(1) + 16 * h(2) + h(3)
  BY <1>1
<1> DEFINE x0 == h(0)
           x1 == h(1)
           x2 == h(2)
           x3 == h(3)
<1>6. /\ x0 \in Nat /\ x0 < 16 /\ x1 \in Nat /\ x1 < 16
      /\ x2 \in Nat /\ x2 < 16 /\ x3 \in Nat /\ x3 < 16
      /\ Codepoint(t, i) = 4096 * x0 + 256 * x1 + 16 * x2 + x3
  BY <1>3, <1>5
<1> HIDE DEF x0, x1, x2, x3
<1>7. Codepoint(t, i) \in Nat /\ Codepoint(t, i) < 65536
  BY <1>6
<1> QED
  BY <1>4, <1>7

\* A character that was found behind j.
Found(s, t, j) ==
    /\ IsChar(s.bytes)
    /\ s.next \in Nat /\ j < s.next /\ s.next <= Len(t) + 1
    /\ s = Char(s.bytes, s.next)

(* The fields of a character.                                              *)
LEMMA CharFields == \A b, n : Char(b, n).bytes = b /\ Char(b, n).next = n
  BY DEF Char

(* An escape with digits makes a character, or is rejected.                *)
LEMMA UnicodeEscapeIs ==
    ASSUME NEW t \in Seq(Octet), NEW i \in Nat
    PROVE  UnicodeEscape(t, i) = Bad \/ Found(UnicodeEscape(t, i), t, i)
<1> DEFINE c1 == Codepoint(t, i)
           c2 == Codepoint(t, i + 6)
<1>1. CASE c1 = -1 \/ IsLowSurrogate(c1)
  <2>1. c1 \in Int
    BY CodepointIs
  <2>2. ~ IsHighSurrogate(c1)
    <3> HIDE DEF c1
    <3> QED
      BY <1>1, <2>1 DEF IsLowSurrogate, IsHighSurrogate
  <2>3. UnicodeEscape(t, i) = Bad
    BY <1>1, <2>2 DEF UnicodeEscape
  <2> QED
    BY <2>3
<1>2. CASE c1 # -1 /\ ~ IsLowSurrogate(c1) /\ IsHighSurrogate(c1)
  <2>1. UnicodeEscape(t, i) =
            IF At(t, i + 4) = Backslash /\ At(t, i + 5) = LowerU /\ IsLowSurrogate(c2)
            THEN Char(Utf8(c1 * 1024 + c2 - 56613888), i + 10) ELSE Bad
    BY <1>2 DEF UnicodeEscape
  <2>2. CASE ~ (At(t, i + 4) = Backslash /\ At(t, i + 5) = LowerU /\ IsLowSurrogate(c2))
    BY <2>1, <2>2
  <2>3. CASE At(t, i + 4) = Backslash /\ At(t, i + 5) = LowerU /\ IsLowSurrogate(c2)
    <3>1. UnicodeEscape(t, i) = Char(Utf8(c1 * 1024 + c2 - 56613888), i + 10)
      BY <2>1, <2>3
    <3>2. c2 # -1 /\ i + 6 \in Nat
      BY <2>3 DEF IsLowSurrogate
    <3>3. c1 \in Nat /\ c2 \in Nat /\ (i + 6) + 3 <= Len(t)
      BY <1>2, <3>2, CodepointIs
    <3> DEFINE cp == c1 * 1024 + c2 - 56613888
    <3>4. cp \in Nat /\ cp < 1114112 /\ 57343 < cp
      <4> HIDE DEF c1, c2
      <4> QED
        BY <1>2, <2>3, <3>3 DEF IsLowSurrogate, IsHighSurrogate
    <3>5. UnicodeEscape(t, i) = Char(Utf8(cp), i + 10)
      BY <3>1
    <3> HIDE DEF cp
    <3>6. IsChar(Utf8(cp))
      BY <3>4, Utf8IsChar
    <3>7. i + 10 \in Nat /\ i < i + 10 /\ i + 10 <= Len(t) + 1
      BY <3>3, LenProperties
    <3> QED
      BY <3>5, <3>6, <3>7, CharFields DEF Found
  <2> QED
    BY <2>2, <2>3
<1>3. CASE c1 # -1 /\ ~ IsLowSurrogate(c1) /\ ~ IsHighSurrogate(c1)
  <2>1. UnicodeEscape(t, i) = Char(Utf8(c1), i + 4)
    BY <1>3 DEF UnicodeEscape
  <2>2. c1 \in Nat /\ c1 < 65536 /\ i + 3 <= Len(t)
    BY <1>3, CodepointIs
  <2>3. c1 < 55296 \/ 57343 < c1
    <3> HIDE DEF c1
    <3> QED
      BY <1>3, <2>2 DEF IsLowSurrogate, IsHighSurrogate
  <2>4. IsChar(Utf8(c1))
    <3> HIDE DEF c1
    <3>1. c1 < 1114112
      BY <2>2
    <3> QED
      BY <2>2, <2>3, <3>1, Utf8IsChar
  <2>5. i + 4 \in Nat /\ i < i + 4 /\ i + 4 <= Len(t) + 1
    BY <2>2, LenProperties
  <2> QED
    BY <2>1, <2>4, <2>5, CharFields DEF Found
<1> QED
  BY <1>1, <1>2, <1>3

(* An escape of one character stands for a byte of ASCII.                  *)
LEMMA EscapeIs == \A c \in Escapes : Escape(c) \in 0 .. 127
<1> SUFFICES ASSUME NEW c \in Escapes PROVE Escape(c) \in 0 .. 127
  OBVIOUS
<1>1. CASE c = LowerB
  BY <1>1 DEF Escape, LowerB, LowerF, LowerN, LowerR, LowerT
<1>2. CASE c = LowerF
  BY <1>2 DEF Escape, LowerB, LowerF, LowerN, LowerR, LowerT
<1>3. CASE c = LowerN
  BY <1>3 DEF Escape, LowerB, LowerF, LowerN, LowerR, LowerT
<1>4. CASE c = LowerR
  BY <1>4 DEF Escape, LowerB, LowerF, LowerN, LowerR, LowerT
<1>5. CASE c = LowerT
  BY <1>5 DEF Escape, LowerB, LowerF, LowerN, LowerR, LowerT
<1>6. CASE c \in {Quote, Backslash, Slash}
  BY <1>6 DEF Escape, LowerB, LowerF, LowerN, LowerR, LowerT, Quote, Backslash, Slash
<1> QED
  BY <1>1, <1>2, <1>3, <1>4, <1>5, <1>6 DEF Escapes

(* A character of a string is one of UTF-8, or the text is rejected.       *)
LEMMA StringCharIs ==
    ASSUME NEW t \in Seq(Octet), NEW j \in Nat
    PROVE  \/ StringChar(t, j) = Bad
           \/ Found(StringChar(t, j), t, j) /\ j \in 1 .. Len(t)
<1> DEFINE c == At(t, j)
           e == At(t, j + 1)
<1>0. EOF # Backslash /\ EOF # LowerU /\ EOF \notin Escapes /\ LowerU \notin Escapes
  BY DEF EOF, Backslash, LowerU, Escapes, Quote, Slash, LowerB, LowerF, LowerN, LowerR, LowerT
<1>1. CASE c = Backslash /\ e \in Escapes
  <2>1. StringChar(t, j) = Char(<<Escape(e)>>, j + 2)
    BY <1>0, <1>1 DEF StringChar
  <2>2. j + 1 \in Nat /\ e # EOF
    BY <1>0, <1>1
  <2>3. j + 1 \in 1 .. Len(t)
    BY <2>2, AtIs
  <2>4. Escape(e) \in 0 .. 127
    BY <1>1, EscapeIs
  <2> HIDE DEF e
  <2>5. IsChar(<<Escape(e)>>)
    BY <2>4 DEF IsChar, Octet
  <2>6. c # EOF
    BY <1>0, <1>1
  <2>7. j \in 1 .. Len(t)
    BY <2>6, AtIs
  <2>8. j + 2 \in Nat /\ j < j + 2 /\ j + 2 <= Len(t) + 1
    BY <2>3, LenProperties
  <2> QED
    BY <2>1, <2>5, <2>7, <2>8, CharFields DEF Found
<1>2. CASE c = Backslash /\ e = LowerU
  <2>1. StringChar(t, j) = UnicodeEscape(t, j + 2)
    BY <1>0, <1>2 DEF StringChar
  <2>2. c # EOF /\ j + 2 \in Nat
    BY <1>0, <1>2
  <2>3. j \in 1 .. Len(t)
    BY <2>2, AtIs
  <2>4. UnicodeEscape(t, j + 2) = Bad \/ Found(UnicodeEscape(t, j + 2), t, j + 2)
    BY <2>2, UnicodeEscapeIs
  <2>5. Found(UnicodeEscape(t, j + 2), t, j + 2) => Found(UnicodeEscape(t, j + 2), t, j)
    BY DEF Found
  <2> QED
    BY <2>1, <2>3, <2>4, <2>5
<1>3. CASE c # Backslash /\ Follows(t, j)
  <2> DEFINE n == Len(Following(c))
  <2>1. StringChar(t, j) = Char(Copied(t, j), j + n + 1)
    BY <1>3 DEF StringChar, Follows, Copied
  <2>2. IsChar(Copied(t, j)) /\ j \in 1 .. Len(t) /\ j + n <= Len(t)
    BY <1>3, CopiedIsChar
  <2>3. n \in Nat
    <3>1. c \in Int
      BY AtIs
    <3> HIDE DEF c
    <3>2. \/ Following(c) = <<>> \/ Following(c) = <<Tail8>> \/ Following(c) = <<Second(c), Tail8>>
          \/ Following(c) = <<Second(c), Tail8, Tail8>> \/ Following(c) = <<{}>>
      BY <3>1, FollowingIs
    <3> QED
      BY <3>2
  <2> HIDE DEF n
  <2>4. j + n + 1 \in Nat /\ j < j + n + 1 /\ j + n + 1 <= Len(t) + 1
    BY <2>2, <2>3, LenProperties
  <2> QED
    BY <2>1, <2>2, <2>4, CharFields DEF Found
<1>4. CASE /\ ~ (c = Backslash /\ e \in Escapes)
           /\ ~ (c = Backslash /\ e = LowerU)
           /\ ~ (c # Backslash /\ Follows(t, j))
  <2>1. StringChar(t, j) = Bad
    BY <1>4 DEF StringChar, Follows
  <2> QED
    BY <2>1
<1> QED
  BY <1>1, <1>2, <1>3, <1>4

(* The recursion of ScanString goes forward, so it has a solution.         *)
LEMMA ScanStringStep ==
    ASSUME NEW t \in Seq(Octet), NEW i \in Nat
    PROVE  ScanString(t, i) =
               IF At(t, i) = Quote THEN Char(<<>>, i + 1)
               ELSE IF StringChar(t, i) = Bad THEN Bad
               ELSE Joined(StringChar(t, i).bytes, ScanString(t, StringChar(t, i).next))
<1> DEFINE Body(g, j) == IF At(t, j) = Quote THEN Char(<<>>, j + 1)
                         ELSE Continued(g, StringChar(t, j))
           Is(g) == g = [j \in Nat |-> Body(g, j)]
           IsFrom(g, m) == g = [j \in Nat |-> IF j + m > Len(t) THEN Body(g, j) ELSE Bad]
           S == {m \in Nat : \E g : IsFrom(g, m)}
<1>1. Len(t) \in Nat
  OBVIOUS
<1>2. ASSUME NEW g, NEW h, NEW j \in Nat, \A k \in Nat : j < k => g[k] = h[k]
      PROVE  Body(g, j) = Body(h, j)
  <2>1. CASE StringChar(t, j) = Bad
    BY <2>1 DEF Continued
  <2>2. CASE StringChar(t, j) # Bad
    <3>1. StringChar(t, j).next \in Nat /\ j < StringChar(t, j).next
      BY <2>2, StringCharIs DEF Found
    <3>2. g[StringChar(t, j).next] = h[StringChar(t, j).next]
      BY <1>2, <3>1
    <3> QED
      BY <2>2, <3>2 DEF Continued
  <2> QED
    BY <2>1, <2>2
<1>3. 0 \in S
  <2> DEFINE g == [j \in Nat |-> Bad]
  <2>1. ASSUME NEW j \in Nat, j + 0 > Len(t)
        PROVE  Body(g, j) = Bad
    <3>1. j \notin 1 .. Len(t)
      BY <1>1, <2>1
    <3>2. At(t, j) # Quote
      BY <3>1, LenProperties DEF At, EOF, Quote
    <3>3. StringChar(t, j) = Bad
      BY <3>1, StringCharIs
    <3> QED
      BY <3>2, <3>3 DEF Continued
  <2>2. \A j \in Nat : g[j] = IF j + 0 > Len(t) THEN Body(g, j) ELSE Bad
    BY <2>1
  <2>3. IsFrom(g, 0)
    <3> HIDE DEF Body
    <3> QED
      BY <2>2
  <2> HIDE DEF IsFrom
  <2> QED
    BY <2>3
<1>4. ASSUME NEW m \in Nat, m \in S
      PROVE  m + 1 \in S
  <2>1. PICK g : IsFrom(g, m)
    BY <1>4
  <2>2. \A j \in Nat : g[j] = IF j + m > Len(t) THEN Body(g, j) ELSE Bad
    <3> HIDE DEF Body
    <3> QED
      BY <2>1
  <2> DEFINE h == [j \in Nat |-> IF j + m = Len(t) THEN Body(g, j) ELSE g[j]]
  <2>3. ASSUME NEW j \in Nat, j + m >= Len(t)
        PROVE  Body(g, j) = Body(h, j)
    <3>1. ASSUME NEW k \in Nat, j < k
          PROVE  g[k] = h[k]
      <4>1. k + m # Len(t)
        BY <1>1, <2>3, <3>1
      <4> HIDE DEF Body
      <4> QED
        BY <4>1
    <3> HIDE DEF Body, h
    <3> QED
      BY <1>2, <3>1
  <2>4. ASSUME NEW j \in Nat
        PROVE  h[j] = IF j + (m + 1) > Len(t) THEN Body(h, j) ELSE Bad
    <3> HIDE DEF Body
    <3>1. CASE j + m = Len(t)
      <4>1. h[j] = Body(g, j) /\ j + (m + 1) > Len(t) /\ j + m >= Len(t)
        BY <1>1, <3>1
      <4> HIDE DEF h
      <4> QED
        BY <2>3, <4>1
    <3>2. CASE j + m > Len(t)
      <4>1. h[j] = g[j] /\ j + (m + 1) > Len(t) /\ j + m >= Len(t)
        BY <1>1, <3>2
      <4>2. g[j] = Body(g, j)
        BY <2>2, <3>2
      <4> HIDE DEF h
      <4> QED
        BY <2>3, <4>1, <4>2
    <3>3. CASE j + m < Len(t)
      <4>1. h[j] = g[j] /\ ~ (j + (m + 1) > Len(t)) /\ ~ (j + m > Len(t))
        BY <1>1, <3>3
      <4> HIDE DEF h
      <4> QED
        BY <2>2, <4>1
    <3> QED
      BY <1>1, <3>1, <3>2, <3>3
  <2>5. IsFrom(h, m + 1)
    <3>1. h = [j \in Nat |-> h[j]]
      OBVIOUS
    <3> HIDE DEF h, Body
    <3> QED
      BY <2>4, <3>1
  <2> HIDE DEF IsFrom, h
  <2> QED
    BY <2>5
<1>5. Len(t) + 1 \in S
  <2> HIDE DEF S
  <2> QED
    BY <1>1, <1>3, <1>4, InductionOnSet
<1>6. PICK g : IsFrom(g, Len(t) + 1)
  BY <1>5
<1>7. Is(g)
  <2>1. \A j \in Nat : j + (Len(t) + 1) > Len(t)
    BY <1>1
  <2> HIDE DEF Body
  <2>2. g = [j \in Nat |-> IF j + (Len(t) + 1) > Len(t) THEN Body(g, j) ELSE Bad]
    BY <1>6
  <2> QED
    BY <2>1, <2>2
<1> DEFINE f == CHOOSE f : Is(f)
<1>8. Is(f)
  <2> HIDE DEF Is
  <2> QED
    BY <1>7
<1>9. \A j \in Nat : ScanString(t, j) = f[j]
  BY DEF ScanString
<1> HIDE DEF f
<1>10. \A j \in Nat : f[j] = Body(f, j)
  <2> HIDE DEF Body
  <2> QED
    BY <1>8
<1>11. ScanString(t, i) = IF At(t, i) = Quote THEN Char(<<>>, i + 1)
                          ELSE Continued(f, StringChar(t, i))
  BY <1>9, <1>10
<1>12. CASE StringChar(t, i) = Bad
  BY <1>11, <1>12 DEF Continued
<1>13. CASE StringChar(t, i) # Bad
  <2>1. StringChar(t, i).next \in Nat
    BY <1>13, StringCharIs DEF Found
  <2>2. f[StringChar(t, i).next] = ScanString(t, StringChar(t, i).next)
    BY <1>9, <2>1
  <2>3. Continued(f, StringChar(t, i))
            = Joined(StringChar(t, i).bytes, f[StringChar(t, i).next])
    BY <1>13 DEF Continued
  <2> QED
    BY <1>11, <1>13, <2>2, <2>3
<1> QED
  BY <1>12, <1>13

\* What a string that was scanned is.
Scanned(s) ==
    /\ s.bytes \in Seq(Octet)
    /\ Dumpable(s.bytes)
    /\ s.next \in Nat \ {0}
    /\ s = Char(s.bytes, s.next)

(* ScannedDumpable: whatever string the lexer accepts, copied from the     *)
(* file or written with escapes, is one that dump can write: the ranges    *)
(* that scan_string demands of UTF-8, and the code points that it takes    *)
(* for legal, are those of the automaton of decode.  So saving what was    *)
(* read never throws.                                                      *)
THEOREM ScannedDumpable ==
    \A t \in Seq(Octet) : \A i \in Nat :
        ScanString(t, i) # Bad => Dumpable(ScanString(t, i).bytes)
<1> SUFFICES ASSUME NEW t \in Seq(Octet), NEW i \in Nat
             PROVE  ScanString(t, i) = Bad \/ Scanned(ScanString(t, i))
  BY DEF Scanned
<1> DEFINE Good(j) == ScanString(t, j) = Bad \/ Scanned(ScanString(t, j))
           S == {m \in Nat : \A j \in Nat : j + m > Len(t) => Good(j)}
<1>1. Len(t) \in Nat
  OBVIOUS
<1>2. ASSUME NEW j \in Nat, At(t, j) = Quote
      PROVE  Good(j)
  <2>1. ScanString(t, j) = Char(<<>>, j + 1)
    BY <1>2, ScanStringStep
  <2>2. <<>> \in Seq(Octet) /\ j + 1 \in Nat \ {0}
    BY EmptySeq
  <2>3. Scanned(Char(<<>>, j + 1))
    BY <2>2, EmptyDumpable, CharFields DEF Scanned
  <2> QED
    BY <2>1, <2>3
<1>3. ASSUME NEW j \in Nat, At(t, j) # Quote, StringChar(t, j) = Bad
      PROVE  Good(j)
  BY <1>3, ScanStringStep
<1>4. ASSUME NEW j \in Nat, At(t, j) # Quote, StringChar(t, j) # Bad,
             Good(StringChar(t, j).next)
      PROVE  Good(j)
  <2> DEFINE s == StringChar(t, j)
             r == ScanString(t, s.next)
  <2>1. ScanString(t, j) = Joined(s.bytes, r)
    BY <1>4, ScanStringStep
  <2>2. Found(s, t, j)
    BY <1>4, StringCharIs
  <2>3. r = Bad \/ Scanned(r)
    BY <1>4
  <2> HIDE DEF s, r
  <2>4. CASE r = Bad
    BY <2>1, <2>4 DEF Joined
  <2>5. CASE r # Bad /\ Scanned(r)
    <3>1. ScanString(t, j) = Char(s.bytes \o r.bytes, r.next)
      BY <2>1, <2>5 DEF Joined
    <3>2. IsChar(s.bytes) /\ s.bytes \in Seq(Octet)
      BY <2>2 DEF Found, IsChar
    <3>3. r.bytes \in Seq(Octet) /\ Dumpable(r.bytes) /\ r.next \in Nat \ {0}
      BY <2>5 DEF Scanned
    <3>4. Dumpable(s.bytes \o r.bytes) /\ s.bytes \o r.bytes \in Seq(Octet)
      BY <3>2, <3>3, CharDumpable, ConcatDumpable, ConcatProperties
    <3>5. Scanned(Char(s.bytes \o r.bytes, r.next))
      BY <3>3, <3>4, CharFields DEF Scanned
    <3> QED
      BY <3>1, <3>5
  <2> QED
    BY <2>3, <2>4, <2>5
<1>5. 0 \in S
  <2> SUFFICES ASSUME NEW j \in Nat, j + 0 > Len(t) PROVE Good(j)
    OBVIOUS
  <2>1. j \notin 1 .. Len(t)
    BY <1>1
  <2>2. StringChar(t, j) = Bad
    BY <2>1, StringCharIs
  <2> QED
    BY <1>2, <1>3, <2>2
<1>6. ASSUME NEW m \in Nat, m \in S
      PROVE  m + 1 \in S
  <2> SUFFICES ASSUME NEW j \in Nat, j + (m + 1) > Len(t) PROVE Good(j)
    BY DEF S
  <2>1. CASE At(t, j) = Quote \/ StringChar(t, j) = Bad
    BY <1>2, <1>3, <2>1
  <2>2. CASE At(t, j) # Quote /\ StringChar(t, j) # Bad
    <3>1. StringChar(t, j).next \in Nat /\ j < StringChar(t, j).next
      BY <2>2, StringCharIs DEF Found
    <3>2. StringChar(t, j).next + m > Len(t)
      BY <1>1, <3>1
    <3>3. Good(StringChar(t, j).next)
      BY <1>6, <3>1, <3>2
    <3> QED
      BY <1>4, <2>2, <3>3
  <2> QED
    BY <2>1, <2>2
<1>7. Len(t) + 1 \in S
  <2> HIDE DEF S
  <2> QED
    BY <1>1, <1>5, <1>6, InductionOnSet
<1>8. i + (Len(t) + 1) > Len(t)
  BY <1>1
<1> QED
  BY <1>7, <1>8

-----------------------------------------------------------------------------
\* The parts g[1], g[2], ... lie one behind the other in what is flattened.
Flat(g, m) == FlattenSeq([i \in 1 .. m |-> g[i]])
Lies(X, g, m) ==
    /\ Flat(g, m) \in Seq(X)
    /\ \A k \in 0 .. m - 1 :
          /\ Flat(g, k) \in Seq(X)
          /\ Len(Flat(g, k + 1)) = Len(Flat(g, k)) + Len(g[k + 1])
          /\ Len(Flat(g, k + 1)) <= Len(Flat(g, m))
          /\ \A i \in 1 .. Len(g[k + 1]) : Flat(g, m)[Len(Flat(g, k)) + i] = g[k + 1][i]

(* Each part is found in the whole behind the lengths of those before it.  *)
LEMMA FlattenLies ==
    ASSUME NEW X, NEW n \in Nat, NEW g \in [1 .. n -> Seq(X)]
    PROVE  Lies(X, g, n)
<1> DEFINE S == {m \in Nat : m <= n => Lies(X, g, m)}
<1>1. 0 \in S
  <2>1. Flat(g, 0) = <<>>
    BY FlattenEmpty DEF Flat
  <2>2. <<>> \in Seq(X)
    BY EmptySeq
  <2>3. 0 .. 0 - 1 = {}
    OBVIOUS
  <2> QED
    BY <2>1, <2>2, <2>3 DEF Lies
<1>2. ASSUME NEW m \in Nat, m \in S
      PROVE  m + 1 \in S
  <2> SUFFICES ASSUME m + 1 <= n PROVE Lies(X, g, m + 1)
    OBVIOUS
  <2>1. Lies(X, g, m)
    BY <1>2
  <2>2. GoesOn(X, [i \in 1 .. m + 1 |-> g[i]], m)
    <3>1. [i \in 1 .. m + 1 |-> g[i]] \in [1 .. m + 1 -> Seq(X)]
      OBVIOUS
    <3> QED
      BY <3>1, FlattenGoesOn
  <2>3. Flat(g, m) \in Seq(X) /\ Flat(g, m + 1) = Flat(g, m) \o g[m + 1]
    <3> DEFINE h == [i \in 1 .. m + 1 |-> g[i]]
    <3>1. [i \in 1 .. m |-> h[i]] = [i \in 1 .. m |-> g[i]] /\ h[m + 1] = g[m + 1]
          /\ [i \in 1 .. m + 1 |-> h[i]] = [i \in 1 .. m + 1 |-> g[i]]
      OBVIOUS
    <3> HIDE DEF h
    <3>2. GoesOn(X, h, m)
      BY <2>2 DEF h
    <3> QED
      BY <3>1, <3>2 DEF GoesOn, Flat
  <2>4. g[m + 1] \in Seq(X)
    OBVIOUS
  <2>5. /\ Flat(g, m + 1) \in Seq(X)
        /\ Len(Flat(g, m + 1)) = Len(Flat(g, m)) + Len(g[m + 1])
        /\ \A i \in 1 .. Len(Flat(g, m)) : Flat(g, m + 1)[i] = Flat(g, m)[i]
        /\ \A i \in 1 .. Len(g[m + 1]) : Flat(g, m + 1)[Len(Flat(g, m)) + i] = g[m + 1][i]
    <3> DEFINE a == Flat(g, m)
               b == g[m + 1]
    <3>1. a \in Seq(X) /\ b \in Seq(X) /\ Flat(g, m + 1) = a \o b
      BY <2>3, <2>4
    <3> HIDE DEF a, b
    <3>2. /\ a \o b \in Seq(X)
          /\ Len(a \o b) = Len(a) + Len(b)
          /\ \A i \in 1 .. Len(a) : (a \o b)[i] = a[i]
          /\ \A i \in 1 .. Len(b) : (a \o b)[Len(a) + i] = b[i]
      BY <3>1, ConcatProperties
    <3>3. Flat(g, m + 1) = a \o b
      BY <3>1
    <3> QED
      BY <3>2, <3>3 DEF a, b
  <2>6. Len(Flat(g, m)) \in Nat /\ Len(g[m + 1]) \in Nat
    BY <2>3, <2>4, LenProperties
  <2>7. ASSUME NEW k \in 0 .. m
        PROVE  /\ Flat(g, k) \in Seq(X)
               /\ Len(Flat(g, k + 1)) = Len(Flat(g, k)) + Len(g[k + 1])
               /\ Len(Flat(g, k + 1)) <= Len(Flat(g, m + 1))
               /\ \A i \in 1 .. Len(g[k + 1]) :
                     Flat(g, m + 1)[Len(Flat(g, k)) + i] = g[k + 1][i]
    <3>1. CASE k = m
      <4>1. Len(Flat(g, m + 1)) <= Len(Flat(g, m + 1))
        BY <2>5, <2>6
      <4> QED
        BY <2>3, <2>5, <3>1, <4>1
    <3>2. CASE k # m
      <4>1. k \in 0 .. m - 1
        BY <3>2
      <4>2. /\ Flat(g, k) \in Seq(X)
            /\ Len(Flat(g, k + 1)) = Len(Flat(g, k)) + Len(g[k + 1])
            /\ Len(Flat(g, k + 1)) <= Len(Flat(g, m))
            /\ \A i \in 1 .. Len(g[k + 1]) : Flat(g, m)[Len(Flat(g, k)) + i] = g[k + 1][i]
        BY <2>1, <4>1 DEF Lies
      <4>3. g[k + 1] \in Seq(X)
        BY <4>1
      <4>4. Len(g[k + 1]) \in Nat /\ Len(Flat(g, k)) \in Nat
        BY <4>2, <4>3, LenProperties
      <4>5. Len(Flat(g, k + 1)) <= Len(Flat(g, m + 1))
        BY <2>5, <2>6, <4>2, <4>4
      <4>6. ASSUME NEW i \in 1 .. Len(g[k + 1])
            PROVE  Flat(g, m + 1)[Len(Flat(g, k)) + i] = g[k + 1][i]
        <5>1. Len(Flat(g, k)) + i \in 1 .. Len(Flat(g, m))
          <6> DEFINE a == Len(Flat(g, k))
                     b == Len(g[k + 1])
                     e == Len(Flat(g, m))
          <6>1. a \in Nat /\ b \in Nat /\ e \in Nat /\ a + b <= e /\ i \in 1 .. b
            BY <2>6, <4>2, <4>4
          <6> HIDE DEF a, b, e
          <6>2. a + i \in 1 .. e
            BY <6>1
          <6> QED
            BY <6>2 DEF a, b, e
        <5> QED
          BY <2>5, <4>2, <5>1
      <4> QED
        BY <4>2, <4>5, <4>6
    <3> QED
      BY <3>1, <3>2
  <2>8. (m + 1) - 1 = m
    OBVIOUS
  <2> QED
    BY <2>5, <2>7, <2>8 DEF Lies
<1>3. n \in S
  <2> HIDE DEF S
  <2> QED
    BY <1>1, <1>2, InductionOnSet
<1> QED
  BY <1>3

-----------------------------------------------------------------------------
(* The characters of a string that can be dumped.                          *)

(* After an error there are errors only.                                   *)
LEMMA RejectStays ==
    ASSUME NEW u \in Seq(Octet), NEW w, Path(w, u), NEW k \in 0 .. Len(u), w[k] = Reject
    PROVE  w[Len(u)] # Accept
<1> DEFINE S == {m \in Nat : k + m <= Len(u) => w[k + m] = Reject}
<1>1. Len(u) \in Nat
  OBVIOUS
<1>2. 0 \in S
  <2>1. k + 0 = k
    BY <1>1
  <2> QED
    BY <2>1
<1>3. ASSUME NEW m \in Nat, m \in S
      PROVE  m + 1 \in S
  <2> SUFFICES ASSUME k + (m + 1) <= Len(u) PROVE w[k + (m + 1)] = Reject
    OBVIOUS
  <2>1. k + (m + 1) \in 1 .. Len(u) /\ (k + (m + 1)) - 1 = k + m /\ k + m <= Len(u)
    BY <1>1
  <2>2. w[k + (m + 1)] = Decode(w[(k + (m + 1)) - 1], u[k + (m + 1)])
    BY <2>1 DEF Path
  <2>3. u[k + (m + 1)] \in Octet
    BY <2>1, ElementOfSeq
  <2>4. w[k + m] = Reject
    BY <1>3, <2>1
  <2> QED
    BY <2>1, <2>2, <2>3, <2>4, DecodeReject
<1>4. Len(u) - k \in Nat
  BY <1>1
<1>5. Len(u) - k \in S
  <2> HIDE DEF S
  <2> QED
    BY <1>2, <1>3, <1>4, InductionOnSet
<1>6. k + (Len(u) - k) = Len(u)
  BY <1>1
<1> QED
  BY <1>5, <1>6 DEF Accept, Reject

\* In u there is a character of m bytes behind k.
CharAt(u, k, m) ==
    /\ k + m <= Len(u)
    /\ \/ m = 1 /\ u[k + 1] \in 0 .. 127
       \/ m = 2 /\ u[k + 1] \in 194 .. 223 /\ u[k + 2] \in Tail8
       \/ m = 3 /\ u[k + 1] \in 224 .. 239 /\ u[k + 2] \in Second(u[k + 1]) /\ u[k + 3] \in Tail8
       \/ m = 4 /\ u[k + 1] \in 240 .. 244 /\ u[k + 2] \in Second(u[k + 1]) /\ u[k + 3] \in Tail8
                /\ u[k + 4] \in Tail8

(* The first of several bytes leads away from Accept.                      *)
LEMMA FirstOfMany == \A c \in 224 .. 244 : Decode(Accept, c) # Accept
<1> SUFFICES ASSUME NEW c \in 224 .. 244 PROVE Decode(Accept, c) # Accept
  OBVIOUS
<1>1. c \in Octet
  BY DEF Octet
<1>2. CASE c \in 225 .. 236 \union {238, 239}
  BY <1>1, <1>2, DecodeFirst DEF Accept
<1>3. CASE c \in 241 .. 243
  BY <1>1, <1>3, DecodeFirst DEF Accept
<1>4. CASE c \in {224, 237, 240, 244}
  BY <1>1, <1>4, DecodeFirst DEF Accept
<1> QED
  BY <1>2, <1>3, <1>4

(* Behind a place where decode accepts, and not at the end of a string     *)
(* that can be dumped, there is a character, and decode accepts behind it. *)
LEMMA NextChar ==
    ASSUME NEW u \in Seq(Octet), NEW w, Path(w, u), w[Len(u)] = Accept,
           NEW k \in 0 .. Len(u) - 1, w[k] = Accept
    PROVE  \E m \in 1 .. 4 : CharAt(u, k, m) /\ w[k + m] = Accept
<1>1. Len(u) \in Nat
  OBVIOUS
<1>2. \A i \in 0 .. Len(u) : w[i] # Reject
  BY RejectStays
<1>3. ASSUME NEW i \in 0 .. Len(u) - 1
      PROVE  w[i + 1] = Decode(w[i], u[i + 1]) /\ u[i + 1] \in Octet /\ w[i + 1] # Reject
  <2>1. i + 1 \in 1 .. Len(u) /\ i + 1 \in 0 .. Len(u) /\ (i + 1) - 1 = i
    BY <1>1
  <2>2. w[i + 1] = Decode(w[(i + 1) - 1], u[i + 1])
    BY <2>1 DEF Path
  <2>3. u[i + 1] \in Octet
    BY <2>1, ElementOfSeq
  <2> QED
    BY <1>2, <2>1, <2>2, <2>3
\* A state but Accept is not the last one.
<1>4. ASSUME NEW i \in 0 .. Len(u), w[i] # Accept
      PROVE  i \in 0 .. Len(u) - 1
  <2>1. i # Len(u)
    BY <1>4
  <2> QED
    BY <1>1, <2>1
<1>5. w[k + 1] = Decode(Accept, u[k + 1]) /\ u[k + 1] \in Octet /\ w[k + 1] # Reject
  BY <1>3
<1> DEFINE c == u[k + 1]
<1>6. k + 1 <= Len(u) /\ k + 1 \in 0 .. Len(u)
  BY <1>1
<1>7. c \in 0 .. 127 \/ c \in 194 .. 223 \/ c \in 224 .. 239 \/ c \in 240 .. 244
  <2>1. c \in 128 .. 193 \union 245 .. 255 => Decode(Accept, c) = Reject
    BY <1>5, DecodeFirst
  <2>2. c \notin 128 .. 193 \union 245 .. 255
    BY <1>5, <2>1
  <2>3. c \in Octet
    BY <1>5
  <2> HIDE DEF c
  <2> QED
    BY <2>2, <2>3 DEF Octet
<1>8. CASE c \in 0 .. 127
  <2>1. w[k + 1] = Accept
    BY <1>5, <1>8, DecodeFirst
  <2> QED
    BY <1>6, <1>8, <2>1 DEF CharAt
<1>9. CASE c \in 194 .. 223
  <2>1. w[k + 1] = 2
    BY <1>5, <1>9, DecodeFirst
  <2>2. k + 1 \in 0 .. Len(u) - 1
    BY <1>4, <1>6, <2>1 DEF Accept
  <2>3. (k + 1) + 1 = k + 2 /\ k + 2 <= Len(u)
    BY <1>1, <2>2
  <2>4. w[k + 2] = Decode(2, u[k + 2]) /\ u[k + 2] \in Octet /\ w[k + 2] # Reject
    BY <1>3, <2>1, <2>2, <2>3
  <2>5. u[k + 2] \in Tail8 /\ w[k + 2] = Accept
    BY <2>4, DecodeTail
  <2> QED
    BY <1>9, <2>3, <2>5 DEF CharAt
<1>10. CASE c \in 224 .. 239
  <2>1. w[k + 1] # Accept
    <3>1. c \in 224 .. 244
      BY <1>10
    <3> QED
      BY <1>5, <3>1, FirstOfMany
  <2>2. k + 1 \in 0 .. Len(u) - 1
    BY <1>4, <1>6, <2>1
  <2>3. (k + 1) + 1 = k + 2 /\ k + 2 \in 0 .. Len(u)
    BY <1>1, <2>2
  <2>4. w[k + 2] = Decode(w[k + 1], u[k + 2]) /\ u[k + 2] \in Octet /\ w[k + 2] # Reject
    BY <1>3, <2>2, <2>3
  <2>5. c \in 224 .. 244 /\ c < 240
    BY <1>10
  <2>6. Decode(Decode(Accept, c), u[k + 2]) =
            IF u[k + 2] \in Second(c) THEN (IF c < 240 THEN 2 ELSE 3) ELSE Reject
    BY <2>4, <2>5, SecondByte
  <2>7. u[k + 2] \in Second(c) /\ w[k + 2] = 2
    BY <1>5, <2>4, <2>5, <2>6
  <2>8. k + 2 \in 0 .. Len(u) - 1
    BY <1>4, <2>3, <2>7 DEF Accept
  <2>9. (k + 2) + 1 = k + 3 /\ k + 3 <= Len(u)
    BY <1>1, <2>8
  <2>10. w[k + 3] = Decode(2, u[k + 3]) /\ u[k + 3] \in Octet /\ w[k + 3] # Reject
    BY <1>3, <2>7, <2>8, <2>9
  <2>11. u[k + 3] \in Tail8 /\ w[k + 3] = Accept
    BY <2>10, DecodeTail
  <2> QED
    BY <1>10, <2>7, <2>9, <2>11 DEF CharAt
<1>11. CASE c \in 240 .. 244
  <2>1. w[k + 1] # Accept
    <3>1. c \in 224 .. 244
      BY <1>11
    <3> QED
      BY <1>5, <3>1, FirstOfMany
  <2>2. k + 1 \in 0 .. Len(u) - 1
    BY <1>4, <1>6, <2>1
  <2>3. (k + 1) + 1 = k + 2 /\ k + 2 \in 0 .. Len(u)
    BY <1>1, <2>2
  <2>4. w[k + 2] = Decode(w[k + 1], u[k + 2]) /\ u[k + 2] \in Octet /\ w[k + 2] # Reject
    BY <1>3, <2>2, <2>3
  <2>5. c \in 224 .. 244 /\ ~ (c < 240)
    BY <1>11
  <2>6. Decode(Decode(Accept, c), u[k + 2]) =
            IF u[k + 2] \in Second(c) THEN (IF c < 240 THEN 2 ELSE 3) ELSE Reject
    BY <2>4, <2>5, SecondByte
  <2>7. u[k + 2] \in Second(c) /\ w[k + 2] = 3
    BY <1>5, <2>4, <2>5, <2>6
  <2>8. k + 2 \in 0 .. Len(u) - 1
    BY <1>4, <2>3, <2>7 DEF Accept
  <2>9. (k + 2) + 1 = k + 3 /\ k + 3 \in 0 .. Len(u)
    BY <1>1, <2>8
  <2>10. w[k + 3] = Decode(3, u[k + 3]) /\ u[k + 3] \in Octet /\ w[k + 3] # Reject
    BY <1>3, <2>7, <2>8, <2>9
  <2>11. u[k + 3] \in Tail8 /\ w[k + 3] = 2
    BY <2>10, DecodeTail
  <2>12. k + 3 \in 0 .. Len(u) - 1
    BY <1>4, <2>9, <2>11 DEF Accept
  <2>13. (k + 3) + 1 = k + 4 /\ k + 4 <= Len(u)
    BY <1>1, <2>12
  <2>14. w[k + 4] = Decode(2, u[k + 4]) /\ u[k + 4] \in Octet /\ w[k + 4] # Reject
    BY <1>3, <2>11, <2>12, <2>13
  <2>15. u[k + 4] \in Tail8 /\ w[k + 4] = Accept
    BY <2>14, DecodeTail
  <2> QED
    BY <1>11, <2>7, <2>11, <2>13, <2>15 DEF CharAt
<1> QED
  BY <1>7, <1>8, <1>9, <1>10, <1>11

-----------------------------------------------------------------------------
(* What dump writes for one byte.                                          *)

Short == {8, 9, 10, 12, 13}

(* The lexer undoes the five short escapes.                                *)
LEMMA EscapeOf ==
    /\ Escape(LowerB) = 8
    /\ Escape(LowerF) = 12
    /\ Escape(LowerN) = 10
    /\ Escape(LowerR) = 13
    /\ Escape(LowerT) = 9
<1>1. Escape(LowerB) = 8
  BY DEF Escape, LowerB, LowerF, LowerN, LowerR, LowerT
<1>2. Escape(LowerF) = 12
  BY DEF Escape, LowerB, LowerF, LowerN, LowerR, LowerT
<1>3. Escape(LowerN) = 10
  BY DEF Escape, LowerB, LowerF, LowerN, LowerR, LowerT
<1>4. Escape(LowerR) = 13
  BY DEF Escape, LowerB, LowerF, LowerN, LowerR, LowerT
<1>5. Escape(LowerT) = 9
  BY DEF Escape, LowerB, LowerF, LowerN, LowerR, LowerT
<1> QED
  BY <1>1, <1>2, <1>3, <1>4, <1>5

(* The four forms of what dump writes for a byte.                          *)
LEMMA DumpByteIs ==
    ASSUME NEW b \in Octet
    PROVE  /\ b \in {Quote, Backslash} => DumpByte(b) = <<Backslash, b>>
           /\ b \in Short => \E c \in Escapes : Escape(c) = b /\ DumpByte(b) = <<Backslash, c>>
           /\ b \in 0 .. 31 \ Short =>
                 DumpByte(b) = <<Backslash, LowerU, Zero, Zero,
                                 HexDigit(b \div 16), HexDigit(b % 16)>>
           /\ b > 31 /\ b \notin {Quote, Backslash} => DumpByte(b) = <<b>>
<1>1. b \in {Quote, Backslash} => DumpByte(b) = <<Backslash, b>>
  BY DEF DumpByte, Quote, Backslash
<1>2. ASSUME b \in Short
      PROVE  \E c \in Escapes : Escape(c) = b /\ DumpByte(b) = <<Backslash, c>>
  <2>1. DumpByte(b) = <<Backslash, CHOOSE c \in Escapes \ {b} : Escape(c) = b>>
    BY <1>2 DEF DumpByte, Quote, Backslash, Short
  <2>2. \E c \in Escapes \ {b} : Escape(c) = b
    <3>1. /\ LowerB \in Escapes \ {8} /\ LowerF \in Escapes \ {12} /\ LowerN \in Escapes \ {10}
          /\ LowerR \in Escapes \ {13} /\ LowerT \in Escapes \ {9}
      BY DEF Escapes, LowerB, LowerF, LowerN, LowerR, LowerT
    <3>2. b = 8 \/ b = 12 \/ b = 10 \/ b = 13 \/ b = 9
      BY <1>2 DEF Short
    <3> QED
      BY <3>1, <3>2, EscapeOf
  <2> DEFINE c == CHOOSE c \in Escapes \ {b} : Escape(c) = b
  <2>3. c \in Escapes /\ Escape(c) = b
    BY <2>2
  <2>4. DumpByte(b) = <<Backslash, c>>
    BY <2>1
  <2> HIDE DEF c
  <2> QED
    BY <2>3, <2>4
<1>3. b \in 0 .. 31 \ Short =>
         DumpByte(b) = <<Backslash, LowerU, Zero, Zero, HexDigit(b \div 16), HexDigit(b % 16)>>
  BY DEF DumpByte, Quote, Backslash, Short
<1>4. b > 31 /\ b \notin {Quote, Backslash} => DumpByte(b) = <<b>>
  BY DEF DumpByte
<1> QED
  BY <1>1, <1>2, <1>3, <1>4

(* The lexer reads a digit that dump wrote as its number.                  *)
LEMMA HexDigitIs ==
    ASSUME NEW n \in 0 .. 15
    PROVE  HexDigit(n) \in Hex /\ hexCharToBin(HexDigit(n)) = n
<1>1. CASE n < 10
  <2>1. HexDigit(n) = 48 + n
    BY <1>1 DEF HexDigit, Zero
  <2>2. 48 + n \in Digit
    BY <1>1 DEF Digit
  <2>3. hexCharToBin(48 + n) = (48 + n) - 48
    BY <2>2 DEF hexCharToBin, Digit
  <2> QED
    BY <2>1, <2>2, <2>3 DEF Hex
<1>2. CASE ~ (n < 10)
  <2>1. HexDigit(n) = 87 + n
    BY <1>2 DEF HexDigit
  <2>2. 87 + n \in 97 .. 102
    BY <1>2
  <2>3. hexCharToBin(87 + n) = (87 + n) - 87
    BY <2>2 DEF hexCharToBin, Digit
  <2> QED
    BY <2>1, <2>2, <2>3 DEF Hex
<1> QED
  BY <1>1, <1>2

(* dump writes at least one byte for a byte.                               *)
LEMMA DumpByteType ==
    \A b \in Octet : DumpByte(b) \in Seq(Octet) /\ Len(DumpByte(b)) \in Nat \ {0}
<1> SUFFICES ASSUME NEW b \in Octet
             PROVE  DumpByte(b) \in Seq(Octet) /\ Len(DumpByte(b)) \in Nat \ {0}
  OBVIOUS
<1>1. Hex \subseteq Octet /\ Escapes \subseteq Octet
  BY DEF Hex, Digit, Octet, Escapes, Quote, Backslash, Slash,
         LowerB, LowerF, LowerN, LowerR, LowerT
<1>2. Backslash \in Octet /\ LowerU \in Octet /\ Zero \in Octet
  BY DEF Octet, Backslash, LowerU, Zero
<1>3. CASE b \in {Quote, Backslash}
  <2>1. DumpByte(b) = <<Backslash, b>>
    BY <1>3, DumpByteIs
  <2> QED
    BY <1>2, <2>1
<1>4. CASE b \in Short
  <2>1. PICK c \in Escapes : DumpByte(b) = <<Backslash, c>>
    BY <1>4, DumpByteIs
  <2> QED
    BY <1>1, <1>2, <2>1
<1>5. CASE b \in 0 .. 31 \ Short
  <2>1. b \div 16 \in 0 .. 15 /\ b % 16 \in 0 .. 15
    BY <1>5
  <2> DEFINE x == HexDigit(b \div 16)
             y == HexDigit(b % 16)
  <2>2. x \in Octet /\ y \in Octet
    BY <1>1, <2>1, HexDigitIs
  <2>3. DumpByte(b) = <<Backslash, LowerU, Zero, Zero, x, y>>
    BY <1>5, DumpByteIs
  <2> HIDE DEF x, y
  <2> QED
    BY <1>2, <2>2, <2>3
<1>6. CASE b > 31 /\ b \notin {Quote, Backslash}
  <2>1. DumpByte(b) = <<b>>
    BY <1>6, DumpByteIs
  <2> QED
    BY <2>1
<1>7. b \in 0 .. 31 \/ b > 31
  BY DEF Octet
<1> QED
  BY <1>3, <1>4, <1>5, <1>6, <1>7

\* The bytes v lie in t at j.
Holds(t, j, v) ==
    /\ j >= 1 /\ j + Len(v) <= Len(t) + 1
    /\ \A i \in 1 .. Len(v) : t[j + (i - 1)] = v[i]

(* At finds them there.                                                    *)
LEMMA HoldsAt ==
    ASSUME NEW t \in Seq(Octet), NEW j \in Nat, NEW v \in Seq(Octet), Holds(t, j, v),
           NEW i \in 1 .. Len(v)
    PROVE  At(t, j + (i - 1)) = v[i]
<1>1. Len(v) \in Nat /\ Len(t) \in Nat /\ DOMAIN t = 1 .. Len(t)
  BY LenProperties
<1>2. j + (i - 1) \in DOMAIN t
  BY <1>1 DEF Holds
<1> QED
  BY <1>2 DEF Holds, At

(* The lexer reads what dump wrote for a byte of ASCII as this byte.       *)
LEMMA DumpedByte ==
    ASSUME NEW t \in Seq(Octet), NEW j \in Nat, NEW b \in 0 .. 127, Holds(t, j, DumpByte(b))
    PROVE  /\ At(t, j) # Quote
           /\ StringChar(t, j) = Char(<<b>>, j + Len(DumpByte(b)))
<1>0. b \in Octet
  BY DEF Octet
<1>1. DumpByte(b) \in Seq(Octet)
  BY <1>0, DumpByteType
<1>2. \A i \in 1 .. Len(DumpByte(b)) : At(t, j + (i - 1)) = DumpByte(b)[i]
  BY <1>1, HoldsAt
<1>3. Quote # Backslash /\ LowerU \notin Escapes /\ Quote \in Escapes /\ Backslash \in Escapes
  BY DEF Quote, Backslash, LowerU, Escapes, Slash, LowerB, LowerF, LowerN, LowerR, LowerT
<1>4. ASSUME NEW c \in Escapes, Escape(c) = b, DumpByte(b) = <<Backslash, c>>
      PROVE  At(t, j) # Quote /\ StringChar(t, j) = Char(<<b>>, j + Len(DumpByte(b)))
  <2>1. At(t, j) = Backslash /\ At(t, j + 1) = c
    <3>1. Len(DumpByte(b)) = 2 /\ DumpByte(b)[1] = Backslash /\ DumpByte(b)[2] = c
      BY <1>4
    <3>2. At(t, j + (1 - 1)) = Backslash /\ At(t, j + (2 - 1)) = c
      BY <1>2, <3>1
    <3>3. j + (1 - 1) = j /\ j + (2 - 1) = j + 1
      OBVIOUS
    <3> QED
      BY <3>2, <3>3
  <2>2. StringChar(t, j) = Char(<<Escape(c)>>, j + 2)
    BY <1>3, <1>4, <2>1 DEF StringChar
  <2>3. Len(DumpByte(b)) = 2
    BY <1>4
  <2> QED
    BY <1>3, <1>4, <2>1, <2>2, <2>3
<1>5. CASE b \in {Quote, Backslash}
  <2>1. DumpByte(b) = <<Backslash, b>> /\ b \in Escapes
    BY <1>0, <1>3, <1>5, DumpByteIs
  <2>2. Escape(b) = b
    BY <1>5 DEF Escape, Quote, Backslash, LowerB, LowerF, LowerN, LowerR, LowerT
  <2> QED
    BY <1>4, <2>1, <2>2
<1>6. CASE b \in Short
  BY <1>0, <1>4, <1>6, DumpByteIs
<1>7. CASE b \in 0 .. 31 \ Short
  <2> DEFINE x == HexDigit(b \div 16)
             y == HexDigit(b % 16)
  <2>1. DumpByte(b) = <<Backslash, LowerU, Zero, Zero, x, y>>
    BY <1>0, <1>7, DumpByteIs
  <2>2. b \div 16 \in 0 .. 15 /\ b % 16 \in 0 .. 15 /\ b = 16 * (b \div 16) + (b % 16)
    <3>1. b \in Nat /\ b < 32
      BY <1>7
    <3>2. b \div 16 \in Nat /\ b \div 16 < 16 /\ b % 16 \in Nat /\ b % 16 < 16
      BY <3>1
    <3>3. b = 16 * (b \div 16) + (b % 16)
      BY <3>1
    <3> QED
      BY <3>2, <3>3
  <2>3. /\ x \in Hex /\ hexCharToBin(x) = b \div 16
        /\ y \in Hex /\ hexCharToBin(y) = b % 16
    BY <2>2, HexDigitIs
  <2>4. Zero \in Hex /\ hexCharToBin(Zero) = 0
    <3>1. Zero = HexDigit(0)
      BY DEF Zero, HexDigit
    <3>2. 0 \in 0 .. 15
      OBVIOUS
    <3> QED
      BY <3>1, <3>2, HexDigitIs
  <2> HIDE DEF x, y
  <2>5. /\ At(t, j) = Backslash /\ At(t, j + 1) = LowerU
        /\ At(t, j + 2) = Zero /\ At(t, j + 3) = Zero /\ At(t, j + 4) = x /\ At(t, j + 5) = y
    <3>1. /\ Len(DumpByte(b)) = 6
          /\ DumpByte(b)[1] = Backslash /\ DumpByte(b)[2] = LowerU /\ DumpByte(b)[3] = Zero
          /\ DumpByte(b)[4] = Zero /\ DumpByte(b)[5] = x /\ DumpByte(b)[6] = y
      BY <2>1
    <3>2. /\ At(t, j + (1 - 1)) = Backslash /\ At(t, j + (2 - 1)) = LowerU
          /\ At(t, j + (3 - 1)) = Zero /\ At(t, j + (4 - 1)) = Zero
          /\ At(t, j + (5 - 1)) = x /\ At(t, j + (6 - 1)) = y
      BY <1>2, <3>1
    <3>3. /\ j + (1 - 1) = j /\ j + (2 - 1) = j + 1 /\ j + (3 - 1) = j + 2
          /\ j + (4 - 1) = j + 3 /\ j + (5 - 1) = j + 4 /\ j + (6 - 1) = j + 5
      OBVIOUS
    <3> QED
      BY <3>2, <3>3
  <2>6. Codepoint(t, j + 2) = b
    <3> DEFINE i == j + 2
    <3>1. At(t, i + 0) = Zero /\ At(t, i + 1) = Zero /\ At(t, i + 2) = x /\ At(t, i + 3) = y
      <4>1. i + 0 = j + 2 /\ i + 1 = j + 3 /\ i + 2 = j + 4 /\ i + 3 = j + 5
        OBVIOUS
      <4> HIDE DEF i
      <4> QED
        BY <2>5, <4>1
    <3>2. i \in Nat
      OBVIOUS
    <3> HIDE DEF i
    <3>3. \A k \in 0 .. 3 : At(t, i + k) \in Hex
      <4> SUFFICES ASSUME NEW k \in 0 .. 3 PROVE At(t, i + k) \in Hex
        OBVIOUS
      <4>1. k = 0 \/ k = 1 \/ k = 2 \/ k = 3
        OBVIOUS
      <4> QED
        BY <2>3, <2>4, <3>1, <4>1
    <3>4. ASSUME NEW k \in 0 .. 3
          PROVE  t[i + k] = At(t, i + k)
      <4>1. i + k \in Nat /\ At(t, i + k) \in Hex
        BY <3>2, <3>3
      <4> QED
        BY <4>1, EndIsNoHex, FoundIs
    <3>5. Codepoint(t, i) = 4096 * hexCharToBin(t[i + 0]) + 256 * hexCharToBin(t[i + 1])
                              + 16 * hexCharToBin(t[i + 2]) + hexCharToBin(t[i + 3])
      BY <3>3 DEF Codepoint
    <3>6. t[i + 0] = Zero /\ t[i + 1] = Zero /\ t[i + 2] = x /\ t[i + 3] = y
      BY <3>1, <3>4
    <3>7. Codepoint(t, i) = 4096 * 0 + 256 * 0 + 16 * (b \div 16) + (b % 16)
      BY <2>3, <2>4, <3>5, <3>6
    <3>8. Codepoint(t, i) = b
      BY <2>2, <3>7
    <3> QED
      BY <3>8 DEF i
  <2>7. UnicodeEscape(t, j + 2) = Char(Utf8(b), (j + 2) + 4)
    <3>1. b # -1 /\ ~ IsLowSurrogate(b) /\ ~ IsHighSurrogate(b)
      BY DEF IsLowSurrogate, IsHighSurrogate
    <3> QED
      BY <2>6, <3>1 DEF UnicodeEscape
  <2>8. Utf8(b) = <<b>>
    <3>1. b < 128 /\ ~ (127 < b) /\ ~ (2047 < b) /\ ~ (65535 < b)
      OBVIOUS
    <3> QED
      BY <3>1 DEF Utf8
  <2>9. StringChar(t, j) = UnicodeEscape(t, j + 2)
    BY <1>3, <2>5 DEF StringChar
  <2>10. (j + 2) + 4 = j + 6 /\ Len(DumpByte(b)) = 6
    BY <2>1
  <2> QED
    BY <1>3, <2>5, <2>7, <2>8, <2>9, <2>10
<1>8. CASE b > 31 /\ b \notin {Quote, Backslash}
  <2>1. DumpByte(b) = <<b>>
    BY <1>0, <1>8, DumpByteIs
  <2>2. Len(DumpByte(b)) = 1 /\ DumpByte(b)[1] = b
    BY <2>1
  <2>3. At(t, j) = b
    <3>1. At(t, j + (1 - 1)) = b /\ j + (1 - 1) = j
      BY <1>2, <2>2
    <3> QED
      BY <3>1
  <2>4. b \in 32 .. 127 /\ b \in Int
    BY <1>8
  <2>5. Following(At(t, j)) = <<>>
    BY <2>3, <2>4, FollowingIs
  <2>6. j \in 1 .. Len(t) /\ t[j] = b
    <3>1. EOF \notin Octet /\ At(t, j) \in Octet
      BY <1>0, <2>3 DEF EOF, Octet
    <3> QED
      BY <2>3, <3>1, FoundIs
  <2>7. StringChar(t, j) = Char(SubSeq(t, j, j + 0), j + 0 + 1)
    <3>1. Len(<<>>) = 0 /\ 1 .. 0 = {}
      OBVIOUS
    <3>2. At(t, j) # Backslash
      BY <1>8, <2>3
    <3> QED
      BY <2>5, <3>1, <3>2 DEF StringChar
  <2>8. SubSeq(t, j, j + 0) = <<b>>
    <3>1. j + 0 <= Len(t) /\ j >= 1
      BY <2>6, LenProperties
    <3>2. /\ SubSeq(t, j, j + 0) \in Seq(Octet)
          /\ Len(SubSeq(t, j, j + 0)) = 0 + 1
          /\ \A i \in 1 .. 0 + 1 : SubSeq(t, j, j + 0)[i] = t[j + i - 1]
      BY <3>1, PartOf
    <3> DEFINE v == SubSeq(t, j, j + 0)
    <3>3. v \in Seq(Octet) /\ Len(v) = 1 /\ v[1] = t[j + 1 - 1] /\ j + 1 - 1 = j
      BY <3>2
    <3> HIDE DEF v
    <3>4. v = <<b>>
      BY <1>0, <2>6, <3>3
    <3> QED
      BY <3>4 DEF v
  <2>9. j + 0 + 1 = j + 1
    OBVIOUS
  <2> QED
    BY <1>8, <2>2, <2>3, <2>7, <2>8, <2>9
<1>9. b \in 0 .. 31 \/ b > 31
  OBVIOUS
<1> QED
  BY <1>5, <1>6, <1>7, <1>8, <1>9

(* A part of a sequence is its first m elements and the others.            *)
LEMMA PartSplits ==
    ASSUME NEW u \in Seq(Octet), NEW k \in Nat, NEW m \in Nat, k + m <= Len(u)
    PROVE  /\ SubSeq(u, k + 1, k + m) \in Seq(Octet)
           /\ SubSeq(u, k + m + 1, Len(u)) \in Seq(Octet)
           /\ SubSeq(u, k + 1, k + m) \o SubSeq(u, k + m + 1, Len(u)) = SubSeq(u, k + 1, Len(u))
<1> DEFINE n == Len(u)
           a == SubSeq(u, k + 1, k + m)
           b == SubSeq(u, k + m + 1, n)
           c == SubSeq(u, k + 1, n)
<1>1. n \in Nat
  OBVIOUS
<1>2. /\ a \in Seq(Octet) /\ Len(a) = m
      /\ \A i \in 1 .. m : a[i] = u[k + i]
  <2>1. k + 1 \in 1 .. n + 1 /\ k + m \in (k + 1) - 1 .. n
    BY <1>1
  <2>2. /\ a \in Seq(Octet)
        /\ Len(a) = IF k + 1 <= k + m THEN (k + m) - (k + 1) + 1 ELSE 0
        /\ \A i \in 1 .. (k + m) - (k + 1) + 1 : a[i] = u[(k + 1) + i - 1]
    BY <1>1, <2>1, SubSeqProperties
  <2>3. (k + m) - (k + 1) + 1 = m /\ (k + 1 <= k + m <=> m >= 1)
    OBVIOUS
  <2>4. ASSUME NEW i \in 1 .. m
        PROVE  a[i] = u[k + i]
    <3>1. (k + 1) + i - 1 = k + i
      OBVIOUS
    <3> HIDE DEF a
    <3> QED
      BY <2>2, <2>3, <3>1
  <2> HIDE DEF a
  <2> QED
    BY <2>2, <2>3, <2>4
<1>3. /\ b \in Seq(Octet) /\ Len(b) = n - (k + m)
      /\ \A i \in 1 .. n - (k + m) : b[i] = u[k + m + i]
  <2>1. k + m + 1 \in 1 .. n + 1 /\ n \in (k + m + 1) - 1 .. n
    BY <1>1
  <2>2. /\ b \in Seq(Octet)
        /\ Len(b) = IF k + m + 1 <= n THEN n - (k + m + 1) + 1 ELSE 0
        /\ \A i \in 1 .. n - (k + m + 1) + 1 : b[i] = u[(k + m + 1) + i - 1]
    BY <1>1, <2>1, SubSeqProperties
  <2>3. n - (k + m + 1) + 1 = n - (k + m) /\ (k + m + 1 <= n \/ n - (k + m) = 0)
    BY <1>1
  <2>4. ASSUME NEW i \in 1 .. n - (k + m)
        PROVE  b[i] = u[k + m + i]
    <3>1. (k + m + 1) + i - 1 = k + m + i
      OBVIOUS
    <3> HIDE DEF b
    <3> QED
      BY <2>2, <2>3, <3>1
  <2> HIDE DEF b
  <2> QED
    BY <2>2, <2>3, <2>4
<1>4. /\ c \in Seq(Octet) /\ Len(c) = n - k
      /\ \A i \in 1 .. n - k : c[i] = u[k + i]
  <2>1. k + 1 \in 1 .. n + 1 /\ n \in (k + 1) - 1 .. n
    BY <1>1
  <2>2. /\ c \in Seq(Octet)
        /\ Len(c) = IF k + 1 <= n THEN n - (k + 1) + 1 ELSE 0
        /\ \A i \in 1 .. n - (k + 1) + 1 : c[i] = u[(k + 1) + i - 1]
    BY <1>1, <2>1, SubSeqProperties
  <2>3. n - (k + 1) + 1 = n - k /\ (k + 1 <= n \/ n - k = 0)
    BY <1>1
  <2>4. ASSUME NEW i \in 1 .. n - k
        PROVE  c[i] = u[k + i]
    <3>1. (k + 1) + i - 1 = k + i
      OBVIOUS
    <3> HIDE DEF c
    <3> QED
      BY <2>2, <2>3, <3>1
  <2> HIDE DEF c
  <2> QED
    BY <2>2, <2>3, <2>4
<1> HIDE DEF a, b, c, n
<1>5. /\ a \o b \in Seq(Octet)
      /\ Len(a \o b) = Len(a) + Len(b)
      /\ \A i \in 1 .. Len(a) + Len(b) : (a \o b)[i] = IF i <= Len(a) THEN a[i] ELSE b[i - Len(a)]
  BY <1>2, <1>3, ConcatProperties
<1>6. k + m <= n
  BY DEF n
<1>7. Len(a) + Len(b) = n - k
  BY <1>1, <1>2, <1>3
<1>8. ASSUME NEW i \in 1 .. Len(a \o b)
      PROVE  (a \o b)[i] = c[i]
  <2>1. i \in 1 .. n - k
    BY <1>5, <1>7
  <2>2. CASE i <= m
    <3>1. i \in 1 .. m /\ i \in 1 .. Len(a) + Len(b) /\ i <= Len(a)
      BY <1>1, <1>2, <1>7, <2>1, <2>2
    <3>2. (a \o b)[i] = a[i]
      BY <1>5, <3>1
    <3> QED
      BY <1>2, <1>4, <2>1, <3>1, <3>2
  <2>3. CASE ~ (i <= m)
    <3>1. i - m \in 1 .. n - (k + m) /\ k + m + (i - m) = k + i
      BY <1>1, <2>1, <2>3
    <3>2. (a \o b)[i] = b[i - m]
      BY <1>2, <1>5, <1>7, <2>1, <2>3
    <3> QED
      BY <1>3, <1>4, <2>1, <3>1, <3>2
  <2> QED
    BY <2>2, <2>3
<1>9. a \o b = c
  BY <1>4, <1>5, <1>7, <1>8, SeqEqual
<1> QED
  BY <1>2, <1>3, <1>9 DEF a, b, c, n

\* The m bytes behind k in u lie in t at j.
Same(t, j, u, k, m) ==
    /\ j >= 1 /\ j + m <= Len(t) + 1 /\ k + m <= Len(u)
    /\ \A i \in 1 .. m : t[j + (i - 1)] = u[k + i]

(* The bytes behind the first of a character are those that must follow.   *)
LEMMA FollowedBy ==
    ASSUME NEW u, NEW k \in Nat, NEW m \in 2 .. 4, CharAt(u, k, m)
    PROVE  /\ u[k + 1] \in 194 .. 244
           /\ Len(Following(u[k + 1])) = m - 1
           /\ \A i \in 1 .. m - 1 : u[k + i + 1] \in Following(u[k + 1])[i]
<1>1. /\ ~ (2 = 1) /\ ~ (2 = 3) /\ ~ (2 = 4) /\ ~ (3 = 1) /\ ~ (3 = 2) /\ ~ (3 = 4)
      /\ ~ (4 = 1) /\ ~ (4 = 2) /\ ~ (4 = 3)
  OBVIOUS
<1> DEFINE c == u[k + 1]
           c2 == u[k + 2]
           c3 == u[k + 3]
           c4 == u[k + 4]
<1>2. \/ m = 1
      \/ m = 2 /\ c \in 194 .. 223 /\ c2 \in Tail8
      \/ m = 3 /\ c \in 224 .. 239 /\ c2 \in Second(c) /\ c3 \in Tail8
      \/ m = 4 /\ c \in 240 .. 244 /\ c2 \in Second(c) /\ c3 \in Tail8 /\ c4 \in Tail8
  BY Zenon DEF CharAt
<1>3. k + 1 + 1 = k + 2 /\ k + 2 + 1 = k + 3 /\ k + 3 + 1 = k + 4
  OBVIOUS
<1>4. u[k + 1 + 1] = c2 /\ u[k + 2 + 1] = c3 /\ u[k + 3 + 1] = c4
  BY <1>3
<1> HIDE DEF c, c2, c3, c4
<1>5. CASE m = 2
  <2>1. c \in 194 .. 223 /\ c2 \in Tail8
    BY <1>1, <1>2, <1>5
  <2>2. c \in Int /\ c \in 194 .. 244
    BY <2>1
  <2>3. Following(c) = <<Tail8>>
    BY <2>1, <2>2, FollowingIs
  <2>4. Len(Following(c)) = 1 /\ Following(c)[1] = Tail8
    BY <2>3
  <2>5. ASSUME NEW i \in 1 .. m - 1
        PROVE  u[k + i + 1] \in Following(c)[i]
    <3>1. i = 1
      BY <1>5
    <3> QED
      BY <1>4, <2>1, <2>4, <3>1
  <2>6. m - 1 = 1
    BY <1>5
  <2> QED
    BY <2>2, <2>4, <2>5, <2>6 DEF c
<1>6. CASE m = 3
  <2>1. c \in 224 .. 239 /\ c2 \in Second(c) /\ c3 \in Tail8
    BY <1>1, <1>2, <1>6
  <2>2. c \in Int /\ c \in 194 .. 244
    BY <2>1
  <2>3. Following(c) = <<Second(c), Tail8>>
    BY <2>1, <2>2, FollowingIs
  <2>4. Len(Following(c)) = 2 /\ Following(c)[1] = Second(c) /\ Following(c)[2] = Tail8
    BY <2>3
  <2>5. ASSUME NEW i \in 1 .. m - 1
        PROVE  u[k + i + 1] \in Following(c)[i]
    <3>1. i = 1 \/ i = 2
      BY <1>6
    <3> QED
      BY <1>4, <2>1, <2>4, <3>1
  <2>6. m - 1 = 2
    BY <1>6
  <2> QED
    BY <2>2, <2>4, <2>5, <2>6 DEF c
<1>7. CASE m = 4
  <2>1. c \in 240 .. 244 /\ c2 \in Second(c) /\ c3 \in Tail8 /\ c4 \in Tail8
    BY <1>1, <1>2, <1>7
  <2>2. c \in Int /\ c \in 194 .. 244
    BY <2>1
  <2>3. Following(c) = <<Second(c), Tail8, Tail8>>
    BY <2>1, <2>2, FollowingIs
  <2>4. /\ Len(Following(c)) = 3 /\ Following(c)[1] = Second(c) /\ Following(c)[2] = Tail8
        /\ Following(c)[3] = Tail8
    BY <2>3
  <2>5. ASSUME NEW i \in 1 .. m - 1
        PROVE  u[k + i + 1] \in Following(c)[i]
    <3>1. i = 1 \/ i = 2 \/ i = 3
      BY <1>7
    <3> QED
      BY <1>4, <2>1, <2>4, <3>1
  <2>6. m - 1 = 3
    BY <1>7
  <2> QED
    BY <2>2, <2>4, <2>5, <2>6 DEF c
<1> QED
  BY <1>5, <1>6, <1>7

(* The lexer copies a character of several bytes.                          *)
LEMMA CharCopied ==
    ASSUME NEW t \in Seq(Octet), NEW j \in Nat, NEW u \in Seq(Octet), NEW k \in Nat,
           NEW m \in 2 .. 4, CharAt(u, k, m), Same(t, j, u, k, m)
    PROVE  /\ At(t, j) # Quote
           /\ StringChar(t, j) = Char(SubSeq(u, k + 1, k + m), j + m)
<1>1. \A i \in 1 .. m : At(t, j + (i - 1)) = u[k + i]
  <2> SUFFICES ASSUME NEW i \in 1 .. m PROVE At(t, j + (i - 1)) = u[k + i]
    OBVIOUS
  <2>1. j + (i - 1) \in DOMAIN t
    BY LenProperties DEF Same
  <2> QED
    BY <2>1 DEF Same, At
<1>2. At(t, j) = u[k + 1]
  <2>1. 1 \in 1 .. m /\ j + (1 - 1) = j
    OBVIOUS
  <2> QED
    BY <1>1, <2>1
<1>3. \A i \in 1 .. m - 1 : At(t, j + i) = u[k + i + 1]
  <2> SUFFICES ASSUME NEW i \in 1 .. m - 1 PROVE At(t, j + i) = u[k + i + 1]
    OBVIOUS
  <2>1. i + 1 \in 1 .. m /\ j + ((i + 1) - 1) = j + i /\ k + (i + 1) = k + i + 1
    OBVIOUS
  <2> QED
    BY <1>1, <2>1
<1> DEFINE c == u[k + 1]
<1>4. /\ c \in 194 .. 244
      /\ Len(Following(c)) = m - 1
      /\ \A i \in 1 .. m - 1 : u[k + i + 1] \in Following(c)[i]
  <2> HIDE DEF c
  <2> QED
    BY FollowedBy, Zenon DEF c
<1>5. c # Quote /\ c # Backslash
  <2>1. c \in 194 .. 244
    BY <1>4
  <2> HIDE DEF c
  <2> QED
    BY <2>1 DEF Quote, Backslash
<1>6. At(t, j) = c
  BY <1>2
<1> HIDE DEF c
<1>7. \A i \in 1 .. Len(Following(c)) : At(t, j + i) \in Following(c)[i]
  BY <1>3, <1>4
<1>8. StringChar(t, j) = Char(SubSeq(t, j, j + (m - 1)), j + (m - 1) + 1)
  BY <1>4, <1>5, <1>6, <1>7 DEF StringChar
<1>9. SubSeq(t, j, j + (m - 1)) = SubSeq(u, k + 1, k + m)
  <2>1. j >= 1 /\ j + m <= Len(t) + 1 /\ k + m <= Len(u) /\ Len(t) \in Nat /\ Len(u) \in Nat
    BY LenProperties DEF Same
  <2>2. m - 1 \in Nat /\ j + (m - 1) <= Len(t) /\ (m - 1) + 1 = m
    BY <2>1
  <2>3. /\ SubSeq(t, j, j + (m - 1)) \in Seq(Octet)
        /\ Len(SubSeq(t, j, j + (m - 1))) = m
        /\ \A i \in 1 .. m : SubSeq(t, j, j + (m - 1))[i] = t[j + i - 1]
    BY <2>1, <2>2, PartOf
  <2>4. (k + 1) + (m - 1) = k + m /\ k + 1 \in Nat /\ k + 1 >= 1
    OBVIOUS
  <2>5. (k + 1) + (m - 1) <= Len(u)
    BY <2>1, <2>4
  <2>6. /\ SubSeq(u, k + 1, (k + 1) + (m - 1)) \in Seq(Octet)
        /\ Len(SubSeq(u, k + 1, (k + 1) + (m - 1))) = (m - 1) + 1
        /\ \A i \in 1 .. (m - 1) + 1 :
              SubSeq(u, k + 1, (k + 1) + (m - 1))[i] = u[(k + 1) + i - 1]
    BY <2>2, <2>4, <2>5, PartOf
  <2> DEFINE x == SubSeq(t, j, j + (m - 1))
             y == SubSeq(u, k + 1, k + m)
  <2>7. /\ y \in Seq(Octet) /\ Len(y) = m
        /\ \A i \in 1 .. m : y[i] = u[(k + 1) + i - 1]
    BY <2>2, <2>4, <2>6
  <2>8. /\ x \in Seq(Octet) /\ Len(x) = m
        /\ \A i \in 1 .. m : x[i] = t[j + i - 1]
    BY <2>3
  <2> HIDE DEF x, y
  <2>9. ASSUME NEW i \in 1 .. Len(x)
        PROVE  x[i] = y[i]
    <3>1. i \in 1 .. m
      BY <2>8
    <3>2. j + i - 1 = j + (i - 1) /\ (k + 1) + i - 1 = k + i
      BY <3>1
    <3>3. t[j + (i - 1)] = u[k + i]
      BY <3>1 DEF Same
    <3> QED
      BY <2>7, <2>8, <3>1, <3>2, <3>3
  <2>10. x = y
    BY <2>7, <2>8, <2>9, SeqEqual
  <2> QED
    BY <2>10 DEF x, y
<1>10. j + (m - 1) + 1 = j + m
  OBVIOUS
<1> QED
  BY <1>5, <1>6, <1>8, <1>9, <1>10

-----------------------------------------------------------------------------
(* A dumped string is scanned.                                             *)

\* What dump writes for the bytes of u, and where in a text in which that lies
\* behind b what it writes for the byte k + 1 starts.
DumpedBytes(u) == [i \in 1 .. Len(u) |-> DumpByte(u[i])]
Start(b, u, k) == b + Len(Flat(DumpedBytes(u), k)) + 1

(* The parts of a dumped string lie one behind the other.                  *)
LEMMA DumpedBytesType ==
    ASSUME NEW u \in Seq(Octet)
    PROVE  DumpedBytes(u) \in [1 .. Len(u) -> Seq(Octet)] /\ Lies(Octet, DumpedBytes(u), Len(u))
<1>1. \A i \in 1 .. Len(u) : DumpByte(u[i]) \in Seq(Octet)
  BY ElementOfSeq, DumpByteType
<1>2. DumpedBytes(u) \in [1 .. Len(u) -> Seq(Octet)]
  BY <1>1 DEF DumpedBytes
<1>3. Len(u) \in Nat
  OBVIOUS
<1> QED
  BY <1>2, <1>3, FlattenLies

(* If all the parts lie in a text behind b, each lies where it starts.     *)
LEMMA DumpedLies ==
    ASSUME NEW t \in Seq(Octet), NEW b \in Nat, NEW u \in Seq(Octet),
           Holds(t, b + 1, Flat(DumpedBytes(u), Len(u))),
           NEW i \in 0 .. Len(u) - 1
    PROVE  /\ Start(b, u, i) \in Nat
           /\ Holds(t, Start(b, u, i), DumpByte(u[i + 1]))
           /\ Start(b, u, i + 1) = Start(b, u, i) + Len(DumpByte(u[i + 1]))
<1> DEFINE n == Len(u)
           g == DumpedBytes(u)
           all == Flat(g, n)
           v == DumpByte(u[i + 1])
           p == Len(Flat(g, i))
           q == Len(Flat(g, i + 1))
<1>1. /\ all \in Seq(Octet) /\ Flat(g, i) \in Seq(Octet)
      /\ q = p + Len(g[i + 1]) /\ q <= Len(all)
      /\ \A x \in 1 .. Len(g[i + 1]) : all[p + x] = g[i + 1][x]
  BY DumpedBytesType DEF Lies
<1>2. i + 1 \in 1 .. n /\ g[i + 1] = v
  BY DEF DumpedBytes
<1>3. v \in Seq(Octet)
  BY <1>2, ElementOfSeq, DumpByteType
<1>4. p \in Nat /\ Len(all) \in Nat /\ Len(v) \in Nat /\ Len(t) \in Nat
  BY <1>1, <1>3, LenProperties
<1>5. b + 1 + Len(all) <= Len(t) + 1 /\ \A y \in 1 .. Len(all) : t[b + 1 + (y - 1)] = all[y]
  BY DEF Holds
<1>6. Start(b, u, i) = b + p + 1 /\ Start(b, u, i + 1) = b + q + 1
  BY DEF Start
<1>7. q = p + Len(v) /\ \A x \in 1 .. Len(v) : all[p + x] = v[x]
  BY <1>1, <1>2
<1>8. q <= Len(all)
  BY <1>1
<1> HIDE DEF g, all, v, p, q
<1>9. ASSUME NEW x \in 1 .. Len(v)
      PROVE  t[b + p + 1 + (x - 1)] = v[x]
  <2>1. p + x \in 1 .. Len(all)
    BY <1>4, <1>7, <1>8
  <2>2. b + 1 + ((p + x) - 1) = b + p + 1 + (x - 1)
    BY <1>4
  <2> QED
    BY <1>5, <1>7, <2>1, <2>2
<1>10. b + p + 1 >= 1 /\ b + p + 1 + Len(v) <= Len(t) + 1
  BY <1>4, <1>5, <1>7, <1>8
<1>11. Holds(t, Start(b, u, i), v)
  BY <1>6, <1>9, <1>10 DEF Holds
<1>12. b + p + 1 \in Nat /\ b + q + 1 = (b + p + 1) + Len(v)
  <2>1. b + p + 1 \in Nat
    BY <1>4
  <2>2. q = p + Len(v)
    BY <1>7
  <2>3. b + (p + Len(v)) + 1 = (b + p + 1) + Len(v)
    BY <1>4
  <2> QED
    BY <2>1, <2>2, <2>3
<1> QED
  BY <1>6, <1>11, <1>12 DEF v

(* The bytes of a character of several bytes are not escaped.              *)
LEMMA CharUnescaped ==
    ASSUME NEW u \in Seq(Octet), NEW k \in Nat, NEW m \in 2 .. 4, CharAt(u, k, m),
           NEW i \in 1 .. m
    PROVE  DumpByte(u[k + i]) = <<u[k + i]>>
<1>1. \A c \in Int : Second(c) \subseteq Tail8
  BY DEF Second, Tail8
<1>2. k + i \in 1 .. Len(u)
  BY LenProperties DEF CharAt
<1>3. u[k + i] \in Octet
  BY <1>2, ElementOfSeq
<1>4. u[k + i] > 127
  <2>1. u[k + 1] \in 194 .. 244
    BY FollowedBy
  <2>2. Second(u[k + 1]) \subseteq Tail8
    <3> DEFINE c == u[k + 1]
    <3>1. c \in 194 .. 244
      BY <2>1
    <3> HIDE DEF c
    <3>2. c \in Int
      BY <3>1
    <3>3. Second(c) \subseteq Tail8
      BY <1>1, <3>2
    <3> QED
      BY <3>3 DEF c
  <2>3. i = 1 \/ i = 2 \/ i = 3 \/ i = 4
    OBVIOUS
  <2>4. i = 2 => u[k + 2] \in Tail8
    BY <2>2 DEF CharAt
  <2>5. i = 3 => u[k + 3] \in Tail8
    BY <2>2 DEF CharAt
  <2>6. i = 4 => u[k + 4] \in Tail8
    BY <2>2 DEF CharAt
  <2>7. u[k + i] \in 194 .. 244 \/ u[k + i] \in Tail8
    BY <2>1, <2>3, <2>4, <2>5, <2>6
  <2> DEFINE x == u[k + i]
  <2>8. x \in 194 .. 244 \/ x \in Tail8
    BY <2>7
  <2> HIDE DEF x
  <2>9. \A y \in 194 .. 244 : y > 127
    OBVIOUS
  <2>10. \A y \in 128 .. 191 : y > 127
    OBVIOUS
  <2>11. x > 127
    <3>1. CASE x \in 194 .. 244
      BY <2>9, <3>1
    <3>2. CASE x \in Tail8
      <4>1. x \in 128 .. 191
        BY <3>2 DEF Tail8
      <4> QED
        BY <2>10, <4>1
    <3> QED
      BY <2>8, <3>1, <3>2
  <2> QED
    BY <2>11 DEF x
<1> DEFINE x == u[k + i]
<1>5. x \in Octet /\ x > 127
  BY <1>3, <1>4
<1> HIDE DEF x
<1>6. x > 31 /\ x \notin {Quote, Backslash}
  BY <1>5 DEF Octet, Quote, Backslash
<1>7. DumpByte(x) = <<x>>
  BY <1>5, <1>6, DumpByteIs
<1> QED
  BY <1>7 DEF x

(* The lexer reads back what dump wrote for a character.                   *)
LEMMA CharScanned ==
    ASSUME NEW t \in Seq(Octet), NEW b \in Nat, NEW u \in Seq(Octet),
           Holds(t, b + 1, Flat(DumpedBytes(u), Len(u))),
           NEW k \in Nat, NEW m \in 1 .. 4, CharAt(u, k, m)
    PROVE  /\ Start(b, u, k) \in Nat
           /\ At(t, Start(b, u, k)) # Quote
           /\ StringChar(t, Start(b, u, k)) = Char(SubSeq(u, k + 1, k + m), Start(b, u, k + m))
<1> DEFINE j == Start(b, u, k)
<1>1. k + m <= Len(u) /\ Len(u) \in Nat /\ Len(t) \in Nat
  BY LenProperties DEF CharAt
<1>2. \A i \in 0 .. Len(u) - 1 :
         /\ Start(b, u, i) \in Nat
         /\ Holds(t, Start(b, u, i), DumpByte(u[i + 1]))
         /\ Start(b, u, i + 1) = Start(b, u, i) + Len(DumpByte(u[i + 1]))
  BY DumpedLies
<1>3. k \in 0 .. Len(u) - 1 /\ j \in Nat
  BY <1>1, <1>2
<1>4. CASE m = 1
  <2>1. u[k + 1] \in 0 .. 127
    BY <1>4 DEF CharAt
  <2>2. Holds(t, j, DumpByte(u[k + 1])) /\ Start(b, u, k + 1) = j + Len(DumpByte(u[k + 1]))
    BY <1>2, <1>3
  <2>3. At(t, j) # Quote /\ StringChar(t, j) = Char(<<u[k + 1]>>, j + Len(DumpByte(u[k + 1])))
    BY <1>3, <2>1, <2>2, DumpedByte
  <2>4. SubSeq(u, k + 1, k + 1) = <<u[k + 1]>>
    <3>1. (k + 1) + 0 = k + 1 /\ k + 1 >= 1 /\ (k + 1) + 0 <= Len(u) /\ k + 1 \in Nat
      BY <1>1, <1>3
    <3>2. /\ SubSeq(u, k + 1, (k + 1) + 0) \in Seq(Octet)
          /\ Len(SubSeq(u, k + 1, (k + 1) + 0)) = 0 + 1
          /\ \A i \in 1 .. 0 + 1 : SubSeq(u, k + 1, (k + 1) + 0)[i] = u[(k + 1) + i - 1]
      BY <3>1, PartOf
    <3> DEFINE v == SubSeq(u, k + 1, k + 1)
    <3>3. v \in Seq(Octet) /\ Len(v) = 1 /\ v[1] = u[(k + 1) + 1 - 1]
      BY <3>1, <3>2
    <3>4. (k + 1) + 1 - 1 = k + 1
      OBVIOUS
    <3> HIDE DEF v
    <3>5. v = <<u[k + 1]>>
      BY <3>3, <3>4
    <3> QED
      BY <3>5 DEF v
  <2> QED
    BY <1>3, <1>4, <2>2, <2>3, <2>4
<1>5. CASE m # 1
  <2>1. m \in 2 .. 4
    BY <1>5
  <2>2. ASSUME NEW i \in 1 .. m
        PROVE  /\ Start(b, u, k + (i - 1)) \in Nat
               /\ Start(b, u, k + (i - 1)) + 1 <= Len(t) + 1
               /\ Start(b, u, k + i) = Start(b, u, k + (i - 1)) + 1
               /\ t[Start(b, u, k + (i - 1))] = u[k + i]
    <3>1. k + (i - 1) \in 0 .. Len(u) - 1 /\ (k + (i - 1)) + 1 = k + i
      BY <1>1
    <3>2. DumpByte(u[k + i]) = <<u[k + i]>>
      BY <2>1, CharUnescaped
    <3> DEFINE s == Start(b, u, k + (i - 1))
               x == u[k + i]
    <3>3. s \in Nat /\ Holds(t, s, <<x>>) /\ Start(b, u, k + i) = s + Len(<<x>>)
      BY <1>2, <3>1, <3>2
    <3> HIDE DEF s, x
    <3>4. Len(<<x>>) = 1 /\ <<x>>[1] = x /\ s + (1 - 1) = s /\ 1 \in 1 .. 1
      BY <3>3
    <3>5. s + 1 <= Len(t) + 1 /\ t[s] = x /\ Start(b, u, k + i) = s + 1
      BY <3>3, <3>4 DEF Holds
    <3> QED
      BY <3>3, <3>5 DEF s, x
  <2>3. ASSUME NEW i \in 1 .. m
        PROVE  Start(b, u, k + (i - 1)) = j + (i - 1) /\ Start(b, u, k + i) = j + i
    <3> DEFINE S == {d \in Nat : d <= m => Start(b, u, k + d) = j + d}
    <3>1. 0 \in S
      <4>1. k + 0 = k /\ j + 0 = j
        BY <1>3
      <4> QED
        BY <4>1
    <3>2. ASSUME NEW d \in Nat, d \in S
          PROVE  d + 1 \in S
      <4> SUFFICES ASSUME d + 1 <= m PROVE Start(b, u, k + (d + 1)) = j + (d + 1)
        OBVIOUS
      <4>1. d + 1 \in 1 .. m /\ (d + 1) - 1 = d /\ d <= m
        OBVIOUS
      <4>2. Start(b, u, k + (d + 1)) = Start(b, u, k + d) + 1
        BY <2>2, <4>1
      <4>3. Start(b, u, k + d) = j + d
        BY <3>2, <4>1
      <4> HIDE DEF j
      <4> QED
        BY <1>3, <4>2, <4>3
    <3>3. \A d \in Nat : d \in S
      <4> HIDE DEF S
      <4> QED
        BY <3>1, <3>2, InductionOnSet
    <3>4. i - 1 \in S /\ i \in S
      <4>1. i - 1 \in Nat /\ i \in Nat
        OBVIOUS
      <4> HIDE DEF S
      <4> QED
        BY <3>3, <4>1
    <3> QED
      BY <3>4
  <2>4. Same(t, j, u, k, m)
    <3>1. 1 \in 1 .. m /\ m \in 1 .. m
      BY <2>1
    <3>2. Start(b, u, k + (m - 1)) = j + (m - 1) /\ j + (m - 1) + 1 <= Len(t) + 1
      BY <2>2, <2>3, <3>1
    <3>3. \A i \in 1 .. m : t[j + (i - 1)] = u[k + i]
      BY <2>2, <2>3
    <3>4. j >= 1
      <4>1. Flat(DumpedBytes(u), k) \in Seq(Octet)
        BY <1>3, DumpedBytesType DEF Lies
      <4> QED
        BY <4>1, LenProperties DEF Start
    <3> HIDE DEF j
    <3> QED
      BY <1>1, <1>3, <3>2, <3>3, <3>4 DEF Same
  <2>5. At(t, j) # Quote /\ StringChar(t, j) = Char(SubSeq(u, k + 1, k + m), j + m)
    BY <1>3, <2>1, <2>4, CharCopied
  <2>6. Start(b, u, k + m) = j + m
    <3>1. m \in 1 .. m
      OBVIOUS
    <3> QED
      BY <2>3, <3>1
  <2> QED
    BY <1>3, <2>5, <2>6
<1> QED
  BY <1>4, <1>5

(* Character by character the lexer reads back what dump wrote, when the   *)
(* quote is behind it: by induction on the bytes that are left.            *)
LEMMA DumpedScans ==
    ASSUME NEW t \in Seq(Octet), NEW b \in Nat, NEW u \in Seq(Octet), Dumpable(u),
           Holds(t, b + 1, Flat(DumpedBytes(u), Len(u))),
           At(t, Start(b, u, Len(u))) = Quote
    PROVE  ScanString(t, b + 1) = Char(u, Start(b, u, Len(u)) + 1)
<1> DEFINE n == Len(u)
           end == Start(b, u, n) + 1
           rest(k) == SubSeq(u, k + 1, n)
<1>1. n \in Nat
  OBVIOUS
<1>2. PICK w : Path(w, u) /\ w[n] = Accept
  BY DumpablePath DEF Accepts
<1>3. /\ Lies(Octet, DumpedBytes(u), n) /\ Flat(DumpedBytes(u), n) \in Seq(Octet)
  BY DumpedBytesType DEF Lies
<1>4. Start(b, u, n) \in Nat /\ end \in Nat
  <2>1. Len(Flat(DumpedBytes(u), n)) \in Nat
    BY <1>3, LenProperties
  <2> QED
    BY <2>1 DEF Start
<1> DEFINE Good(k) == ScanString(t, Start(b, u, k)) = Char(rest(k), end)
           S == {d \in Nat : \A k \in 0 .. n : k + d >= n /\ w[k] = Accept => Good(k)}
<1>5. Good(n)
  <2>1. ScanString(t, Start(b, u, n)) = Char(<<>>, end)
    BY <1>4, ScanStringStep
  <2>2. rest(n) = <<>>
    BY <1>1
  <2> QED
    BY <2>1, <2>2
<1>6. 0 \in S
  <2>1. ASSUME NEW k \in 0 .. n, k + 0 >= n
        PROVE  k = n
    BY <1>1, <2>1
  <2> HIDE DEF Good
  <2> QED
    BY <1>5, <2>1
<1>7. ASSUME NEW d \in Nat, d \in S
      PROVE  d + 1 \in S
  <2> SUFFICES ASSUME NEW k \in 0 .. n, k + (d + 1) >= n, w[k] = Accept
               PROVE  Good(k)
    <3> HIDE DEF Good
    <3> QED
      OBVIOUS
  <2>1. CASE k = n
    <3> HIDE DEF Good
    <3> QED
      BY <1>5, <2>1
  <2>2. CASE k # n
    <3>1. k \in 0 .. n - 1
      BY <1>1, <2>2
    <3>2. PICK m \in 1 .. 4 : CharAt(u, k, m) /\ w[k + m] = Accept
      BY <1>2, <3>1, NextChar
    <3>3. k + m \in 0 .. n /\ (k + m) + d >= n /\ k \in Nat /\ k + m <= n /\ m \in Nat
      BY <1>1, <3>1, <3>2 DEF CharAt
    <3>4. Good(k + m)
      <4> HIDE DEF Good
      <4> QED
        BY <1>7, <3>2, <3>3
    <3> DEFINE p == SubSeq(u, k + 1, k + m)
               j == Start(b, u, k)
               q == Start(b, u, k + m)
    <3>5. j \in Nat /\ At(t, j) # Quote /\ StringChar(t, j) = Char(p, q)
      BY <3>2, <3>3, CharScanned
    <3>6. p \in Seq(Octet) /\ rest(k + m) \in Seq(Octet) /\ p \o rest(k + m) = rest(k)
      BY <3>3, PartSplits
    <3>7. ScanString(t, q) = Char(rest(k + m), end)
      BY <3>4
    <3>8. q # 0
      <4>1. k + m \in 0 .. n
        BY <3>3
      <4>2. Len(Flat(DumpedBytes(u), k + m)) \in Nat
        <5>1. Flat(DumpedBytes(u), k + m) \in Seq(Octet)
          <6>1. CASE k + m = n
            BY <1>3, <6>1
          <6>2. CASE k + m # n
            <7>1. k + m \in 0 .. n - 1
              BY <1>1, <4>1, <6>2
            <7> QED
              BY <1>3, <7>1 DEF Lies
          <6> QED
            BY <6>1, <6>2
        <5> QED
          BY <5>1, LenProperties
      <4> QED
        BY <4>2 DEF Start
    <3>9. end # 0
      BY <1>4
    <3> HIDE DEF p, j, q, rest, end
    <3>10. /\ Char(p, q) # Bad /\ Char(p, q).bytes = p /\ Char(p, q).next = q
           /\ Char(rest(k + m), end) # Bad /\ Char(rest(k + m), end).bytes = rest(k + m)
           /\ Char(rest(k + m), end).next = end
      BY <3>8, <3>9 DEF Char, Bad
    <3>11. ScanString(t, j) = Joined(Char(p, q).bytes, ScanString(t, Char(p, q).next))
      BY <3>5, <3>10, ScanStringStep
    <3>12. ScanString(t, j) = Char(p \o rest(k + m), end)
      BY <3>7, <3>10, <3>11 DEF Joined
    <3> QED
      BY <3>6, <3>12 DEF j
  <2> QED
    BY <2>1, <2>2
<1>8. n \in S
  <2> HIDE DEF S
  <2> QED
    BY <1>1, <1>6, <1>7, InductionOnSet
<1>9. Good(0)
  <2>1. 0 \in 0 .. n /\ 0 + n >= n /\ w[0] = Accept
    BY <1>1, <1>2 DEF Path
  <2> HIDE DEF Good
  <2> QED
    BY <1>8, <2>1
<1>10. Start(b, u, 0) = b + 1
  <2>1. Flat(DumpedBytes(u), 0) = <<>>
    BY FlattenEmpty DEF Flat
  <2> QED
    BY <2>1 DEF Start
<1>11. rest(0) = u
  <2>1. /\ \A i \in 1 .. n : u[i] \in Octet
        /\ rest(0) \in Seq(Octet) /\ Len(rest(0)) = n
        /\ \A i \in 1 .. n : rest(0)[i] = u[i]
    <3>1. 0 + 1 = 1 /\ \A i \in 1 .. n : u[i] \in Octet /\ 1 + i - 1 = i
      BY ElementOfSeq
    <3>2. /\ SubSeq(u, 1, n) \in Seq(Octet)
          /\ Len(SubSeq(u, 1, n)) = IF 1 <= n THEN n - 1 + 1 ELSE 0
          /\ \A i \in 1 .. n - 1 + 1 : SubSeq(u, 1, n)[i] = u[1 + i - 1]
      BY <1>1, <3>1, SubSeqProperties
    <3>3. n - 1 + 1 = n /\ (1 <= n \/ n = 0)
      BY <1>1
    <3> HIDE DEF n
    <3> QED
      BY <1>1, <3>1, <3>2, <3>3
  <2> HIDE DEF rest, n
  <2>2. rest(0) = u
    BY <2>1, SeqEqual DEF n
  <2> QED
    BY <2>2
<1> QED
  BY <1>9, <1>10, <1>11

(* DumpedIsScanned: a string that was dumped, wherever in a file it lies,  *)
(* is scanned as itself, up to and with its closing quote: whatever bytes  *)
(* it has, dump escapes what the lexer would take for the end or for an    *)
(* escape, and only that.                                                  *)
THEOREM DumpedIsScanned ==
    \A u \in Seq(Octet) : Dumpable(u) =>
        \A pre \in Seq(Octet), post \in Seq(Octet) :
            LET t == pre \o DumpString(u) \o post
            IN  ScanString(t, Len(pre) + 2) = Char(u, Len(pre) + Len(DumpString(u)) + 1)
<1> SUFFICES ASSUME NEW u \in Seq(Octet), Dumpable(u), NEW pre \in Seq(Octet),
                    NEW post \in Seq(Octet)
             PROVE  ScanString(pre \o DumpString(u) \o post, Len(pre) + 2)
                        = Char(u, Len(pre) + Len(DumpString(u)) + 1)
  OBVIOUS
<1> DEFINE n == Len(u)
           all == Flat(DumpedBytes(u), n)
           quote == <<Quote>>
           d == DumpString(u)
           t == pre \o d \o post
           b == Len(pre) + 1
<1>1. all \in Seq(Octet)
  BY DumpedBytesType DEF Lies
<1>2. d = quote \o all \o quote
  <2>1. DOMAIN u = 1 .. n
    BY LenProperties
  <2>2. [i \in 1 .. n |-> DumpedBytes(u)[i]] = [i \in 1 .. n |-> DumpByte(u[i])]
    BY DEF DumpedBytes
  <2> QED
    BY <2>1, <2>2 DEF DumpString, Flat
<1>3. quote \in Seq(Octet) /\ Len(quote) = 1 /\ quote[1] = Quote
  BY DEF Quote, Octet
<1>4. Len(pre) \in Nat /\ Len(all) \in Nat /\ Len(post) \in Nat
  BY <1>1, LenProperties
<1> HIDE DEF n, all, quote, d, t
<1>5. /\ d \in Seq(Octet) /\ Len(d) = Len(all) + 2
      /\ \A i \in 1 .. Len(all) : d[1 + i] = all[i]
      /\ d[Len(all) + 2] = Quote
  <2> DEFINE x == quote \o all
  <2>1. /\ x \in Seq(Octet) /\ Len(x) = 1 + Len(all)
        /\ \A i \in 1 .. 1 + Len(all) : x[i] = IF i <= 1 THEN quote[i] ELSE all[i - 1]
    <3>1. /\ quote \o all \in Seq(Octet) /\ Len(quote \o all) = Len(quote) + Len(all)
          /\ \A i \in 1 .. Len(quote) + Len(all) :
                (quote \o all)[i] = IF i <= Len(quote) THEN quote[i] ELSE all[i - Len(quote)]
      BY <1>1, <1>3, ConcatProperties
    <3> QED
      BY <1>3, <3>1
  <2>2. d = x \o quote
    BY <1>2
  <2> HIDE DEF x
  <2>3. /\ d \in Seq(Octet) /\ Len(d) = (1 + Len(all)) + 1
        /\ \A i \in 1 .. (1 + Len(all)) + 1 :
              d[i] = IF i <= 1 + Len(all) THEN x[i] ELSE quote[i - (1 + Len(all))]
    <3>1. /\ x \o quote \in Seq(Octet) /\ Len(x \o quote) = Len(x) + Len(quote)
          /\ \A i \in 1 .. Len(x) + Len(quote) :
                (x \o quote)[i] = IF i <= Len(x) THEN x[i] ELSE quote[i - Len(x)]
      BY <1>3, <2>1, ConcatProperties
    <3> QED
      BY <1>3, <2>1, <2>2, <3>1
  <2>4. ASSUME NEW i \in 1 .. Len(all)
        PROVE  d[1 + i] = all[i]
    <3>1. /\ 1 + i \in 1 .. (1 + Len(all)) + 1 /\ 1 + i <= 1 + Len(all)
          /\ 1 + i \in 1 .. 1 + Len(all) /\ ~ (1 + i <= 1) /\ (1 + i) - 1 = i
      BY <1>4
    <3>2. d[1 + i] = x[1 + i]
      BY <2>3, <3>1
    <3>3. x[1 + i] = all[i]
      BY <2>1, <3>1
    <3> QED
      BY <3>2, <3>3
  <2>5. d[Len(all) + 2] = Quote
    <3>1. /\ Len(all) + 2 \in 1 .. (1 + Len(all)) + 1 /\ ~ (Len(all) + 2 <= 1 + Len(all))
          /\ (Len(all) + 2) - (1 + Len(all)) = 1
      BY <1>4
    <3> QED
      BY <1>3, <2>3, <3>1
  <2>6. (1 + Len(all)) + 1 = Len(all) + 2
    BY <1>4
  <2> QED
    BY <2>3, <2>4, <2>5, <2>6
<1>6. /\ t \in Seq(Octet) /\ Len(t) = Len(pre) + Len(d) + Len(post)
      /\ \A i \in 1 .. Len(d) : t[Len(pre) + i] = d[i]
  <2> DEFINE x == pre \o d
  <2>1. /\ x \in Seq(Octet) /\ Len(x) = Len(pre) + Len(d)
        /\ \A i \in 1 .. Len(pre) + Len(d) :
              x[i] = IF i <= Len(pre) THEN pre[i] ELSE d[i - Len(pre)]
    BY <1>5, ConcatProperties
  <2>2. t = x \o post
    BY DEF t
  <2> HIDE DEF x
  <2>3. /\ t \in Seq(Octet) /\ Len(t) = Len(x) + Len(post)
        /\ \A i \in 1 .. Len(x) + Len(post) :
              t[i] = IF i <= Len(x) THEN x[i] ELSE post[i - Len(x)]
    BY <2>1, <2>2, ConcatProperties
  <2>4. Len(d) \in Nat
    BY <1>4, <1>5
  <2>5. ASSUME NEW i \in 1 .. Len(d)
        PROVE  t[Len(pre) + i] = d[i]
    <3>1. /\ Len(pre) + i \in 1 .. Len(pre) + Len(d) /\ ~ (Len(pre) + i <= Len(pre))
          /\ (Len(pre) + i) - Len(pre) = i /\ Len(pre) + i <= Len(x)
          /\ Len(pre) + i \in 1 .. Len(x) + Len(post)
      BY <1>4, <2>1, <2>4
    <3>2. t[Len(pre) + i] = x[Len(pre) + i]
      BY <2>3, <3>1
    <3>3. x[Len(pre) + i] = d[i]
      BY <2>1, <3>1
    <3> QED
      BY <3>2, <3>3
  <2> QED
    BY <2>1, <2>3, <2>5
<1>7. Holds(t, b + 1, all)
  <2>1. b + 1 >= 1 /\ b + 1 + Len(all) <= Len(t) + 1
    BY <1>4, <1>5, <1>6
  <2>2. ASSUME NEW i \in 1 .. Len(all)
        PROVE  t[b + 1 + (i - 1)] = all[i]
    <3>1. 1 + i \in 1 .. Len(d) /\ b + 1 + (i - 1) = Len(pre) + (1 + i)
      BY <1>4, <1>5
    <3>2. t[Len(pre) + (1 + i)] = d[1 + i]
      BY <1>6, <3>1
    <3> QED
      BY <1>5, <3>1, <3>2
  <2> QED
    BY <2>1, <2>2 DEF Holds
<1>8. Start(b, u, n) = Len(pre) + (Len(all) + 2)
  BY <1>4 DEF Start, all
<1>9. At(t, Start(b, u, n)) = Quote
  <2>1. Len(all) + 2 \in 1 .. Len(d)
    BY <1>4, <1>5
  <2>2. t[Len(pre) + (Len(all) + 2)] = Quote
    BY <1>5, <1>6, <2>1
  <2>3. Len(pre) + (Len(all) + 2) \in DOMAIN t
    <3>1. DOMAIN t = 1 .. Len(t)
      BY <1>6, LenProperties
    <3> QED
      BY <1>4, <1>5, <1>6, <3>1
  <2> QED
    BY <1>8, <2>2, <2>3 DEF At
<1>10. b \in Nat
  BY <1>4
<1>11. ScanString(t, b + 1) = Char(u, Start(b, u, n) + 1)
  BY <1>6, <1>7, <1>9, <1>10, DumpedScans DEF n, all
<1>12. b + 1 = Len(pre) + 2 /\ Start(b, u, n) + 1 = Len(pre) + Len(d) + 1
  BY <1>4, <1>5, <1>8
<1> QED
  BY <1>11, <1>12 DEF t, d
=============================================================================
