--------------------------- MODULE Commands_proof ---------------------------
(***************************************************************************)
(* Proofs about the items of a command, for every text: what the loop of   *)
(* strToItem makes of it, going from left to right, is what Reference says *)
(* of each of its positions.                                               *)
(***************************************************************************)
EXTENDS Reference, Json_proof

-----------------------------------------------------------------------------
(* Where the escapes are.                                                  *)

\* An even number of backslashes stands before i.
Slashes(t, i, k) ==
    /\ At(t, i - k - 1) # Backslash
    /\ \A l \in i - k .. i - 1 : t[l] = Backslash
Even(t, i) == \E k \in 0 .. i - 1 : k % 2 = 0 /\ Slashes(t, i, k)

(* An escape starts at a backslash with an even number of others before.   *)
LEMMA StartsIs ==
    \A t, i : Starts(t, i) <=> At(t, i) = Backslash /\ Even(t, i)
  BY DEF Starts, Even, Slashes

(* What is found at a position of the text is the byte there.              *)
LEMMA FoundAt ==
    ASSUME NEW t \in Seq(Octet), NEW i \in Int, At(t, i) # EOF
    PROVE  i \in 1 .. Len(t) /\ i \in DOMAIN t /\ At(t, i) = t[i] /\ t[i] \in Octet
<1>1. DOMAIN t = 1 .. Len(t)
  BY LenProperties
<1>2. i \in 1 .. Len(t)
  BY <1>1 DEF At
<1> QED
  BY <1>1, <1>2, ElementOfSeq DEF At

(* Behind the start of an escape the number of backslashes is odd.         *)
LEMMA OddBehind ==
    ASSUME NEW t \in Seq(Octet), NEW i \in Int, Starts(t, i)
    PROVE  ~ Even(t, i + 1)
<1>1. At(t, i) = Backslash
  BY StartsIs
<1>2. PICK k \in 0 .. i - 1 : k % 2 = 0 /\ Slashes(t, i, k)
  BY StartsIs DEF Even
<1>3. i \in 1 .. Len(t)
  BY <1>1, FoundAt DEF EOF, Backslash
<1>4. SUFFICES ASSUME NEW j \in 0 .. i, j % 2 = 0, Slashes(t, i + 1, j)
               PROVE  FALSE
  BY DEF Even
<1>5. j # 0
  <2>1. (i + 1) - 0 - 1 = i
    BY <1>3
  <2> QED
    BY <1>1, <1>4, <2>1 DEF Slashes
<1>6. j - 1 # k
  BY <1>2, <1>4
<1>7. ASSUME NEW l \in 1 .. Len(t), t[l] = Backslash
      PROVE  At(t, l) = Backslash
  BY <1>7, LenProperties DEF At
<1>8. CASE j - 1 < k
  <2>1. (i + 1) - j - 1 \in i - k .. i - 1
    BY <1>2, <1>3, <1>4, <1>5, <1>8
  <2>2. (i + 1) - j - 1 \in 1 .. Len(t)
    BY <1>2, <1>3, <2>1
  <2>3. t[(i + 1) - j - 1] = Backslash
    BY <1>2, <2>1 DEF Slashes
  <2>4. At(t, (i + 1) - j - 1) = Backslash
    BY <1>7, <2>2, <2>3
  <2> QED
    BY <1>4, <2>4 DEF Slashes
<1>9. CASE k < j - 1
  <2>1. i - k - 1 \in (i + 1) - j .. (i + 1) - 1
    BY <1>2, <1>3, <1>4, <1>5, <1>9
  <2>2. i - k - 1 \in 1 .. Len(t)
    BY <1>3, <1>4, <2>1
  <2>3. t[i - k - 1] = Backslash
    BY <1>4, <2>1 DEF Slashes
  <2>4. At(t, i - k - 1) = Backslash
    BY <1>7, <2>2, <2>3
  <2> QED
    BY <1>2, <2>4 DEF Slashes
<1> QED
  BY <1>2, <1>4, <1>6, <1>8, <1>9

(* Behind another byte it is even, as there is none.                       *)
LEMMA EvenBehind ==
    ASSUME NEW t, NEW i \in Nat, At(t, i) # Backslash
    PROVE  Even(t, i + 1)
<1>1. 0 \in 0 .. (i + 1) - 1 /\ 0 % 2 = 0 /\ (i + 1) - 0 - 1 = i
  OBVIOUS
<1>2. \A l \in (i + 1) - 0 .. (i + 1) - 1 : t[l] = Backslash
  OBVIOUS
<1>3. Slashes(t, i + 1, 0)
  BY <1>1, <1>2 DEF Slashes
<1> QED
  BY <1>1, <1>3 DEF Even

(* Behind an escaped backslash it is even again.                           *)
LEMMA EvenAgain ==
    ASSUME NEW t \in Seq(Octet), NEW i \in Int, Starts(t, i), At(t, i + 1) = Backslash
    PROVE  Even(t, i + 2)
<1>1. At(t, i) = Backslash
  BY StartsIs
<1>2. PICK k \in 0 .. i - 1 : k % 2 = 0 /\ Slashes(t, i, k)
  BY StartsIs DEF Even
<1>3. t[i] = Backslash /\ t[i + 1] = Backslash /\ i \in 1 .. Len(t)
  BY <1>1, FoundAt DEF EOF, Backslash
<1>4. k + 2 \in 0 .. (i + 2) - 1 /\ (k + 2) % 2 = 0
  BY <1>2, <1>3
<1>5. (i + 2) - (k + 2) - 1 = i - k - 1
  BY <1>2
<1>6. ASSUME NEW l \in (i + 2) - (k + 2) .. (i + 2) - 1
      PROVE  t[l] = Backslash
  <2>1. l \in i - k .. i - 1 \/ l = i \/ l = i + 1
    BY <1>2, <1>3
  <2> QED
    BY <1>2, <1>3, <2>1 DEF Slashes
<1>7. Slashes(t, i + 2, k + 2)
  BY <1>2, <1>5, <1>6 DEF Slashes
<1> QED
  BY <1>4, <1>7 DEF Even

-----------------------------------------------------------------------------
(* The loop of strToItem.                                                  *)

\* What it reads at j: the end, an escape that lacks its digits, ...
Ends(t, j) == At(t, j) = EOF
Malformed(t, j) ==
    At(t, j) = Backslash /\ At(t, j + 1) = LowerX /\ ~ HasDigits(t, j)

\* ... or a character, of this size.
Size(t, j) ==
    IF At(t, j) # Backslash THEN 1 ELSE IF At(t, j + 1) = LowerX THEN 4 ELSE 2
Read(t, j) ==
    IF At(t, j) # Backslash THEN ItemChar(At(t, j), At(t, j) = Equal)
    ELSE IF At(t, j + 1) = LowerX
    THEN ItemChar(16 * hexCharToBin(t[j + 2]) + hexCharToBin(t[j + 3]), FALSE)
    ELSE ItemChar(Control(At(t, j + 1)), FALSE)

Step(f, t, j) ==
    IF Ends(t, j) THEN <<>>
    ELSE IF Malformed(t, j) THEN <<BadEscape>>
    ELSE <<Read(t, j)>> \o f[j + Size(t, j)]
Unescapes(f, t) == \A j \in Nat : f[j] = Step(f, t, j)

Chars == [c : Octet, isEqual : BOOLEAN]

(* The end is behind the last byte.                                        *)
LEMMA EndsIs ==
    ASSUME NEW t \in Seq(Octet), NEW j \in Nat
    PROVE  Ends(t, j) <=> j \notin 1 .. Len(t)
<1>1. \A c \in Octet : c # EOF
  BY DEF Octet, EOF
<1>2. CASE j \in 1 .. Len(t)
  BY <1>1, <1>2, AtIs DEF Ends
<1>3. CASE j \notin 1 .. Len(t)
  <2>1. At(t, j) = EOF
    BY <1>3, AtIs
  <2> QED
    BY <1>3, <2>1 DEF Ends
<1> QED
  BY <1>2, <1>3

(* What is read is a byte.                                                 *)
LEMMA ReadIs ==
    ASSUME NEW t \in Seq(Octet), NEW j \in Nat, ~ Ends(t, j), ~ Malformed(t, j)
    PROVE  Read(t, j) \in Chars /\ Size(t, j) \in {1, 2, 4}
<1>1. Size(t, j) \in {1, 2, 4}
  BY DEF Size
<1>2. ASSUME NEW c \in Octet, NEW b \in BOOLEAN
      PROVE  ItemChar(c, b) \in Chars
  BY DEF Chars, ItemChar
<1>3. CASE At(t, j) # Backslash
  <2>1. At(t, j) \in Octet
    BY FoundAt DEF Ends
  <2> QED
    BY <1>1, <1>2, <1>3, <2>1 DEF Read
<1>4. CASE At(t, j) = Backslash /\ At(t, j + 1) = LowerX
  <2>1. At(t, j + 2) \in Hex /\ At(t, j + 3) \in Hex
    BY <1>4 DEF Malformed, HasDigits
  <2>2. t[j + 2] \in Hex /\ t[j + 3] \in Hex
    BY <2>1, FoundAt, EndIsNoHex
  <2> DEFINE a == hexCharToBin(t[j + 2])
             b == hexCharToBin(t[j + 3])
  <2>3. a \in Nat /\ a < 16 /\ b \in Nat /\ b < 16
    BY <2>2, HexIs
  <2>4. Read(t, j) = ItemChar(16 * a + b, FALSE)
    BY <1>4 DEF Read
  <2> HIDE DEF a, b
  <2>5. 16 * a + b \in Octet
    BY <2>3 DEF Octet
  <2> QED
    BY <1>1, <1>2, <2>4, <2>5
<1>5. CASE At(t, j) = Backslash /\ At(t, j + 1) # LowerX
  <2>1. At(t, j + 1) = EOF \/ At(t, j + 1) \in Octet
    BY FoundAt
  <2>2. Control(At(t, j + 1)) \in Octet
    BY <2>1 DEF Control, Octet, EOF, LowerV, LowerN, LowerT, LowerR
  <2> QED
    BY <1>1, <1>2, <1>5, <2>2 DEF Read
<1> QED
  BY <1>3, <1>4, <1>5

(* A character is not the mark of a bad escape.                            *)
LEMMA NotBad == \A x \in Chars : x # BadEscape
  BY DEF Chars, BadEscape, ItemChar, Octet

(* One turn of the loop, as Unescape spells it.                            *)
LEMMA StepIs ==
    \A t, f, i : Step(f, t, i) = Unescape(f, t, i, At(t, i), At(t, i + 1))
<1> SUFFICES ASSUME NEW t, NEW f, NEW i
             PROVE  Step(f, t, i) = Unescape(f, t, i, At(t, i), At(t, i + 1))
  OBVIOUS
<1>1. EOF # Backslash
  BY DEF EOF, Backslash
<1>2. CASE At(t, i) = EOF
  BY <1>1, <1>2 DEF Step, Ends, Unescape
<1>3. CASE At(t, i) = Backslash /\ At(t, i + 1) = LowerX
  BY <1>1, <1>3 DEF Step, Ends, Malformed, HasDigits, Read, Size, Unescape
<1>4. CASE At(t, i) = Backslash /\ At(t, i + 1) # LowerX
  BY <1>1, <1>4 DEF Step, Ends, Malformed, Read, Size, Unescape
<1>5. CASE At(t, i) \notin {EOF, Backslash}
  BY <1>1, <1>5 DEF Step, Ends, Malformed, Read, Size, Unescape
<1> QED
  BY <1>2, <1>3, <1>4, <1>5

(* The recursion of Unescaped goes forward, so it has a solution.          *)
LEMMA UnescapedIs ==
    ASSUME NEW t \in Seq(Octet)
    PROVE  \E f : Unescapes(f, t) /\ Unescaped(t) = f[1]
<1> DEFINE Is(g) == g = [j \in Nat |-> Step(g, t, j)]
           IsFrom(g, m) == g = [j \in Nat |-> IF j + m > Len(t) THEN Step(g, t, j) ELSE <<>>]
           S == {m \in Nat : \E g : IsFrom(g, m)}
<1>1. Len(t) \in Nat
  OBVIOUS
<1>2. ASSUME NEW g, NEW h, NEW j \in Nat, \A k \in Nat : j < k => g[k] = h[k]
      PROVE  Step(g, t, j) = Step(h, t, j)
  <2>1. CASE Ends(t, j) \/ Malformed(t, j)
    BY <2>1 DEF Step
  <2>2. CASE ~ Ends(t, j) /\ ~ Malformed(t, j)
    <3>1. j + Size(t, j) \in Nat /\ j < j + Size(t, j)
      BY <2>2, ReadIs
    <3>2. g[j + Size(t, j)] = h[j + Size(t, j)]
      BY <1>2, <3>1
    <3> QED
      BY <3>2 DEF Step
  <2> QED
    BY <2>1, <2>2
<1>3. 0 \in S
  <2> DEFINE g == [j \in Nat |-> <<>>]
  <2>1. ASSUME NEW j \in Nat, j + 0 > Len(t)
        PROVE  Step(g, t, j) = <<>>
    <3>1. Ends(t, j)
      BY <1>1, <2>1, AtIs DEF Ends
    <3> QED
      BY <3>1 DEF Step
  <2>2. IsFrom(g, 0)
    BY <2>1
  <2> HIDE DEF IsFrom
  <2> QED
    BY <2>2
<1>4. ASSUME NEW m \in Nat, m \in S
      PROVE  m + 1 \in S
  <2>1. PICK g : IsFrom(g, m)
    BY <1>4
  <2>2. \A j \in Nat : g[j] = IF j + m > Len(t) THEN Step(g, t, j) ELSE <<>>
    BY <2>1
  <2> DEFINE h == [j \in Nat |-> IF j + m = Len(t) THEN Step(g, t, j) ELSE g[j]]
  <2>3. ASSUME NEW j \in Nat, j + m >= Len(t)
        PROVE  Step(g, t, j) = Step(h, t, j)
    <3>1. ASSUME NEW k \in Nat, j < k
          PROVE  g[k] = h[k]
      BY <1>1, <2>3, <3>1
    <3> HIDE DEF h
    <3> QED
      BY <1>2, <3>1
  <2>4. ASSUME NEW j \in Nat
        PROVE  h[j] = IF j + (m + 1) > Len(t) THEN Step(h, t, j) ELSE <<>>
    <3>1. CASE j + m = Len(t)
      <4>1. h[j] = Step(g, t, j) /\ j + (m + 1) > Len(t) /\ j + m >= Len(t)
        BY <1>1, <3>1
      <4> HIDE DEF h
      <4> QED
        BY <2>3, <4>1
    <3>2. CASE j + m > Len(t)
      <4>1. h[j] = g[j] /\ j + (m + 1) > Len(t) /\ j + m >= Len(t)
        BY <1>1, <3>2
      <4>2. g[j] = Step(g, t, j)
        BY <2>2, <3>2
      <4> HIDE DEF h
      <4> QED
        BY <2>3, <4>1, <4>2
    <3>3. CASE j + m < Len(t)
      <4>1. h[j] = g[j] /\ ~ (j + (m + 1) > Len(t)) /\ ~ (j + m > Len(t))
        BY <1>1, <3>3
      <4> HIDE DEF h
      <4> QED
        BY <2>2, <4>1
    <3> QED
      BY <1>1, <3>1, <3>2, <3>3
  <2>5. IsFrom(h, m + 1)
    <3>1. h = [j \in Nat |-> h[j]]
      OBVIOUS
    <3> HIDE DEF h
    <3> QED
      BY <2>4, <3>1
  <2> HIDE DEF IsFrom, h
  <2> QED
    BY <2>5
<1>5. Len(t) + 1 \in S
  <2> HIDE DEF S
  <2> QED
    BY <1>1, <1>3, <1>4, InductionOnSet
<1>6. PICK g : IsFrom(g, Len(t) + 1)
  BY <1>5
<1>7. Is(g)
  <2>1. \A j \in Nat : j + (Len(t) + 1) > Len(t)
    BY <1>1
  <2> QED
    BY <1>6, <2>1
<1> DEFINE f == CHOOSE f : Is(f)
<1>8. Is(f)
  <2> HIDE DEF Is
  <2> QED
    BY <1>7
<1>9. Unescaped(t) = f[1]
  <2> DEFINE Spelt(h) == [i \in Nat |-> Unescape(h, t, i, At(t, i), At(t, i + 1))]
  <2>1. Unescaped(t) = (CHOOSE h : h = Spelt(h))[1]
    BY DEF Unescaped
  <2>2. ASSUME NEW h
        PROVE  h = Spelt(h) <=> Is(h)
    BY StepIs
  <2> HIDE DEF Spelt, Is
  <2>3. (CHOOSE h : h = Spelt(h)) = (CHOOSE h : Is(h))
    BY <2>2
  <2> QED
    BY <2>1, <2>3
<1> HIDE DEF f
<1>10. Unescapes(f, t)
  BY <1>8 DEF Unescapes
<1> QED
  BY <1>9, <1>10

-----------------------------------------------------------------------------
(* The places from which the loop reads: those where no escape goes on.    *)

Fresh(t, i) ==
    /\ Even(t, i)
    /\ ~ (Starts(t, i - 2) /\ At(t, i - 1) = LowerX)
    /\ ~ (Starts(t, i - 3) /\ At(t, i - 2) = LowerX)

(* The first one is the beginning of the text.                             *)
LEMMA FirstFresh == \A t \in Seq(Octet) : Fresh(t, 1)
<1> SUFFICES ASSUME NEW t \in Seq(Octet) PROVE Fresh(t, 1)
  OBVIOUS
<1>1. At(t, 0) # Backslash /\ At(t, -1) # Backslash /\ At(t, -2) # Backslash
  BY FoundAt DEF Backslash, EOF
<1>2. Even(t, 0 + 1)
  BY <1>1, EvenBehind
<1>3. ~ Starts(t, 1 - 2) /\ ~ Starts(t, 1 - 3)
  BY <1>1 DEF Starts
<1> QED
  BY <1>2, <1>3 DEF Fresh

(* At such a place an escape starts at every backslash, and none has just  *)
(* started.                                                                *)
LEMMA FreshStarts ==
    ASSUME NEW t \in Seq(Octet), NEW i \in Nat, Fresh(t, i)
    PROVE  /\ Starts(t, i) <=> At(t, i) = Backslash
           /\ ~ Starts(t, i - 1)
<1>1. Even(t, i)
  BY DEF Fresh
<1>2. ASSUME Starts(t, i - 1) PROVE FALSE
  <2>1. ~ Even(t, (i - 1) + 1)
    BY <1>2, OddBehind
  <2> QED
    BY <1>1, <2>1
<1> QED
  BY <1>1, <1>2, StartsIs

(* No digit is a backslash.                                                *)
LEMMA HexNoSlash == Backslash \notin Hex /\ LowerX # Backslash /\ EOF # Backslash
  BY DEF Backslash, Hex, Digit, LowerX, EOF

(* The loop goes from one such place to the next, and passes no start of   *)
(* an escape on the way.                                                   *)
LEMMA FreshNext ==
    ASSUME NEW t \in Seq(Octet), NEW i \in Nat, Fresh(t, i), ~ Ends(t, i), ~ Malformed(t, i)
    PROVE  /\ Fresh(t, i + Size(t, i))
           /\ \A j \in i + 1 .. i + Size(t, i) - 1 : ~ Starts(t, j)
<1>1. Starts(t, i) <=> At(t, i) = Backslash
  BY FreshStarts
<1>2. ~ Starts(t, i - 1)
  BY FreshStarts
<1>3. ~ (Starts(t, i - 2) /\ At(t, i - 1) = LowerX)
  BY DEF Fresh
<1>4. CASE At(t, i) # Backslash
  <2>1. Size(t, i) = 1
    BY <1>4 DEF Size
  <2>2. Even(t, i + 1)
    BY <1>4, EvenBehind
  <2>3. (i + 1) - 2 = i - 1 /\ (i + 1) - 3 = i - 2 /\ (i + 1) - 2 = i - 1
    OBVIOUS
  <2>4. Fresh(t, i + 1)
    BY <1>2, <1>3, <2>2, <2>3 DEF Fresh
  <2>5. i + 1 .. i + 1 - 1 = {}
    OBVIOUS
  <2> QED
    BY <2>1, <2>4, <2>5
<1>5. CASE At(t, i) = Backslash /\ At(t, i + 1) # LowerX
  <2>1. Size(t, i) = 2
    BY <1>5 DEF Size
  <2>2. ~ Starts(t, i + 1)
    BY <1>1, <1>5, OddBehind, StartsIs
  <2>3. Even(t, i + 2)
    <3>1. CASE At(t, i + 1) = Backslash
      BY <1>1, <1>5, <3>1, EvenAgain
    <3>2. CASE At(t, i + 1) # Backslash
      <4>1. Even(t, (i + 1) + 1)
        BY <3>2, EvenBehind
      <4>2. (i + 1) + 1 = i + 2
        OBVIOUS
      <4> QED
        BY <4>1, <4>2
    <3> QED
      BY <3>1, <3>2
  <2>4. (i + 2) - 2 = i /\ (i + 2) - 1 = i + 1 /\ (i + 2) - 3 = i - 1
    OBVIOUS
  <2>5. Fresh(t, i + 2)
    BY <1>2, <1>5, <2>3, <2>4 DEF Fresh
  <2>6. \A j \in i + 1 .. i + 2 - 1 : j = i + 1
    OBVIOUS
  <2> QED
    BY <2>1, <2>2, <2>5, <2>6
<1>6. CASE At(t, i) = Backslash /\ At(t, i + 1) = LowerX
  <2>1. Size(t, i) = 4
    BY <1>6 DEF Size
  <2>2. At(t, i + 2) \in Hex /\ At(t, i + 3) \in Hex
    BY <1>6 DEF Malformed, HasDigits
  <2>3. ~ Starts(t, i + 1) /\ ~ Starts(t, i + 2) /\ ~ Starts(t, i + 3)
    BY <1>6, <2>2, HexNoSlash, StartsIs
  <2>4. Even(t, (i + 3) + 1)
    BY <2>2, HexNoSlash, EvenBehind
  <2>5. (i + 3) + 1 = i + 4 /\ (i + 4) - 2 = i + 2 /\ (i + 4) - 3 = i + 1
    OBVIOUS
  <2>6. Fresh(t, i + 4)
    BY <2>3, <2>4, <2>5 DEF Fresh
  <2>7. \A j \in i + 1 .. i + 4 - 1 : j = i + 1 \/ j = i + 2 \/ j = i + 3
    OBVIOUS
  <2> QED
    BY <2>1, <2>3, <2>6, <2>7
<1> QED
  BY <1>4, <1>5, <1>6

(* What the positions contribute that the loop passes at once: the byte    *)
(* that it reads there.                                                    *)
LEMMA PlainContributes ==
    ASSUME NEW t \in Seq(Octet), NEW i \in Nat, Fresh(t, i), ~ Ends(t, i),
           At(t, i) # Backslash
    PROVE  Contributes(t, i) = <<Read(t, i).c>>
<1>1. At(t, i) = t[i] /\ Read(t, i).c = At(t, i)
  BY FoundAt DEF Ends, Read, ItemChar
<1>2. ~ Starts(t, i) /\ ~ Starts(t, i - 1)
  BY FreshStarts
<1>3. ~ \E k \in 2 .. 3 : Starts(t, i - k) /\ At(t, i - k + 1) = LowerX
  <2>1. i - 2 + 1 = i - 1 /\ i - 3 + 1 = i - 2
    OBVIOUS
  <2>2. \A k \in 2 .. 3 : k = 2 \/ k = 3
    OBVIOUS
  <2> QED
    BY <2>1, <2>2 DEF Fresh
<1> QED
  BY <1>1, <1>2, <1>3 DEF Contributes

LEMMA LastContributes ==
    ASSUME NEW t \in Seq(Octet), NEW i \in Nat, Fresh(t, i),
           At(t, i) = Backslash, i = Len(t)
    PROVE  Contributes(t, i) = <<Read(t, i).c>>
<1>1. Starts(t, i) /\ ~ Starts(t, i - 1)
  BY FreshStarts
<1>2. ~ \E k \in 2 .. 3 : Starts(t, i - k) /\ At(t, i - k + 1) = LowerX
  <2>1. i - 2 + 1 = i - 1 /\ i - 3 + 1 = i - 2
    OBVIOUS
  <2>2. \A k \in 2 .. 3 : k = 2 \/ k = 3
    OBVIOUS
  <2> QED
    BY <2>1, <2>2 DEF Fresh
<1>3. Contributes(t, i) = <<0>>
  BY <1>1, <1>2 DEF Contributes
<1>4. At(t, i + 1) = EOF
  BY FoundAt
<1>5. Read(t, i).c = 0
  BY <1>4 DEF Read, ItemChar, Control, EOF, LowerX, LowerV, LowerN, LowerT, LowerR
<1> QED
  BY <1>3, <1>5

LEMMA EscapeContributes ==
    ASSUME NEW t \in Seq(Octet), NEW i \in Nat, Fresh(t, i), ~ Malformed(t, i),
           At(t, i) = Backslash, i < Len(t)
    PROVE  /\ Contributes(t, i) = <<>>
           /\ Contributes(t, i + 1) = <<Read(t, i).c>>
           /\ At(t, i + 1) = LowerX =>
                  /\ i + 3 <= Len(t)
                  /\ Contributes(t, i + 2) = <<>> /\ Contributes(t, i + 3) = <<>>
<1>1. Starts(t, i) /\ ~ Starts(t, i - 1)
  BY FreshStarts
<1>2. ~ \E k \in 2 .. 3 : Starts(t, i - k) /\ At(t, i - k + 1) = LowerX
  <2>1. i - 2 + 1 = i - 1 /\ i - 3 + 1 = i - 2
    OBVIOUS
  <2>2. \A k \in 2 .. 3 : k = 2 \/ k = 3
    OBVIOUS
  <2> QED
    BY <2>1, <2>2 DEF Fresh
<1>3. Contributes(t, i) = <<>>
  BY <1>1, <1>2 DEF Contributes
<1>4. ~ Starts(t, i + 1)
  BY <1>1, OddBehind, StartsIs
<1>5. ~ \E k \in 2 .. 3 : Starts(t, (i + 1) - k) /\ At(t, (i + 1) - k + 1) = LowerX
  <2>1. (i + 1) - 2 = i - 1 /\ (i + 1) - 3 = i - 2 /\ (i + 1) - 3 + 1 = i - 1
    OBVIOUS
  <2>2. \A k \in 2 .. 3 : k = 2 \/ k = 3
    OBVIOUS
  <2> QED
    BY <1>1, <2>1, <2>2 DEF Fresh
<1>6. Starts(t, (i + 1) - 1)
  <2>1. (i + 1) - 1 = i
    OBVIOUS
  <2> QED
    BY <1>1, <2>1
<1>7. i + 1 \in 1 .. Len(t) /\ t[i + 1] = At(t, i + 1) /\ t[i + 1] \in Octet
  <2>1. i + 1 \in 1 .. Len(t)
    OBVIOUS
  <2> QED
    BY <2>1, AtIs
<1>8. Contributes(t, i + 1) = <<Read(t, i).c>>
  <2> DEFINE e == t[i + 1]
  <2>1. (i + 1) + 1 = i + 2 /\ (i + 1) + 2 = i + 3
    OBVIOUS
  <2>2. Contributes(t, i + 1) =
           <<CASE e = LowerX -> 16 * hexCharToBin(t[i + 2]) + hexCharToBin(t[i + 3])
               [] e = LowerN -> 10 [] e = LowerR -> 13
               [] e = LowerT -> 9  [] e = LowerV -> 11
               [] OTHER -> e>>
    BY <1>4, <1>5, <1>6, <2>1 DEF Contributes
  <2>3. CASE e = LowerX
    <3>1. Read(t, i).c = 16 * hexCharToBin(t[i + 2]) + hexCharToBin(t[i + 3])
      BY <1>7, <2>3 DEF Read, ItemChar
    <3> QED
      BY <2>2, <2>3, <3>1 DEF LowerX, LowerN, LowerR, LowerT, LowerV
  <2>4. CASE e # LowerX
    <3>1. Read(t, i).c = Control(e)
      BY <1>7, <2>4 DEF Read, ItemChar
    <3>2. e \in Octet
      BY <1>7
    <3> HIDE DEF e
    <3>3. CASE e \in {LowerN, LowerR, LowerT, LowerV}
      BY <2>2, <2>4, <3>1, <3>3 DEF Control, LowerX, LowerN, LowerR, LowerT, LowerV, EOF
    <3>4. CASE e \notin {LowerN, LowerR, LowerT, LowerV}
      <4>1. e # EOF
        BY <3>2 DEF Octet, EOF
      <4>2. Control(e) = e
        BY <3>4, <4>1 DEF Control
      <4> QED
        BY <2>2, <2>4, <3>1, <3>4, <4>2
    <3> QED
      BY <3>3, <3>4
  <2> QED
    BY <2>3, <2>4
<1>9. ASSUME At(t, i + 1) = LowerX
      PROVE  /\ i + 3 <= Len(t)
             /\ Contributes(t, i + 2) = <<>> /\ Contributes(t, i + 3) = <<>>
  <2>1. At(t, i + 2) \in Hex /\ At(t, i + 3) \in Hex
    BY <1>9 DEF Malformed, HasDigits
  <2>2. ~ Starts(t, i + 1) /\ ~ Starts(t, i + 2) /\ ~ Starts(t, i + 3)
    BY <1>9, <2>1, HexNoSlash, StartsIs
  <2>3. /\ (i + 2) - 1 = i + 1 /\ (i + 3) - 1 = i + 2
        /\ (i + 2) - 2 = i /\ (i + 2) - 2 + 1 = i + 1
        /\ (i + 3) - 3 = i /\ (i + 3) - 3 + 1 = i + 1
        /\ 2 \in 2 .. 3 /\ 3 \in 2 .. 3
    OBVIOUS
  <2>4. \E k \in 2 .. 3 : Starts(t, (i + 2) - k) /\ At(t, (i + 2) - k + 1) = LowerX
    BY <1>1, <1>9, <2>3
  <2>5. \E k \in 2 .. 3 : Starts(t, (i + 3) - k) /\ At(t, (i + 3) - k + 1) = LowerX
    BY <1>1, <1>9, <2>3
  <2>6. Contributes(t, i + 2) = <<>>
    BY <2>2, <2>3, <2>4 DEF Contributes
  <2>7. Contributes(t, i + 3) = <<>>
    BY <2>2, <2>3, <2>5 DEF Contributes
  <2>8. i + 3 \in 1 .. Len(t)
    BY <2>1, FoundAt, EndIsNoHex
  <2> QED
    BY <2>6, <2>7, <2>8
<1> QED
  BY <1>3, <1>8, <1>9

-----------------------------------------------------------------------------
(* What is read and what the positions contribute, one behind the other.   *)

Parts(t) == [i \in DOMAIN t |-> Contributes(t, i)]
Spans(t) == {Contributes(t, i)[1] : i \in DOMAIN t} \union Octet

(* A position contributes one byte at most.                                *)
LEMMA ContributesOne ==
    ASSUME NEW t \in Seq(Octet), NEW i \in 1 .. Len(t)
    PROVE  Contributes(t, i) = <<>> \/ Contributes(t, i) = <<Contributes(t, i)[1]>>
<1> DEFINE e == CASE t[i] = LowerX -> 16 * hexCharToBin(t[i + 1]) + hexCharToBin(t[i + 2])
                  [] t[i] = LowerN -> 10 [] t[i] = LowerR -> 13
                  [] t[i] = LowerT -> 9  [] t[i] = LowerV -> 11
                  [] OTHER -> t[i]
<1>1. Contributes(t, i) =
        CASE Starts(t, i) -> IF i = Len(t) THEN <<0>> ELSE <<>>
          [] Starts(t, i - 1) -> <<e>>
          [] \E k \in 2 .. 3 : Starts(t, i - k) /\ At(t, i - k + 1) = LowerX -> <<>>
          [] OTHER -> <<t[i]>>
  BY Zenon DEF Contributes
<1> HIDE DEF e
<1>2. Contributes(t, i) \in {<<>>, <<0>>, <<e>>, <<t[i]>>}
  BY <1>1
<1> QED
  BY <1>2

LEMMA FlatFront ==
    ASSUME NEW t \in Seq(Octet), NEW i \in Nat, i < Len(t)
    PROVE  /\ Flat(Parts(t), i) \in Seq(Spans(t))
           /\ Flat(Parts(t), i + 1) = Flat(Parts(t), i) \o Contributes(t, i + 1)
<1> DEFINE g == [k \in 1 .. i + 1 |-> Contributes(t, k)]
           X == Spans(t)
<1>1. DOMAIN t = 1 .. Len(t)
  BY LenProperties
<1>2. ASSUME NEW k \in 1 .. i + 1
      PROVE  g[k] \in Seq(X)
  <2>1. k \in 1 .. Len(t)
    OBVIOUS
  <2>2. Contributes(t, k)[1] \in X
    BY <1>1, <2>1 DEF Spans
  <2>3. <<Contributes(t, k)[1]>> \in Seq(X) /\ <<>> \in Seq(X)
    BY <2>2
  <2> QED
    BY <2>1, <2>3, ContributesOne
<1>3. g \in [1 .. i + 1 -> Seq(X)] /\ g[i + 1] = Contributes(t, i + 1)
  BY <1>2
<1>4. /\ [k \in 1 .. i |-> Parts(t)[k]] = [k \in 1 .. i |-> g[k]]
      /\ [k \in 1 .. i + 1 |-> Parts(t)[k]] = [k \in 1 .. i + 1 |-> g[k]]
  BY <1>1 DEF Parts
<1> HIDE DEF g, X
<1>5. GoesOn(X, g, i)
  BY <1>3, FlattenGoesOn
<1> QED
  BY <1>3, <1>4, <1>5 DEF GoesOn, Flat, X

(* All of the contributions make what the item means.                      *)
LEMMA FlatIsMeaning ==
    \A t \in Seq(Octet) :
        ItemMeans(t) = Flat(Parts(t), Len(t)) /\ Flat(Parts(t), Len(t)) \in Seq(Spans(t))
<1> SUFFICES ASSUME NEW t \in Seq(Octet)
             PROVE  /\ ItemMeans(t) = Flat(Parts(t), Len(t))
                    /\ Flat(Parts(t), Len(t)) \in Seq(Spans(t))
  OBVIOUS
<1>1. DOMAIN t = 1 .. Len(t) /\ Len(t) \in Nat
  BY LenProperties
<1>2. [i \in 1 .. Len(t) |-> Parts(t)[i]] = [i \in DOMAIN t |-> Contributes(t, i)]
  BY <1>1 DEF Parts
<1>3. ItemMeans(t) = Flat(Parts(t), Len(t))
  BY <1>2 DEF ItemMeans, Flat
<1>4. CASE Len(t) = 0
  <2>1. Flat(Parts(t), 0) = <<>>
    BY FlattenEmpty DEF Flat
  <2> QED
    BY <1>3, <1>4, <2>1, EmptySeq
<1>5. CASE Len(t) # 0
  <2> DEFINE n == Len(t) - 1
  <2>1. n \in Nat /\ n < Len(t) /\ n + 1 = Len(t)
    BY <1>1, <1>5
  <2>2. n + 1 \in 1 .. Len(t)
    BY <1>1, <2>1
  <2>3. Contributes(t, n + 1) \in Seq(Spans(t))
    <3>1. Contributes(t, n + 1)[1] \in Spans(t)
      BY <1>1, <2>2 DEF Spans
    <3>2. <<Contributes(t, n + 1)[1]>> \in Seq(Spans(t)) /\ <<>> \in Seq(Spans(t))
      BY <3>1
    <3> QED
      BY <2>2, <3>2, ContributesOne
  <2> HIDE DEF n
  <2> QED
    BY <1>3, <2>1, <2>3, FlatFront, ConcatProperties
<1> QED
  BY <1>3, <1>4, <1>5

\* The bytes of characters.
Bare(s) == [k \in DOMAIN s |-> s[k].c]

LEMMA FrontIs ==
    ASSUME NEW x \in Chars, NEW s \in Seq(Chars)
    PROVE  /\ <<x>> \o s \in Seq(Chars)
           /\ Bare(<<x>> \o s) = <<x.c>> \o Bare(s)
           /\ Bare(s) \in Seq(Octet) /\ <<x.c>> \in Seq(Octet)
<1>1. <<x>> \in Seq(Chars) /\ <<x.c>> \in Seq(Octet)
  BY DEF Chars
<1>2. Bare(s) \in Seq(Octet) /\ Len(Bare(s)) = Len(s)
  <2>1. DOMAIN s = 1 .. Len(s) /\ Len(s) \in Nat
    BY LenProperties
  <2>2. \A k \in 1 .. Len(s) : s[k].c \in Octet
    <3>1. \A k \in 1 .. Len(s) : s[k] \in Chars
      BY ElementOfSeq
    <3> QED
      BY <3>1 DEF Chars
  <2> QED
    BY <2>1, <2>2 DEF Bare
<1>3. <<x>> \o s \in Seq(Chars) /\ Len(<<x>> \o s) = 1 + Len(s)
  BY <1>1, ConcatProperties
<1>4. Len(<<x.c>> \o Bare(s)) = 1 + Len(s) /\ <<x.c>> \o Bare(s) \in Seq(Octet)
  BY <1>1, <1>2, ConcatProperties
<1>5. DOMAIN (<<x>> \o s) = 1 .. 1 + Len(s) /\ DOMAIN (<<x.c>> \o Bare(s)) = 1 .. 1 + Len(s)
      /\ DOMAIN s = 1 .. Len(s) /\ Len(s) \in Nat
  BY <1>3, <1>4, LenProperties
<1>6. ASSUME NEW k \in 1 .. 1 + Len(s)
      PROVE  (<<x>> \o s)[k].c = (<<x.c>> \o Bare(s))[k]
  <2>1. CASE k = 1
    BY <1>1, <1>2, <2>1, ConcatProperties
  <2>2. CASE k # 1
    <3>1. k - 1 \in 1 .. Len(s)
      BY <1>5, <2>2
    <3>2. (<<x>> \o s)[k] = s[k - 1] /\ (<<x.c>> \o Bare(s))[k] = Bare(s)[k - 1]
      BY <1>1, <1>2, <1>5, <2>2, ConcatProperties
    <3> QED
      BY <1>5, <3>1, <3>2 DEF Bare
  <2> QED
    BY <2>1, <2>2
<1>7. Bare(<<x>> \o s) = <<x.c>> \o Bare(s)
  <2>1. Bare(<<x>> \o s) = [k \in 1 .. 1 + Len(s) |-> (<<x>> \o s)[k].c]
    BY <1>5 DEF Bare
  <2>2. <<x.c>> \o Bare(s) = [k \in 1 .. 1 + Len(s) |-> (<<x.c>> \o Bare(s))[k]]
    BY <1>4, <1>5
  <2> QED
    BY <1>6, <2>1, <2>2
<1> QED
  BY <1>1, <1>2, <1>3, <1>7

(* What the loop makes of the rest of a text, from i: characters that add  *)
(* up with the contributions before i to what the item means; or one of    *)
(* them is the mark of a bad escape, and there is one.                     *)
BadFrom(t, i) ==
    \E j \in DOMAIN t : j >= i /\ Starts(t, j) /\ At(t, j + 1) = LowerX /\ ~ HasDigits(t, j)
Reads(f, t, i) ==
    /\ f[i] \in Seq(Chars)
    /\ ~ BadFrom(t, i)
    /\ i <= Len(t) + 1 => ItemMeans(t) = Flat(Parts(t), i - 1) \o Bare(f[i])
Fails(f, t, i) ==
    /\ f[i] \in Seq(Chars \union {BadEscape})
    /\ BadEscape \in ToSet(f[i])
    /\ BadFrom(t, i)

LEMMA AtTheEnd ==
    ASSUME NEW t \in Seq(Octet), NEW f, Unescapes(f, t), NEW i \in Nat, i > Len(t)
    PROVE  f[i] = <<>> /\ Reads(f, t, i)
<1>1. DOMAIN t = 1 .. Len(t) /\ Len(t) \in Nat
  BY LenProperties
<1>2. f[i] = <<>>
  <2>1. Ends(t, i)
    BY AtIs DEF Ends
  <2> QED
    BY <2>1 DEF Unescapes, Step
<1>3. Bare(<<>>) = <<>>
  BY DEF Bare
<1>4. ASSUME i <= Len(t) + 1
      PROVE  ItemMeans(t) = Flat(Parts(t), i - 1) \o Bare(f[i])
  <2>1. i - 1 = Len(t)
    BY <1>1, <1>4
  <2> QED
    BY <1>2, <1>3, <2>1, FlatIsMeaning, ConcatEmptySeq
<1>5. ~ BadFrom(t, i)
  BY <1>1 DEF BadFrom
<1> QED
  BY <1>2, <1>4, <1>5, EmptySeq DEF Reads

\* An escape that lacks its digits is met.
LEMMA AtBadEscape ==
    ASSUME NEW t \in Seq(Octet), NEW f, Unescapes(f, t), NEW i \in Nat, Fresh(t, i),
           ~ Ends(t, i), Malformed(t, i)
    PROVE  Fails(f, t, i)
<1>1. f[i] = <<BadEscape>>
  BY DEF Unescapes, Step
<1>2. BadFrom(t, i)
  <2>1. i \in DOMAIN t
    BY FoundAt DEF Ends
  <2>2. Starts(t, i)
    BY FreshStarts DEF Malformed
  <2> QED
    BY <2>1, <2>2 DEF Malformed, BadFrom
<1>3. f[i] \in Seq(Chars \union {BadEscape}) /\ BadEscape \in ToSet(f[i])
  BY <1>1 DEF ToSet
<1> QED
  BY <1>2, <1>3 DEF Fails

(* Escapes that lack their digits are found at the places where the loop   *)
(* reads, only.                                                            *)
LEMMA BadFromNext ==
    ASSUME NEW t \in Seq(Octet), NEW i \in Nat, Fresh(t, i), ~ Ends(t, i), ~ Malformed(t, i)
    PROVE  BadFrom(t, i) <=> BadFrom(t, i + Size(t, i))
<1> DEFINE n == i + Size(t, i)
<1>1. n \in Nat /\ n > i
  BY ReadIs
<1>2. ASSUME NEW j \in DOMAIN t, j >= i, j < n, Starts(t, j), At(t, j + 1) = LowerX,
             ~ HasDigits(t, j)
      PROVE  FALSE
  <2>1. j \in Nat
    BY LenProperties
  <2>2. CASE j = i
    <3>1. At(t, i) = Backslash
      BY <1>2, <2>2, StartsIs
    <3> QED
      BY <1>2, <2>2, <3>1 DEF Malformed
  <2>3. CASE j # i
    <3>1. j \in i + 1 .. n - 1
      BY <1>1, <1>2, <2>1, <2>3
    <3>2. i + Size(t, i) - 1 = n - 1
      BY ReadIs
    <3>3. \A k \in i + 1 .. n - 1 : ~ Starts(t, k)
      BY <3>2, FreshNext
    <3> QED
      BY <1>2, <3>1, <3>3
  <2> QED
    BY <2>2, <2>3
<1>3. DOMAIN t \subseteq Nat
  BY LenProperties
<1> HIDE DEF n
<1>4. BadFrom(t, i) => BadFrom(t, n)
  BY <1>1, <1>2, <1>3 DEF BadFrom
<1>5. BadFrom(t, n) => BadFrom(t, i)
  BY <1>1, <1>3 DEF BadFrom
<1> QED
  BY <1>4, <1>5 DEF n

(* The contributions of the positions passed at once are the character     *)
(* read there.                                                             *)
LEMMA FlatNext ==
    ASSUME NEW t \in Seq(Octet), NEW i \in Nat \ {0}, Fresh(t, i), ~ Ends(t, i),
           ~ Malformed(t, i)
    PROVE  LET n == i + Size(t, i) IN
           IF n <= Len(t) + 1
           THEN Flat(Parts(t), n - 1) = Flat(Parts(t), i - 1) \o <<Read(t, i).c>>
           ELSE Flat(Parts(t), Len(t)) = Flat(Parts(t), i - 1) \o <<Read(t, i).c>>
<1> DEFINE F(k) == Flat(Parts(t), k)
           x == <<Read(t, i).c>>
<1>1. i \in 1 .. Len(t) /\ Len(t) \in Nat
  BY FoundAt DEF Ends
<1>2. i - 1 \in Nat /\ i - 1 < Len(t) /\ (i - 1) + 1 = i
  BY <1>1
<1>3. F(i - 1) \in Seq(Spans(t)) /\ F(i) = F(i - 1) \o Contributes(t, i)
  BY <1>2, FlatFront
<1>4. ASSUME NEW k \in Nat, k < Len(t), Contributes(t, k + 1) = <<>>
      PROVE  F(k + 1) = F(k)
  <2>1. F(k) \in Seq(Spans(t)) /\ F(k + 1) = F(k) \o <<>>
    BY <1>4, FlatFront
  <2> HIDE DEF F
  <2> QED
    BY <2>1, ConcatEmptySeq
<1>5. CASE At(t, i) # Backslash
  <2>1. Size(t, i) = 1 /\ i + 1 <= Len(t) + 1 /\ (i + 1) - 1 = i
    BY <1>1, <1>5 DEF Size
  <2>2. Contributes(t, i) = x
    BY <1>5, PlainContributes
  <2> QED
    BY <1>3, <2>1, <2>2
<1>6. CASE At(t, i) = Backslash /\ i = Len(t)
  <2>1. At(t, i + 1) = EOF
    BY <1>6, FoundAt
  <2>2. Size(t, i) = 2 /\ ~ (i + 2 <= Len(t) + 1)
    BY <1>1, <1>6, <2>1 DEF Size, EOF, LowerX
  <2>3. Contributes(t, i) = x
    BY <1>6, LastContributes
  <2> QED
    BY <1>3, <1>6, <2>2, <2>3
<1>7. CASE At(t, i) = Backslash /\ i < Len(t)
  <2>1. Contributes(t, i) = <<>> /\ Contributes(t, i + 1) = x
    BY <1>7, EscapeContributes
  <2>2. F(i) = F(i - 1)
    BY <1>2, <1>4, <2>1
  <2>3. F(i + 1) = F(i) \o x
    BY <1>7, <2>1, FlatFront
  <2>4. CASE At(t, i + 1) # LowerX
    <3>1. Size(t, i) = 2 /\ i + 2 <= Len(t) + 1 /\ (i + 2) - 1 = i + 1
      BY <1>1, <1>7, <2>4 DEF Size
    <3> QED
      BY <2>2, <2>3, <3>1
  <2>5. CASE At(t, i + 1) = LowerX
    <3>1. i + 3 <= Len(t) /\ Contributes(t, i + 2) = <<>> /\ Contributes(t, i + 3) = <<>>
      BY <1>7, <2>5, EscapeContributes
    <3>2. Size(t, i) = 4 /\ i + 4 <= Len(t) + 1 /\ (i + 4) - 1 = i + 3
      BY <1>1, <1>7, <2>5, <3>1 DEF Size
    <3>3. /\ i + 1 \in Nat /\ i + 1 < Len(t) /\ (i + 1) + 1 = i + 2
          /\ i + 2 \in Nat /\ i + 2 < Len(t) /\ (i + 2) + 1 = i + 3
      BY <1>1, <3>1
    <3>4. F(i + 2) = F(i + 1)
      BY <1>4, <3>1, <3>3
    <3>5. F(i + 3) = F(i + 2)
      BY <1>4, <3>1, <3>3
    <3> QED
      BY <2>2, <2>3, <3>2, <3>4, <3>5
  <2> QED
    BY <2>4, <2>5
<1> QED
  BY <1>1, <1>5, <1>6, <1>7

LEMMA AtCharacter ==
    ASSUME NEW t \in Seq(Octet), NEW f, Unescapes(f, t), NEW i \in Nat \ {0}, Fresh(t, i),
           ~ Ends(t, i), ~ Malformed(t, i),
           Reads(f, t, i + Size(t, i)) \/ Fails(f, t, i + Size(t, i))
    PROVE  Reads(f, t, i) \/ Fails(f, t, i)
<1> DEFINE n == i + Size(t, i)
           x == Read(t, i)
<1>1. x \in Chars /\ n \in Nat /\ i < n
  BY ReadIs
<1>2. f[i] = <<x>> \o f[n]
  BY DEF Unescapes, Step
<1>3. BadFrom(t, i) <=> BadFrom(t, n)
  BY BadFromNext
<1>4. IF n <= Len(t) + 1
      THEN Flat(Parts(t), n - 1) = Flat(Parts(t), i - 1) \o <<x.c>>
      ELSE Flat(Parts(t), Len(t)) = Flat(Parts(t), i - 1) \o <<x.c>>
  BY FlatNext
<1>5. i \in 1 .. Len(t) /\ Len(t) \in Nat
  BY FoundAt DEF Ends
<1>6. Flat(Parts(t), i - 1) \in Seq(Spans(t))
  <2>1. i - 1 \in Nat /\ i - 1 < Len(t)
    BY <1>5
  <2> QED
    BY <2>1, FlatFront
<1>7. Reads(f, t, n) \/ Fails(f, t, n)
  OBVIOUS
<1> HIDE DEF n, x
<1>8. CASE Reads(f, t, n)
  <2>1. f[n] \in Seq(Chars)
    BY <1>8 DEF Reads
  <2>2. /\ f[i] \in Seq(Chars) /\ Bare(f[i]) = <<x.c>> \o Bare(f[n])
        /\ Bare(f[n]) \in Seq(Octet) /\ <<x.c>> \in Seq(Octet)
    BY <1>1, <1>2, <2>1, FrontIs
  <2>3. Bare(f[n]) \in Seq(Spans(t)) /\ <<x.c>> \in Seq(Spans(t))
    <3>1. Octet \subseteq Spans(t)
      BY DEF Spans
    <3> QED
      BY <2>2, <3>1, SeqMonotonic
  <2>4. (Flat(Parts(t), i - 1) \o <<x.c>>) \o Bare(f[n]) = Flat(Parts(t), i - 1) \o Bare(f[i])
    BY <1>6, <2>2, <2>3, ConcatAssociative
  <2>5. ItemMeans(t) = Flat(Parts(t), i - 1) \o Bare(f[i])
    <3>1. CASE n <= Len(t) + 1
      BY <1>4, <1>8, <2>4, <3>1 DEF Reads
    <3>2. CASE ~ (n <= Len(t) + 1)
      <4>1. f[n] = <<>>
        BY <1>1, <1>5, <3>2, AtTheEnd
      <4>2. Bare(f[n]) = <<>>
        BY <4>1 DEF Bare
      <4>3. Flat(Parts(t), i - 1) \o <<x.c>> \in Seq(Spans(t))
        BY <1>6, <2>3, ConcatProperties
      <4>4. (Flat(Parts(t), i - 1) \o <<x.c>>) \o Bare(f[n]) = Flat(Parts(t), i - 1) \o <<x.c>>
        BY <4>2, <4>3, ConcatEmptySeq
      <4> QED
        BY <1>4, <2>4, <3>2, <4>4, FlatIsMeaning
    <3> QED
      BY <3>1, <3>2
  <2> QED
    BY <1>3, <1>8, <2>2, <2>5 DEF Reads
<1>9. CASE Fails(f, t, n)
  <2> DEFINE X == Chars \union {BadEscape}
  <2>1. f[n] \in Seq(X) /\ <<x>> \in Seq(X) /\ BadEscape \in ToSet(f[n])
    BY <1>1, <1>9 DEF Fails
  <2> HIDE DEF X
  <2>2. f[i] \in Seq(X)
    BY <1>2, <2>1, ConcatProperties
  <2>3. PICK k \in DOMAIN f[n] : f[n][k] = BadEscape
    BY <2>1 DEF ToSet
  <2>4. k \in 1 .. Len(f[n]) /\ Len(f[n]) \in Nat
    BY <2>1, LenProperties
  <2>5. Len(f[i]) = 1 + Len(f[n]) /\ f[i][k + 1] = f[n][k]
    BY <1>2, <2>1, <2>4, ConcatProperties
  <2>6. k + 1 \in DOMAIN f[i]
    BY <2>2, <2>4, <2>5, LenProperties
  <2>7. BadEscape \in ToSet(f[i])
    BY <2>3, <2>5, <2>6 DEF ToSet
  <2> QED
    BY <1>3, <1>9, <2>2, <2>7 DEF Fails, X
<1> QED
  BY <1>7, <1>8, <1>9

(* From every place from which the loop reads it does so.                  *)
LEMMA ReadsOrFails ==
    ASSUME NEW t \in Seq(Octet), NEW f, Unescapes(f, t), NEW i \in Nat \ {0}, Fresh(t, i)
    PROVE  Reads(f, t, i) \/ Fails(f, t, i)
<1> DEFINE Sound(j) == Reads(f, t, j) \/ Fails(f, t, j)
           S == {m \in Nat : \A j \in Nat \ {0} : j + m > Len(t) /\ Fresh(t, j) => Sound(j)}
<1>1. Len(t) \in Nat
  OBVIOUS
<1>2. 0 \in S
  BY AtTheEnd
<1>3. ASSUME NEW m \in Nat, m \in S
      PROVE  m + 1 \in S
  <2> SUFFICES ASSUME NEW j \in Nat \ {0}, j + (m + 1) > Len(t), Fresh(t, j) PROVE Sound(j)
    BY DEF S
  <2>1. CASE Ends(t, j)
    <3>1. j > Len(t)
      <4>1. j \notin 1 .. Len(t)
        BY <2>1, EndsIs
      <4> QED
        BY <1>1, <4>1
    <3> QED
      BY <3>1, AtTheEnd
  <2>2. CASE ~ Ends(t, j) /\ Malformed(t, j)
    BY <2>2, AtBadEscape
  <2>3. CASE ~ Ends(t, j) /\ ~ Malformed(t, j)
    <3>1. j + Size(t, j) \in Nat \ {0} /\ (j + Size(t, j)) + m > Len(t)
      <4>1. Size(t, j) \in {1, 2, 4}
        BY <2>3, ReadIs
      <4> QED
        BY <1>1, <4>1
    <3>2. Fresh(t, j + Size(t, j))
      BY <2>3, FreshNext
    <3>3. Sound(j + Size(t, j))
      BY <1>3, <3>1, <3>2
    <3> QED
      BY <2>3, <3>3, AtCharacter
  <2> QED
    BY <2>1, <2>2, <2>3
<1>4. Len(t) + 1 \in S
  <2> HIDE DEF S
  <2> QED
    BY <1>1, <1>2, <1>3, InductionOnSet
<1>5. i + (Len(t) + 1) > Len(t)
  BY <1>1
<1> QED
  BY <1>4, <1>5

-----------------------------------------------------------------------------
(* The key of an item and its value.                                       *)

(* The loop knows such a sign when it reads it, ...                        *)
LEMMA ReadEqual ==
    ASSUME NEW t \in Seq(Octet), NEW i \in Nat, Fresh(t, i), ~ Ends(t, i), ~ Malformed(t, i)
    PROVE  /\ Read(t, i).isEqual <=> EndsKey(t, i)
           /\ EndsKey(t, i) => Read(t, i) = ItemChar(Equal, TRUE) /\ Size(t, i) = 1
<1>1. i \in DOMAIN t /\ At(t, i) = t[i] /\ ~ Starts(t, i - 1)
  BY FoundAt, FreshStarts DEF Ends
<1>2. Equal # Backslash
  BY DEF Equal, Backslash
<1>3. CASE At(t, i) # Backslash
  <2>1. Read(t, i) = ItemChar(At(t, i), At(t, i) = Equal) /\ Size(t, i) = 1
    BY <1>3 DEF Read, Size
  <2>2. EndsKey(t, i) <=> At(t, i) = Equal
    BY <1>1 DEF EndsKey
  <2>3. \A b : ItemChar(At(t, i), b).isEqual = b
    BY DEF ItemChar
  <2>4. Read(t, i).isEqual <=> At(t, i) = Equal
    BY <2>1, <2>3
  <2>5. EndsKey(t, i) => Read(t, i) = ItemChar(Equal, TRUE)
    <3>1. At(t, i) = Equal => (At(t, i) = Equal) = TRUE
      OBVIOUS
    <3> QED
      BY <2>1, <2>2, <3>1
  <2> QED
    BY <2>1, <2>2, <2>4, <2>5
<1>4. CASE At(t, i) = Backslash
  <2>1. ~ EndsKey(t, i)
    BY <1>1, <1>2, <1>4 DEF EndsKey
  <2>2. ~ Read(t, i).isEqual
    BY <1>4 DEF Read, ItemChar
  <2> QED
    BY <2>1, <2>2
<1> QED
  BY <1>3, <1>4

(* ... and passes none.                                                    *)
LEMMA NoneBetween ==
    ASSUME NEW t \in Seq(Octet), NEW i \in Nat, Fresh(t, i), ~ Ends(t, i), ~ Malformed(t, i),
           NEW j \in i + 1 .. (i + Size(t, i)) - 1
    PROVE  ~ EndsKey(t, j)
<1>1. Size(t, i) \in {1, 2, 4}
  BY ReadIs
<1>2. CASE At(t, i) # Backslash
  <2>1. Size(t, i) = 1
    BY <1>2 DEF Size
  <2> QED
    BY <2>1
<1>3. CASE At(t, i) = Backslash /\ j = i + 1
  <2>1. Starts(t, i) /\ j - 1 = i
    BY <1>3, FreshStarts
  <2> QED
    BY <2>1 DEF EndsKey
<1>4. CASE At(t, i) = Backslash /\ j # i + 1
  <2>1. At(t, i + 1) = LowerX
    BY <1>4 DEF Size
  <2>2. At(t, i + 2) \in Hex /\ At(t, i + 3) \in Hex
    BY <1>4, <2>1 DEF Malformed, HasDigits
  <2>3. j = i + 2 \/ j = i + 3
    BY <1>1, <1>4
  <2>4. t[j] \in Hex
    BY <2>2, <2>3, FoundAt, EndIsNoHex
  <2>5. Equal \notin Hex
    BY DEF Equal, Hex, Digit
  <2> QED
    BY <2>4, <2>5 DEF EndsKey
<1> QED
  BY <1>2, <1>3, <1>4

(* A text without a bad escape is not malformed where it is read.          *)
LEMMA NeverMalformed ==
    ASSUME NEW t \in Seq(Octet), ~ BadItem(t), NEW i \in Nat, Fresh(t, i)
    PROVE  ~ Malformed(t, i)
<1> SUFFICES ASSUME Malformed(t, i) PROVE FALSE
  OBVIOUS
<1>1. At(t, i) = Backslash
  BY DEF Malformed
<1>2. i \in DOMAIN t /\ Starts(t, i)
  BY <1>1, FoundAt, FreshStarts, HexNoSlash
<1> QED
  BY <1>2 DEF Malformed, BadItem

(* Where two texts are the same, the same is read.                         *)
LEMMA SameRead ==
    ASSUME NEW t \in Seq(Octet), NEW u \in Seq(Octet), NEW i \in Nat, NEW j \in Nat,
           ~ Ends(t, i), ~ Malformed(t, i),
           \A k \in 0 .. Size(t, i) - 1 : At(u, j + k) = At(t, i + k)
    PROVE  /\ ~ Ends(u, j) /\ ~ Malformed(u, j)
           /\ Size(u, j) = Size(t, i) /\ Read(u, j) = Read(t, i)
<1>1. At(u, j) = At(t, i)
  <2>1. 0 \in 0 .. Size(t, i) - 1 /\ j + 0 = j /\ i + 0 = i
    BY ReadIs
  <2> QED
    BY <2>1
<1>2. CASE At(t, i) # Backslash
  BY <1>1, <1>2 DEF Ends, Malformed, Size, Read
<1>3. CASE At(t, i) = Backslash /\ At(t, i + 1) # LowerX
  <2>1. 1 \in 0 .. Size(t, i) - 1
    BY <1>3 DEF Size
  <2>2. At(u, j + 1) = At(t, i + 1)
    BY <2>1
  <2> QED
    BY <1>1, <1>3, <2>2 DEF Ends, Malformed, Size, Read
<1>4. CASE At(t, i) = Backslash /\ At(t, i + 1) = LowerX
  <2>1. {1, 2, 3} \subseteq 0 .. Size(t, i) - 1
    BY <1>4 DEF Size
  <2>2. At(u, j + 1) = At(t, i + 1) /\ At(u, j + 2) = At(t, i + 2) /\ At(u, j + 3) = At(t, i + 3)
    BY <2>1
  <2>3. At(t, i + 2) \in Hex /\ At(t, i + 3) \in Hex
    BY <1>4 DEF Malformed, HasDigits
  <2>4. /\ t[i + 2] = At(t, i + 2) /\ t[i + 3] = At(t, i + 3)
        /\ u[j + 2] = At(u, j + 2) /\ u[j + 3] = At(u, j + 3)
    BY <2>2, <2>3, FoundAt, EndIsNoHex
  <2> QED
    BY <1>1, <1>4, <2>2, <2>3, <2>4 DEF Ends, Malformed, HasDigits, Size, Read
<1> QED
  BY <1>2, <1>3, <1>4

\* No character of s is an equals sign that ends a key.
Keyfree(s) == \A k \in DOMAIN s : ~ s[k].isEqual

LEMMA KeyfreeFront ==
    ASSUME NEW x \in Chars, ~ x.isEqual, NEW s \in Seq(Chars), Keyfree(s)
    PROVE  <<x>> \o s \in Seq(Chars) /\ Keyfree(<<x>> \o s)
<1>1. <<x>> \in Seq(Chars) /\ <<x>> \o s \in Seq(Chars) /\ Len(<<x>> \o s) = 1 + Len(s)
  BY ConcatProperties
<1>2. DOMAIN (<<x>> \o s) = 1 .. 1 + Len(s) /\ DOMAIN s = 1 .. Len(s) /\ Len(s) \in Nat
  BY <1>1, LenProperties
<1>3. ASSUME NEW k \in 1 .. 1 + Len(s)
      PROVE  ~ (<<x>> \o s)[k].isEqual
  <2>1. CASE k = 1
    BY <1>1, <2>1, ConcatProperties
  <2>2. CASE k # 1
    <3>1. k - 1 \in 1 .. Len(s) /\ (<<x>> \o s)[k] = s[k - 1]
      BY <1>1, <1>2, <2>2, ConcatProperties
    <3> QED
      BY <1>2, <3>1 DEF Keyfree
  <2> QED
    BY <2>1, <2>2
<1> QED
  BY <1>1, <1>2, <1>3 DEF Keyfree

(* Without an equals sign that ends a key, none is found.                  *)
LEMMA NoKey ==
    ASSUME NEW t \in Seq(Octet), ~ BadItem(t), NEW f, Unescapes(f, t),
           \A i \in DOMAIN t : ~ EndsKey(t, i)
    PROVE  Keyfree(f[1])
<1> DEFINE Sound(j) == f[j] \in Seq(Chars) /\ Keyfree(f[j])
           S == {m \in Nat : \A j \in Nat \ {0} : j + m > Len(t) /\ Fresh(t, j) => Sound(j)}
<1>1. Len(t) \in Nat
  OBVIOUS
<1>2. ASSUME NEW j \in Nat, Ends(t, j)
      PROVE  Sound(j)
  <2>1. f[j] = <<>>
    BY <1>2 DEF Unescapes, Step
  <2> QED
    BY <2>1, EmptySeq DEF Keyfree
<1>3. 0 \in S
  <2> SUFFICES ASSUME NEW j \in Nat \ {0}, j > Len(t) PROVE Sound(j)
    BY DEF S
  <2>1. Ends(t, j)
    BY AtIs DEF Ends
  <2> HIDE DEF Sound
  <2> QED
    BY <1>2, <2>1
<1>4. ASSUME NEW m \in Nat, m \in S
      PROVE  m + 1 \in S
  <2> SUFFICES ASSUME NEW j \in Nat \ {0}, j + (m + 1) > Len(t), Fresh(t, j) PROVE Sound(j)
    BY DEF S
  <2>1. CASE ~ Ends(t, j)
    <3> DEFINE n == j + Size(t, j)
    <3>1. ~ Malformed(t, j)
      BY NeverMalformed
    <3>2. Read(t, j) \in Chars /\ n \in Nat \ {0} /\ n + m > Len(t)
      <4>1. Read(t, j) \in Chars /\ Size(t, j) \in {1, 2, 4}
        BY <2>1, <3>1, ReadIs
      <4> QED
        BY <1>1, <4>1
    <3>3. Fresh(t, n)
      BY <2>1, <3>1, FreshNext
    <3>4. ~ Read(t, j).isEqual
      BY <2>1, <3>1, ReadEqual DEF EndsKey
    <3>5. f[j] = <<Read(t, j)>> \o f[n]
      BY <2>1, <3>1 DEF Unescapes, Step
    <3> HIDE DEF n
    <3>6. f[n] \in Seq(Chars) /\ Keyfree(f[n])
      BY <1>4, <3>2, <3>3
    <3> QED
      BY <3>2, <3>4, <3>5, <3>6, KeyfreeFront
  <2> HIDE DEF Sound
  <2> QED
    BY <1>2, <2>1
<1>5. Len(t) + 1 \in S
  <2> HIDE DEF S
  <2> QED
    BY <1>1, <1>3, <1>4, InductionOnSet
<1>6. 1 + (Len(t) + 1) > Len(t) /\ 1 \in Nat \ {0}
  BY <1>1
<1> QED
  BY <1>5, <1>6, FirstFresh

(* The bytes before and behind the sign at e.                              *)
LEMMA PrefixIs ==
    ASSUME NEW t \in Seq(Octet), NEW e \in 1 .. Len(t)
    PROVE  /\ SubSeq(t, 1, e - 1) \in Seq(Octet)
           /\ Len(SubSeq(t, 1, e - 1)) = e - 1
           /\ \A j \in 1 .. e - 1 : At(SubSeq(t, 1, e - 1), j) = At(t, j)
<1> DEFINE p == SubSeq(t, 1, e - 1)
<1>1. Len(t) \in Nat /\ DOMAIN t = 1 .. Len(t)
  BY LenProperties
<1>2. \A j \in 1 .. e - 1 : t[j] \in Octet
  BY <1>1, ElementOfSeq
<1>3. /\ p \in Seq(Octet)
      /\ Len(p) = IF 1 <= e - 1 THEN (e - 1) - 1 + 1 ELSE 0
      /\ \A j \in 1 .. (e - 1) - 1 + 1 : p[j] = t[1 + j - 1]
  <2> HIDE DEF p
  <2> QED
    BY <1>1, <1>2, SubSeqProperties DEF p
<1>4. Len(p) = e - 1
  BY <1>1, <1>3
<1>5. ASSUME NEW j \in 1 .. e - 1
      PROVE  At(p, j) = At(t, j)
  <2>1. p[j] = t[j]
    BY <1>1, <1>3
  <2>2. j \in DOMAIN p /\ j \in DOMAIN t
    BY <1>1, <1>3, <1>4, LenProperties
  <2> QED
    BY <2>1, <2>2 DEF At
<1> QED
  BY <1>3, <1>4, <1>5

LEMMA SuffixIs ==
    ASSUME NEW t \in Seq(Octet), NEW e \in 1 .. Len(t)
    PROVE  /\ From(t, e + 1) \in Seq(Octet)
           /\ Len(From(t, e + 1)) = Len(t) - e
           /\ \A j \in Nat \ {0} : At(From(t, e + 1), j) = At(t, e + j)
<1> DEFINE q == From(t, e + 1)
<1>1. Len(t) \in Nat /\ DOMAIN t = 1 .. Len(t)
  BY LenProperties
<1>2. \A j \in e + 1 .. Len(t) : t[j] \in Octet
  BY <1>1, ElementOfSeq
<1>3. /\ q \in Seq(Octet)
      /\ Len(q) = IF e + 1 <= Len(t) THEN Len(t) - (e + 1) + 1 ELSE 0
      /\ \A j \in 1 .. Len(t) - (e + 1) + 1 : q[j] = t[(e + 1) + j - 1]
  <2> HIDE DEF q
  <2> QED
    BY <1>1, <1>2, SubSeqProperties DEF q, From
<1>4. Len(q) = Len(t) - e
  BY <1>1, <1>3
<1>5. ASSUME NEW j \in Nat \ {0}
      PROVE  At(q, j) = At(t, e + j)
  <2>1. CASE j <= Len(t) - e
    <3>1. q[j] = t[e + j]
      BY <1>1, <1>3, <2>1
    <3>2. j \in DOMAIN q /\ e + j \in DOMAIN t
      BY <1>1, <1>3, <1>4, <2>1, LenProperties
    <3> QED
      BY <3>1, <3>2 DEF At
  <2>2. CASE ~ (j <= Len(t) - e)
    <3>1. j \notin DOMAIN q /\ e + j \notin DOMAIN t
      BY <1>1, <1>3, <1>4, <2>2, LenProperties
    <3> QED
      BY <3>1 DEF At
  <2> QED
    BY <2>1, <2>2
<1> QED
  BY <1>3, <1>4, <1>5

(* Up to the first sign that ends a key, at e, the loop reads what it      *)
(* would read of the bytes before alone; ...                               *)
LEMMA KeyRead ==
    ASSUME NEW t \in Seq(Octet), ~ BadItem(t), NEW f, Unescapes(f, t),
           NEW e \in 1 .. Len(t), EndsKey(t, e), \A j \in 1 .. e - 1 : ~ EndsKey(t, j),
           NEW g, Unescapes(g, SubSeq(t, 1, e - 1)), f[e + 1] \in Seq(Chars)
    PROVE  /\ Fresh(t, e)
           /\ g[1] \in Seq(Chars) /\ Keyfree(g[1])
           /\ f[1] = g[1] \o (<<ItemChar(Equal, TRUE)>> \o f[e + 1])
<1> DEFINE p == SubSeq(t, 1, e - 1)
           rest == <<ItemChar(Equal, TRUE)>> \o f[e + 1]
           Sound(j) == /\ Fresh(t, e)
                       /\ g[j] \in Seq(Chars) /\ Keyfree(g[j])
                       /\ f[j] = g[j] \o rest
           S == {m \in Nat : \A j \in Nat \ {0} : j <= e /\ j + m >= e /\ Fresh(t, j) => Sound(j)}
<1>1. e \in Nat /\ Len(t) \in Nat /\ e <= Len(t)
  BY LenProperties
<1>2. p \in Seq(Octet) /\ Len(p) = e - 1 /\ \A j \in 1 .. e - 1 : At(p, j) = At(t, j)
  BY PrefixIs
<1>3. Unescapes(g, p)
  OBVIOUS
<1>4. ItemChar(Equal, TRUE) \in Chars
  BY DEF ItemChar, Chars, Equal, Octet
<1>5. rest \in Seq(Chars)
  BY <1>4, FrontIs
<1>6. ~ Ends(t, e)
  <2>1. e \in 1 .. Len(t)
    OBVIOUS
  <2> QED
    BY <1>1, <2>1, EndsIs
<1> HIDE DEF p
<1>7. ASSUME Fresh(t, e)
      PROVE  Sound(e)
  <2>1. ~ Malformed(t, e)
    BY <1>1, <1>7, NeverMalformed
  <2>2. Read(t, e) = ItemChar(Equal, TRUE) /\ Size(t, e) = 1
    BY <1>1, <1>6, <1>7, <2>1, ReadEqual
  <2>3. f[e] = rest
    BY <1>1, <1>6, <2>1, <2>2 DEF Unescapes, Step
  <2>4. g[e] = <<>>
    <3>1. e > Len(p)
      BY <1>1, <1>2
    <3> QED
      BY <1>1, <1>2, <1>3, <3>1, AtTheEnd
  <2>5. <<>> \in Seq(Chars) /\ Keyfree(<<>>)
    BY EmptySeq DEF Keyfree
  <2> HIDE DEF rest
  <2>6. f[e] = g[e] \o rest
    BY <1>5, <2>3, <2>4, ConcatEmptySeq
  <2> QED
    BY <1>7, <2>4, <2>5, <2>6
<1>8. ASSUME NEW j \in Nat \ {0}, j < e, Fresh(t, j),
             j + Size(t, j) <= e => Sound(j + Size(t, j))
      PROVE  Sound(j)
  <2> DEFINE n == j + Size(t, j)
  <2>1. ~ Malformed(t, j)
    BY <1>8, NeverMalformed
  <2>2. ~ Ends(t, j)
    <3>1. j \in 1 .. Len(t)
      BY <1>1, <1>8
    <3> QED
      BY <1>1, <3>1, EndsIs
  <2>3. Read(t, j) \in Chars /\ Size(t, j) \in {1, 2, 4}
    BY <2>1, <2>2, ReadIs
  <2>4. n <= e
    <3> SUFFICES ASSUME e < n PROVE FALSE
      BY <1>1, <2>3
    <3>1. e \in j + 1 .. (j + Size(t, j)) - 1
      BY <1>1, <1>8, <2>3
    <3> QED
      BY <1>8, <2>1, <2>2, <3>1, NoneBetween
  <2>5. \A k \in 0 .. Size(t, j) - 1 : At(p, j + k) = At(t, j + k)
    <3>1. \A k \in 0 .. Size(t, j) - 1 : j + k \in 1 .. e - 1
      BY <1>1, <2>3, <2>4
    <3> QED
      BY <1>2, <3>1
  <2>6. /\ ~ Ends(p, j) /\ ~ Malformed(p, j)
        /\ Size(p, j) = Size(t, j) /\ Read(p, j) = Read(t, j)
    BY <1>2, <2>1, <2>2, <2>5, SameRead
  <2>7. g[j] = <<Read(t, j)>> \o g[n]
    BY <1>3, <2>6 DEF Unescapes, Step
  <2>8. f[j] = <<Read(t, j)>> \o f[n]
    BY <2>1, <2>2 DEF Unescapes, Step
  <2>9. ~ Read(t, j).isEqual
    <3>1. j \in 1 .. e - 1
      BY <1>1, <1>8
    <3> QED
      BY <1>8, <2>1, <2>2, <3>1, ReadEqual
  <2>10. Sound(n)
    BY <1>8, <2>4
  <2> HIDE DEF n, rest
  <2>11. g[j] \in Seq(Chars) /\ Keyfree(g[j])
    BY <2>3, <2>7, <2>9, <2>10, KeyfreeFront
  <2>12. f[j] = g[j] \o rest
    <3>1. f[n] = g[n] \o rest
      BY <2>10
    <3>2. (<<Read(t, j)>> \o g[n]) \o rest = <<Read(t, j)>> \o (g[n] \o rest)
      <4> DEFINE a == <<Read(t, j)>>
                 b == g[n]
      <4>1. a \in Seq(Chars)
        BY <2>3
      <4>2. b \in Seq(Chars)
        BY <2>10
      <4>3. rest \in Seq(Chars)
        BY <1>5
      <4> HIDE DEF a, b, Sound
      <4>4. (a \o b) \o rest = a \o (b \o rest)
        BY <4>1, <4>2, <4>3, ConcatAssociative
      <4> QED
        BY <4>4 DEF a, b
    <3> HIDE DEF Sound
    <3> QED
      BY <2>7, <2>8, <3>1, <3>2
  <2> QED
    BY <2>10, <2>11, <2>12
<1> HIDE DEF Sound
<1>9. 0 \in S
  <2> SUFFICES ASSUME NEW j \in Nat \ {0}, j <= e, j + 0 >= e, Fresh(t, j) PROVE Sound(j)
    BY DEF S
  <2>1. j = e
    BY <1>1
  <2> QED
    BY <1>7, <2>1
<1>10. ASSUME NEW m \in Nat, m \in S
       PROVE  m + 1 \in S
  <2> SUFFICES ASSUME NEW j \in Nat \ {0}, j <= e, j + (m + 1) >= e, Fresh(t, j) PROVE Sound(j)
    BY DEF S
  <2>1. CASE j = e
    BY <1>7, <2>1
  <2>2. CASE j < e
    <3>1. ~ Malformed(t, j)
      BY NeverMalformed
    <3>2. ~ Ends(t, j)
      <4>1. j \in 1 .. Len(t)
        BY <1>1, <2>2
      <4> QED
        BY <1>1, <4>1, EndsIs
    <3>3. j + Size(t, j) \in Nat \ {0} /\ (j + Size(t, j)) + m >= e
      <4>1. Size(t, j) \in {1, 2, 4}
        BY <3>1, <3>2, ReadIs
      <4> QED
        BY <1>1, <4>1
    <3>4. Fresh(t, j + Size(t, j))
      BY <3>1, <3>2, FreshNext
    <3>5. j + Size(t, j) <= e => Sound(j + Size(t, j))
      BY <1>10, <3>3, <3>4
    <3> QED
      BY <1>8, <2>2, <3>5
  <2> QED
    BY <1>1, <2>1, <2>2
<1>11. e \in S
  <2> HIDE DEF S
  <2> QED
    BY <1>1, <1>9, <1>10, InductionOnSet
<1>12. 1 \in Nat \ {0} /\ 1 <= e /\ 1 + e >= e
  BY <1>1
<1>13. Sound(1)
  BY <1>11, <1>12, FirstFresh
<1> QED
  BY <1>13 DEF Sound

(* ... and behind it what it would read of the bytes behind alone.         *)
LEMMA ValueRead ==
    ASSUME NEW t \in Seq(Octet), NEW f, Unescapes(f, t), NEW e \in 1 .. Len(t),
           NEW g, Unescapes(g, From(t, e + 1))
    PROVE  f[e + 1] = g[1]
<1> DEFINE q == From(t, e + 1)
           S == {m \in Nat : \A j \in Nat \ {0} : (e + j) + m > Len(t) => f[e + j] = g[j]}
<1>1. e \in Nat /\ Len(t) \in Nat
  BY LenProperties
<1>2. q \in Seq(Octet) /\ Len(q) = Len(t) - e /\ \A j \in Nat \ {0} : At(q, j) = At(t, e + j)
  BY SuffixIs
<1>3. Unescapes(g, q)
  OBVIOUS
<1> HIDE DEF q
<1>4. 0 \in S
  <2> SUFFICES ASSUME NEW j \in Nat \ {0}, (e + j) + 0 > Len(t) PROVE f[e + j] = g[j]
    BY DEF S
  <2>1. e + j \in Nat /\ e + j > Len(t) /\ j > Len(q)
    BY <1>1, <1>2
  <2>2. f[e + j] = <<>>
    BY <2>1, AtTheEnd
  <2>3. g[j] = <<>>
    BY <1>2, <1>3, <2>1, AtTheEnd
  <2> QED
    BY <2>2, <2>3
<1>5. ASSUME NEW m \in Nat, m \in S
      PROVE  m + 1 \in S
  <2> SUFFICES ASSUME NEW j \in Nat \ {0}, (e + j) + (m + 1) > Len(t) PROVE f[e + j] = g[j]
    BY DEF S
  <2>1. e + j \in Nat
    BY <1>1
  <2>2. \A k \in 0 .. 3 : At(q, j + k) = At(t, (e + j) + k)
    <3>1. \A k \in 0 .. 3 : j + k \in Nat \ {0} /\ e + (j + k) = (e + j) + k
      BY <1>1
    <3> QED
      BY <1>2, <3>1
  <2>3. /\ At(q, j) = At(t, e + j) /\ At(q, j + 1) = At(t, (e + j) + 1)
        /\ At(q, j + 2) = At(t, (e + j) + 2) /\ At(q, j + 3) = At(t, (e + j) + 3)
    <3>1. {0, 1, 2, 3} \subseteq 0 .. 3 /\ j + 0 = j /\ (e + j) + 0 = e + j
      BY <1>1
    <3> QED
      BY <2>2, <3>1
  <2>4. CASE Ends(t, e + j)
    BY <1>3, <2>1, <2>3, <2>4 DEF Unescapes, Step, Ends
  <2>5. CASE ~ Ends(t, e + j) /\ Malformed(t, e + j)
    <3>1. ~ Ends(q, j) /\ Malformed(q, j)
      BY <2>3, <2>5 DEF Ends, Malformed, HasDigits
    <3> QED
      BY <1>3, <2>1, <2>5, <3>1 DEF Unescapes, Step
  <2>6. CASE ~ Ends(t, e + j) /\ ~ Malformed(t, e + j)
    <3> DEFINE n == Size(t, e + j)
    <3>1. n \in {1, 2, 4}
      BY <2>1, <2>6, ReadIs
    <3>2. \A k \in 0 .. n - 1 : At(q, j + k) = At(t, (e + j) + k)
      <4>1. \A k \in 0 .. n - 1 : k \in 0 .. 3
        BY <3>1
      <4> QED
        BY <2>2, <4>1
    <3>3. /\ ~ Ends(q, j) /\ ~ Malformed(q, j)
          /\ Size(q, j) = n /\ Read(q, j) = Read(t, e + j)
      BY <1>2, <2>1, <2>6, <3>2, SameRead
    <3>4. f[e + j] = <<Read(t, e + j)>> \o f[(e + j) + n]
      BY <2>1, <2>6 DEF Unescapes, Step
    <3>5. g[j] = <<Read(t, e + j)>> \o g[j + n]
      BY <1>3, <3>3 DEF Unescapes, Step
    <3> HIDE DEF n
    <3>6. j + n \in Nat \ {0} /\ (e + (j + n)) + m > Len(t) /\ e + (j + n) = (e + j) + n
      BY <1>1, <3>1
    <3>7. f[e + (j + n)] = g[j + n]
      BY <1>5, <3>6
    <3> QED
      BY <3>4, <3>5, <3>6, <3>7
  <2> QED
    BY <2>4, <2>5, <2>6
<1>6. Len(t) \in S
  <2> HIDE DEF S
  <2> QED
    BY <1>1, <1>4, <1>5, InductionOnSet
<1>7. 1 \in Nat \ {0} /\ (e + 1) + Len(t) > Len(t)
  BY <1>1
<1> QED
  BY <1>6, <1>7

(* An item without a sign is a value only, ...                             *)
LEMMA WithoutSign ==
    ASSUME NEW s, Keyfree(s)
    PROVE  KeyAndValue(s) = << <<>>, Bare(s)>>
<1>1. {k \in DOMAIN s : s[k].isEqual} = {}
  BY DEF Keyfree
<1> QED
  BY <1>1 DEF KeyAndValue, Bare

(* The bytes of characters.                                                *)
LEMMA BareIs ==
    ASSUME NEW s \in Seq(Chars)
    PROVE  Bare(s) \in Seq(Octet) /\ Len(Bare(s)) = Len(s) /\ \A k \in 1 .. Len(s) : Bare(s)[k] = s[k].c
<1>1. Len(s) \in Nat /\ DOMAIN s = 1 .. Len(s)
  BY LenProperties
<1>2. \A k \in 1 .. Len(s) : s[k].c \in Octet
  <2>1. \A k \in 1 .. Len(s) : s[k] \in Chars
    BY ElementOfSeq
  <2> QED
    BY <2>1 DEF Chars
<1>3. Bare(s) = [k \in 1 .. Len(s) |-> s[k].c]
  BY <1>1 DEF Bare
<1> QED
  BY <1>1, <1>2, <1>3

(* What stands before, at and behind the sign of an item.                  *)
LEMMA JoinIs ==
    ASSUME NEW a \in Seq(Chars), NEW x \in Chars, NEW v \in Seq(Chars)
    PROVE  LET s == a \o (<<x>> \o v)
               n == Len(a)
               m == Len(v)
           IN  /\ s \in Seq(Chars) /\ Len(s) = n + 1 + m
               /\ \A k \in 1 .. n : s[k] = a[k]
               /\ s[n + 1] = x
               /\ \A k \in 1 .. m : s[n + 1 + k] = v[k]
<1> DEFINE b == <<x>> \o v
           s == a \o b
           n == Len(a)
           m == Len(v)
<1>1. n \in Nat /\ m \in Nat
  BY LenProperties
<1>2. /\ b \in Seq(Chars) /\ Len(b) = 1 + m /\ b[1] = x
      /\ \A k \in 2 .. 1 + m : b[k] = v[k - 1]
  <2>1. <<x>> \in Seq(Chars) /\ Len(<<x>>) = 1 /\ <<x>>[1] = x
    OBVIOUS
  <2> QED
    BY <1>1, <2>1, ConcatProperties
<1> SUFFICES /\ s \in Seq(Chars) /\ Len(s) = n + 1 + m
             /\ \A k \in 1 .. n : s[k] = a[k]
             /\ s[n + 1] = x
             /\ \A k \in 1 .. m : s[n + 1 + k] = v[k]
  OBVIOUS
<1> HIDE DEF b
<1>3. s \in Seq(Chars) /\ Len(s) = n + (1 + m)
  <2>1. b \in Seq(Chars) /\ Len(b) = 1 + m
    BY <1>2
  <2>2. a \o b \in Seq(Chars) /\ Len(a \o b) = Len(a) + Len(b)
    BY <2>1, ConcatProperties
  <2> QED
    BY <2>1, <2>2
<1>4. \A k \in 1 .. n + (1 + m) : s[k] = IF k <= n THEN a[k] ELSE b[k - n]
  BY <1>1, <1>2, ConcatProperties
<1> HIDE DEF s, n, m
<1>5. \A k \in 1 .. n : s[k] = a[k]
  BY <1>1, <1>4
<1>6. s[n + 1] = x
  <2>1. n + 1 \in 1 .. n + (1 + m) /\ ~ (n + 1 <= n) /\ (n + 1) - n = 1
    BY <1>1
  <2> QED
    BY <1>2, <1>4, <2>1
<1>7. ASSUME NEW k \in 1 .. m
      PROVE  s[n + 1 + k] = v[k]
  <2>1. /\ n + 1 + k \in 1 .. n + (1 + m) /\ ~ (n + 1 + k <= n)
        /\ (n + 1 + k) - n = 1 + k /\ 1 + k \in 2 .. 1 + m /\ (1 + k) - 1 = k
    BY <1>1
  <2>2. s[n + 1 + k] = b[1 + k]
    BY <1>4, <2>1
  <2> QED
    BY <1>2, <2>1, <2>2
<1>8. Len(s) = n + 1 + m
  BY <1>1, <1>3
<1> QED
  BY <1>3, <1>5, <1>6, <1>7, <1>8

\* n characters of s, a sign, and m characters of s are a, the sign and v.
Joins(s, a, v, n, m) ==
    /\ n \in Nat /\ n = Len(a)
    /\ m \in Nat /\ m = Len(v)
    /\ Len(s) = n + 1 + m
    /\ \A k \in 1 .. n : s[k] = a[k]
    /\ s[n + 1].isEqual
    /\ \A k \in 1 .. m : s[n + 1 + k] = v[k]

(* The first sign divides an item: stated of its characters ...            *)
LEMMA Divided ==
    ASSUME NEW a \in Seq(Chars), Keyfree(a), NEW v \in Seq(Chars), NEW s \in Seq(Chars),
           NEW n, NEW m, Joins(s, a, v, n, m)
    PROVE  KeyAndValue(s) = <<Bare(a), Bare(v)>>
<1> USE DEF Joins
<1>1. DOMAIN a = 1 .. n /\ DOMAIN s = 1 .. n + 1 + m
  BY LenProperties
<1> DEFINE equals == {k \in DOMAIN s : s[k].isEqual}
           first == CHOOSE k \in equals : \A l \in equals : k <= l
           text == Bare(s)
<1>2. n + 1 \in equals
  BY <1>1
<1>3. \A l \in equals : n + 1 <= l
  <2> SUFFICES ASSUME NEW l \in 1 .. n + 1 + m, s[l].isEqual, ~ (n + 1 <= l)
               PROVE  FALSE
    BY <1>1
  <2>1. l \in 1 .. n
    OBVIOUS
  <2> QED
    BY <1>1, <2>1 DEF Keyfree
<1>4. equals \subseteq Nat
  BY <1>1
<1>5. KeyAndValue(s) = <<SubSeq(text, 1, first - 1), From(text, first + 1)>>
  <2>1. equals # {}
    BY <1>2
  <2> QED
    BY <2>1 DEF KeyAndValue, Bare
<1> HIDE DEF equals
<1>6. first = n + 1
  <2>1. \E k \in equals : \A l \in equals : k <= l
    BY <1>2, <1>3
  <2>2. first \in equals /\ \A l \in equals : first <= l
    BY <2>1
  <2> HIDE DEF first
  <2> QED
    BY <1>2, <1>3, <1>4, <2>2
<1> HIDE DEF first
<1>7. /\ text \in Seq(Octet) /\ Len(text) = n + 1 + m
      /\ \A k \in 1 .. n + 1 + m : text[k] = s[k].c /\ text[k] \in Octet
  <2>1. text \in Seq(Octet) /\ Len(text) = n + 1 + m /\ \A k \in 1 .. n + 1 + m : text[k] = s[k].c
    BY BareIs
  <2> HIDE DEF text
  <2> QED
    BY <2>1, ElementOfSeq
<1>8. /\ Bare(a) \in Seq(Octet) /\ Len(Bare(a)) = n /\ \A k \in 1 .. n : Bare(a)[k] = a[k].c
      /\ Bare(v) \in Seq(Octet) /\ Len(Bare(v)) = m /\ \A k \in 1 .. m : Bare(v)[k] = v[k].c
  BY BareIs
<1> HIDE DEF text
<1>9. SubSeq(text, 1, n) = Bare(a)
  <2>1. \A k \in 1 .. n : text[k] \in Octet
    BY <1>7
  <2> DEFINE u == SubSeq(text, 1, n)
  <2>2. /\ u \in Seq(Octet) /\ Len(u) = (IF 1 <= n THEN n - 1 + 1 ELSE 0)
        /\ \A k \in 1 .. n - 1 + 1 : u[k] = text[1 + k - 1]
    BY <2>1, SubSeqProperties
  <2> HIDE DEF u
  <2>3. Len(u) = n /\ \A k \in 1 .. n : u[k] = text[k]
    BY <2>2
  <2>4. \A k \in 1 .. n : u[k] = Bare(a)[k]
    <3> SUFFICES ASSUME NEW k \in 1 .. n PROVE u[k] = Bare(a)[k]
      OBVIOUS
    <3>1. k \in 1 .. n + 1 + m
      OBVIOUS
    <3>2. u[k] = s[k].c
      BY <1>7, <2>3, <3>1
    <3>3. Bare(a)[k] = a[k].c /\ s[k] = a[k]
      BY <1>8
    <3> QED
      BY <3>2, <3>3
  <2>5. u = Bare(a)
    BY <1>8, <2>2, <2>3, <2>4, SeqEqual
  <2> QED
    BY <2>5 DEF u
<1>10. From(text, n + 2) = Bare(v)
  <2>1. \A k \in n + 2 .. n + 1 + m : text[k] \in Octet
    BY <1>7
  <2> DEFINE u == SubSeq(text, n + 2, n + 1 + m)
  <2>2. /\ u \in Seq(Octet)
        /\ Len(u) = (IF n + 2 <= n + 1 + m THEN (n + 1 + m) - (n + 2) + 1 ELSE 0)
        /\ \A k \in 1 .. (n + 1 + m) - (n + 2) + 1 : u[k] = text[(n + 2) + k - 1]
    <3>1. n + 2 \in Int /\ n + 1 + m \in Int
      OBVIOUS
    <3> QED
      BY <2>1, <3>1, SubSeqProperties
  <2>5. From(text, n + 2) = u
    BY <1>7 DEF From
  <2> HIDE DEF u
  <2>3. Len(u) = m /\ \A k \in 1 .. m : u[k] = text[n + 1 + k]
    BY <2>2
  <2>4. \A k \in 1 .. m : u[k] = Bare(v)[k]
    <3>1. \A k \in 1 .. m : n + 1 + k \in 1 .. n + 1 + m
      OBVIOUS
    <3> QED
      BY <1>7, <1>8, <2>3, <3>1
  <2> QED
    BY <1>8, <2>2, <2>3, <2>4, <2>5, SeqEqual
<1>11. first - 1 = n /\ first + 1 = n + 2
  BY <1>6
<1> QED
  BY <1>5, <1>9, <1>10, <1>11

(* ... and of its parts.                                                   *)
LEMMA WithSign ==
    ASSUME NEW a \in Seq(Chars), Keyfree(a), NEW x \in Chars, x.isEqual, NEW v \in Seq(Chars)
    PROVE  KeyAndValue(a \o (<<x>> \o v)) = <<Bare(a), Bare(v)>>
<1>1. PICK n \in Nat, m \in Nat : n = Len(a) /\ m = Len(v)
  BY LenProperties
<1>2. PICK s : s = a \o (<<x>> \o v)
  OBVIOUS
<1>3. s \in Seq(Chars)
  BY <1>2, JoinIs
<1>4. Joins(s, a, v, n, m)
  <2>1. /\ Len(s) = Len(a) + 1 + Len(v)
        /\ \A k \in 1 .. Len(a) : s[k] = a[k]
        /\ s[Len(a) + 1] = x
        /\ \A k \in 1 .. Len(v) : s[Len(a) + 1 + k] = v[k]
    BY <1>2, JoinIs
  <2> QED
    BY <1>1, <2>1 DEF Joins
<1>5. KeyAndValue(s) = <<Bare(a), Bare(v)>>
  BY <1>3, <1>4, Divided
<1> QED
  BY <1>2, <1>5

-----------------------------------------------------------------------------
(* The whole item.                                                         *)

(* A set of positions has a least one, ...                                 *)
LEMMA LeastExists ==
    ASSUME NEW S \in SUBSET Nat, S # {}
    PROVE  \E i \in S : \A j \in S : i <= j
<1> DEFINE R == OpToRel(<, Nat)
<1>1. IsWellFoundedOn(R, Nat)
  BY NatLessThanWellFounded
<1>2. \A i, j \in Nat : i < j => <<i, j>> \in R
  BY DEF OpToRel
<1> HIDE DEF R
<1>3. PICK i \in S : \A j \in S : ~ (<<j, i>> \in R)
  BY <1>1, WFMin
<1>4. ASSUME NEW j \in S PROVE i <= j
  <2>1. i \in Nat /\ j \in Nat
    OBVIOUS
  <2>2. ~ (j < i)
    BY <1>2, <1>3, <2>1
  <2> QED
    BY <2>1, <2>2
<1> QED
  BY <1>4

(* ... and if it has a bound, a last one.                                  *)
LEMMA LastExists ==
    ASSUME NEW n \in Nat, NEW S \in SUBSET (0 .. n), S # {}
    PROVE  \E i \in S : \A j \in S : j <= i
<1> DEFINE T == {n - i : i \in S}
<1>1. T \in SUBSET Nat /\ T # {}
  <2>1. \A i \in S : n - i \in Nat
    OBVIOUS
  <2> QED
    BY <2>1
<1>2. PICK k \in T : \A l \in T : k <= l
  <2> HIDE DEF T
  <2> QED
    BY <1>1, LeastExists
<1>3. PICK i \in S : k = n - i
  OBVIOUS
<1>4. ASSUME NEW j \in S PROVE j <= i
  <2>1. k <= n - j
    BY <1>2
  <2> QED
    BY <1>3, <2>1
<1> QED
  BY <1>4

(* What is trimmed is a text still.                                        *)
LEMMA TrimmedText == \A e \in Seq(Octet) : strTrim(e) \in Seq(Octet)
<1> SUFFICES ASSUME NEW e \in Seq(Octet) PROVE strTrim(e) \in Seq(Octet)
  OBVIOUS
<1> DEFINE kept == {i \in DOMAIN e : e[i] \notin Trimmed}
           Initial == CHOOSE i \in kept : \A j \in kept : i <= j
           Final == CHOOSE i \in kept : \A j \in kept : j <= i
<1>1. Len(e) \in Nat /\ DOMAIN e = 1 .. Len(e)
  BY LenProperties
<1>2. kept \in SUBSET Nat /\ kept \in SUBSET (0 .. Len(e)) /\ kept \subseteq 1 .. Len(e)
  BY <1>1
<1>3. strTrim(e) = IF kept = {} THEN <<>> ELSE SubSeq(e, Initial, Final)
  BY DEF strTrim
<1> HIDE DEF kept
<1>4. CASE kept = {}
  BY <1>3, <1>4, EmptySeq
<1>5. CASE kept # {}
  <2>1. Initial \in kept
    BY <1>2, <1>5, LeastExists
  <2>2. Final \in kept
    BY <1>1, <1>2, <1>5, LastExists
  <2> HIDE DEF Initial, Final
  <2>3. Initial \in 1 .. Len(e) /\ Final \in 1 .. Len(e)
    BY <1>2, <2>1, <2>2
  <2>4. Initial \in Int /\ Final \in Int /\ \A i \in Initial .. Final : e[i] \in Octet
    <3>1. \A i \in Initial .. Final : i \in 1 .. Len(e)
      BY <1>1, <2>3
    <3> QED
      BY <2>3, <3>1, ElementOfSeq
  <2>5. SubSeq(e, Initial, Final) \in Seq(Octet)
    BY <2>4, SubSeqProperties
  <2> QED
    BY <1>3, <1>5, <2>5
<1> QED
  BY <1>4, <1>5

(* Where there is no bad escape the loop reads characters, ...             *)
LEMMA GoodRead ==
    ASSUME NEW t \in Seq(Octet), ~ BadItem(t), NEW f, Unescapes(f, t),
           NEW i \in Nat \ {0}, Fresh(t, i)
    PROVE  f[i] \in Seq(Chars)
<1>1. ~ BadFrom(t, i)
  BY DEF BadFrom, BadItem
<1> QED
  BY <1>1, ReadsOrFails DEF Reads, Fails

(* ... and if it does there was none, and they mean what the text means.   *)
LEMMA ReadMeans ==
    ASSUME NEW t \in Seq(Octet), NEW f, Unescapes(f, t), f[1] \in Seq(Chars)
    PROVE  ~ BadItem(t) /\ ItemMeans(t) = Bare(f[1])
<1>1. Len(t) \in Nat /\ DOMAIN t = 1 .. Len(t)
  BY LenProperties
<1>2. BadEscape \notin ToSet(f[1])
  <2>1. \A k \in DOMAIN f[1] : f[1][k] \in Chars
    BY ElementOfSeq, LenProperties
  <2> QED
    BY <2>1, NotBad DEF ToSet
<1>3. Reads(f, t, 1)
  BY <1>2, FirstFresh, ReadsOrFails DEF Fails
<1>4. ~ BadItem(t)
  BY <1>1, <1>3 DEF Reads, BadFrom, BadItem
<1>5. ItemMeans(t) = Flat(Parts(t), 0) \o Bare(f[1])
  <2>1. 1 <= Len(t) + 1 /\ 1 - 1 = 0
    BY <1>1
  <2> QED
    BY <1>3, <2>1 DEF Reads
<1>6. Flat(Parts(t), 0) = <<>>
  BY FlattenEmpty DEF Flat
<1>7. Bare(f[1]) \in Seq(Octet)
  BY BareIs
<1> QED
  BY <1>4, <1>5, <1>6, <1>7, ConcatEmptySeq

(* The first character behind the sign is read afresh.                     *)
LEMMA FreshBehind ==
    ASSUME NEW t \in Seq(Octet), ~ BadItem(t), NEW e \in 1 .. Len(t), EndsKey(t, e)
    PROVE  Fresh(t, e + 1)
<1>1. e \in Nat /\ Len(t) \in Nat /\ DOMAIN t = 1 .. Len(t)
  BY LenProperties
<1>2. At(t, e) = Equal
  BY <1>1 DEF At, EndsKey
<1>3. Equal # Backslash /\ Equal \notin Hex
  BY DEF Equal, Backslash, Hex, Digit
<1>4. Even(t, e + 1)
  BY <1>1, <1>2, <1>3, EvenBehind
<1>5. ~ Starts(t, (e + 1) - 2)
  <2>1. (e + 1) - 2 = e - 1
    BY <1>1
  <2> QED
    BY <2>1 DEF EndsKey
<1>6. ~ (Starts(t, (e + 1) - 3) /\ At(t, (e + 1) - 2) = LowerX)
  <2> SUFFICES ASSUME Starts(t, e - 2), At(t, e - 1) = LowerX PROVE FALSE
    <3>1. (e + 1) - 3 = e - 2 /\ (e + 1) - 2 = e - 1
      BY <1>1
    <3> QED
      BY <3>1
  <2>1. e - 2 \in Int /\ (e - 2) + 1 = e - 1 /\ (e - 2) + 2 = e
    BY <1>1
  <2>2. e - 2 \in DOMAIN t
    <3>1. At(t, e - 2) # EOF
      BY DEF Starts, Backslash, EOF
    <3> QED
      BY <2>1, <3>1, FoundAt
  <2>3. HasDigits(t, e - 2)
    BY <2>1, <2>2 DEF BadItem
  <2> QED
    BY <1>2, <1>3, <2>1, <2>3 DEF HasDigits
<1> QED
  BY <1>4, <1>5, <1>6 DEF Fresh

(* The loop of strToItem, which goes over an item once and decides at each *)
(* character by what it has just read, gives every item what its escapes   *)
(* mean: it dereferences NULL just if one of them is malformed, and divides*)
(* the rest at the first sign that no backslash protects, wherever that    *)
(* stands among the escapes, into a key and a value that mean what they    *)
(* mean alone (ParamSet.cpp).                                              *)
THEOREM ItemsRead ==
    \A equation \in Seq(Octet) :
        LET t == strTrim(equation)
        IN  /\ Crashes(equation) <=> BadItem(t)
            /\ ~ BadItem(t) =>
                   /\ (\A i \in DOMAIN t : ~ EndsKey(t, i)) =>
                          strToItem(equation) = << <<>>, ItemMeans(t)>>
                   /\ \A i \in DOMAIN t :
                          EndsKey(t, i) /\ (\A j \in 1 .. i - 1 : ~ EndsKey(t, j)) =>
                              strToItem(equation) =
                                  <<ItemMeans(SubSeq(t, 1, i - 1)), ItemMeans(From(t, i + 1))>>
<1> SUFFICES ASSUME NEW equation \in Seq(Octet), NEW t, t = strTrim(equation)
             PROVE  /\ Crashes(equation) <=> BadItem(t)
                    /\ ~ BadItem(t) =>
                           /\ (\A i \in DOMAIN t : ~ EndsKey(t, i)) =>
                                  strToItem(equation) = << <<>>, ItemMeans(t)>>
                           /\ \A i \in DOMAIN t :
                                  EndsKey(t, i) /\ (\A j \in 1 .. i - 1 : ~ EndsKey(t, j)) =>
                                      strToItem(equation) =
                                          <<ItemMeans(SubSeq(t, 1, i - 1)),
                                            ItemMeans(From(t, i + 1))>>
  OBVIOUS
<1>1. t \in Seq(Octet)
  BY TrimmedText
<1>2. PICK f : Unescapes(f, t) /\ Unescaped(t) = f[1]
  BY <1>1, UnescapedIs
<1>3. strToItem(equation) = KeyAndValue(f[1]) /\ (Crashes(equation) <=> BadEscape \in ToSet(f[1]))
  BY <1>2 DEF strToItem, Crashes
<1>4. DOMAIN t = 1 .. Len(t) /\ Len(t) \in Nat
  BY <1>1, LenProperties
<1>5. Crashes(equation) <=> BadItem(t)
  <2>1. Reads(f, t, 1) \/ Fails(f, t, 1)
    BY <1>1, <1>2, FirstFresh, ReadsOrFails
  <2>2. ASSUME Reads(f, t, 1) PROVE ~ Crashes(equation) /\ ~ BadItem(t)
    <3>1. f[1] \in Seq(Chars)
      BY <2>2 DEF Reads
    <3>2. \A k \in DOMAIN f[1] : f[1][k] \in Chars
      BY <3>1, ElementOfSeq, LenProperties
    <3> QED
      BY <1>1, <1>2, <1>3, <3>1, <3>2, NotBad, ReadMeans DEF ToSet
  <2>3. ASSUME Fails(f, t, 1) PROVE Crashes(equation) /\ BadItem(t)
    BY <1>3, <2>3 DEF Fails, BadFrom, BadItem
  <2> QED
    BY <2>1, <2>2, <2>3
<1>6. ASSUME ~ BadItem(t), \A i \in DOMAIN t : ~ EndsKey(t, i)
      PROVE  strToItem(equation) = << <<>>, ItemMeans(t)>>
  <2>1. f[1] \in Seq(Chars)
    BY <1>1, <1>2, <1>6, FirstFresh, GoodRead
  <2>2. Keyfree(f[1])
    BY <1>1, <1>2, <1>6, NoKey
  <2>3. ItemMeans(t) = Bare(f[1])
    BY <1>1, <1>2, <2>1, ReadMeans
  <2> QED
    BY <1>3, <2>2, <2>3, WithoutSign
<1>7. ASSUME ~ BadItem(t), NEW i \in DOMAIN t, EndsKey(t, i), \A j \in 1 .. i - 1 : ~ EndsKey(t, j)
      PROVE  strToItem(equation) = <<ItemMeans(SubSeq(t, 1, i - 1)), ItemMeans(From(t, i + 1))>>
  <2>1. i \in 1 .. Len(t)
    BY <1>4
  <2>2. SubSeq(t, 1, i - 1) \in Seq(Octet) /\ From(t, i + 1) \in Seq(Octet)
    BY <1>1, <2>1, PrefixIs, SuffixIs
  <2>3. PICK g : Unescapes(g, SubSeq(t, 1, i - 1))
    BY <2>2, UnescapedIs
  <2>4. PICK h : Unescapes(h, From(t, i + 1))
    BY <2>2, UnescapedIs
  <2>5. f[i + 1] \in Seq(Chars)
    <3>1. Fresh(t, i + 1)
      BY <1>1, <1>7, <2>1, FreshBehind
    <3>2. i + 1 \in Nat \ {0}
      BY <1>4, <2>1
    <3> QED
      BY <1>1, <1>2, <1>7, <3>1, <3>2, GoodRead
  <2>6. /\ g[1] \in Seq(Chars) /\ Keyfree(g[1])
        /\ f[1] = g[1] \o (<<ItemChar(Equal, TRUE)>> \o f[i + 1])
    <3>1. /\ Fresh(t, i)
          /\ g[1] \in Seq(Chars) /\ Keyfree(g[1])
          /\ f[1] = g[1] \o (<<ItemChar(Equal, TRUE)>> \o f[i + 1])
      <4>1. Unescapes(f, t)
        BY <1>2
      <4> QED
        BY ONLY <1>1, <1>7, <2>1, <2>3, <2>5, <4>1, KeyRead
    <3> QED
      BY <3>1
  <2>7. h[1] = f[i + 1]
    BY <1>1, <1>2, <2>1, <2>4, ValueRead
  <2>8. ItemMeans(SubSeq(t, 1, i - 1)) = Bare(g[1])
    BY <2>2, <2>3, <2>6, ReadMeans
  <2>9. ItemMeans(From(t, i + 1)) = Bare(f[i + 1])
    BY <2>2, <2>4, <2>5, <2>7, ReadMeans
  <2>10. ItemChar(Equal, TRUE) \in Chars /\ ItemChar(Equal, TRUE).isEqual
    BY DEF ItemChar, Chars, Equal, Octet
  <2>11. KeyAndValue(f[1]) = <<Bare(g[1]), Bare(f[i + 1])>>
    BY <2>5, <2>6, <2>10, WithSign
  <2> QED
    BY <1>3, <2>8, <2>9, <2>11
<1> QED
  BY <1>5, <1>6, <1>7
=============================================================================
