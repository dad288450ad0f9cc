-------------------------------- MODULE Text --------------------------------
(***************************************************************************)
(* Texts, as sequences of bytes, and numbers, as the C++ code converts     *)
(* them: the helpers of stringTool.cpp and stringTool_util.h, and what the *)
(* standard library does for them and for json.hpp.                        *)
(*                                                                         *)
(* A double is a decimal number m * 10^e in lowest terms, as long as it    *)
(* has few digits, which holds of every number in a configuration file;    *)
(* its exponent has a limit.  Integers have IntBits or LongBits bits.      *)
(***************************************************************************)
EXTENDS Integers, Sequences, SequencesExt

CONSTANTS IntBits,    \* width of int and int32_t (32)
          LongBits,   \* width of JSON's integers (64)
          MaxExp,     \* a double is below 10^MaxExp (308)
          Garbage     \* what uninitialised numbers may hold

ASSUME TextAssumption ==
    /\ IntBits \in Nat /\ LongBits \in Nat /\ 1 < IntBits /\ IntBits <= LongBits
    /\ MaxExp \in Nat \ {0}
    /\ Garbage \subseteq Int /\ Garbage # {}

\* The printable characters up to 95, and from 97 on.
Symbols == " !\"#$%&'()*+,-./0123456789:;<=>?@ABCDEFGHIJKLMNOPQRSTUVWXYZ[\\]^_"
Small == "abcdefghijklmnopqrstuvwxyz{|}~"

Code ==
    LET char(s, k) == SubSeq(s, k, k)
        from(s, first) == [c \in {char(s, k) : k \in 1 .. Len(s)} |->
                              first - 1 + CHOOSE k \in 1 .. Len(s) : char(s, k) = c]
    IN  from(Symbols, 32) @@ from(Small, 97)

\* The bytes of the string s, and of a string of one character.
Bytes(s) == [i \in 1 .. Len(s) |-> Code[SubSeq(s, i, i)]]
Byte(c) == Code[c]

Blank == 32
Quote == 34
Plus == 43
Comma == 44
Minus == 45
Dot == 46
Slash == 47
Zero == 48
Equal == 61
UpperE == 69
Backslash == 92
LowerB == 98
LowerE == 101
LowerF == 102
LowerN == 110
LowerR == 114
LowerT == 116
LowerU == 117
LowerV == 118
LowerX == 120
Bar == 124

Digit == 48 .. 57
Sign == {Plus, Minus}
ExpSign == {UpperE, LowerE}

\* A byte of t, or the end of it.
EOF == -1
At(t, i) == IF i \in DOMAIN t THEN t[i] ELSE EOF

From(t, i) == SubSeq(t, i, Len(t))

-----------------------------------------------------------------------------
(* stringTool.cpp.                                                         *)

Trimmed == {9, 10, Blank}

strTrim(t) ==
    LET kept == {i \in DOMAIN t : t[i] \notin Trimmed}
    IN  IF kept = {} THEN <<>>
        ELSE SubSeq(t, CHOOSE i \in kept : \A j \in kept : i <= j,
                       CHOOSE i \in kept : \A j \in kept : j <= i)

\* The parts of t between the bytes delim.
strSplit(t, delim) ==
    LET cuts == {0, Len(t) + 1} \union {i \in DOMAIN t : t[i] = delim}
        ends == SetToSortSeq(cuts, LAMBDA i, j : i < j)
    IN  [k \in 1 .. Len(ends) - 1 |-> SubSeq(t, ends[k] + 1, ends[k + 1] - 1)]

Hex == Digit \union 65 .. 70 \union 97 .. 102

\* Mutant: a letter is taken for a digit.
hexCharToBinFlat(c) == c - 48

hexCharToBin(c) ==
    CASE c \in Digit -> c - 48
      [] c \in 65 .. 70 -> c - 55
      [] c \in 97 .. 102 -> c - 87

-----------------------------------------------------------------------------
(* Numbers.                                                                *)

Wrap(n) == ((n + 2^(IntBits - 1)) % 2^IntBits) - 2^(IntBits - 1)
IntMin == -(2^(IntBits - 1))
IntMax == 2^(IntBits - 1) - 1

\* The digits of a natural number, and the number of a sequence of digits.
DigitsOf[n \in Nat] ==
    IF n < 10 THEN <<Zero + n>> ELSE Append(DigitsOf[n \div 10], Zero + (n % 10))
NatOf(digits) == FoldLeft(LAMBDA n, c : 10 * n + c - Zero, 0, digits)

Abs(n) == IF n < 0 THEN -n ELSE n

\* m * 10^e in lowest terms.
Decimal(m, e) ==
    IF m = 0 THEN [m |-> 0, e |-> 0]
    ELSE LET k == CHOOSE k \in 0 .. 9 : m % 10^k = 0 /\ (m \div 10^k) % 10 # 0
         IN  [m |-> m \div 10^k, e |-> e + k]
ZeroFloat == Decimal(0, 0)

\* The position of the decimal point, counted from the first digit.
Magnitude(d) == Len(DigitsOf[Abs(d.m)]) + d.e
Infinite(d) == d.m # 0 /\ Magnitude(d) > MaxExp

\* (int) d: what the processor yields for what does not fit is the least int.
Truncate(d) ==
    LET n == IF d.e >= 0 THEN d.m * 10^d.e
             ELSE IF d.m < 0 THEN -(Abs(d.m) \div 10^(-d.e)) ELSE d.m \div 10^(-d.e)
    IN  IF d.m = 0 \/ Magnitude(d) <= 0 THEN 0
        ELSE IF Magnitude(d) > 9 THEN IntMin
        ELSE IF n \in IntMin .. IntMax THEN n ELSE IntMin

\* A set of moves <<state, bytes, state>> run on t from i: <<state, next>>.
Run(moves, start, t, i) ==
    LET f[s \in STRING, j \in Nat] ==
            LET to == {m \in moves : m[1] = s /\ At(t, j) \in m[2]}
            IN  IF to = {} THEN <<s, j>> ELSE f[(CHOOSE m \in to : TRUE)[3], j + 1]
    IN  f[start, i]

(* strtod on a number in full: what is below the least double is zero, what*)
(* is too large is infinite.                                               *)
strtod(t) ==
    LET e == CHOOSE i \in 1 .. Len(t) + 1 :
                 /\ At(t, i) \in ExpSign \union {EOF}
                 /\ \A j \in 1 .. i - 1 : t[j] \notin ExpSign
        p == CHOOSE i \in 1 .. e :
                 /\ i = e \/ t[i] = Dot
                 /\ \A j \in 1 .. i - 1 : t[j] # Dot
        digits == SelectSeq(SubSeq(t, 1, e - 1), LAMBDA c : c \in Digit)
        power == NatOf(SelectSeq(From(t, e), LAMBDA c : c \in Digit))
        shift == IF At(t, e + 1) = Minus THEN -power ELSE power
        frac == IF p < e THEN e - 1 - p ELSE 0
        last == CHOOSE k \in 0 .. Len(digits) :
                    (k > 0 => digits[k] # Zero) /\ \A l \in k + 1 .. Len(digits) : digits[l] = Zero
        d == Decimal((IF At(t, 1) = Minus THEN -1 ELSE 1) * NatOf(SubSeq(digits, 1, last)),
                     shift - frac + Len(digits) - last)
    IN  IF d.m # 0 /\ Magnitude(d) < -MaxExp THEN ZeroFloat ELSE d

Space == 9 .. 13 \union {Blank}
SkipSpace(t) ==
    LET kept == {i \in DOMAIN t : t[i] \notin Space}
    IN  IF kept = {} THEN <<>> ELSE From(t, CHOOSE i \in kept : \A j \in kept : i <= j)

IntMoves == {<<"start", Sign, "sign">>, <<"start", Digit, "int">>,
             <<"sign", Digit, "int">>, <<"int", Digit, "int">>}

(* convertTo<int32_t>, that is operator>> of an istringstream: without a   *)
(* digit it yields 0, and the next or last int if the number is too large; *)
(* without anything at all the variable is not set.                        *)
convertToInt(t) ==
    LET u == SkipSpace(t)
        end == Run(IntMoves, "start", u, 1)
        n == NatOf(SelectSeq(SubSeq(u, 1, end[2] - 1), LAMBDA c : c \in Digit))
        x == IF At(u, 1) = Minus THEN -n ELSE n
    IN  CASE u = <<>> -> Garbage
          [] u # <<>> /\ x > IntMax -> {IntMax}
          [] u # <<>> /\ x < IntMin -> {IntMin}
          [] u # <<>> /\ x \in IntMin .. IntMax -> {x}

FloatMoves == {<<"start", Sign, "sign">>,
               <<"start", Digit, "int">>, <<"sign", Digit, "int">>, <<"int", Digit, "int">>,
               <<"start", {Dot}, "dot">>, <<"sign", {Dot}, "dot">>, <<"dot", Digit, "frac">>,
               <<"int", {Dot}, "frac">>, <<"frac", Digit, "frac">>,
               <<"int", ExpSign, "exp">>, <<"frac", ExpSign, "exp">>,
               <<"exp", Sign, "expsign">>, <<"exp", Digit, "power">>,
               <<"expsign", Digit, "power">>, <<"power", Digit, "power">>}

(* convertTo<double_t>: 0 if what looks like a number is none, and the     *)
(* largest double instead of an infinite one.                              *)
convertToDouble(t) ==
    LET u == SkipSpace(t)
        end == Run(FloatMoves, "start", u, 1)
        d == strtod(SubSeq(u, 1, end[2] - 1))
    IN  CASE u = <<>> -> {Decimal(g, 0) : g \in Garbage}
          [] u # <<>> /\ end[1] \notin {"int", "frac", "power"} -> {ZeroFloat}
          [] u # <<>> /\ end[1] \in {"int", "frac", "power"} ->
                 IF Infinite(d) THEN {Decimal(IF d.m < 0 THEN -1 ELSE 1, MaxExp - 1)} ELSE {d}
=============================================================================
