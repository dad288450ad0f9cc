-------------------------------- MODULE Json --------------------------------
(***************************************************************************)
(* What the program uses of json.hpp: operator>> of a value from a stream  *)
(* (lexer and parser, without a callback), items(), get<T>(), and dump(4). *)
(* A text is a sequence of bytes, its end is EOF.                          *)
(*                                                                         *)
(* A value is a record with one field, named for its type.                 *)
(***************************************************************************)
EXTENDS Text

Null == [null |-> TRUE]
TypeOf(v) == CHOOSE type \in DOMAIN v : TRUE

-----------------------------------------------------------------------------
(* scan_string.  A character is its bytes, and where the next one starts.  *)

Char(bytes, next) == [bytes |-> bytes, next |-> next]
Bad == Char(<<>>, 0)

\* Escapes of one character.
Escapes == {Quote, Backslash, Slash, LowerB, LowerF, LowerN, LowerR, LowerT}
Escape(c) ==
    CASE c = LowerB -> 8
      [] c = LowerF -> 12
      [] c = LowerN -> 10
      [] c = LowerR -> 13
      [] c = LowerT -> 9
      [] OTHER -> c

Codepoint(t, i) ==
    LET digit(k) == hexCharToBin(t[i + k])
    IN  IF \A k \in 0 .. 3 : At(t, i + k) \in Hex
        THEN 4096 * digit(0) + 256 * digit(1) + 16 * digit(2) + digit(3)
        ELSE -1

Utf8(cp) ==
    LET tail(n) == 128 + (n % 64)
    IN  CASE cp < 128 -> <<cp>>
          [] 127 < cp /\ cp < 2048 -> <<192 + (cp \div 64), tail(cp)>>
          [] 2047 < cp /\ cp < 65536 -> <<224 + (cp \div 4096), tail(cp \div 64), tail(cp)>>
          [] 65535 < cp ->
                 <<240 + (cp \div 262144), tail(cp \div 4096), tail(cp \div 64), tail(cp)>>

IsHighSurrogate(cp) == 55296 <= cp /\ cp <= 56319
IsLowSurrogate(cp) == 56320 <= cp /\ cp <= 57343

\* Mutant: a surrogate may stand alone.
UnicodeEscapeLoneSurrogate(t, i) ==
    LET c1 == Codepoint(t, i)
    IN  IF c1 = -1 THEN Bad ELSE Char(Utf8(c1), i + 4)

\* What follows \u, at i: four digits, or two pairs of surrogates.
UnicodeEscape(t, i) ==
    LET c1 == Codepoint(t, i)
        c2 == Codepoint(t, i + 6)
    IN  CASE c1 = -1 \/ IsLowSurrogate(c1) -> Bad
          [] IsHighSurrogate(c1) ->
                 IF At(t, i + 4) = Backslash /\ At(t, i + 5) = LowerU /\ IsLowSurrogate(c2)
                 THEN Char(Utf8(c1 * 1024 + c2 - 56613888), i + 10)
                 ELSE Bad
          [] OTHER -> Char(Utf8(c1), i + 4)

\* The bytes that must follow the byte c; <<{}>> if c cannot be a first byte.
Tail8 == 128 .. 191
Following(c) ==
    CASE c \in 32 .. 127 -> <<>>
      [] c \in 194 .. 223 -> <<Tail8>>
      [] c = 224 -> <<160 .. 191, Tail8>>
      [] c \in 225 .. 236 \union {238, 239} -> <<Tail8, Tail8>>
      [] c = 237 -> <<128 .. 159, Tail8>>
      [] c = 240 -> <<144 .. 191, Tail8, Tail8>>
      [] c \in 241 .. 243 -> <<Tail8, Tail8, Tail8>>
      [] c = 244 -> <<128 .. 143, Tail8, Tail8>>
      [] OTHER -> <<{}>>

StringChar(t, i) ==
    LET c == At(t, i)
        e == At(t, i + 1)
        after == Following(c)
        n == Len(after)
    IN  CASE c = Backslash /\ e \in Escapes -> Char(<<Escape(e)>>, i + 2)
          [] c = Backslash /\ e = LowerU -> UnicodeEscape(t, i + 2)
          [] c # Backslash /\ \A k \in 1 .. n : At(t, i + k) \in after[k] ->
                 Char(SubSeq(t, i, i + n), i + n + 1)
          [] OTHER -> Bad

Joined(bytes, rest) == IF rest = Bad THEN Bad ELSE Char(bytes \o rest.bytes, rest.next)
Continued(f, c) == IF c = Bad THEN Bad ELSE Joined(c.bytes, f[c.next])

\* From i, behind the opening quote, to the closing one.
ScanString(t, i) ==
    LET f[j \in Nat] == IF At(t, j) = Quote THEN Char(<<>>, j + 1)
                        ELSE Continued(f, StringChar(t, j))
    IN  f[i]

-----------------------------------------------------------------------------
(* scan_number: the automaton, whose other moves lead out of the number,   *)
(* and the conversion, to a double if an integer type is too small.        *)

\* Mutant: "1." is a number.
NumberMovesBareDot ==
    {<<"init", {Minus}, "minus">>,
     <<"init", {Zero}, "zero">>, <<"minus", {Zero}, "zero">>,
     <<"init", Digit \ {Zero}, "any1">>, <<"minus", Digit \ {Zero}, "any1">>,
     <<"any1", Digit, "any1">>,
     <<"zero", {Dot}, "decimal2">>, <<"any1", {Dot}, "decimal2">>,
     <<"decimal2", Digit, "decimal2">>,
     <<"zero", ExpSign, "exponent">>, <<"any1", ExpSign, "exponent">>,
     <<"decimal2", ExpSign, "exponent">>,
     <<"exponent", Sign, "sign">>, <<"exponent", Digit, "any2">>,
     <<"sign", Digit, "any2">>, <<"any2", Digit, "any2">>}

NumberMoves ==
    {<<"init", {Minus}, "minus">>,
     <<"init", {Zero}, "zero">>, <<"minus", {Zero}, "zero">>,
     <<"init", Digit \ {Zero}, "any1">>, <<"minus", Digit \ {Zero}, "any1">>,
     <<"any1", Digit, "any1">>,
     <<"zero", {Dot}, "decimal1">>, <<"any1", {Dot}, "decimal1">>,
     <<"decimal1", Digit, "decimal2">>, <<"decimal2", Digit, "decimal2">>,
     <<"zero", ExpSign, "exponent">>, <<"any1", ExpSign, "exponent">>,
     <<"decimal2", ExpSign, "exponent">>,
     <<"exponent", Sign, "sign">>, <<"exponent", Digit, "any2">>,
     <<"sign", Digit, "any2">>, <<"any2", Digit, "any2">>}

NumberDone == {"zero", "any1", "decimal2", "any2"}

NumberValue(text) ==
    LET isInt == \A i \in DOMAIN text : text[i] \in Digit \union {Minus}
        n == NatOf(SelectSeq(text, LAMBDA c : c \in Digit))
    IN  CASE isInt /\ text[1] # Minus /\ n < 2^LongBits -> [unsigned |-> n]
          [] isInt /\ text[1] = Minus /\ n <= 2^(LongBits - 1) -> [integer |-> -n]
          [] OTHER -> [float |-> strtod(text)]

-----------------------------------------------------------------------------
(* scan: a token is its type, its value, if it has one, and where the next *)
(* one starts.                                                             *)

Token(type, value, next) == [type |-> type, value |-> value, next |-> next]

Whitespace == {9, 10, 13, Blank}
Structural ==
    Byte("[") :> "[" @@ Byte("]") :> "]" @@ Byte("{") :> "{" @@ Byte("}") :> "}"
        @@ Byte(":") :> ":" @@ Byte(",") :> ","
Keywords == [true |-> [boolean |-> TRUE], false |-> [boolean |-> FALSE], null |-> Null]

ScanLiteral(t, i) ==
    LET fits == {w \in DOMAIN Keywords : \A k \in 1 .. Len(w) : At(t, i + k - 1) = Bytes(w)[k]}
    IN  IF fits = {} THEN Token("parse_error", Null, i)
        ELSE LET w == CHOOSE w \in fits : TRUE
             IN  Token("value", Keywords[w], i + Len(w))

QuotedToken(s) ==
    IF s = Bad THEN Token("parse_error", Null, 0) ELSE Token("value", [string |-> s.bytes], s.next)

NumberToken(t, i, end) ==
    IF end[1] \in NumberDone THEN Token("value", NumberValue(SubSeq(t, i, end[2] - 1)), end[2])
    ELSE Token("parse_error", Null, 0)

ScanAt(t, i, c) ==
    CASE c \in DOMAIN Structural -> Token(Structural[c], Null, i + 1)
      [] c = Quote -> QuotedToken(ScanString(t, i + 1))
      [] c \in {Minus} \union Digit -> NumberToken(t, i, Run(NumberMoves, "init", t, i))
      [] c \in {0, EOF} -> Token("end_of_input", Null, i)
      [] OTHER -> ScanLiteral(t, i)

Scan(t, i) ==
    LET j == CHOOSE j \in i .. Len(t) + 1 :
                 At(t, j) \notin Whitespace /\ \A k \in i .. j - 1 : t[k] \in Whitespace
    IN  ScanAt(t, j, At(t, j))

-----------------------------------------------------------------------------
(* parse and parse_internal: the first value of a text, whatever follows.  *)

Parsed(v, next) == [ok |-> TRUE, v |-> v, next |-> next]
Failed == [ok |-> FALSE, v |-> Null, next |-> 0]

\* Mutant: the last of several members with one key counts.
ObjectOfLast(members) ==
    [key \in {members[k][1] : k \in DOMAIN members} |->
        members[CHOOSE k \in DOMAIN members :
                    /\ members[k][1] = key
                    /\ \A l \in k + 1 .. Len(members) : members[l][1] # key][2]]

\* emplace keeps the first of several members with one key.
ObjectOf(members) ==
    [key \in {members[k][1] : k \in DOMAIN members} |->
        members[CHOOSE k \in DOMAIN members :
                    /\ members[k][1] = key
                    /\ \A l \in 1 .. k - 1 : members[l][1] # key][2]]

IsKey(token) == token.type = "value" /\ TypeOf(token.value) = "string"
IsInfinite(v) == TypeOf(v) = "float" /\ Infinite(v.float)

(* f reads a value, the members of an object or the elements of an array, *)
(* with the mark that ends them.                                           *)
Prefixed(x, rest) == IF rest.ok THEN Parsed(<<x>> \o rest.v, rest.next) ELSE Failed

ParseFollows(f, what, item, follows) ==
    CASE follows.type = (IF what = "members" THEN "}" ELSE "]") ->
           Parsed(<<item.v>>, follows.next)
      [] follows.type = "," -> Prefixed(item.v, f[what, follows.next])
      [] OTHER -> Failed

ParseItem(t, f, what, item) ==
    IF item.ok THEN ParseFollows(f, what, item, Scan(t, item.next)) ELSE Failed

WithKey(key, v) == [v EXCEPT !.v = <<key, @>>]

ParseColon(t, f, key, colon) ==
    IF colon.type = ":" THEN ParseItem(t, f, "members", WithKey(key, f["value", colon.next]))
    ELSE Failed

ParseMember(t, f, token) ==
    IF IsKey(token) THEN ParseColon(t, f, token.value.string, Scan(t, token.next)) ELSE Failed

Inside(end, first, all) == IF first.type = end THEN Parsed(<<>>, first.next) ELSE all
AsObject(all) ==
    IF all.ok THEN Parsed([object |-> ObjectOf(all.v)], all.next) ELSE Failed
AsArray(all) == IF all.ok THEN Parsed([array |-> all.v], all.next) ELSE Failed

ParseValue(t, f, token) ==
    CASE token.type = "value" /\ ~IsInfinite(token.value) -> Parsed(token.value, token.next)
      [] token.type = "{" ->
           AsObject(Inside("}", Scan(t, token.next), f["members", token.next]))
      [] token.type = "[" ->
           AsArray(Inside("]", Scan(t, token.next), f["elements", token.next]))
      [] OTHER -> Failed

ParseFrom(t, start) ==
    LET f[what \in STRING, i \in Nat] ==
            CASE what = "value" -> ParseValue(t, f, Scan(t, i))
              [] what = "members" -> ParseMember(t, f, Scan(t, i))
              [] what = "elements" -> ParseItem(t, f, what, f["value", i])
    IN  f["value", start]

\* The stream skips a byte order mark.
ByteOrderMark == <<239, 187, 191>>
Parse(t) == ParseFrom(t, IF IsPrefix(ByteOrderMark, t) THEN 4 ELSE 1)

-----------------------------------------------------------------------------
(* items(), in the order of the keys, and get<T>().                        *)

Less(a, b) ==
    \E k \in 1 .. Len(b) :
        /\ k <= Len(a) + 1
        /\ SubSeq(a, 1, k - 1) = SubSeq(b, 1, k - 1)
        /\ k = Len(a) + 1 \/ (k <= Len(a) /\ a[k] < b[k])

Items(v) ==
    CASE TypeOf(v) = "object" ->
           LET keys == SetToSortSeq(DOMAIN v.object, Less)
           IN  [k \in DOMAIN keys |-> <<keys[k], v.object[keys[k]]>>]
      [] TypeOf(v) = "array" -> [k \in DOMAIN v.array |-> <<DigitsOf[k - 1], v.array[k]>>]
      [] TypeOf(v) = "null" -> <<>>
      [] OTHER -> << <<<<>>, v>> >>

\* Whether get<T>() of v throws, for int, double and std::string, ...
GetFits(kind, v) ==
    TypeOf(v) \in CASE kind = "INTEGER" -> {"unsigned", "integer", "float", "boolean"}
                  [] kind = "FLOAT64" -> {"unsigned", "integer", "float"}
                  [] kind = "TEXT" -> {"string"}

\* ... and what it yields.
Get(kind, v) ==
    CASE kind = "TEXT" -> v.string
      [] kind # "TEXT" /\ TypeOf(v) \in {"unsigned", "integer"} ->
           IF kind = "INTEGER" THEN Wrap(v[TypeOf(v)]) ELSE Decimal(v[TypeOf(v)], 0)
      [] kind # "TEXT" /\ TypeOf(v) = "float" ->
           IF kind = "INTEGER" THEN Truncate(v.float) ELSE v.float
      [] kind # "TEXT" /\ TypeOf(v) = "boolean" -> IF v.boolean THEN 1 ELSE 0

-----------------------------------------------------------------------------
(* dump.                                                                   *)

(* decode: the state of the decoder of UTF-8 after one more byte.          *)
ByteClass(b) ==
    CASE b \in 0 .. 127 -> 0     [] b \in 128 .. 143 -> 1
      [] b \in 144 .. 159 -> 9   [] b \in 160 .. 191 -> 7
      [] b \in {192, 193} -> 8   [] b \in 194 .. 223 -> 2
      [] b = 224 -> 10           [] b \in 225 .. 239 \ {237} -> 3
      [] b = 237 -> 4            [] b = 240 -> 11
      [] b \in 241 .. 243 -> 6   [] b = 244 -> 5
      [] b \in 245 .. 255 -> 8

Accept == 0
Reject == 1
FirstState == <<0, 1, 2, 3, 5, 8, 7, 1, 1, 1, 4, 6>>     \* by class, from Accept

Decode(state, b) ==
    LET class == ByteClass(b)
    IN  CASE state = Accept -> FirstState[class + 1]
          [] state = 2 /\ class \in {1, 7, 9} -> Accept
          [] state = 3 /\ class \in {1, 7, 9} -> 2
          [] state = 4 /\ class = 7 -> 2
          [] state = 5 /\ class \in {1, 9} -> 2
          [] state = 6 /\ class \in {7, 9} -> 3
          [] state = 7 /\ class \in {1, 7, 9} -> 3
          [] state = 8 /\ class = 1 -> 3
          [] OTHER -> Reject

\* dump throws if a string is not UTF-8.
Dumpable(text) ==
    LET state[i \in 0 .. Len(text)] ==
            IF i = 0 THEN Accept ELSE Decode(state[i - 1], text[i])
    IN  state[Len(text)] = Accept

HexDigit(n) == IF n < 10 THEN Zero + n ELSE 87 + n

\* Mutant: control characters are copied.
DumpByteRaw(b) ==
    CASE b \in {Quote, Backslash} -> <<Backslash, b>>
      [] OTHER -> <<b>>

DumpByte(b) ==
    CASE b \in {Quote, Backslash} -> <<Backslash, b>>
      [] b \in {8, 9, 10, 12, 13} ->
           <<Backslash, CHOOSE c \in Escapes \ {b} : Escape(c) = b>>
      [] b \in 0 .. 31 \ {8, 9, 10, 12, 13} ->
           <<Backslash, LowerU, Zero, Zero, HexDigit(b \div 16), HexDigit(b % 16)>>
      [] b > 31 /\ b \notin {Quote, Backslash} -> <<b>>

DumpString(text) ==
    <<Quote>> \o FlattenSeq([i \in DOMAIN text |-> DumpByte(text[i])]) \o <<Quote>>

DumpInteger(n) == (IF n < 0 THEN <<Minus>> ELSE <<>>) \o DigitsOf[Abs(n)]

Zeros(n) == [i \in 1 .. n |-> Zero]
MinExp == -4
Digits10 == 15

AppendExponent(e) ==
    (IF e < 0 THEN <<Minus>> ELSE Bytes("+"))
        \o (IF Abs(e) < 10 THEN <<Zero>> ELSE <<>>) \o DigitsOf[Abs(e)]

(* format_buffer: the digits, which grisu2 found, with the point, or with  *)
(* an exponent; n is the position of the point.                            *)
FormatBuffer(digits, exponent) ==
    LET k == Len(digits)
        n == k + exponent
    IN  CASE k <= n /\ n <= Digits10 -> digits \o Zeros(n - k) \o Bytes(".0")
          [] n < k /\ 0 < n /\ n <= Digits10 ->
               SubSeq(digits, 1, n) \o <<Dot>> \o From(digits, n + 1)
          [] MinExp < n /\ n <= 0 -> Bytes("0.") \o Zeros(-n) \o digits
          [] n <= MinExp \/ n > Digits10 ->
               SubSeq(digits, 1, 1) \o (IF k = 1 THEN <<>> ELSE <<Dot>> \o From(digits, 2))
                   \o Bytes("e") \o AppendExponent(n - 1)

\* to_chars: grisu2 yields the shortest digits, those of the lowest terms.
DumpFloat(d) ==
    (IF d.m < 0 THEN <<Minus>> ELSE <<>>)
        \o (IF d.m = 0 THEN Bytes("0.0") ELSE FormatBuffer(DigitsOf[Abs(d.m)], d.e))

DumpScalar(v) ==
    CASE TypeOf(v) = "string" -> DumpString(v.string)
      [] TypeOf(v) = "integer" -> DumpInteger(v.integer)
      [] TypeOf(v) = "float" -> DumpFloat(v.float)

\* dump(4) of an object of scalars, by its items.
DumpObject(items) ==
    LET line(k) == Bytes("    ") \o DumpString(items[k][1]) \o Bytes(": ")
                       \o DumpScalar(items[k][2])
                       \o (IF k < Len(items) THEN Bytes(",") ELSE <<>>) \o <<10>>
    IN  IF items = <<>> THEN Bytes("{}")
        ELSE Bytes("{") \o <<10>> \o FlattenSeq([k \in DOMAIN items |-> line(k)]) \o Bytes("}")
=============================================================================
