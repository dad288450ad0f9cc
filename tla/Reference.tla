------------------------------ MODULE Reference ------------------------------
(***************************************************************************)
(* What a number, a string, an object and an escaped item are, stated      *)
(* without an order in which they are read: the grammar of RFC 8259, and   *)
(* the escapes of a command.  Json and Commands are compared with it.      *)
(***************************************************************************)
EXTENDS Json, Commands

-----------------------------------------------------------------------------
(* Numbers.                                                                *)

AllDigits(t) == \A i \in DOMAIN t : t[i] \in Digit
IsInt(t) ==
    LET u == IF At(t, 1) = Minus THEN Tail(t) ELSE t
    IN  u # <<>> /\ AllDigits(u) /\ (u[1] = Zero => Len(u) = 1)
IsFrac(t) == t = <<>> \/ (t[1] = Dot /\ Len(t) > 1 /\ AllDigits(Tail(t)))
IsExp(t) ==
    \/ t = <<>>
    \/ /\ t[1] \in ExpSign
       /\ LET u == IF At(t, 2) \in Sign THEN From(t, 3) ELSE Tail(t)
          IN  u # <<>> /\ AllDigits(u)

\* The parts of a number; there are none if t is not a number.
NumberParts(t) ==
    {p \in {<<SubSeq(t, 1, i), SubSeq(t, i + 1, j), From(t, j + 1)>> : i, j \in 0 .. Len(t)} :
        p[1] \o p[2] \o p[3] = t /\ IsInt(p[1]) /\ IsFrac(p[2]) /\ IsExp(p[3])}
IsNumber(t) == NumberParts(t) # {}

Digits(t) == SelectSeq(t, LAMBDA c : c \in Digit)
Signed(t, n) == IF Minus \in {t[i] : i \in DOMAIN t} THEN -n ELSE n
NumberOf(t) ==
    LET p == CHOOSE p \in NumberParts(t) : TRUE
    IN  Decimal(Signed(p[1], NatOf(Digits(p[1]) \o Digits(p[2]))),
                Signed(p[3], NatOf(Digits(p[3]))) - Len(Digits(p[2])))

\* n is the number d without its fraction.
IsWholePart(n, d) ==
    IF d.e >= 0 THEN n = d.m * 10^d.e
    ELSE /\ Abs(n) * 10^(-d.e) <= Abs(d.m) /\ Abs(d.m) < (Abs(n) + 1) * 10^(-d.e)
         /\ n # 0 => (n < 0 <=> d.m < 0)

-----------------------------------------------------------------------------
(* Strings.  Characters are those of Unicode, as UTF-8 spells them.        *)

Character(cp) == cp \in 0 .. 1114111 /\ ~ IsHighSurrogate(cp) /\ ~ IsLowSurrogate(cp)

\* The code point of a multibyte character, if b spells one.
Spelled(b) ==
    LET lead == IF Len(b) = 2 THEN 192 ELSE IF Len(b) = 3 THEN 224 ELSE 240
    IN  FoldLeft(LAMBDA n, c : 64 * n + (c - 128), b[1] - lead, Tail(b))
IsSpelled(b) == b[1] > 127 /\ Character(Spelled(b)) /\ Utf8(Spelled(b)) = b

HexText(t) == \A i \in DOMAIN t : t[i] \in Hex
HexOf(t) == FoldLeft(LAMBDA n, c : 16 * n + hexCharToBin(c), 0, t)

\* The characters that have a short escape, with its letter.
ShortEscapes ==
    {<<34, Quote>>, <<92, Backslash>>, <<47, 47>>, <<8, Byte("b")>>, <<12, Byte("f")>>,
     <<10, Byte("n")>>, <<13, Byte("r")>>, <<9, Byte("t")>>}

\* The texts that a unit of a string in JSON, u, stands for: one or none.
Unit(u) ==
    CASE Len(u) = 1 -> IF u[1] \in (32 .. 127) \ {Quote, Backslash} THEN {u} ELSE {}
      [] Len(u) = 2 /\ u[1] = Backslash ->
           {<<e[1]>> : e \in {e \in ShortEscapes : e[2] = u[2]}}
      [] Len(u) \in 2 .. 4 /\ u[1] # Backslash -> IF IsSpelled(u) THEN {u} ELSE {}
      [] Len(u) = 6 ->
           IF /\ SubSeq(u, 1, 2) = <<Backslash, LowerU>> /\ HexText(From(u, 3))
              /\ Character(HexOf(From(u, 3)))
           THEN {Utf8(HexOf(From(u, 3)))} ELSE {}
      [] Len(u) = 12 ->
           LET high == HexOf(SubSeq(u, 3, 6))
               low == HexOf(SubSeq(u, 9, 12))
           IN  IF /\ SubSeq(u, 1, 2) = <<Backslash, LowerU>> /\ HexText(SubSeq(u, 3, 6))
                  /\ SubSeq(u, 7, 8) = <<Backslash, LowerU>> /\ HexText(SubSeq(u, 9, 12))
                  /\ IsHighSurrogate(high) /\ IsLowSurrogate(low)
               THEN {Utf8(65536 + ((high % 1024) * 1024) + (low % 1024))} ELSE {}
      [] OTHER -> {}

\* The texts that the inside of a string stands for.
StringMeans(t) ==
    LET f[i \in Nat] ==
            IF i > Len(t) THEN {<<>>}
            ELSE UNION {UNION {{a \o b : b \in f[i + n]} : a \in Unit(SubSeq(t, i, i + n - 1))} :
                            n \in {1, 2, 3, 4, 6, 12} \intersect 1 .. Len(t) - i + 1}
    IN  f[1]

-----------------------------------------------------------------------------
(* Objects: the values that tokens i .. j derive.                          *)

TokensFrom(f, token) ==
    IF token.type \in {"parse_error", "end_of_input"} THEN <<>> ELSE <<token>> \o f[token.next]

Tokens(t) == LET f[i \in Nat] == TokensFrom(f, Scan(t, i)) IN f[1]

\* Of several members with one key the first one counts.
FirstOf(members, key) ==
    members[CHOOSE k \in DOMAIN members :
                members[k][1] = key /\ \A l \in 1 .. k - 1 : members[l][1] # key][2]

Derived(tokens, from, to) ==
    LET mark(i, type) == i \in DOMAIN tokens /\ tokens[i].type = type
        f[what \in STRING, i \in Nat, j \in Nat] ==
            CASE what = "value" ->
                   {tokens[k].value : k \in {k \in i .. j : i = j /\ mark(k, "value")
                                                 /\ ~IsInfinite(tokens[k].value)}}
                   \union {[object |-> [key \in {ms[k][1] : k \in DOMAIN ms} |-> FirstOf(ms, key)]] :
                             ms \in IF mark(i, "{") /\ mark(j, "}") /\ i < j
                                    THEN f["members", i + 1, j - 1] ELSE {}}
                   \union {[array |-> es] :
                             es \in IF mark(i, "[") /\ mark(j, "]") /\ i < j
                                    THEN f["elements", i + 1, j - 1] ELSE {}}
              [] what = "pair" ->
                   IF i < j - 1 /\ mark(i, "value") /\ IsKey(tokens[i]) /\ mark(i + 1, ":")
                   THEN {<<tokens[i].value.string, v>> : v \in f["value", i + 2, j]} ELSE {}
              [] what \in {"members", "elements"} ->
                   LET one == IF what = "members" THEN "pair" ELSE "value"
                   IN  (IF i > j THEN {<<>>} ELSE {<<x>> : x \in f[one, i, j]})
                       \union UNION {{<<x>> \o xs : x \in f[one, i, k - 1],
                                                    xs \in f[what, k + 1, j] \ {<<>>}} :
                                        k \in {k \in i + 1 .. j - 1 : mark(k, ",")}}
    IN  f["value", from, to]

\* The object with which a text begins, if it does; there is one at most.
Objects(tokens) ==
    {v \in UNION {Derived(tokens, 1, j) : j \in DOMAIN tokens} : TypeOf(v) = "object"}

-----------------------------------------------------------------------------
(* Items of a command.                                                     *)

\* An escape starts at i: a backslash after an even number of others.
Starts(t, i) ==
    /\ At(t, i) = Backslash
    /\ \E k \in 0 .. i - 1 :
          /\ k % 2 = 0 /\ At(t, i - k - 1) # Backslash
          /\ \A l \in i - k .. i - 1 : t[l] = Backslash

HasDigits(t, i) == {At(t, i + 2), At(t, i + 3)} \subseteq Hex

BadItem(t) == \E i \in DOMAIN t : Starts(t, i) /\ At(t, i + 1) = LowerX /\ ~HasDigits(t, i)

\* A sign that is not escaped; the first one ends the key.
EndsKey(t, i) == i \in DOMAIN t /\ t[i] = Equal /\ ~Starts(t, i - 1)

\* What position i of t contributes to the text of the item.
Contributes(t, i) ==
    CASE Starts(t, i) -> IF i = Len(t) THEN <<0>> ELSE <<>>
      [] Starts(t, i - 1) ->
           <<CASE t[i] = LowerX -> 16 * hexCharToBin(t[i + 1]) + hexCharToBin(t[i + 2])
               [] t[i] = LowerN -> 10 [] t[i] = LowerR -> 13
               [] t[i] = LowerT -> 9  [] t[i] = LowerV -> 11
               [] OTHER -> t[i]>>
      [] \E k \in 2 .. 3 : Starts(t, i - k) /\ At(t, i - k + 1) = LowerX -> <<>>
      [] OTHER -> <<t[i]>>

ItemMeans(t) == FlattenSeq([i \in DOMAIN t |-> Contributes(t, i)])
=============================================================================
