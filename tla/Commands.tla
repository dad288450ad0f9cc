------------------------------ MODULE Commands ------------------------------
(***************************************************************************)
(* How a line becomes a command: CmdHelper::exec and _str_to_cmd, and      *)
(* strToItem of ParamSet.cpp.                                              *)
(***************************************************************************)
EXTENDS Text

\* What \c stands for in an item; data[maxi] is NUL.
Control(c) ==
    CASE c = LowerV -> 11
      [] c = LowerN -> 10
      [] c = LowerT -> 9
      [] c = LowerR -> 13
      [] c = EOF -> 0
      [] OTHER -> c

ItemChar(c, isEqual) == [c |-> c, isEqual |-> isEqual]
\* strToBin returns NULL, which is dereferenced.
BadEscape == ItemChar(-1, FALSE)

\* Mutant: only the first of the two digits of \x is skipped.
UnescapeShort(f, t, i, c, e) ==
    CASE c = EOF -> <<>>
      [] c = Backslash /\ e = LowerX ->
           IF {At(t, i + 2), At(t, i + 3)} \subseteq Hex
           THEN <<ItemChar(16 * hexCharToBin(t[i + 2]) + hexCharToBin(t[i + 3]), FALSE)>>
                    \o f[i + 3]
           ELSE <<BadEscape>>
      [] c = Backslash /\ e # LowerX -> <<ItemChar(Control(e), FALSE)>> \o f[i + 2]
      [] c \notin {EOF, Backslash} -> <<ItemChar(c, c = Equal)>> \o f[i + 1]

(* One turn of the loop of strToItem, which reads c, and e behind it.      *)
Unescape(f, t, i, c, e) ==
    CASE c = EOF -> <<>>
      [] c = Backslash /\ e = LowerX ->
           IF {At(t, i + 2), At(t, i + 3)} \subseteq Hex
           THEN <<ItemChar(16 * hexCharToBin(t[i + 2]) + hexCharToBin(t[i + 3]), FALSE)>>
                    \o f[i + 4]
           ELSE <<BadEscape>>
      [] c = Backslash /\ e # LowerX -> <<ItemChar(Control(e), FALSE)>> \o f[i + 2]
      [] c \notin {EOF, Backslash} -> <<ItemChar(c, c = Equal)>> \o f[i + 1]

\* The characters of an item, without the escapes.
Unescaped(t) == LET f[i \in Nat] == Unescape(f, t, i, At(t, i), At(t, i + 1)) IN f[1]

\* An item is a key, which the first _equal ends, if there is one, and a value.
KeyAndValue(chars) ==
    LET text == [k \in DOMAIN chars |-> chars[k].c]
        equals == {k \in DOMAIN chars : chars[k].isEqual}
        first == CHOOSE k \in equals : \A l \in equals : k <= l
    IN  IF equals = {} THEN << <<>>, text>>
        ELSE <<SubSeq(text, 1, first - 1), From(text, first + 1)>>

strToItem(equation) == KeyAndValue(Unescaped(strTrim(equation)))

Crashes(equation) == BadEscape \in ToSet(Unescaped(strTrim(equation)))

\* exec: the first word and the items behind it.
Words(line) == strSplit(strTrim(line), Blank)
Verb(line) == Words(line)[1]
SplitParam(line) == LET words == Tail(Words(line)) IN [k \in DOMAIN words |-> strToItem(words[k])]
ExecCrashes(line) == \E word \in ToSet(Tail(Words(line))) : Crashes(word)
=============================================================================
