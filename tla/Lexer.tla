------------------------------- MODULE Lexer --------------------------------
(***************************************************************************)
(* lexer.rs and token.rs: a text, character by character, and the tokens    *)
(* cut from it, trivia and broken ones included.                            *)
(*                                                                          *)
(* Characters are strings of one of the classes below; a word of a program  *)
(* ("let", "project") is one letter, since nothing looks inside it, and a   *)
(* few single letters stand for those the lexer does look at: `f` opens a   *)
(* format string, `e` an exponent, `x` a hexadecimal number, `u` an escape. *)
(***************************************************************************)
EXTENDS Integers, Sequences

Newline == "NL"
Blanks == {" ", Newline}
Quote == "DQ"
Tick == "SQ"
Backslash == "BS"
Digits == {"0", "1"}
HexDigits == Digits \cup {"a", "e", "f"}
BinDigits == {"0", "1"}
Glyphs == {"BOWTIE", "NEG"}
Brackets == {"{", "}", "[", "]", "(", ")"}
Alone == Brackets \cup {";", ",", ".", "+", "*", "="}
Strays == {"?", "|", Quote, Tick, Backslash, "/", "-", ":", "<", ">", "LEQ"}
IsLetter(c) == c \notin Blanks \cup Digits \cup Glyphs \cup Alone \cup Strays \cup {"_", ""}

At(s, i) == IF i < 1 \/ i > Len(s) THEN "" ELSE s[i]

\* bump_while: the first place from i on whose character is outside the class.
Past(s, i, Class(_)) ==
  LET outside == {j \in i..Len(s) : ~Class(s[j])}
  IN  IF outside = {} THEN Len(s) + 1 ELSE CHOOSE j \in outside : \A k \in outside : j <= k

\* A token up to (not including) the place end, and the errors it comes with.
Tok1(kind, end, bad) == [kind |-> kind, end |-> end, bad |-> bad]
Good(kind, end) == Tok1(kind, end, {})

IsBlank(c) == c \in Blanks
IsDecimal(c) == c \in Digits \cup {"_"}
IsHex(c) == c \in HexDigits \cup {"_"}
IsBin(c) == c \in BinDigits \cup {"_"}
IsWordPart(c) == IsLetter(c) \/ c \in Digits \cup {"_"}
InLine(c) == c # Newline
InTick(c) == c \notin {Tick, Newline}
InEscape(c) == c \notin {"}", Tick}

\* Block comments nest.
RECURSIVE BlockEnd(_, _, _)
BlockEnd(s, i, depth) ==
  IF depth = 0 THEN i
  ELSE IF i > Len(s) THEN 0
  ELSE IF At(s, i) = "/" /\ At(s, i + 1) = "*" THEN BlockEnd(s, i + 2, depth + 1)
  ELSE IF At(s, i) = "*" /\ At(s, i + 1) = "/" THEN BlockEnd(s, i + 2, depth - 1)
  ELSE BlockEnd(s, i + 1, depth)

BlockComment(s, i) ==
  LET end == BlockEnd(s, i + 2, 1)
  IN  IF end = 0 THEN Tok1("block comment", Len(s) + 1, {"E0002"}) ELSE Good("block comment", end)

\* scan_string_body: a backslash takes the next character with it.
RECURSIVE StringEnd(_, _)
StringEnd(s, i) ==
  IF i > Len(s) THEN 0
  ELSE IF s[i] = Quote THEN i + 1
  ELSE IF s[i] = Backslash THEN StringEnd(s, i + 2)
  ELSE StringEnd(s, i + 1)

String(kind, s, body) ==
  LET end == StringEnd(s, body)
  IN  IF end = 0 THEN Tok1(kind, Len(s) + 1, {"E0003"}) ELSE Good(kind, end)

\* tokens_ends_with_brace_escape looks two characters back from the cursor.
EndsWithBraceEscape(s, cursor) == At(s, cursor - 2) = "u" /\ At(s, cursor - 1) = "{"

\* After the one codepoint of a character literal, an escape or not.
CharEnd(s, i) ==
  IF At(s, i + 1) # Backslash THEN i + 2
  ELSE IF EndsWithBraceEscape(s, i + 3)
  THEN LET close == Past(s, i + 3, InEscape) IN IF At(s, close) = "}" THEN close + 1 ELSE close
  ELSE i + 3

Char(s, i) ==
  IF At(s, i + 1) = Tick THEN Tok1("char", i + 2, {"E0004"})
  ELSE IF i + 1 > Len(s) \/ (At(s, i + 1) = Backslash /\ i + 2 > Len(s))
  THEN Tok1("char", Len(s) + 1, {"E0005"})
  ELSE IF At(s, CharEnd(s, i)) = Tick THEN Good("char", CharEnd(s, i) + 1)
  ELSE LET stop == Past(s, CharEnd(s, i), InTick)
       IN  Tok1("char", IF At(s, stop) = Tick THEN stop + 1 ELSE stop, {"E0006"})

\* A slip: an `e` begins an exponent whatever follows it.
AnyExponent(s, i) == At(s, i) = "e" /\ At(s, i + 1) # ""

\* [eE][+-]?digit, and where it ends.
ExponentFollows(s, i) ==
  At(s, i) = "e" /\ At(s, IF At(s, i + 1) \in {"+", "-"} THEN i + 2 ELSE i + 1) \in Digits
ExponentEnd(s, i) == Past(s, IF At(s, i + 1) \in {"+", "-"} THEN i + 2 ELSE i + 1, IsDecimal)

Number(s, i) ==
  LET whole == Past(s, i, IsDecimal)
      fraction == Past(s, whole + 1, IsDecimal)
  IN  CASE s[i] = "0" /\ At(s, i + 1) = "x" -> Good("integer", Past(s, i + 2, IsHex))
        [] s[i] = "0" /\ At(s, i + 1) = "b" -> Good("integer", Past(s, i + 2, IsBin))
        [] At(s, whole) = "." /\ At(s, whole + 1) \in Digits ->
             IF ExponentFollows(s, fraction) THEN Good("approximate", ExponentEnd(s, fraction))
             ELSE Good("rational", fraction)
        [] ExponentFollows(s, whole) -> Good("approximate", ExponentEnd(s, whole))
        [] OTHER -> Good("integer", whole)

Word(s, i) ==
  Tok1("word", Past(s, i + 1, IsWordPart),
       IF At(s, i) = "_" /\ At(s, i + 1) = "_" THEN {"E0007"} ELSE {})

\* One character, or two when the next one makes a longer operator.
Operator(s, i) ==
  LET two == {<<":", "=">>, <<":", ":">>, <<"-", ">">>, <<"<", "=">>, <<"<", ">">>, <<">", "=">>,
              <<"|", "|">>}
  IN  IF <<s[i], At(s, i + 1)>> \in two THEN Good(s[i] \o At(s, i + 1), i + 2)
      ELSE IF s[i] = "|" THEN Tok1("LEX_ERROR", i + 1, {"E0001"})
      ELSE Good(s[i], i + 1)

Slash(s, i) ==
  CASE At(s, i + 1) = "/" -> Good("line comment", Past(s, i + 2, InLine))
    [] At(s, i + 1) = "*" -> BlockComment(s, i)
    [] OTHER -> Good("/", i + 1)

NextToken(s, i) ==
  LET c == s[i]
  IN  CASE c \in Blanks -> Good("space", Past(s, i, IsBlank))
        [] c = "/" -> Slash(s, i)
        [] c = "f" /\ At(s, i + 1) = Quote -> String("format string", s, i + 2)
        [] c = Quote -> String("string", s, i + 1)
        [] c = Tick -> Char(s, i)
        [] c \in Digits -> Number(s, i)
        [] c = "_" \/ (IsLetter(c) /\ ~(c = "f" /\ At(s, i + 1) = Quote)) -> Word(s, i)
        [] c \in Glyphs -> Good("word", i + 1)
        [] c = "LEQ" -> Good("<=", i + 1)
        [] c \in Alone -> Good(c, i + 1)
        [] c \in {":", "-", "<", ">", "|"} -> Operator(s, i)
        [] OTHER -> Tok1("LEX_ERROR", i + 1, {"E0001"})

RECURSIVE LexFrom(_, _)
LexFrom(s, i) ==
  IF i > Len(s) THEN <<>>
  ELSE LET t == NextToken(s, i)
       IN  <<[kind |-> t.kind, text |-> SubSeq(s, i, t.end - 1), bad |-> t.bad]>> \o LexFrom(s, t.end)

Lex(s) == LexFrom(s, 1)

Comments == {"line comment", "block comment"}
IsTrivia(t) == t.kind \in Comments \cup {"space"}
=============================================================================
