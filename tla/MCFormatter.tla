---------------------------- MODULE MCFormatter -----------------------------
(***************************************************************************)
(* Texts for the model checker: every short text over the characters that   *)
(* matter to one another, and files written with one comment, blank line or *)
(* line break where their author put it.                                    *)
(***************************************************************************)
EXTENDS Formatter, MCForms

SomeAlphabets ==
  {[chars |-> {"1", "0", "e", "x", ".", "-", "_", " "}, length |-> 3],
   [chars |-> {Quote, Tick, Backslash, "f", "u", "{", Newline, ";"}, length |-> 3],
   [chars |-> {":", "=", "<", ">", "|", "-", "/", "*", Newline}, length |-> 3],
   [chars |-> {"x", "1", ".", ",", ";", ":", "{", "}", "[", "]", "(", " ", Newline, "LEQ", "?"}, length |-> 3]}

Kinds == {"call", "index", "tuple", "if", "replace", "wrap", "prefix -", "insert", "for in", "load"}
Deep == View("where", <<>>, <<View("call", <<>>, <<Ref("r"), Arg1("n", View("tuple", <<>>, <<Arg1("a", One), Arg1("b", One)>>))>>), Ref("z")>>)
SomeFiles ==
  {[dialect |-> "cd", items |-> <<Body(<<s>>)>>] :
     s \in {t \in Statements1(Ref("x"), "n") : t.op \in Kinds}
           \cup {View("return", <<>>, <<e>>) : e \in {e \in Forms("x") : e.op \in Kinds} \cup {Deep}}}
  \cup {[dialect |-> "cd", items |-> <<i>>] : i \in {i \in ItemsNaming("n") : i.op \in {"public", "type", "use"}}}
  \cup {[dialect |-> "cdstore", items |-> <<View("assign", <<>>, <<Ref("x"), Ref("y")>>)>>]}

LineComment1 == <<" ", "/", "/", "c", " ", Newline>>
OwnLine == <<Newline, "/", "/", "c", Newline>>
BlockComment1 == <<" ", "/", "*", "c", "*", "/", " ">>
OwnBlock == <<Newline, Newline, "/", "*", "c", "*", "/", Newline>>
BlankLine == <<Newline, " ", Newline>>
SomeGaps == {LineComment1, OwnLine, BlockComment1, OwnBlock, BlankLine}
SomeBases == {<<>>, <<Newline>>}
=============================================================================
