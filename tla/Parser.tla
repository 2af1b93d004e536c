------------------------------- MODULE Parser -------------------------------
(***************************************************************************)
(* The front end on files: what an author means is written down by the      *)
(* grammar (Grammar), may suffer one slip of the keyboard, and is parsed    *)
(* and read back (Syntax).                                                  *)
(***************************************************************************)
EXTENDS Grammar

CONSTANTS Files,    \* what may be written: [dialect, items, damaged] records
          Typos     \* the tokens a slip of the keyboard inserts

VARIABLES file,     \* the file as its author means it
          text,     \* its tokens, as they stand
          out       \* what the parser last made of them

vars == <<file, text, out>>

(***************************************************************************)
(* A file is written, may suffer one slip, and is parsed.                   *)
(***************************************************************************)
NotRead == [tree |-> Node("none", <<>>), errs |-> {}, stuck |-> FALSE]
Blank == [dialect |-> "none", items |-> <<>>, damaged |-> FALSE]

Init == file = Blank /\ text = <<>> /\ out = NotRead

Write(f) == /\ file = Blank
            /\ file' = f
            /\ text' = SentenceOf(f.items)
            /\ UNCHANGED out

CanSlip == file.damaged /\ out = NotRead /\ text = SentenceOf(file.items)

Drop(i) == /\ CanSlip /\ i <= Len(text)
           /\ text' = SubSeq(text, 1, i - 1) \o From(text, i + 1)
           /\ UNCHANGED <<file, out>>

Mistype(i, t) == /\ CanSlip /\ i <= Len(text)
                 /\ text' = [text EXCEPT ![i] = t]
                 /\ UNCHANGED <<file, out>>

Intrude(i, t) == /\ CanSlip /\ i <= Len(text)
                 /\ text' = SubSeq(text, 1, i - 1) \o <<t>> \o From(text, i)
                 /\ UNCHANGED <<file, out>>

\* Where the white space may be: everywhere, or only between two tokens the lexer
\* would read as others if they touched.
Glue == {":", ":=", "::", "=", "<", ">", "<=", ">=", "<>", "-", "->", "/", "*", "||"}
Clash(t, u) == \/ {t, u} \cap Punctuation = {} \/ {t, u} \subseteq Glue
               \/ {t, u} \cap Literals # {} /\ "." \in {t, u}
Tight == {i \in 2..Len(text) : Clash(text[i - 1], text[i])}
Layouts == {Tight, 1..(Len(text) + 1)}

Compile == /\ file # Blank /\ out = NotRead
           /\ \E gaps \in Layouts : out' = Parse(file.dialect, text, gaps)
           /\ UNCHANGED <<file, text>>

Next == \/ \E f \in Files : Write(f)
        \/ \E i \in 1..Len(text) : Drop(i) \/ \E t \in Typos : Mistype(i, t) \/ Intrude(i, t)
        \/ Compile

Spec == Init /\ [][Next]_vars

(***************************************************************************)
(* Properties.                                                              *)
(***************************************************************************)
IsRead == out # NotRead
Accepted == IsRead /\ out.errs = {}

\* What is written by the grammar is read without a complaint and as it was
\* meant: precedence, associativity, suffixes, call suppression and every word
\* that is a keyword somewhere else (parse_expr_prec, parse_stmt, ast.rs).
ReadsAsWritten ==
  IsRead /\ text = SentenceOf(file.items) => out.errs = {} /\ ReadFile(out.tree) = file.items

RECURSIVE Leaves(_)
Leaves(n) == IF IsToken(n) THEN <<n.text>> ELSE Joined(Each(n.kids, Leaves))

\* The tree is lossless: whatever was recovered from, and however often a node
\* was opened around what was already read, its leaves are the text.
TreeIsLossless == IsRead /\ ~out.stuck => Leaves(out.tree) = text

\* Parentheses, a comma before a closer and the value of a shorthand say nothing.
RECURSIVE Canonical(_)
Canonical(ts) ==
  IF ts = <<>> THEN <<>>
  ELSE IF ts[1] \in {"(", ")"} \/ (Len(ts) > 1 /\ ts[1] = "," /\ ts[2] \in Closers)
  THEN Canonical(Tail(ts))
  ELSE IF Len(ts) > 2 /\ ts[2] = ":" /\ ts[1] = ts[3] THEN Canonical(From(ts, 3))
  ELSE <<ts[1]>> \o Canonical(Tail(ts))

\* A text that is accepted means all it says: no token of it is skipped in
\* silence, and the accessors read back everything the parser let pass.
NothingIsLost == Accepted => Canonical(SentenceOf(ReadFile(out.tree))) = Canonical(text)

\* The names a file declares for expressions to read.
RECURSIVE Declared(_)
Declared(v) ==
  (IF v.op \in {"let", "var", "for", "for in", "load", "param", "oper", "public", "private", "base"}
   THEN {v.names[i] : i \in DOMAIN v.names}
   ELSE IF v.op \in {"tuple", "extend", "replace", "rename"}
   THEN {v.parts[i].names[1] : i \in {j \in DOMAIN v.parts : v.parts[j].op = "arg"}}
   ELSE IF v.op = "pair" THEN {v.names[1]} ELSE {})
  \cup UNION {Declared(v.parts[i]) : i \in DOMAIN v.parts}

\* Every name an accepted file declares can be referred to: standing alone it is
\* read as that name (keywords.rs RESERVED against parse_primary_expr).
NamesCanBeRead ==
  Accepted => \A n \in UNION {Declared(v) : v \in {ReadFile(out.tree)[i] :
                                                  i \in DOMAIN ReadFile(out.tree)}} :
    LET p == ParseExpr(NewParser(<<n, ";">>, {}, "ROOT"), 0, TRUE)
    IN  p.at = 2 /\ Exprs(Top(p)) = <<View("name", <<n>>, <<>>)>>

\* The parser comes to an end on every text (the "no progress" rules).
EveryParseEnds == ~out.stuck
=============================================================================
