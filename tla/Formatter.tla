----------------------------- MODULE Formatter ------------------------------
(***************************************************************************)
(* The formatter: coddl-fmt (lib.rs, printer.rs), the `coddl fmt` command   *)
(* (cmd_fmt of coddl-driver) and the language server's formatting request.  *)
(*                                                                          *)
(* A text is cut into tokens (Lexer), parsed (Syntax), and printed again:   *)
(* its tokens stay, the space between two of them is computed from what     *)
(* they are, from the brackets around them and from the line breaks there   *)
(* were.  A file is typed, character by character, or written by the        *)
(* grammar with a layout of its author's; commands then work on it.         *)
(***************************************************************************)
EXTENDS Grammar, Lexer

CONSTANTS Alphabets,  \* what may be typed: [chars, length] records
          Files,      \* what may be written: [dialect, items] records
          Bases,      \* what its author put between two tokens
          Gaps        \* and between two of them, or before or after all

VARIABLES dialect,    \* the kind of the file
          source,     \* its characters
          meant,      \* its tokens before the first command changed it
          exit        \* the commands so far and how they ended

vars == <<dialect, source, meant, exit>>

(***************************************************************************)
(* The tokens and what the parser makes of them.                            *)
(***************************************************************************)
RECURSIVE Joint(_)
Joint(chars) == IF chars = <<>> THEN "" ELSE chars[1] \o Joint(Tail(chars))

\* Every literal is the parser's literal; a comment or a space is none of its tokens.
ParserToken(t) ==
  CASE t.kind = "word" -> Joint(t.text)
    [] t.kind \in {"integer", "rational", "approximate", "string", "format string", "char"} -> "1"
    [] t.kind = "LEX_ERROR" -> LexError
    [] OTHER -> t.kind

Meaningful(ts) == SelectSeq(ts, LAMBDA t : ~IsTrivia(t))
ParserTokens(ts) == [i \in DOMAIN ts |-> ParserToken(ts[i])]
GapsOf(ts) == {Len(Meaningful(SubSeq(ts, 1, i))) + 1 : i \in {j \in DOMAIN ts : IsTrivia(ts[j])}}
ParseOf(kind, ts) == Parse(kind, ParserTokens(Meaningful(ts)), GapsOf(ts))
Printed(ts) == SelectSeq(ts, LAMBDA t : t.kind # "space")
Errors(ts) == UNION {ts[i].bad : i \in DOMAIN ts}

\* The node a leaf is a child of, and the node around that.
RECURSIVE Contexts(_, _, _)
Contexts(n, in, under) ==
  IF IsToken(n) THEN <<[in |-> in, under |-> under]>>
  ELSE Joined([i \in DOMAIN n.kids |-> Contexts(n.kids[i], n.kind, in)])

Breaks(t) == Cardinality({i \in DOMAIN t.text : t.text[i] = Newline})
NoContext == [in |-> "", under |-> ""]

\* The tokens without the spaces: each with the line breaks before it and its
\* place in the tree.
RECURSIVE Placed(_, _, _)
Placed(ts, contexts, breaks) ==
  IF ts = <<>> THEN <<>>
  ELSE IF ts[1].kind = "space" THEN Placed(Tail(ts), contexts, Breaks(ts[1]))
  ELSE LET context == IF IsTrivia(ts[1]) THEN NoContext ELSE contexts[1]
           rest == IF IsTrivia(ts[1]) THEN contexts ELSE Tail(contexts)
       IN  <<[kind |-> ts[1].kind, text |-> ts[1].text, newline |-> breaks >= 1,
              blank |-> breaks >= 2, in |-> context.in, under |-> context.under]>>
           \o Placed(Tail(ts), rest, 0)

(***************************************************************************)
(* Which bracket groups are laid out on several lines.                      *)
(***************************************************************************)
IsOpen(t) == t.kind \in Openers
IsClose(t) == t.kind \in Closers
IsComment(t) == t.kind \in Comments

Group(i, t) == [open |-> i, newline |-> FALSE, content |-> FALSE,
                block |-> t.kind = "[" /\ t.in = "BLOCK"]

Broken(g) == g.newline \/ (g.block /\ g.content)

\* The innermost open group, if any, is on several lines.
Marked(stack) == IF stack = <<>> THEN stack ELSE [stack EXCEPT ![Len(stack)].newline = TRUE]
Filled(stack) == IF stack = <<>> THEN stack ELSE [stack EXCEPT ![Len(stack)].content = TRUE]
Popped(stack) == IF stack = <<>> THEN stack ELSE SubSeq(stack, 1, Len(stack) - 1)

\* A slip: a group on several lines does not break the one around it.
ClosingAlone(stack, g) == Popped(stack)

Closing(stack, g) == IF Broken(g) THEN Marked(Popped(stack)) ELSE Popped(stack)

RECURSIVE MultilineFrom(_, _, _, _)
MultilineFrom(ts, i, stack, found) ==
  IF i > Len(ts) THEN found
  ELSE LET t == ts[i]
           open == IF t.newline THEN Marked(stack) ELSE stack
       IN  CASE IsOpen(t) -> MultilineFrom(ts, i + 1, Append(open, Group(i, t)), found)
             [] IsClose(t) /\ open # <<>> ->
                  LET g == open[Len(open)]
                  IN  MultilineFrom(ts, i + 1, Closing(open, g),
                                    IF Broken(g) THEN found \cup {g.open, i} ELSE found)
             [] IsClose(t) /\ open = <<>> -> MultilineFrom(ts, i + 1, open, found)
             [] OTHER -> MultilineFrom(ts, i + 1, Filled(open), found)

Multiline(ts) == MultilineFrom(ts, 1, <<>>, {})

(***************************************************************************)
(* The separator before a token.                                            *)
(***************************************************************************)
OpensGluedBraces(t) == \/ t.in = "ARG_LIST" /\ t.under = "CALL_EXPR"
                       \/ t.in = "HEADING" /\ t.under = "OPER_DECL"

\* A slip: what follows a line comment may stay on its line.
SeparatorOnTheLine(p, t, closes, opened, group, inList) ==
  IF IsComment(t) /\ t.newline THEN "newline" ELSE IF closes \/ opened THEN "newline"
  ELSE IF p.kind = ";" /\ group THEN "newline" ELSE "space"

\* A slip: the two places of a comment the wrong way round.
SeparatorSwapped(p, t, closes, opened, group, inList) ==
  LET line == IF t.blank THEN "blank" ELSE "newline"
  IN  IF p.kind = "line comment" THEN line
      ELSE IF IsComment(t) THEN (IF t.newline THEN "space" ELSE line)
      ELSE IF closes \/ opened THEN "newline" ELSE "space"

\* p, then t: closes and opened tell whether t closes and p opens a group on
\* several lines, group and inList whether the innermost open one is one.
Separator(p, t, closes, opened, group, inList) ==
  LET line == IF t.blank THEN "blank" ELSE "newline"
  IN  IF p.kind = "line comment" THEN line
      ELSE IF IsComment(t) THEN (IF t.newline THEN line ELSE "space")
      ELSE IF closes \/ opened THEN "newline"
      ELSE IF (t.kind = "{" /\ OpensGluedBraces(t)) \/ (t.kind = "[" /\ t.in = "INDEX_EXPR") THEN "none"
      ELSE IF p.kind = ";" THEN (IF group THEN line ELSE "space")
      ELSE IF p.kind = "," THEN (IF inList THEN "newline" ELSE "space")
      ELSE IF t.kind \in {",", ";", ":", ".", "::", ")", "]"} THEN "none"
      ELSE IF p.kind \in {".", "::", "(", "["} THEN "none"
      ELSE IF p.kind = "{" /\ t.kind = "}" THEN "none"
      ELSE "space"

RECURSIVE Trimmed(_, _), Spaces(_)
Trimmed(s, class) == IF s # <<>> /\ s[Len(s)] \in class THEN Trimmed(SubSeq(s, 1, Len(s) - 1), class) ELSE s
Spaces(n) == IF n = 0 THEN <<>> ELSE <<" ">> \o Spaces(n - 1)

Gap(out, separator, indent) ==
  CASE separator = "none" -> out
    [] separator = "space" -> out \o <<" ">>
    [] separator = "newline" -> Trimmed(out, {" "}) \o <<Newline>> \o Spaces(indent)
    [] separator = "blank" -> Trimmed(out, {" "}) \o <<Newline, Newline>> \o Spaces(indent)

TokenText(t) == IF t.kind = "line comment" THEN Trimmed(t.text, Blanks) ELSE t.text

RECURSIVE PrintFrom(_, _, _, _, _, _)
PrintFrom(ts, multi, i, groups, indent, out) ==
  IF i > Len(ts) THEN out
  ELSE LET t == ts[i]
           breaks == i \in multi
           closes == IsClose(t) /\ breaks
           depth == IF closes /\ indent > 0 THEN indent - 1 ELSE indent
           innermost(default) == IF groups = <<>> THEN default ELSE groups[Len(groups)]
           sep == IF i = 1 THEN "none"
                  ELSE Separator(ts[i - 1], t, closes, IsOpen(ts[i - 1]) /\ i - 1 \in multi,
                                 innermost(TRUE), innermost(FALSE))
           text == Gap(out, sep, depth) \o TokenText(t)
       IN  CASE IsOpen(t) -> PrintFrom(ts, multi, i + 1, Append(groups, breaks),
                                       IF breaks THEN depth + 1 ELSE depth, text)
             [] IsClose(t) -> PrintFrom(ts, multi, i + 1, Popped(groups), depth, text)
             [] OTHER -> PrintFrom(ts, multi, i + 1, groups, depth, text)

Output(ts) ==
  LET trimmed == Trimmed(PrintFrom(ts, Multiline(ts), 1, <<>>, 0, <<>>), Blanks)
  IN  IF trimmed = <<>> THEN <<>> ELSE trimmed \o <<Newline>>

\* format: the text and the diagnostics of the parse.
Rendered(ts, parsed) == [text |-> Output(Placed(ts, Contexts(parsed.tree, "", ""), 0)),
                         errs |-> Errors(ts) \cup parsed.errs]
Format(kind, ts) == Rendered(ts, ParseOf(kind, ts))

(***************************************************************************)
(* The file and the commands on it.                                         *)
(***************************************************************************)
Fresh == [cmds |-> <<>>, code |-> "none"]

Init == dialect = "cd" /\ source = <<>> /\ meant = <<>> /\ exit = Fresh

Type(c) == /\ exit = Fresh
           /\ \E a \in Alphabets : /\ {source[i] : i \in DOMAIN source} \cup {c} \subseteq a.chars
                                   /\ Len(source) < a.length
           /\ source' = Append(source, c)
           /\ meant' = Printed(Lex(source'))
           /\ UNCHANGED <<dialect, exit>>

\* The characters of a token of the grammar.
Spell(t) == CASE t \in {":=", "::", "->", "<>", "<=", ">=", "||"} ->
                   (CASE t = ":=" -> <<":", "=">> [] t = "::" -> <<":", ":">> [] t = "->" -> <<"-", ">">>
                      [] t = "<>" -> <<"<", ">">> [] t = "<=" -> <<"<", "=">> [] t = ">=" -> <<">", "=">>
                      [] t = "||" -> <<"|", "|">>)
              [] OTHER -> <<t>>

\* Written without a gap, two tokens that would run together are kept apart.
Apart(last, next) == IF Len(Lex(last \o next)) = 1 THEN <<" ">> ELSE <<>>

Written(tokens, GapAt(_)) ==
  LET texts == [i \in DOMAIN tokens |-> Spell(tokens[i])]
      before(i) == IF i = 1 \/ GapAt(i) # <<>> THEN GapAt(i) ELSE Apart(texts[i - 1], texts[i])
  IN  Joined([i \in DOMAIN texts |-> before(i) \o texts[i]]) \o GapAt(Len(texts) + 1)

Write(f, base, gap) ==
  /\ source = <<>> /\ exit = Fresh
  /\ dialect' = f.dialect
  /\ \E tokens \in {SentenceOf(f.items)} : \E k \in 1..(Len(tokens) + 1) :
        source' = Written(tokens, LAMBDA i : IF i = k THEN gap ELSE base)
  /\ meant' = Printed(Lex(source'))
  /\ UNCHANGED exit

Done(cmd, code) == exit' = [cmds |-> Append(exit.cmds, cmd), code |-> code]

FmtCheck(out) ==
  /\ exit.cmds \in {<<>>, <<"write">>}
  /\ Done("check", IF out.errs # {} THEN "refused" ELSE IF out.text = source THEN "formatted" ELSE "not formatted")
  /\ UNCHANGED <<dialect, source, meant>>

FmtWrite(out) ==
  /\ exit = Fresh
  /\ IF out.errs = {} THEN Done("write", "written") /\ source' = out.text
     ELSE Done("write", "refused") /\ UNCHANGED source
  /\ UNCHANGED <<dialect, meant>>

\* textDocument/formatting edits whatever the diagnostics are.
LspFormat(out) ==
  /\ exit.cmds \in {<<>>, <<"edit">>}
  /\ Done("edit", IF out.text = source THEN "no edit" ELSE "edited")
  /\ source' = out.text
  /\ UNCHANGED <<dialect, meant>>

\* The commands are given the same answer for the same text; two are enough to
\* see a second pass.
MaxCommands == 2
Command == /\ Len(exit.cmds) < MaxCommands
           /\ \E out \in {Format(dialect, Lex(source))} : FmtCheck(out) \/ FmtWrite(out) \/ LspFormat(out)

Next == \/ \E a \in Alphabets : \E c \in a.chars : Type(c)
        \/ \E f \in Files : \E base \in Bases, gap \in Gaps : Write(f, base, gap)
        \/ Command

Spec == Init /\ [][Next]_vars

(***************************************************************************)
(* Properties.                                                              *)
(***************************************************************************)
\* A token ends where it cannot go on and depends on no character outside it:
\* one whole token, or two side by side, cut out and lexed alone, are the same.
\* It is what lets the formatter change the space around them (next_token).
LexemesStandAlone ==
  LET ts == Lex(source)
  IN  \A i, j \in DOMAIN ts :
        i <= j /\ j <= i + 1 /\ ts[i].bad \cup ts[j].bad = {} =>
          Lex(Joined([k \in 1..(j - i + 1) |-> ts[i + k - 1].text])) = SubSeq(ts, i, j)

Same(t) == [t EXCEPT !.text = IF t.kind = "line comment" THEN Trimmed(@, Blanks) ELSE @]
Tokens(ts) == [i \in DOMAIN ts |-> Same(ts[i])]

\* `coddl fmt --write` changes nothing but the space between tokens: every token
\* and every comment of the file is there, in its order.
WritingKeepsTokens ==
  exit.code = "written" => Tokens(Printed(Lex(source))) = Tokens(meant)

\* A second pass changes nothing: it finds the groups, the comments and the blank
\* lines where the first left them.  What `coddl fmt --write` wrote passes
\* `coddl fmt --check`, and a second formatting request on a text without errors
\* edits nothing.  (On a text with syntax errors it may: white space decides how
\* the parser recovers, ExprStmt of Syntax, and the first pass moves it.)
SecondPassSettles ==
  Errors(meant) = {} =>
    /\ exit.cmds = <<"write", "check">> => exit.code # "not formatted"
    /\ exit = [cmds |-> <<"edit", "edit">>, code |-> "edited"] =>
         ParseOf(dialect, Lex(source)).errs # {}

\* Every line of what was written is indented by the groups open around it: no
\* group keeps its bracket inline and breaks inside (Multiline's propagation).
LinesAreIndented ==
  exit.code = "written" =>
    LET ts == Lex(source)
        Count(i, IsSuch(_)) == Cardinality({j \in 1..(i - 1) : IsSuch(ts[j])})
        Depth(i) == Count(i, IsOpen) - Count(i, IsClose) - (IF IsClose(ts[i]) THEN 1 ELSE 0)
        Indent(t) == Len(t.text) - Breaks(t)
    IN  \A i \in 2..Len(ts) :
          ts[i - 1].kind = "space" /\ Breaks(ts[i - 1]) > 0 => Indent(ts[i - 1]) = Depth(i)
=============================================================================
