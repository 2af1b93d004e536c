------------------------------- MODULE Syntax -------------------------------
(***************************************************************************)
(* The syntax of the language as the code has it: parser.rs (the recursive- *)
(* descent parser), parser_cddb.rs, parser_cdmap.rs and parser_cdstore.rs   *)
(* (the roots of the other dialects), keywords.rs (the word tables), cst.rs *)
(* (the tree builder) and ast.rs (the accessors every later phase reads the *)
(* tree through).                                                           *)
(*                                                                          *)
(* A text is its sequence of meaningful tokens and the set of those with    *)
(* trivia (white space, comments) before them.  Trivia never decides what a *)
(* text without errors means, but it counts as progress where the parser    *)
(* asks whether an expression was read, and so decides how it recovers.  A  *)
(* production of the parser is a sequence of steps, a step one call of the  *)
(* parser's primitives; Run executes them on the parser's state.  View is   *)
(* the syntax tree as the accessors present it.                             *)
(***************************************************************************)
EXTENDS Integers, Sequences, FiniteSets

(***************************************************************************)
(* Tokens and the word tables.                                              *)
(***************************************************************************)
Punctuation == {";", ":=", "=", ":", "::", ",", "{", "}", "[", "]", "(", ")", ".", "->",
                "+", "-", "*", "/", "||", "<>", "<", ">", "<=", ">="}
Literals == {"1"}
LexError == "LEX_ERROR"
Eof == "EOF"

\* Every other token lexes as IDENT: a keyword is a word in a position.
IsWord(t) == t \notin Punctuation \cup Literals \cup {LexError, Eof}

\* A slip: the table forgets `if`, a prefix that starts an expression.
ReservedWithoutIf == {"true", "false", "not", "extract", "NEG", "BOWTIE"}

\* Two of the seven operator glyphs stand for all of them.
Reserved == {"true", "false", "if", "not", "extract", "NEG", "BOWTIE"}
StatementHeads == {"let", "var", "truncate", "delete", "insert", "update", "for", "while",
                   "do", "load", "return"}
Suffixes == {"project", "replace", "tclose", "extend", "rename", "wrap", "unwrap", "group",
             "ungroup"}
RelationalWords == {"where", "join", "times", "compose", "intersect", "union", "minus",
                    "matching", "when", "otherwise", "BOWTIE"}
InfixWords == RelationalWords \cup {"or", "and", "div"}
Comparisons == {"=", "<>", "<", ">", "<=", ">="}
InfixSymbols == Comparisons \cup {"+", "-", "||", "*", "/"}

\* A slip: `and` binding no tighter than `or`.
FlatPrecedence(t) == CASE t \in RelationalWords -> 0 [] t \in {"or", "and"} -> 1
                       [] t \in Comparisons -> 3 [] t \in {"+", "-", "||"} -> 4
                       [] t \in {"*", "/", "div"} -> 5

Precedence(t) == CASE t \in RelationalWords -> 0 [] t = "or" -> 1 [] t = "and" -> 2
                   [] t \in Comparisons -> 3 [] t \in {"+", "-", "||"} -> 4
                   [] t \in {"*", "/", "div"} -> 5
PrefixPrecedence == 6

(***************************************************************************)
(* The tree builder and the cursor.                                         *)
(***************************************************************************)
Node(kind, kids) == [kind |-> kind, text |-> "", kids |-> kids]
Leaf(t) == [kind |-> "token", text |-> t, kids |-> <<>>]

\* A parser over the tokens ts, with the root node open: gaps are the positions
\* with trivia before them (the end is Len(ts) + 1), spaced tells that such
\* trivia is still to be read.  Every root reads the first of it at once.
NewParser(ts, gaps, root) ==
  [toks |-> ts, gaps |-> gaps, at |-> 1, spaced |-> FALSE, open |-> <<Node(root, <<>>)>>,
   errs |-> {}, left |-> FALSE, stuck |-> FALSE]

Nth(p, n) == IF p.at + n > Len(p.toks) THEN Eof ELSE p.toks[p.at + n]
Current(p) == Nth(p, 0)

Top(p) == p.open[Len(p.open)]
Emit(p, n) == [p EXCEPT !.open[Len(p.open)].kids = Append(@, n)]
BumpTrivia(p) == [p EXCEPT !.spaced = FALSE]
Bump(p) == IF Current(p) = Eof THEN BumpTrivia(p)
           ELSE [Emit(p, Leaf(Current(p))) EXCEPT !.at = @ + 1, !.spaced = p.at + 1 \in p.gaps]

\* From p to q the position moved, be it over trivia only.
Moved(p, q) == q.at > p.at \/ q.spaced # p.spaced
Error(p, code) == [p EXCEPT !.errs = @ \cup {code}]

Checkpoint(p) == Len(Top(p).kids)
StartNode(p, kind) == [p EXCEPT !.open = Append(@, Node(kind, <<>>))]

\* A slip: what was parsed since the checkpoint is forgotten.
StartNodeOver(p, cp, kind) ==
  [p EXCEPT !.open = Append([@ EXCEPT ![Len(p.open)].kids = SubSeq(@, 1, cp)],
                            Node(kind, <<>>))]

\* The children since the checkpoint become the first children of the new node.
StartNodeAt(p, cp, kind) ==
  LET kids == Top(p).kids
  IN  [p EXCEPT !.open = Append([@ EXCEPT ![Len(p.open)].kids = SubSeq(kids, 1, cp)],
                                Node(kind, SubSeq(kids, cp + 1, Len(kids))))]

FinishNode(p) == [Emit([p EXCEPT !.open = SubSeq(@, 1, Len(@) - 1)], Top(p))
                    EXCEPT !.left = FALSE]


(***************************************************************************)
(* The steps productions are made of.                                       *)
(***************************************************************************)
Eat == [do |-> "bump"]                                  \* bump()
Trivia == [do |-> "trivia"]                             \* bump_trivia()
CheckName(code) == [do |-> "reserved", code |-> code]   \* check_reserved_decl_name
Err(code) == [do |-> "error", code |-> code]
Tok(t, code) == [do |-> "tok", t |-> t, code |-> code, must |-> FALSE]
Need(t, code) == [Tok(t, code) EXCEPT !.must = TRUE]    \* error, finish_node, return
Ident(code) == [do |-> "ident", code |-> code, must |-> FALSE]
NeedIdent(code) == [Ident(code) EXCEPT !.must = TRUE]
If(ts, then, else) == [do |-> "if", ts |-> ts, then |-> then, else |-> else]
Opt(t, then) == If({t}, then, <<>>)
Unless(ts, steps) == If(ts, <<>>, steps)
While(t, steps) == [do |-> "while", t |-> t, steps |-> steps]
In(kind, steps) == [do |-> "node", kind |-> kind, steps |-> steps]
List(elem, close, code) == [do |-> "list", elem |-> elem, close |-> close, code |-> code]
Sub(name) == [do |-> "sub", name |-> name]
Arg(short, check) == [do |-> "arg", short |-> short, check |-> check]

\* parse_expr; a code is reported when the position did not move, and an element
\* that must progress leaves its list.
AnExpr(code, must, brace) == [do |-> "expr", code |-> code, must |-> must, brace |-> brace]
Expr == AnExpr("", FALSE, TRUE)
ExprOr(code) == AnExpr(code, FALSE, TRUE)
Element == AnExpr("", TRUE, TRUE)

Name(code) == <<CheckName("P0096"), Ident(code)>>
CddbName(code) == <<CheckName("PB0012"), Ident(code)>>
Semi(code) == <<Tok(";", code)>>

\* parse_ident_brace_list with its three codes.
Idents(open, ident, close) ==
  <<If({"{"}, <<Eat, List(<<Trivia, NeedIdent(ident)>>, "}", close)>>, <<Err(open)>>)>>
HeadingOr(code) == If({"{"}, <<Sub("Heading")>>, <<Err(code)>>)
BlockOr(code) == If({"["}, <<Sub("Block")>>, <<Err(code)>>)
NeedBlock(code) == If({"["}, <<Sub("Block")>>, <<[do |-> "leave", code |-> code]>>)
Args(short, check) == In("ARG_LIST", <<Eat, List(<<Arg(short, check)>>, "}", "P0015")>>)
ArgsOr(code) == <<If({"{"}, <<Args(FALSE, TRUE)>>, <<Err(code)>>)>>

(***************************************************************************)
(* Top-level items.                                                         *)
(***************************************************************************)
FileHeader == In("PROGRAM_DECL", <<Eat>> \o Name("P0002") \o Semi("P0003"))
DatabaseBinding == In("DATABASE_BINDING", <<Eat>> \o Name("P0020") \o Semi("P0021"))
TypeDecl == In("TYPE_DECL", <<Eat>> \o Name("P0080")
                 \o <<If({"{"}, <<Sub("Heading")>>, <<Tok("=", "P0081"), Sub("TypeRef")>>)>>
                 \o Semi("P0082"))
UseDecl == In("USE_DECL", <<Eat, Tok("module", "P0083"), Sub("ModulePath")>> \o Semi("P0085"))
ModulePath == In("MODULE_PATH", Name("P0084") \o <<While("::", <<Eat>> \o Name("P0084"))>>)

OperHead == Name("P0004") \o <<HeadingOr("P0005"),
                               Opt("->", <<In("RETURN_CLAUSE", <<Eat, Sub("TypeRef")>>)>>)>>
OperDecl == In("OPER_DECL", <<Eat>> \o OperHead \o <<BlockOr("P0006")>> \o Semi("P0007"))
BuiltinOper == In("OPER_DECL", <<Eat, Tok("oper", "P0079")>> \o OperHead
                    \o <<Opt("[", <<Err("P0078"), Sub("Block")>>)>> \o Semi("P0007"))

Heading == In("HEADING", <<Eat, List(<<Sub("Param")>>, "}", "P0008")>>)
Param == In("PARAM", Name("P0009") \o <<Tok(":", "P0010"), Sub("TypeRef")>>)
TypeRef == In("TYPE_REF", <<If({"Sequence"}, <<Eat, Sub("TypeRef")>>,
                               <<If({"Tuple", "Relation"}, <<Eat, Opt("{", <<Sub("Heading")>>)>>,
                                    <<Ident("P0011")>>)>>)>>)

RelvarWithHeading(kind) ==
  In(kind, <<Eat, Tok("relvar", "P0025")>> \o Name("P0026") \o <<HeadingOr("P0027"), Sub("Keys")>>
             \o Semi("P0028"))
Keys == While("key", <<In("KEY_CLAUSE", <<Eat>> \o Idents("P0022", "P0023", "P0024"))>>)

(***************************************************************************)
(* The roots of the other dialects.                                         *)
(***************************************************************************)
DatabaseDecl == In("DATABASE_DECL", <<Eat>> \o CddbName("PB0002") \o Semi("PB0003"))
BaseRelvar == In("BASE_RELVAR_DECL", <<Eat, Tok("relvar", "PB0005")>> \o CddbName("PB0006")
                   \o <<HeadingOr("PB0007"), Sub("Keys")>> \o Semi("PB0008"))
VirtualRelvar == In("VIRTUAL_RELVAR_DECL", <<Eat, Tok("relvar", "PB0009")>> \o CddbName("PB0010")
                      \o <<Tok("=", "PB0011"), Sub("Skip")>>)
RelvarInit == In("RELVAR_INIT", <<Eat, Eat, If({";", Eof}, <<Err("PB0013")>>, <<Expr>>)>>
                   \o Semi("PB0014"))
CdmapHeader == In("CDMAP_HEADER", <<Eat, Ident("PM0002"), Tok("to", "PM0003"), Ident("PM0004")>>
                    \o Semi("PM0005"))
CdmapEntry == In("CDMAP_ENTRY", <<Eat, Tok("=", "PM0007"), Ident("PM0008")>> \o Semi("PM0009"))
UnknownItem(code) == In("PARSE_ERROR", <<Err(code), Sub("Skip")>>)

(***************************************************************************)
(* Statements.                                                              *)
(***************************************************************************)
Block == In("BLOCK", <<Eat, Sub("Statements"), Tok("]", "P0012")>>)
ReturnStmt == In("RETURN_STMT", <<Eat, Unless({";", "]"}, <<ExprOr("P0013")>>)>> \o Semi("P0013"))

\* `let` binds with `=` and `var` with `:=`; the other's operator is eaten with an error.
Binding(kind, op, other, code) ==
  In(kind, <<Eat>> \o Name("P0018") \o
     <<Opt(":", <<Eat, Sub("TypeRef")>>),
       Unless({";"}, <<If({other}, <<Err(code), Eat>>, <<Tok(op, "P0018")>>), ExprOr("P0018")>>)>>
     \o Semi("P0013"))
LetStmt == Binding("LET_STMT", "=", ":=", "P0067")
VarStmt == Binding("VAR_STMT", ":=", "=", "P0068")

ForStmt == In("FOR_STMT",
  <<Eat, CheckName("P0096"), NeedIdent("P0062"),
    If({"in"}, <<Eat, Expr>>, <<Need(":=", "P0063"), Expr, Need("to", "P0064"), Expr>>),
    Need("do", "P0065"), NeedBlock("P0066")>> \o Semi("P0013"))
WhileStmt == In("WHILE_STMT", <<Eat, Expr, Need("do", "P0069"), NeedBlock("P0070")>> \o Semi("P0013"))
DoWhileStmt == In("DO_WHILE_STMT", <<Eat, NeedBlock("P0071"), Need("while", "P0072"), Expr>>
                    \o Semi("P0013"))
LoadStmt == In("LOAD_STMT", <<Eat>> \o Name("P0073") \o <<Tok("from", "P0074"), Expr,
  Opt("order", <<Eat, If({"["}, <<Eat, If({"]"}, <<Err("P0077"), Eat>>,
                                          <<List(<<Sub("SortItem")>>, "]", "P0076")>>)>>,
                         <<Err("P0075")>>)>>)>> \o Semi("P0013"))
SortItem == In("SORT_ITEM", <<[do |-> "direction"], Ident("P0077")>>)
TruncateStmt == In("TRUNCATE_STMT", <<Eat, ExprOr("P0014")>> \o Semi("P0013"))
DeleteStmt == In("DELETE_STMT", <<Eat, ExprOr("P0014")>> \o Semi("P0013"))
InsertStmt == In("INSERT_STMT", <<Eat, [do |-> "target"],
  If({"{"}, <<In("RELATION_LIT", <<Eat, List(<<Element>>, "}", "P0033")>>)>>, <<ExprOr("P0014")>>)>>
  \o Semi("P0013"))
UpdateStmt == In("UPDATE_STMT", <<Eat, AnExpr("P0014", FALSE, FALSE),
  If({"{"}, <<Args(FALSE, FALSE)>>, <<Err("P0054")>>)>> \o Semi("P0013"))

(***************************************************************************)
(* Expressions.                                                             *)
(***************************************************************************)
Postfix(t) == CASE t = "{" -> In("CALL_EXPR", <<Args(TRUE, FALSE)>>)
                [] t = "." -> In("FIELD_ACCESS", <<Eat, Trivia, Ident("P0030")>>)
                [] t = "[" -> In("INDEX_EXPR", <<Eat, ExprOr("P0058"), Tok("]", "P0057")>>)

\* The `{ new: { a, b }, ... }` list of `wrap` and `group`, with its codes.
PairList(kind, open, name, colon, lopen, lident, lclose, close) ==
  <<If({"{"}, <<Eat, List(<<In(kind, Name(name) \o <<Tok(":", colon)>>
                                       \o Idents(lopen, lident, lclose))>>, "}", close)>>,
       <<Err(open)>>)>>

RenamingSuffix(word) ==
  CASE word = "project" -> In("PROJECT_EXPR", <<Eat, Opt("all", <<Eat, Tok("but", "P0039")>>)>>
                                \o Idents("P0036", "P0037", "P0038"))
    [] word = "replace" -> In("REPLACE_EXPR", <<Eat>> \o ArgsOr("P0040"))
    [] word = "rename" -> In("RENAME_EXPR", <<Eat>> \o ArgsOr("P0034"))
    [] word = "wrap" -> In("WRAP_EXPR", <<Eat>> \o PairList("WRAP_PAIR", "P0044", "P0045", "P0046",
                                                            "P0047", "P0048", "P0049", "P0050"))

NestingSuffix(word) ==
  CASE word = "unwrap" -> In("UNWRAP_EXPR", <<Eat>> \o Idents("P0051", "P0052", "P0053"))
    [] word = "group" -> In("GROUP_EXPR", <<Eat>> \o PairList("GROUP_PAIR", "P0032", "P0087", "P0088",
                                                              "P0089", "P0090", "P0091", "P0092"))
    [] word = "ungroup" -> In("UNGROUP_EXPR", <<Eat>> \o Idents("P0093", "P0094", "P0095"))
    [] word = "extend" -> In("EXTEND_EXPR", <<Eat>> \o ArgsOr("P0043"))
    [] word = "tclose" -> In("TCLOSE_EXPR", <<Eat, Opt("{", Idents("", "P0041", "P0042"))>>)

Suffix(word) == IF word \in {"project", "replace", "rename", "wrap"} THEN RenamingSuffix(word)
                ELSE NestingSuffix(word)

IfExpr == In("IF_EXPR", <<Eat, Expr, Need("then", "P0059"), NeedBlock("P0060"),
                          Opt("else", <<Eat, NeedBlock("P0061")>>)>>)
Prefixed == In("UNARY_EXPR", <<Eat, Sub("Operand")>>)
TransactionExpr == In("TRANSACTION_EXPR", <<Eat, Sub("Block")>>)
TupleLit == In("TUPLE_LIT", <<Eat, List(<<Arg(TRUE, TRUE)>>, "}", "P0029")>>)
RelationLit == In("RELATION_LIT", <<Eat, Eat, List(<<Element>>, "}", "P0033")>>)
SequenceLit == In("SEQUENCE_LIT", <<Eat, Eat, List(<<Element>>, "]", "P0056")>>)

Primary(p) ==
  LET t == Current(p)  next == Nth(p, 1)
  IN  CASE t = "transaction" /\ next = "[" -> TransactionExpr
        [] t = "if" -> IfExpr
        [] t = "Relation" /\ next = "{" -> RelationLit
        [] t = "Sequence" /\ next = "[" -> SequenceLit
        [] t \in {"extract", "not", "NEG", "+", "-"} -> Prefixed
        [] t \in {"true", "false"} -> In("BOOL_LITERAL", <<Eat>>)
        [] t \in Literals -> In("LITERAL", <<Eat>>)
        [] t = "{" -> TupleLit
        [] t = "(" -> In("PAREN_EXPR", <<Eat, Expr, Tok(")", "P0035")>>)
        [] OTHER -> IF IsWord(t) THEN In("NAME_REF", <<Eat>>) ELSE Err("P0014")

(***************************************************************************)
(* Recovery.                                                                *)
(***************************************************************************)
Openers == {"{", "[", "("}
Closers == {"}", "]", ")"}
KindOfBracket(t) == CASE t \in {"{", "}"} -> 1 [] t \in {"[", "]"} -> 2 [] t \in {"(", ")"} -> 3

\* skip_to_top_level_anchor: up to and over the next `;` at depth zero.  The
\* depths are signed: a closer nobody opened leaves its depth below zero.
RECURSIVE Anchor(_, _)
Anchor(p, depth) ==
  LET t == Current(p)
  IN  CASE t = Eof -> p
        [] t \in Openers -> Anchor(Bump(p), [depth EXCEPT ![KindOfBracket(t)] = @ + 1])
        [] t \in Closers -> Anchor(Bump(p), [depth EXCEPT ![KindOfBracket(t)] = @ - 1])
        [] t = ";" /\ depth = <<0, 0, 0>> -> Bump(p)
        [] OTHER -> Anchor(Bump(p), depth)

Skip(p) == Anchor(p, <<0, 0, 0>>)

(***************************************************************************)
(* Running the productions.                                                 *)
(***************************************************************************)
\* A loop whose body consumed nothing goes round for ever: `stuck`.
Progressed(before, p) == IF ~Moved(before, p) THEN [p EXCEPT !.stuck = TRUE] ELSE p

HeadAt(p, word) == Current(p) = word /\ Nth(p, 1) # ":="
Statement(p) ==
  CASE HeadAt(p, "let") -> LetStmt [] HeadAt(p, "var") -> VarStmt
    [] HeadAt(p, "truncate") -> TruncateStmt [] HeadAt(p, "delete") -> DeleteStmt
    [] HeadAt(p, "insert") -> InsertStmt [] HeadAt(p, "update") -> UpdateStmt
    [] HeadAt(p, "for") -> ForStmt [] HeadAt(p, "while") -> WhileStmt
    [] HeadAt(p, "do") -> DoWhileStmt [] HeadAt(p, "load") -> LoadStmt
    [] HeadAt(p, "return") -> ReturnStmt [] OTHER -> Sub("ExprStmt")

Item(p) ==
  LET t == Current(p)
  IN  CASE t \in {"program", "library", "module"} -> <<FileHeader>>
        [] t = "database" -> <<DatabaseBinding>>
        [] t = "public" -> <<RelvarWithHeading("PUBLIC_RELVAR_DECL")>>
        [] t = "private" -> <<RelvarWithHeading("PRIVATE_RELVAR_DECL")>>
        [] t = "base" -> <<BaseRelvar>>
        [] t = "virtual" -> <<VirtualRelvar>>
        [] t = "builtin" -> IF Nth(p, 1) = "relvar" THEN <<RelvarWithHeading("BUILTIN_RELVAR_DECL")>>
                            ELSE <<BuiltinOper>>
        [] t = "oper" -> <<OperDecl>>
        [] t = "type" -> <<TypeDecl>>
        [] t = "use" -> <<UseDecl>>
        [] t = "let" -> <<LetStmt>>
        [] t = "var" -> <<Err("P0086"), VarStmt>>
        [] OTHER -> <<UnknownItem("P0001")>>

CddbItem(p) ==
  LET t == Current(p)
  IN  CASE IsWord(t) /\ Nth(p, 1) = ":=" -> <<RelvarInit>>
        [] t = "base" -> <<BaseRelvar>>
        [] t = "virtual" -> <<VirtualRelvar>>
        [] t = "public" -> <<RelvarWithHeading("PUBLIC_RELVAR_DECL")>>
        [] t = "private" -> <<RelvarWithHeading("PRIVATE_RELVAR_DECL")>>
        [] OTHER -> <<UnknownItem("PB0004")>>

CdmapItem(p) == IF IsWord(Current(p)) THEN <<CdmapEntry>> ELSE <<UnknownItem("PM0006")>>

Production(name) ==
  CASE name = "Heading" -> Heading [] name = "Param" -> Param [] name = "TypeRef" -> TypeRef
    [] name = "ModulePath" -> ModulePath [] name = "Keys" -> Keys [] name = "Block" -> Block
    [] name = "SortItem" -> SortItem

\* A slip: what is missing is not reported.
ExpectQuietly(p, found, s) == IF found THEN Bump(p) ELSE [p EXCEPT !.left = s.must]

\* bump() when at the word or symbol t, and the error code otherwise.
Expect(p, found, s) ==
  IF found THEN Bump(p) ELSE [Error(p, s.code) EXCEPT !.left = s.must]

Direction(p) == IF Current(p) \in {"asc", "desc"} /\ IsWord(Nth(p, 1)) THEN Bump(p) ELSE p

RECURSIVE Run(_, _), Step(_, _), Listed(_, _), Repeat(_, _), Statements(_, _), Subtree(_, _),
          NamedArg(_, _), ParseExpr(_, _, _), PostfixLoop(_, _, _), PipelineLoop(_, _, _, _),
          ExprStmt(_)

\* The steps of a production in order, until one of them leaves it.
Run(steps, p) == IF steps = <<>> \/ p.left THEN p ELSE Run(Tail(steps), Step(Head(steps), p))

Step(s, p) ==
  CASE s.do = "bump" -> Bump(p)
    [] s.do = "trivia" -> BumpTrivia(p)
    [] s.do = "reserved" -> IF Current(p) \in Reserved THEN Error(p, s.code) ELSE p
    [] s.do = "error" -> Error(p, s.code)
    [] s.do = "leave" -> [Error(p, s.code) EXCEPT !.left = TRUE]
    [] s.do = "tok" -> Expect(p, Current(p) = s.t, s)
    [] s.do = "ident" -> Expect(p, IsWord(Current(p)), s)
    [] s.do = "if" -> Run(IF Current(p) \in s.ts THEN s.then ELSE s.else, p)
    [] s.do = "while" -> Repeat(s, p)
    [] s.do = "node" -> FinishNode(Run(s.steps, StartNode(BumpTrivia(p), s.kind)))
    [] s.do = "list" -> IF Current(p) = s.close THEN Bump(p)
                        ELSE Expect(Listed(s, p), Current(Listed(s, p)) = s.close,
                                    [code |-> s.code, must |-> FALSE])
    [] s.do = "expr" -> LET q == ParseExpr(p, 0, s.brace)
                        IN  IF Moved(p, q) THEN q
                            ELSE [(IF s.code = "" THEN q ELSE Error(q, s.code)) EXCEPT !.left = s.must]
    [] s.do = "arg" -> FinishNode(NamedArg(s, StartNode(BumpTrivia(p), "NAMED_ARG")))
    [] s.do = "direction" -> Direction(p)
    [] s.do = "target" -> IF IsWord(Current(p)) THEN Step(In("NAME_REF", <<Eat>>), p)
                          ELSE Error(p, "P0014")
    [] s.do = "sub" -> Subtree(s.name, p)

Subtree(name, p) ==
  CASE name = "Skip" -> Skip(p)
    [] name = "Statements" -> Statements(p, {"]", Eof})
    [] name = "ExprStmt" -> ExprStmt(p)
    [] name = "Operand" -> ParseExpr(p, PrefixPrecedence, TRUE)
    [] OTHER -> Step(Production(name), p)

Repeat(s, p) == IF Current(p) # s.t THEN p ELSE Repeat(s, Run(s.steps, p))

\* The elements of a list with their commas, a trailing one allowed.
Listed(s, p) ==
  LET q == Run(s.elem, p)
  IN  IF q.left THEN [q EXCEPT !.left = FALSE]
      ELSE IF Current(q) # "," THEN q
      ELSE IF Nth(q, 1) = s.close THEN Bump(q)
      ELSE Listed(s, Bump(q))

\* parse_named_arg: a name without a value reads as the value of that name
\* where the shorthand is allowed.
NamedArg(s, p) ==
  LET named == IsWord(Current(p))
      checked == IF s.check /\ Current(p) \in Reserved THEN Error(p, "P0096") ELSE p
      q == Expect(checked, named, [code |-> "P0016", must |-> FALSE])
  IN  IF Current(q) = ":" THEN ParseExpr(Bump(q), 0, TRUE)
      ELSE IF s.short /\ named THEN FinishNode(StartNodeAt(q, 0, "NAME_REF"))
      ELSE ParseExpr(Error(q, "P0017"), 0, TRUE)

\* Statements up to a token of `stop`; parse_stmt itself never reads a `]`.
Statements(p, stop) ==
  IF Current(p) \in stop \/ p.stuck THEN p
  ELSE IF Current(p) = "]" THEN Progressed(p, p)
  ELSE Statements(Progressed(p, Step(Statement(p), p)), stop)

\* A slip: a token no expression starts with is left where it is.
Stay(p) == p

\* What parse_stmt does with such a token.
NoProgress(p) == Bump(p)

\* The end of parse_stmt: an expression is a tail, a target or a statement.
\* Trivia before a token that starts none is progress enough: the statement is
\* then an empty one, and the token is met again without its trivia.
ExprStmt(p) ==
  LET cp == Checkpoint(p)  q == ParseExpr(p, 0, TRUE)
  IN  IF ~Moved(p, q) THEN NoProgress(q)
      ELSE IF Current(q) = "]" THEN q
      ELSE IF Current(q) = ":="
      THEN FinishNode(Run(<<Eat, ExprOr("P0014")>> \o Semi("P0013"),
                          StartNodeAt(q, cp, "ASSIGN_STMT")))
      ELSE FinishNode(Run(Semi("P0013"), StartNodeAt(q, cp, "EXPR_STMT")))

\* parse_expr_prec: a primary, its postfixes, then suffixes and infix operators
\* at least as binding as min.  Without brace, `{` does not open a call.
ParseExpr(p, min, brace) ==
  LET cp == Checkpoint(p)  q == Step(Primary(p), BumpTrivia(p))
  IN  IF q.at = p.at THEN q ELSE PipelineLoop(PostfixLoop(q, cp, brace), cp, min, brace)

PostfixLoop(p, cp, brace) ==
  IF Current(p) \in {".", "["} \/ (Current(p) = "{" /\ brace)
  THEN LET form == Postfix(Current(p))
       IN  PostfixLoop(FinishNode(Run(form.steps, StartNodeAt(p, cp, form.kind))), cp, brace)
  ELSE p

Antijoin(p) == Current(p) = "not" /\ Nth(p, 1) = "matching"
AtInfix(p) == Current(p) \in InfixWords \cup InfixSymbols \/ Antijoin(p)
PeekInfix(p) == IF Antijoin(p) THEN 0 ELSE Precedence(Current(p))

PipelineLoop(p, cp, min, brace) ==
  IF min = 0 /\ Current(p) \in Suffixes
  THEN LET form == Suffix(Current(p))
       IN  PipelineLoop(FinishNode(Run(form.steps, StartNodeAt(p, cp, form.kind))), cp, min, brace)
  ELSE IF AtInfix(p) /\ PeekInfix(p) >= min
  THEN LET q == StartNodeAt(p, cp, "BINARY_EXPR")
           operator == IF Antijoin(p) THEN Bump(Bump(q)) ELSE Bump(q)
       IN  PipelineLoop(FinishNode(ParseExpr(operator, PeekInfix(p) + 1, brace)), cp, min, brace)
  ELSE p

(***************************************************************************)
(* The roots.                                                               *)
(***************************************************************************)
ItemsOf(dialect, p) == CASE dialect = "cd" -> Item(p) [] dialect = "cddb" -> CddbItem(p)
                         [] dialect = "cdmap" -> CdmapItem(p)

RECURSIVE Items(_, _)
Items(dialect, p) ==
  IF Current(p) = Eof \/ p.stuck THEN p
  ELSE Items(dialect, Progressed(p, Run(ItemsOf(dialect, p), p)))

\* A dialect with a header reads it first and misses it aloud.
Headed(p, word, header, code) ==
  IF Current(p) = word THEN Step(header, p) ELSE IF Current(p) = Eof THEN p ELSE Error(p, code)

Finished(p) == [tree |-> p.open[1], errs |-> p.errs, stuck |-> p.stuck]

Parse(dialect, ts, gaps) ==
  LET Root(name) == NewParser(ts, gaps, name)
  IN  Finished(CASE dialect = "cd" -> Items(dialect, Root("ROOT"))
                 [] dialect = "cddb" -> Items(dialect, Headed(Root("CDDB_ROOT"), "database",
                                                              DatabaseDecl, "PB0001"))
                 [] dialect = "cdmap" -> Items(dialect, Headed(Root("CDMAP_ROOT"), "map",
                                                               CdmapHeader, "PM0001"))
                 [] dialect = "cdstore" -> Statements(Root("CDSTORE_ROOT"), {Eof}))

(***************************************************************************)
(* The typed view of a tree (ast.rs): what a node says, the words it names  *)
(* and its parts.                                                           *)
(***************************************************************************)
View(op, names, parts) == [op |-> op, names |-> names, parts |-> parts]
None == View("none", <<>>, <<>>)

IsToken(n) == n.kind = "token"
Nodes(n) == SelectSeq(n.kids, LAMBDA k : ~IsToken(k))
Texts(n) == LET tokens == SelectSeq(n.kids, IsToken) IN [i \in 1..Len(tokens) |-> tokens[i].text]
Words(n) == SelectSeq(Texts(n), IsWord)
From(s, i) == SubSeq(s, i, Len(s))
First(s) == IF s = <<>> THEN None ELSE s[1]
Nth1(s, i) == IF i <= Len(s) THEN <<s[i]>> ELSE <<>>

\* The words up to the first `{` and those after it.
BraceAt(n) == LET ts == Texts(n)
                  at == {i \in 1..Len(ts) : ts[i] = "{"}
              IN  IF at = {} THEN Len(ts) + 1 ELSE CHOOSE i \in at : \A j \in at : i <= j
BeforeBrace(n) == SelectSeq(SubSeq(Texts(n), 1, BraceAt(n) - 1), IsWord)
AfterBrace(n) == SelectSeq(From(Texts(n), BraceAt(n) + 1), IsWord)

PrimaryKinds == {"NAME_REF", "LITERAL", "CALL_EXPR", "TRANSACTION_EXPR", "TUPLE_LIT",
  "RELATION_LIT", "SEQUENCE_LIT", "BOOL_LITERAL"}
OperatorKinds == {"BINARY_EXPR", "UNARY_EXPR", "INDEX_EXPR", "IF_EXPR", "FIELD_ACCESS"}
RenamingKinds == {"PROJECT_EXPR", "REPLACE_EXPR", "RENAME_EXPR", "WRAP_EXPR"}
NestingKinds == {"UNWRAP_EXPR", "GROUP_EXPR", "UNGROUP_EXPR", "EXTEND_EXPR", "TCLOSE_EXPR"}
ExprKinds == PrimaryKinds \cup OperatorKinds \cup RenamingKinds \cup NestingKinds \cup {"PAREN_EXPR"}
LoopKinds == {"FOR_STMT", "WHILE_STMT", "DO_WHILE_STMT", "LOAD_STMT"}
WriteKinds == {"ASSIGN_STMT", "TRUNCATE_STMT", "DELETE_STMT", "INSERT_STMT", "UPDATE_STMT",
  "EXPR_STMT"}
StmtKinds == {"LET_STMT", "VAR_STMT", "RETURN_STMT"} \cup LoopKinds \cup WriteKinds
ItemKinds == {"PROGRAM_DECL", "DATABASE_BINDING", "PUBLIC_RELVAR_DECL", "PRIVATE_RELVAR_DECL",
  "BUILTIN_RELVAR_DECL", "BASE_RELVAR_DECL", "VIRTUAL_RELVAR_DECL", "OPER_DECL", "TYPE_DECL",
  "USE_DECL", "LET_STMT", "DATABASE_DECL", "RELVAR_INIT", "CDMAP_HEADER", "CDMAP_ENTRY"}

\* BinaryExpr::op_kind and op_token; UnaryExpr::op_kind; glyphs mean their words.
OpToken(n) == SelectSeq(Texts(n), LAMBDA t : t \in InfixWords \cup InfixSymbols)
HasNotPrefix(n) == \E i \in DOMAIN Texts(n) : Texts(n)[i] = "not"
OpKind(n) == LET t == IF OpToken(n) = <<>> THEN "none" ELSE OpToken(n)[1]
             IN  IF t = "matching" /\ HasNotPrefix(n) THEN "not matching"
                 ELSE IF t = "BOWTIE" THEN "join" ELSE t
UnaryKind(n) == LET t == Texts(n)[1]
                IN  CASE t = "NEG" -> "not" [] t \in {"+", "-"} -> "prefix " \o t [] OTHER -> t
IsAllBut(n) == \E i \in DOMAIN BeforeBrace(n) : BeforeBrace(n)[i] = "all"
IsDesc(n) == Len(Words(n)) >= 2 /\ Words(n)[1] = "desc"
IsForIn(n) == \A i \in DOMAIN Texts(n) : Texts(n)[i] # ":="
IsBuiltin(n) == Nth1(Words(n), 1) = <<"builtin">>

RECURSIVE Read(_), ReadAll(_), Unwrapped(_)

\* Expr::cast: parentheses are transparent, empty ones are nothing.
Unwrapped(nodes) ==
  IF nodes = <<>> THEN <<>>
  ELSE (IF Head(nodes).kind = "PAREN_EXPR"
        THEN LET inner == Unwrapped(SelectSeq(Nodes(Head(nodes)), LAMBDA k : k.kind \in ExprKinds))
             IN  Nth1(inner, 1)
        ELSE <<Head(nodes)>>) \o Unwrapped(Tail(nodes))

ReadAll(nodes) == IF nodes = <<>> THEN <<>> ELSE <<Read(Head(nodes))>> \o ReadAll(Tail(nodes))
Kids(n, kinds) == ReadAll(SelectSeq(Nodes(n), LAMBDA k : k.kind \in kinds))
Exprs(n) == ReadAll(Unwrapped(SelectSeq(Nodes(n), LAMBDA k : k.kind \in ExprKinds)))
Named(n, op, i, parts) == View(op, Nth1(Words(n), i), parts)
TypeOf(n) == First(Kids(n, {"TYPE_REF"}))
HeadingOf(n) == First(Kids(n, {"HEADING"}))
BlocksOf(n) == Kids(n, {"BLOCK"})
ArgsOf(n) == LET lists == SelectSeq(Nodes(n), LAMBDA k : k.kind = "ARG_LIST")
             IN  IF lists = <<>> THEN <<>> ELSE Kids(lists[1], {"NAMED_ARG"})
Relvar(n, op) == Named(n, op, 3, <<HeadingOf(n)>> \o Kids(n, {"KEY_CLAUSE"}))

\* NamedArg::name falls back on the name its shorthand value reads.
ReadArg(n) ==
  LET value == First(Exprs(n))
  IN  View("arg", IF Words(n) # <<>> THEN Nth1(Words(n), 1)
                  ELSE IF value.op = "name" THEN value.names ELSE <<>>, <<value>>)

ReadDeclaration(n) ==
  CASE n.kind = "PROGRAM_DECL" -> View("header", Nth1(Words(n), 1) \o Nth1(Words(n), 2), <<>>)
    [] n.kind \in {"DATABASE_BINDING", "DATABASE_DECL"} -> Named(n, "database", 2, <<>>)
    [] n.kind = "PUBLIC_RELVAR_DECL" -> Relvar(n, "public")
    [] n.kind = "PRIVATE_RELVAR_DECL" -> Relvar(n, "private")
    [] n.kind = "BUILTIN_RELVAR_DECL" -> Relvar(n, "builtin")
    [] n.kind = "BASE_RELVAR_DECL" -> Relvar(n, "base")
    [] n.kind = "VIRTUAL_RELVAR_DECL" -> Named(n, "virtual", 3, <<>>)

ReadOper(n) ==
  LET returns == SelectSeq(Nodes(n), LAMBDA k : k.kind = "RETURN_CLAUSE")
  IN  Named(n, IF IsBuiltin(n) THEN "builtin oper" ELSE "oper", IF IsBuiltin(n) THEN 3 ELSE 2,
            <<HeadingOf(n), IF returns = <<>> THEN None ELSE TypeOf(returns[1]), First(BlocksOf(n))>>)

ReadUse(n) ==
  View("use", LET paths == SelectSeq(Nodes(n), LAMBDA k : k.kind = "MODULE_PATH")
              IN  IF paths = <<>> THEN <<>> ELSE Words(paths[1]), <<>>)

ReadItem(n) ==
  CASE n.kind = "OPER_DECL" -> ReadOper(n)
    [] n.kind = "TYPE_DECL" -> Named(n, "type", 2, <<HeadingOf(n), TypeOf(n)>>)
    [] n.kind = "USE_DECL" -> ReadUse(n)
    [] n.kind = "RELVAR_INIT" -> Named(n, "init", 1, <<First(Exprs(n))>>)
    [] n.kind = "CDMAP_HEADER" -> View("map", Nth1(Words(n), 2) \o Nth1(Words(n), 4), <<>>)
    [] n.kind = "CDMAP_ENTRY" -> View("entry", Nth1(Words(n), 1) \o Nth1(Words(n), 2), <<>>)
    [] OTHER -> ReadDeclaration(n)

Second(s) == First(From(s, 2))

ReadBinding(n) ==
  LET value == First(Exprs(n))
  IN  CASE n.kind = "LET_STMT" -> Named(n, "let", 2, <<TypeOf(n), value>>)
        [] n.kind = "VAR_STMT" -> Named(n, "var", 2, <<TypeOf(n), value>>)
        [] n.kind = "RETURN_STMT" -> View("return", <<>>, <<value>>)

ReadLoop(n) ==
  LET es == Exprs(n)  body == First(BlocksOf(n))
  IN  CASE n.kind = "FOR_STMT" /\ IsForIn(n) -> Named(n, "for in", 2, <<First(es), body>>)
        [] n.kind = "FOR_STMT" /\ ~IsForIn(n) -> Named(n, "for", 2, <<First(es), Second(es), body>>)
        [] n.kind = "WHILE_STMT" -> View("while", <<>>, <<First(es), body>>)
        [] n.kind = "DO_WHILE_STMT" -> View("do while", <<>>, <<body, First(es)>>)
        [] n.kind = "LOAD_STMT" -> Named(n, "load", 2, <<First(es)>> \o Kids(n, {"SORT_ITEM"}))

ReadWrite(n) ==
  LET es == Exprs(n)
  IN  CASE n.kind = "ASSIGN_STMT" -> View("assign", <<>>, <<First(es), Second(es)>>)
        [] n.kind = "TRUNCATE_STMT" -> View("truncate", <<>>, <<First(es)>>)
        [] n.kind = "DELETE_STMT" -> View("delete", <<>>, <<First(es)>>)
        [] n.kind = "INSERT_STMT" -> View("insert", <<>>, <<First(es), Second(es)>>)
        [] n.kind = "UPDATE_STMT" -> View("update", <<>>, <<First(es)>> \o ArgsOf(n))
        [] n.kind = "EXPR_STMT" -> View("do it", <<>>, <<First(es)>>)

ReadPrimary(n) ==
  CASE n.kind = "NAME_REF" -> Named(n, "name", 1, <<>>)
    [] n.kind = "LITERAL" -> View("literal", Texts(n), <<>>)
    [] n.kind = "BOOL_LITERAL" -> Named(n, "boolean", 1, <<>>)
    [] n.kind = "CALL_EXPR" -> View("call", <<>>, <<First(Exprs(n))>> \o ArgsOf(n))
    [] n.kind = "TRANSACTION_EXPR" -> View("transaction", <<>>, <<First(BlocksOf(n))>>)
    [] n.kind = "TUPLE_LIT" -> View("tuple", <<>>, Kids(n, {"NAMED_ARG"}))
    [] n.kind = "RELATION_LIT" -> View("Relation", <<>>, Exprs(n))
    [] n.kind = "SEQUENCE_LIT" -> View("Sequence", <<>>, Exprs(n))

ReadOperator(n) ==
  LET es == Exprs(n)
  IN  CASE n.kind = "BINARY_EXPR" -> View(OpKind(n), <<>>, <<First(es), Second(es)>>)
        [] n.kind = "UNARY_EXPR" -> View(UnaryKind(n), <<>>, <<First(es)>>)
        [] n.kind = "INDEX_EXPR" -> View("index", <<>>, <<First(es), Second(es)>>)
        [] n.kind = "IF_EXPR" -> View("if", <<>>, <<First(es)>> \o BlocksOf(n))
        [] n.kind = "FIELD_ACCESS" -> Named(n, "field", 1, <<First(es)>>)

ReadRenaming(n) ==
  LET input == <<First(Exprs(n))>>
  IN  CASE n.kind = "PROJECT_EXPR" -> View(IF IsAllBut(n) THEN "project all but" ELSE "project",
                                           AfterBrace(n), input)
        [] n.kind = "REPLACE_EXPR" -> View("replace", <<>>, input \o ArgsOf(n))
        [] n.kind = "RENAME_EXPR" -> View("rename", <<>>, input \o ArgsOf(n))
        [] n.kind = "WRAP_EXPR" -> View("wrap", <<>>, input \o Kids(n, {"WRAP_PAIR"}))

ReadNesting(n) ==
  LET input == <<First(Exprs(n))>>
  IN  CASE n.kind = "UNWRAP_EXPR" -> View("unwrap", AfterBrace(n), input)
        [] n.kind = "GROUP_EXPR" -> View("group", <<>>, input \o Kids(n, {"GROUP_PAIR"}))
        [] n.kind = "UNGROUP_EXPR" -> View("ungroup", AfterBrace(n), input)
        [] n.kind = "EXTEND_EXPR" -> View("extend", <<>>, input \o ArgsOf(n))
        [] n.kind = "TCLOSE_EXPR" -> View("tclose", AfterBrace(n), input)

ReadPart(n) ==
  CASE n.kind = "BLOCK" -> View("block", <<>>, Kids(n, StmtKinds) \o Nth1(Exprs(n), 1))
    [] n.kind = "KEY_CLAUSE" -> View("key", From(Words(n), 2), <<>>)
    [] n.kind = "HEADING" -> View("heading", <<>>, Kids(n, {"PARAM"}))
    [] n.kind = "PARAM" -> Named(n, "param", 1, <<TypeOf(n)>>)
    [] n.kind = "TYPE_REF" -> Named(n, "type name", 1, Kids(n, {"TYPE_REF"}) \o Kids(n, {"HEADING"}))

ReadPair(n) == View("pair", Nth1(BeforeBrace(n), 1) \o AfterBrace(n), <<>>)
ReadSort(n) == View(IF IsDesc(n) THEN "desc" ELSE "asc", Nth1(Words(n), Len(Words(n))), <<>>)

Read(n) ==
  CASE n.kind \in PrimaryKinds -> ReadPrimary(n)
    [] n.kind \in OperatorKinds -> ReadOperator(n)
    [] n.kind \in RenamingKinds -> ReadRenaming(n)
    [] n.kind \in NestingKinds -> ReadNesting(n)
    [] n.kind \in {"LET_STMT", "VAR_STMT", "RETURN_STMT"} -> ReadBinding(n)
    [] n.kind \in LoopKinds -> ReadLoop(n)
    [] n.kind \in WriteKinds -> ReadWrite(n)
    [] n.kind \in ItemKinds \ {"LET_STMT"} -> ReadItem(n)
    [] n.kind = "NAMED_ARG" -> ReadArg(n)
    [] n.kind \in {"WRAP_PAIR", "GROUP_PAIR"} -> ReadPair(n)
    [] n.kind = "SORT_ITEM" -> ReadSort(n)
    [] OTHER -> ReadPart(n)

\* The items of a file; a `.cdstore` is read as statements.
ReadFile(tree) == Kids(tree, IF tree.kind = "CDSTORE_ROOT" THEN StmtKinds ELSE ItemKinds)
=============================================================================
