------------------------------ MODULE MCForms -------------------------------
(***************************************************************************)
(* The sentences the model checker writes: every form of the grammar around *)
(* an expression, the statements, and the items naming a name.              *)
(***************************************************************************)
EXTENDS Grammar

Ref(n) == View("name", <<n>>, <<>>)
One == View("literal", <<"1">>, <<>>)
Arg1(n, e) == View("arg", <<n>>, <<e>>)
BlockOf(stmts) == View("block", <<>>, stmts)
TypeNamed(n) == View("type name", <<n>>, <<>>)
HeadOf(ns) == View("heading", <<>>, [i \in DOMAIN ns |-> View("param", <<ns[i]>>, <<TypeNamed("T")>>)])

\* One operator of each level, and the two-word one.
Dyadic == {"where", "matching", "not matching", "or", "and", "=", "-", "div"}

\* Every form around one expression, naming n where it names something.
Around(e, n) ==
  {View(op, <<>>, <<e>>) : op \in {"not", "extract", "prefix -"}}
  \cup {View(op, <<n, "y">>, <<e>>) : op \in {"project", "project all but", "tclose", "unwrap", "ungroup"}}
  \cup {View(op, <<>>, <<e, Arg1(n, Ref("y"))>>) : op \in {"replace", "extend", "rename"}}
  \cup {View(op, <<>>, <<e, View("pair", <<n, "y">>, <<>>)>>) : op \in {"wrap", "group"}}
  \cup {View("tclose", <<>>, <<e>>), View("field", <<n>>, <<e>>), View("index", <<>>, <<e, One>>),
        View("call", <<>>, <<e, Arg1(n, Ref(n))>>), View("call", <<>>, <<Ref("f"), Arg1(n, e)>>),
        View("tuple", <<>>, <<Arg1(n, e), Arg1("y", Ref("y"))>>), View("Relation", <<>>, <<e>>),
        View("Sequence", <<>>, <<e, One>>), View("index", <<>>, <<Ref("s"), e>>),
        View("if", <<>>, <<e, BlockOf(<<One>>), BlockOf(<<e>>)>>),
        View("transaction", <<>>, <<BlockOf(<<View("do it", <<>>, <<Ref("y")>>), e>>)>>)}
Between(l, r) == {View(op, <<>>, <<l, r>>) : op \in Dyadic}

Forms(n) == Around(Ref(n), n) \cup Between(Ref(n), Ref("y"))
\* The statements around an expression, naming n.
Statements1(e, n) ==
  {View("let", <<n>>, <<TypeNamed("T"), e>>), View("var", <<n>>, <<None, e>>),
   View("assign", <<>>, <<Ref("x"), e>>), View("truncate", <<>>, <<Ref("x")>>),
   View("delete", <<>>, <<e>>), View("insert", <<>>, <<Ref(n), View("Relation", <<>>, <<e, e>>)>>),
   View("insert", <<>>, <<Ref("x"), Ref(n)>>), View("do it", <<>>, <<View("call", <<>>, <<Ref("f"), Arg1("a", e)>>)>>),
   View("for in", <<n>>, <<e, BlockOf(<<>>)>>), View("for", <<n>>, <<e, One, BlockOf(<<One>>)>>),
   View("while", <<>>, <<e, BlockOf(<<View("return", <<>>, <<None>>)>>)>>),
   View("do while", <<>>, <<BlockOf(<<>>), e>>),
   View("load", <<n>>, <<e, View("desc", <<n>>, <<>>), View("asc", <<"y">>, <<>>)>>),
   View("load", <<"s">>, <<e>>), View("return", <<>>, <<e>>)}

\* An `update` of what a predicate selects; a prefix operator may not end it.
Update(p) == View("update", <<>>, <<View("where", <<>>, <<Ref("x"), p>>), Arg1("a", Ref("y"))>>)
Updates == {Update(p) : p \in Between(Ref("x"), Ref("y")) \ {View(op, <<>>, <<Ref("x"), Ref("y")>>) :
                                                           op \in {"where", "matching", "not matching"}}}
           \cup {Update(View("call", <<>>, <<Ref("f"), Arg1("a", Ref("x"))>>))}

Body(stmts) == View("oper", <<"f">>, <<HeadOf(<<"a">>), None, BlockOf(stmts)>>)

ItemsNaming(n) ==
  {View("header", <<"module", n>>, <<>>), View("database", <<n>>, <<>>),
   View("public", <<n>>, <<HeadOf(<<n, "b">>), View("key", <<n>>, <<>>), View("key", <<"b">>, <<>>)>>),
   View("private", <<n>>, <<HeadOf(<<>>)>>), View("builtin", <<n>>, <<HeadOf(<<n>>)>>),
   View("builtin oper", <<n>>, <<HeadOf(<<n>>), TypeNamed(n), None>>),
   View("oper", <<n>>, <<HeadOf(<<n, "b">>), View("type name", <<"Relation">>, <<HeadOf(<<n>>)>>), BlockOf(<<View("tuple", <<>>, <<Arg1(n, Ref(n))>>)>>)>>),
   View("type", <<n>>, <<HeadOf(<<n>>), None>>),
   View("type", <<n>>, <<None, View("type name", <<"Sequence">>, <<TypeNamed(n)>>)>>),
   View("use", <<n, "y", n>>, <<>>), View("let", <<n>>, <<None, One>>)}
=============================================================================
