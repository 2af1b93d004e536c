------------------------------ MODULE MCParser ------------------------------
(***************************************************************************)
(* Files for the model checker: every form of the grammar, every form       *)
(* within every other, every statement and item around every form, and the  *)
(* contextual words as names wherever a name may stand.                     *)
(***************************************************************************)
EXTENDS Parser, MCForms

Nested == UNION {Around(e, "b") : e \in Forms("x")}
          \cup UNION {Between(e, Ref("z")) \cup Between(Ref("z"), e) : e \in Forms("x")}

Of(dialect, items) == [dialect |-> dialect, items |-> items, damaged |-> FALSE]
Slippery(dialect, items) == [Of(dialect, items) EXCEPT !.damaged = TRUE]

\* Words that are keywords in one position and names in every other.
Contextual == {"project", "where", "matching", "all", "but", "asc", "desc", "order", "from", "to",
               "in", "do", "then", "else", "key", "relvar", "oper", "delete", "Relation", "Sequence"}
\* The traps the lookahead leaves: `Sequence [` and `Relation {` are literals
\* whatever is in scope, and a word that heads a statement heads it at the end of
\* a block, too.
Trap(e, n) == \/ n \in {"Relation", "Sequence"} /\ e.op \in {"index", "call"} /\ e.parts[1] = Ref(n)
              \/ n \in StatementHeads /\ e.op \in {"if", "transaction"}
NotAType(f) == \A i \in DOMAIN f.items :
                 ~(f.items[i].op \in {"type", "builtin oper"} /\ f.items[i].names[1] \in {"Relation", "Sequence"})

Deep == {Of("cd", <<View("let", <<"v">>, <<None, e>>)>>) : e \in Nested}
Bodies == {Of("cd", <<Body(<<s>>)>>) : s \in Updates \cup UNION {Statements1(e, "n") : e \in Forms("x")}}
Named1 == UNION {{Of("cd", <<Body(<<View("return", <<>>, <<e>>)>>)>>) : e \in {g \in Forms(n) : ~Trap(g, n)}}
                 \cup {Of("cd", <<Body(<<s>>)>>) : s \in Statements1(Ref(n), n)}
                 \cup {Of("cd", <<i, View("let", <<"v">>, <<None, Ref(n)>>)>>) : i \in ItemsNaming(n)} : n \in Contextual}
Dialects == {Of("cddb", <<View("database", <<n>>, <<>>), View("base", <<n>>, <<HeadOf(<<n>>), View("key", <<n>>, <<>>)>>),
                          View("init", <<n>>, <<View("Relation", <<>>, <<Ref(n)>>)>>), View("public", <<n>>, <<HeadOf(<<n>>)>>)>>)
             : n \in Contextual}
            \cup {Of("cdmap", <<View("map", <<n, n>>, <<>>), View("entry", <<n, n>>, <<>>), View("entry", <<"a", n>>, <<>>)>>)
                  : n \in Contextual}
            \cup {Of("cdstore", <<View("insert", <<>>, <<Ref(n), View("Relation", <<>>, <<Ref(n)>>)>>),
                                  View("assign", <<>>, <<Ref(n), Ref(n)>>)>>) : n \in Contextual}

\* The files a slip may spoil; each has a last item that should survive it.
Follower == View("let", <<"w">>, <<None, One>>)
Slips == {Slippery("cd", <<Body(<<s>>), Follower>>) : s \in Statements1(Ref("x"), "n") \cup {Update(Ref("x"))}}
         \cup {Slippery("cd", <<View("let", <<"v">>, <<None, e>>), Follower>>) : e \in Forms("x")}
         \cup {Slippery("cd", <<i, Follower>>) : i \in ItemsNaming("n")}
         \cup {Slippery("cddb", <<View("database", <<"d">>, <<>>), View("base", <<"n">>, <<HeadOf(<<"a">>), View("key", <<"a">>, <<>>)>>),
                                  View("init", <<"n">>, <<One>>)>>),
               Slippery("cdmap", <<View("map", <<"p", "d">>, <<>>), View("entry", <<"a", "b">>, <<>>)>>)}

AllFiles == {f \in Deep \cup Bodies \cup Named1 \cup Dialects \cup Slips : NotAType(f)}
AllTypos == {"x", "if", "}", "]", "[", ":=", ",", ";"}

\* The run of a `.cdstore` with a closer nobody opened.
StoreFiles == {Slippery("cdstore", <<View("assign", <<>>, <<Ref("x"), Ref("y")>>)>>)}
=============================================================================
