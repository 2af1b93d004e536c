------------------------------ MODULE Grammar -------------------------------
(***************************************************************************)
(* The reference of the front end's properties: the grammar of              *)
(* docs/grammar.md read the other way, from what is meant (a view) to the   *)
(* sentence that says it, with no regard to how it is parsed.               *)
(*                                                                          *)
(* An operator takes an operand that binds at least as tightly, the right   *)
(* one more tightly; anything looser is parenthesised.  Where calls are     *)
(* suppressed (the target of an `update`) a call is parenthesised, too.     *)
(***************************************************************************)
EXTENDS Syntax

PrefixOps == {"not", "extract", "prefix -", "prefix +"}
InfixOps == {"where", "join", "times", "compose", "intersect", "union", "minus", "matching",
             "not matching", "when", "otherwise", "or", "and", "div"} \cup InfixSymbols
SuffixOps == Suffixes \cup {"project all but"}
Level(e) == CASE e.op \in SuffixOps -> 0
              [] e.op \in InfixOps ->
                   (CASE e.op = "or" -> 1 [] e.op = "and" -> 2 [] e.op \in Comparisons -> 3
                      [] e.op \in {"+", "-", "||"} -> 4 [] e.op \in {"*", "/", "div"} -> 5
                      [] OTHER -> 0)
              [] e.op \in PrefixOps -> 6
              [] OTHER -> 7

RECURSIVE Commas(_), Joined(_)
Commas(s) == IF s = <<>> THEN <<>> ELSE IF Len(s) = 1 THEN s[1]
             ELSE s[1] \o <<",">> \o Commas(Tail(s))
Joined(s) == IF s = <<>> THEN <<>> ELSE s[1] \o Joined(Tail(s))
Each(s, Write(_)) == [i \in 1..Len(s) |-> Write(s[i])]
Braced(s) == <<"{">> \o Commas(s) \o <<"}">>
Single(t) == <<t>>
Listing(names) == Braced(Each(names, Single))

RECURSIVE Sentence(_, _, _), Bare(_, _), Clause(_)

Sentence(e, least, calls) ==
  IF Level(e) < least \/ (e.op = "call" /\ ~calls) THEN <<"(">> \o Bare(e, TRUE) \o <<")">>
  ELSE Bare(e, calls)

\* A statement, a list element or a declaration.
Whole(e) == Sentence(e, 0, TRUE)
Maybe(before, c) == IF c = None THEN <<>> ELSE before \o Clause(c)
Short(a) == IF a.parts[1] = View("name", a.names, <<>>) THEN a.names ELSE Clause(a)

Bare(e, calls) ==
  LET p == e.parts  rest == From(e.parts, 2)
      Operand(i, least) == Sentence(p[i], least, calls)
  IN  CASE e.op \in {"name", "literal", "boolean"} -> e.names
        [] e.op = "call" -> Operand(1, 7) \o Braced(Each(rest, Short))
        [] e.op = "field" -> Operand(1, 7) \o <<".">> \o e.names
        [] e.op = "index" -> Operand(1, 7) \o <<"[">> \o Whole(p[2]) \o <<"]">>
        [] e.op = "tuple" -> Braced(Each(p, Short))
        [] e.op = "Relation" -> <<"Relation">> \o Braced(Each(p, Whole))
        [] e.op = "Sequence" -> <<"Sequence", "[">> \o Commas(Each(p, Whole)) \o <<"]">>
        [] e.op = "if" -> <<"if">> \o Whole(p[1]) \o <<"then">> \o Clause(p[2])
                            \o (IF Len(p) = 3 THEN <<"else">> \o Clause(p[3]) ELSE <<>>)
        [] e.op = "transaction" -> <<"transaction">> \o Clause(p[1])
        [] e.op \in PrefixOps -> (CASE e.op = "prefix -" -> <<"-">> [] e.op = "prefix +" -> <<"+">>
                                    [] OTHER -> <<e.op>>) \o Operand(1, 6)
        [] e.op \in InfixOps -> Operand(1, Level(e))
                                  \o (IF e.op = "not matching" THEN <<"not", "matching">> ELSE <<e.op>>)
                                  \o Operand(2, Level(e) + 1)
        [] e.op = "project all but" -> Operand(1, 0) \o <<"project", "all", "but">> \o Listing(e.names)
        [] e.op = "tclose" -> Operand(1, 0) \o <<"tclose">>
                                \o (IF e.names = <<>> THEN <<>> ELSE Listing(e.names))
        [] e.op \in {"project", "unwrap", "ungroup"} -> Operand(1, 0) \o <<e.op>> \o Listing(e.names)
        [] e.op \in {"replace", "extend", "rename", "wrap", "group"} ->
             Operand(1, 0) \o <<e.op>> \o Braced(Each(rest, Clause))
        [] OTHER -> Clause(e)

Keyed(v) == <<"relvar">> \o v.names \o Joined(Each(v.parts, Clause)) \o <<";">>

\* Everything that is not an expression.
Clause(v) ==
  LET p == v.parts  n == v.names  rest == From(v.parts, 2)
  IN  CASE v.op = "none" -> <<>>
        [] v.op = "arg" -> n \o <<":">> \o Whole(p[1])
        [] v.op = "pair" -> <<n[1], ":">> \o Listing(From(n, 2))
        [] v.op = "block" -> <<"[">> \o Joined(Each(p, Whole)) \o <<"]">>
        [] v.op = "type name" -> n \o Joined(Each(p, Clause))
        [] v.op = "heading" -> Braced(Each(p, Clause))
        [] v.op = "param" -> n \o <<":">> \o Clause(p[1])
        [] v.op = "key" -> <<"key">> \o Listing(n)
        [] v.op = "asc" -> n
        [] v.op = "desc" -> <<"desc">> \o n
        [] v.op = "let" -> <<"let">> \o n \o Maybe(<<":">>, p[1])
                             \o (IF p[2] = None THEN <<>> ELSE <<"=">> \o Whole(p[2])) \o <<";">>
        [] v.op = "var" -> <<"var">> \o n \o Maybe(<<":">>, p[1])
                             \o (IF p[2] = None THEN <<>> ELSE <<":=">> \o Whole(p[2])) \o <<";">>
        [] v.op = "assign" -> Whole(p[1]) \o <<":=">> \o Whole(p[2]) \o <<";">>
        [] v.op \in {"truncate", "delete"} -> <<v.op>> \o Whole(p[1]) \o <<";">>
        [] v.op = "insert" -> <<"insert">> \o p[1].names
                                \o (IF p[2].op = "Relation" THEN Braced(Each(p[2].parts, Whole))
                                    ELSE Whole(p[2])) \o <<";">>
        [] v.op = "update" -> <<"update">> \o Sentence(p[1], 0, FALSE) \o Braced(Each(rest, Clause))
                                \o <<";">>
        [] v.op = "do it" -> Whole(p[1]) \o <<";">>
        [] v.op = "for in" -> <<"for">> \o n \o <<"in">> \o Whole(p[1]) \o <<"do">> \o Clause(p[2])
                                \o <<";">>
        [] v.op = "for" -> <<"for">> \o n \o <<":=">> \o Whole(p[1]) \o <<"to">> \o Whole(p[2])
                             \o <<"do">> \o Clause(p[3]) \o <<";">>
        [] v.op = "while" -> <<"while">> \o Whole(p[1]) \o <<"do">> \o Clause(p[2]) \o <<";">>
        [] v.op = "do while" -> <<"do">> \o Clause(p[1]) \o <<"while">> \o Whole(p[2]) \o <<";">>
        [] v.op = "load" -> <<"load">> \o n \o <<"from">> \o Whole(p[1])
                              \o (IF rest = <<>> THEN <<>>
                                  ELSE <<"order", "[">> \o Commas(Each(rest, Clause)) \o <<"]">>)
                              \o <<";">>
        [] v.op = "return" -> <<"return">> \o (IF p[1] = None THEN <<>> ELSE Whole(p[1])) \o <<";">>
        [] v.op = "header" -> n \o <<";">>
        [] v.op = "database" -> <<"database">> \o n \o <<";">>
        [] v.op \in {"public", "private", "builtin", "base"} -> <<v.op>> \o Keyed(v)
        [] v.op = "oper" -> <<"oper">> \o n \o Clause(p[1]) \o Maybe(<<"->">>, p[2]) \o Clause(p[3])
                              \o <<";">>
        [] v.op = "builtin oper" -> <<"builtin", "oper">> \o n \o Clause(p[1]) \o Maybe(<<"->">>, p[2])
                                      \o <<";">>
        [] v.op = "type" -> <<"type">> \o n \o Clause(p[1]) \o Maybe(<<"=">>, p[2]) \o <<";">>
        [] v.op = "use" -> <<"use", "module">>
                             \o [i \in 1..(2 * Len(n) - 1) |-> IF i % 2 = 1 THEN n[(i + 1) \div 2]
                                                              ELSE "::"] \o <<";">>
        [] v.op = "init" -> n \o <<":=">> \o Whole(p[1]) \o <<";">>
        [] v.op = "map" -> <<"map", n[1], "to", n[2], ";">>
        [] v.op = "entry" -> <<n[1], "=", n[2], ";">>

SentenceOf(items) == Joined(Each(items, Whole))
=============================================================================
