------------------------------ MODULE RelAlgebra ------------------------------
(***************************************************************************)
(* The relational expressions of a Coddl program and what they denote.     *)
(*                                                                         *)
(* A tuple is a function from attribute names to values, a relation a set  *)
(* of tuples.  Values are integers, which stand for any ordered type.  An  *)
(* expression is a tree of records:                                        *)
(*   [op: "relvar", name]      a public relvar                             *)
(*   [op: "local", heading, rows]  a local: rows in the process            *)
(*   [op: "lit", heading, rows]    a relation literal                      *)
(*   [op: "where", in, preds]  a predicate is [attr, cmp, arg]; an arg or  *)
(*   [op: "extend", in, adds]  scalar is [attr |-> a] or [lit |-> n]       *)
(*   [op: "project", in, keep] [op: "rename", in, to]                      *)
(*   [op: "minus" | "union" | "intersect", l, r]   of one heading          *)
(*   [op: "join", l, r]        `join`, and `times` of disjoint headings    *)
(*   [op: "compose", l, r]     their join without what they share          *)
(*   [op: "matching" | "unmatching", l, r]   `matching`, `not matching`    *)
(***************************************************************************)
EXTENDS Integers, Sequences, FiniteSets, Functions

CONSTANTS
    Relvars,    \* the public relvars
    Schema,     \* the attributes of each
    Exprs,      \* the expressions of the program, with their operands
    Height      \* how deep an expression is nested

Leaf(e) == e.op \in {"relvar", "local", "lit"}
Unary(e) == e.op \in {"where", "extend", "project", "rename"}
Operands(e) == IF Leaf(e) THEN {} ELSE IF Unary(e) THEN {e.in} ELSE {e.l, e.r}

ASSUME ExprsAssumption ==
    \A e \in Exprs :
        /\ Height[e] \in Nat
        /\ \A o \in Operands(e) : o \in Exprs /\ Height[o] < Height[e]

-----------------------------------------------------------------------------
(* Predicates and scalars.                                                 *)

IsLit(s) == DOMAIN s = {"lit"}
Scalar(s, tuple) == IF IsLit(s) THEN s.lit ELSE tuple[s.attr]

Comparisons == {"=", "<>", "<", ">=", ">", "<="}
Compare(x, cmp, y) ==
    CASE cmp = "=" -> x = y  [] cmp = "<>" -> x # y
      [] cmp = "<" -> x < y  [] cmp = ">=" -> x >= y
      [] cmp = ">" -> x > y  [] cmp = "<=" -> x <= y

Holds(p, tuple) == Compare(tuple[p.attr], p.cmp, Scalar(p.arg, tuple))
Satisfies(preds, tuple) == \A i \in DOMAIN preds : Holds(preds[i], tuple)

\* CmpOp::negate.
Negated(cmp) ==
    CASE cmp = "=" -> "<>"  [] cmp = "<>" -> "="
      [] cmp = "<" -> ">="  [] cmp = ">=" -> "<"
      [] cmp = ">" -> "<="  [] cmp = "<=" -> ">"
NotP(p) == [attr |-> p.attr, cmp |-> Negated(p.cmp), arg |-> p.arg]

Extended(adds, tuple) ==
    [a \in (DOMAIN tuple) \cup (DOMAIN adds) |->
        IF a \in DOMAIN tuple THEN tuple[a] ELSE Scalar(adds[a], tuple)]

\* The new name of attribute a under the renaming `to` (old name -> new name).
NameOf(to, a) == IF a \in DOMAIN to THEN to[a] ELSE a
Renamed(to, tuple) ==
    [b \in {NameOf(to, a) : a \in DOMAIN tuple} |->
        tuple[CHOOSE a \in DOMAIN tuple : NameOf(to, a) = b]]

\* Two tuples beside each other: an attribute of both is the left one's.
Beside(p, q) == [a \in (DOMAIN p) \cup (DOMAIN q) |-> IF a \in DOMAIN p THEN p[a] ELSE q[a]]
Agree(p, q) == \A a \in (DOMAIN p) \cap (DOMAIN q) : p[a] = q[a]

Joined(ls, rs) == {Beside(pq[1], pq[2]) : pq \in {pq \in ls \X rs : Agree(pq[1], pq[2])}}
Partnered(ls, rs) == {t \in ls : \E u \in rs : Agree(t, u)}

\* No two tuples have one value of the key.
Identifies(key, rows) == \A t, u \in rows : Restrict(t, key) = Restrict(u, key) => t = u

-----------------------------------------------------------------------------
(* Headings and denotations.                                               *)

Rows(h) == SUBSET [h -> Int]
IsDb(d) == d = [r \in Relvars |-> d[r]] /\ \A r \in Relvars : d[r] \in Rows(Schema[r])

HeadingOf[e \in Exprs] ==
    CASE e.op = "relvar" -> Schema[e.name]
      [] e.op \in {"local", "lit"} -> e.heading
      [] e.op = "where" -> HeadingOf[e.in]
      [] e.op = "extend" -> HeadingOf[e.in] \cup DOMAIN e.adds
      [] e.op = "project" -> e.keep
      [] e.op = "rename" -> {NameOf(e.to, a) : a \in HeadingOf[e.in]}
      [] e.op = "join" -> HeadingOf[e.l] \cup HeadingOf[e.r]
      [] e.op = "compose" ->
            (HeadingOf[e.l] \cup HeadingOf[e.r]) \ (HeadingOf[e.l] \cap HeadingOf[e.r])
      [] OTHER -> HeadingOf[e.l]
Shared(e) == HeadingOf[e.l] \cap HeadingOf[e.r]

\* What an operator makes of its operands' relations (rs is unused by the
\* unary ones).
Applied(e, ls, rs) ==
    CASE e.op = "where" -> {t \in ls : Satisfies(e.preds, t)}
      [] e.op = "extend" -> {Extended(e.adds, t) : t \in ls}
      [] e.op = "project" -> {Restrict(t, e.keep) : t \in ls}
      [] e.op = "rename" -> {Renamed(e.to, t) : t \in ls}
      [] e.op = "minus" -> ls \ rs
      [] e.op = "union" -> ls \cup rs
      [] e.op = "intersect" -> ls \cap rs
      [] e.op = "join" -> Joined(ls, rs)
      [] e.op = "compose" -> {Restrict(t, HeadingOf[e]) : t \in Joined(ls, rs)}
      [] e.op = "matching" -> Partnered(ls, rs)
      [] e.op = "unmatching" -> ls \ Partnered(ls, rs)

LeafRows(e, db) == IF e.op = "relvar" THEN db[e.name] ELSE e.rows

\* The relation e denotes over the relvars' values db.
Evaluated(db) ==
    LET rows[e \in Exprs] ==
            IF Leaf(e) THEN LeafRows(e, db)
            ELSE IF Unary(e) THEN Applied(e, rows[e.in], {})
            ELSE Applied(e, rows[e.l], rows[e.r])
    IN rows
Eval(e, db) == Evaluated(db)[e]

\* The leaves an expression is made of.
LeavesOf[e \in Exprs] ==
    IF Leaf(e) THEN {e}
    ELSE IF Unary(e) THEN LeavesOf[e.in]
    ELSE LeavesOf[e.l] \cup LeavesOf[e.r]
Mentions(e, name) == \E l \in LeavesOf[e] : l.op = "relvar" /\ l.name = name

-----------------------------------------------------------------------------
(* What the checker lets through.                                          *)

Scalars(h) == [lit : Int] \cup [attr : h]
Predicates(h) == [attr : h, cmp : Comparisons, arg : Scalars(h)]

\* The attributes added are new, and made of those there are.
Extends(adds, h) == \A a \in DOMAIN adds : a \notin h /\ adds[a] \in Scalars(h)

\* No two attributes get one name.
Renames(to, h) ==
    DOMAIN to \subseteq h /\ \A a, b \in h : NameOf(to, a) = NameOf(to, b) => a = b

WellTyped(e) ==
    CASE e.op = "relvar" -> e.name \in Relvars
      [] e.op \in {"local", "lit"} -> e.rows \in Rows(e.heading)
      [] e.op = "where" -> e.preds \in Seq(Predicates(HeadingOf[e.in]))
      [] e.op = "extend" -> Extends(e.adds, HeadingOf[e.in])
      [] e.op = "project" -> e.keep \subseteq HeadingOf[e.in]
      [] e.op = "rename" -> Renames(e.to, HeadingOf[e.in])
      [] e.op \in {"minus", "union", "intersect"} -> HeadingOf[e.l] = HeadingOf[e.r]
      [] e.op = "join" -> Shared(e) = {} \/ HeadingOf[e.l] # HeadingOf[e.r]
      [] e.op \in {"compose", "matching", "unmatching"} ->
            Shared(e) # {} /\ HeadingOf[e.l] # HeadingOf[e.r]
      [] OTHER -> FALSE

ASSUME TypingAssumption == \A e \in Exprs : WellTyped(e)
=============================================================================
