-------------------------------- MODULE SqlEmit --------------------------------
(***************************************************************************)
(* From a relational expression to SQL: the lowerer's build_rel_expr       *)
(* (coddl-procir/src/lower.rs), the cut's origin gate, and the emitter's   *)
(* SELECT (coddl-sqlemit/src/lib.rs), the last by what its text means to   *)
(* SQLite.                                                                 *)
(*                                                                         *)
(* RelIR trees are records too: [op: "ref", name], [op: "param", ast] (a   *)
(* relation the process ships), "restrict" (one predicate), "extend",      *)
(* "project", "rename", "and", "or", "minus", "semi" (with its sign).  A   *)
(* base table's columns are named like its attributes.                     *)
(***************************************************************************)
EXTENDS RelAlgebra

CONSTANTS
    Keys,        \* the candidate keys each relvar is declared with
    Trees,       \* the RelIR trees the lowerer builds, with their operands
    TreeHeight   \* how deep a tree is nested

\* build_rel_expr declines: no RelIR tree, no statement.
None == [op |-> "none"]

Ref(name) == [op |-> "ref", name |-> name]
Param(ast) == [op |-> "param", ast |-> ast]
RestrictNode(in, pred) == [op |-> "restrict", in |-> in, pred |-> pred]
NodeOf(op) ==
    CASE op = "minus" -> "minus" [] op = "union" -> "or" [] op \in {"intersect", "join"} -> "and"

TreeLeaf(x) == x.op \in {"ref", "param"}
Binary(x) == x.op \in {"minus", "or", "and", "semi"}
Below(x) == IF TreeLeaf(x) THEN {} ELSE IF Binary(x) THEN {x.l, x.r} ELSE {x.in}

-----------------------------------------------------------------------------
(* build_rel_expr.                                                         *)

\* RelExpr::origin of the tree built for e: no leaf is a public relvar.
InProcess(e) == \A l \in LeavesOf[e] : l.op # "relvar"

\* build_predicate: attribute against literal; attr against attr declines.
Pushable(p) == IsLit(p.arg)

Restricted(x, preds) ==
    LET chain[i \in 0 .. Len(preds)] ==
            IF i = 0 THEN x ELSE RestrictNode(chain[i - 1], preds[i])
    IN chain[Len(preds)]

BuiltWhereDroppingConjuncts(e, in) == Restricted(in, SelectSeq(e.preds, Pushable))

\* A where whose predicate does not push: over in-process rows the filtered
\* rows ship, over a relvar the build declines.
BuiltWhere(e, in) ==
    IF \A i \in DOMAIN e.preds : Pushable(e.preds[i]) THEN Restricted(in, e.preds)
    ELSE IF InProcess(e.in) THEN Param(e)
    ELSE None

\* The other operators of one operand keep their shape.
BuiltUnary(e, in) ==
    CASE e.op = "where" -> BuiltWhere(e, in)
      [] e.op = "extend" -> [op |-> "extend", in |-> in, adds |-> e.adds]
      [] e.op = "project" -> [op |-> "project", in |-> in, keep |-> e.keep]
      [] e.op = "rename" -> [op |-> "rename", in |-> in, to |-> e.to]

\* build_rel_operand: a wholly in-process operand ships as one parameter.
Collapsed(e, x) == IF x # None /\ InProcess(e) THEN Param(e) ELSE x

\* narrow_semijoin_rhs: only the shared attributes matter.  What the process
\* ships it projects first (lower_slot_narrowed).
Narrow(e, keep) == [op |-> "project", in |-> e, keep |-> keep]
Narrowed(r, e) ==
    IF Shared(e) = HeadingOf[e.r] THEN r
    ELSE IF r.op = "param" THEN Param(Narrow(r.ast, Shared(e)))
    ELSE [op |-> "project", in |-> r, keep |-> Shared(e)]

Combined(e, l, r) ==
    CASE e.op \in {"minus", "union", "intersect", "join"} -> [op |-> NodeOf(e.op), l |-> l, r |-> r]
      [] e.op = "compose" ->
            [op |-> "project", in |-> [op |-> "and", l |-> l, r |-> r], keep |-> HeadingOf[e]]
      [] e.op \in {"matching", "unmatching"} ->
            [op |-> "semi", l |-> l, r |-> Narrowed(r, e), negated |-> e.op = "unmatching"]
BuiltBinary(e, l, r) ==
    IF l = None \/ r = None THEN None ELSE Combined(e, Collapsed(e.l, l), Collapsed(e.r, r))

BuiltLeaf(e) ==
    CASE e.op = "relvar" -> Ref(e.name)
      [] e.op = "local" -> Param(e)
      [] e.op = "lit" -> None

Build[e \in Exprs] ==
    IF Leaf(e) THEN BuiltLeaf(e)
    ELSE IF Unary(e) THEN IF Build[e.in] = None THEN None ELSE BuiltUnary(e, Build[e.in])
    ELSE BuiltBinary(e, Build[e.l], Build[e.r])

-----------------------------------------------------------------------------
(* Trees.                                                                  *)

\* RelExpr::heading.
TreeHeading[x \in Trees] ==
    CASE x.op = "ref" -> Schema[x.name]
      [] x.op = "param" -> HeadingOf[x.ast]
      [] x.op = "restrict" -> TreeHeading[x.in]
      [] x.op = "extend" -> TreeHeading[x.in] \cup DOMAIN x.adds
      [] x.op = "project" -> x.keep
      [] x.op = "rename" -> {NameOf(x.to, a) : a \in TreeHeading[x.in]}
      [] x.op = "and" -> TreeHeading[x.l] \cup TreeHeading[x.r]
      [] OTHER -> TreeHeading[x.l]

\* A tree of a checked program.
Formed(x) ==
    CASE x.op = "ref" -> \E r \in Relvars : x = Ref(r)
      [] x.op = "param" -> x.ast \in Exprs
      [] x.op = "restrict" -> Pushable(x.pred) /\ x.pred \in Predicates(TreeHeading[x.in])
      [] x.op = "extend" -> Extends(x.adds, TreeHeading[x.in])
      [] x.op = "project" -> x.keep \subseteq TreeHeading[x.in]
      [] x.op = "rename" -> Renames(x.to, TreeHeading[x.in])
      [] x.op \in {"minus", "or"} -> TreeHeading[x.l] = TreeHeading[x.r]
      [] x.op = "and" -> TRUE
      [] x.op = "semi" -> TreeHeading[x.r] \subseteq TreeHeading[x.l]
      [] OTHER -> FALSE

ASSUME TreesAssumption ==
    /\ \A x \in Trees :
          /\ TreeHeight[x] \in Nat /\ Formed(x)
          /\ \A y \in Below(x) : y \in Trees /\ TreeHeight[y] < TreeHeight[x]
    /\ \A e \in Exprs : Build[e] \in Trees \cup {None}

\* rel_param_count and references_table.
TreeLeaves[x \in Trees] ==
    IF TreeLeaf(x) THEN {x}
    ELSE IF Binary(x) THEN TreeLeaves[x.l] \cup TreeLeaves[x.r]
    ELSE TreeLeaves[x.in]
Ships(x) == \E leaf \in TreeLeaves[x] : leaf.op = "param"
References(x, name) == Ref(name) \in TreeLeaves[x]

-----------------------------------------------------------------------------
(* RelExpr::needs_distinct.                                                *)

ASSUME KeysAssumption == \A r \in Relvars : \A k \in Keys[r] : k \subseteq Schema[r]

KeptKeysPartly(keys, keep) == {k \in keys : k \cap keep # {}}
KeptKeys(keys, keep) == {k \in keys : k \subseteq keep}
RenamedKeys(keys, to) == {{NameOf(to, a) : a \in k} : k \in keys}

\* The keys of one side of a join stay keys when the shared attributes cover
\* a key of the other; a key of each side together always is one.
JoinKeys(ls, rs, shared) ==
    LET Covers(keys) == \E k \in keys : k \subseteq shared
    IN {k \in ls : Covers(rs)} \cup {k \in rs : Covers(ls)} \cup {p[1] \cup p[2] : p \in ls \X rs}

SurvivingKeys[x \in Trees] ==
    CASE x.op = "ref" -> Keys[x.name]
      [] x.op = "param" -> {HeadingOf[x.ast]}
      [] x.op \in {"restrict", "extend"} -> SurvivingKeys[x.in]
      [] x.op = "project" -> KeptKeys(SurvivingKeys[x.in], x.keep)
      [] x.op = "rename" -> RenamedKeys(SurvivingKeys[x.in], x.to)
      [] x.op = "and" ->
            JoinKeys(SurvivingKeys[x.l], SurvivingKeys[x.r], TreeHeading[x.l] \cap TreeHeading[x.r])
      [] x.op = "or" -> {}
      [] OTHER -> SurvivingKeys[x.l]

\* At most one row: an equality pins a key of one attribute.
Pins(pred, keys) == pred.cmp = "=" /\ {pred.attr} \in keys
CardLeOne[x \in Trees] ==
    CASE x.op = "restrict" -> CardLeOne[x.in] \/ Pins(x.pred, SurvivingKeys[x.in])
      [] x.op \in {"extend", "project", "rename"} -> CardLeOne[x.in]
      [] x.op = "and" -> CardLeOne[x.l] /\ CardLeOne[x.r]
      [] x.op = "semi" -> CardLeOne[x.l]
      [] OTHER -> FALSE

NeedsDistinct(x) == ~CardLeOne[x] /\ SurvivingKeys[x] = {}

-----------------------------------------------------------------------------
(* emit_select.                                                            *)

\* resolve: what a FROM clause can hold.
Resolves[x \in Trees] ==
    CASE x.op = "ref" -> TRUE
      [] x.op = "param" -> HeadingOf[x.ast] # {}
      [] x.op \in {"restrict", "project", "rename"} -> Resolves[x.in]
      [] x.op = "and" -> Resolves[x.l] /\ Resolves[x.r]
      [] OTHER -> FALSE

\* Its column map: the physical column of each attribute.
Columns[x \in Trees] ==
    CASE x.op = "ref" -> [a \in Schema[x.name] |-> a]
      [] x.op = "param" -> [a \in HeadingOf[x.ast] |-> a]
      [] x.op = "restrict" -> Columns[x.in]
      [] x.op = "project" -> Restrict(Columns[x.in], x.keep)
      [] x.op = "rename" -> Renamed(x.to, Columns[x.in])
      [] x.op = "and" ->
            LET l == Columns[x.l]
                r == Columns[x.r]
            IN [a \in (DOMAIN l) \cup (DOMAIN r) |-> IF a \in DOMAIN l THEN l[a] ELSE r[a]]

\* Its rows, with their physical columns.  A join is USING the left columns
\* of the shared attributes, on both sides.
From(db) ==
    LET rows[x \in Trees] ==
            CASE x.op = "ref" -> db[x.name]
              [] x.op = "param" -> Eval(x.ast, db)
              [] x.op = "restrict" ->
                    {t \in rows[x.in] : Compare(t[Columns[x.in][x.pred.attr]], x.pred.cmp, x.pred.arg.lit)}
              [] x.op \in {"project", "rename"} -> rows[x.in]
              [] x.op = "and" ->
                    LET l == Columns[x.l]
                        using == {l[a] : a \in (DOMAIN l) \cap (DOMAIN Columns[x.r])}
                    IN {Beside(p[1], p[2]) : p \in
                          {p \in rows[x.l] \X rows[x.r] : \A c \in using : p[1][c] = p[2][c]}}
    IN rows

\* The tuple such a row is to a tree with those columns.
View(columns, t) == [a \in DOMAIN columns |-> t[columns[a]]]

\* A root of its own: a set operation, or a semijoin, projected or not.
Compound(x) == x.op \in {"or", "minus"}
Peel(x, op) == IF x.op = op THEN x.in ELSE x
Semi(x) == Peel(x, "project")
Exists(x) == Semi(x).op = "semi"

\* The computed-column chain rename?(project?(extend(in))), the shape
\* `replace` desugars to.
Core(x) == Peel(Peel(x, "rename"), "project")
Computes(x) == Core(x).op = "extend"
NewNames(x) == IF x.op = "rename" THEN x.to ELSE << >>

Kept(y, t) == IF y.op = "project" THEN Restrict(t, y.keep) ELSE t
NamedAnew(x, t) == IF x.op = "rename" THEN Renamed(x.to, t) ELSE t

\* What one SELECT resolves, and its list: the columns, the computed ones
\* among them, then the chain's projection and renaming.
Source(x) == IF Computes(x) THEN Core(x).in ELSE x
Shown(x, t) ==
    LET tuple == View(Columns[Source(x)], t)
    IN IF Exists(x) THEN Kept(x, t)
       ELSE IF Computes(x)
       THEN NamedAnew(x, Kept(Peel(x, "rename"), Extended(Core(x).adds, tuple)))
       ELSE tuple

Emits[x \in Trees] ==
    IF Compound(x) THEN Emits[x.l] /\ Emits[x.r]
    ELSE IF Exists(x) THEN Emits[Semi(x).l] /\ Emits[Semi(x).r]
    ELSE Resolves[Source(x)]

\* A set operation at the root is the bare text `lhs UNION rhs` or
\* `lhs EXCEPT rhs`: one flat compound, which SQLite evaluates left to right.
By(set, terms) == [terms EXCEPT ![1] = [by |-> set, select |-> @.select]]
Terms[x \in Trees] ==
    CASE x.op = "or" -> Terms[x.l] \o By("UNION", Terms[x.r])
      [] x.op = "minus" -> Terms[x.l] \o By("EXCEPT", Terms[x.r])
      [] OTHER -> << [by |-> "UNION", select |-> x] >>

\* Left to right: some UNION has put the row there, and no EXCEPT behind it
\* has taken it out.
Answer(terms, rows) ==
    UNION { {t \in rows[i] : \A j \in i + 1 .. Len(terms) : terms[j].by = "EXCEPT" => t \notin rows[j]} :
            i \in {k \in DOMAIN terms : terms[k].by = "UNION"} }

\* WHERE [NOT] EXISTS: the rows of the left derived table with, or without, a
\* row of the right one that is equal in the shared attributes.
Correlated(s, ls, rs) ==
    LET Meets(t) == \E u \in rs : \A a \in TreeHeading[s.l] \cap TreeHeading[s.r] : t[a] = u[a]
    IN {t \in ls : IF s.negated THEN ~Meets(t) ELSE Meets(t)}

Returned(db) ==
    LET rows[x \in Trees] ==
            IF Compound(x)
            THEN Answer(Terms[x], [i \in DOMAIN Terms[x] |-> rows[Terms[x][i].select]])
            ELSE IF Exists(x)
            THEN {Shown(x, t) : t \in Correlated(Semi(x), rows[Semi(x).l], rows[Semi(x).r])}
            ELSE {Shown(x, t) : t \in From(db)[Source(x)]}
    IN rows
Sql(x, db) == Returned(db)[x]

\* The rows a SELECT lists: no two FROM rows of a plain one are the same.
Listed(x, db) ==
    IF Exists(x) THEN Correlated(Semi(x), Sql(Semi(x).l, db), Sql(Semi(x).r, db))
    ELSE From(db)[Source(x)]

\* A bare semijoin takes its rows from the left one's as they are.
Distinct(x) == x.op # "semi" /\ NeedsDistinct(x)

\* The rows the statement returns more than once.
Repeats(db) ==
    LET rows[x \in Trees] ==
            IF Compound(x) \/ Distinct(x) THEN {}
            ELSE {Shown(x, t) : t \in {t \in Listed(x, db) :
                    \/ Exists(x) /\ t \in rows[Semi(x).l]
                    \/ \E u \in Listed(x, db) : u # t /\ Shown(x, u) = Shown(x, t)}}
    IN rows
Repeated(x, db) == Repeats(db)[x]

-----------------------------------------------------------------------------
(* lower_expr: a read.                                                     *)

\* The cut pushes what touches a public relvar and emits.
Pushed(e) == Build[e] # None /\ ~InProcess(e) /\ Emits[Build[e]]

\* An operator run in the process; a semijoin is the join projected back onto
\* the left heading, the antijoin what that leaves.
Operated(e, ls, rs) ==
    LET semijoin == {Restrict(t, HeadingOf[e.l]) : t \in Joined(ls, rs)}
    IN CASE e.op = "matching" -> semijoin
         [] e.op = "unmatching" -> ls \ semijoin
         [] OTHER -> Applied(e, ls, rs)

\* The relation the program gets for e: one pushed query, or the operator
\* over what its operands give.
Computed(db) ==
    LET rows[e \in Exprs] ==
            IF Pushed(e) THEN Sql(Build[e], db)
            ELSE IF Leaf(e) THEN LeafRows(e, db)
            ELSE IF Unary(e) THEN Applied(e, rows[e.in], {})
            ELSE Operated(e, rows[e.l], rows[e.r])
    IN rows
Value(e, db) == Computed(db)[e]

\* The statements run for it.
Fired[e \in Exprs] ==
    IF Pushed(e) THEN {Build[e]}
    ELSE IF Leaf(e) THEN {}
    ELSE IF Unary(e) THEN Fired[e.in]
    ELSE Fired[e.l] \cup Fired[e.r]

\* contains_restrict, and guard_no_full_relvar_pull: an operator that runs in
\* the process must not take in a public relvar whole, or the compiler panics.
Filtered[x \in Trees] == x.op = "restrict" \/ \E y \in Below(x) : Filtered[y]
PullsAll(e) == Build[e] # None /\ ~Ships(Build[e]) /\ ~Filtered[Build[e]]

\* lower_expr gets to the end of e.
Compiles[e \in Exprs] ==
    Pushed(e) \/ \A o \in Operands(e) : ~PullsAll(o) /\ Compiles[o]

-----------------------------------------------------------------------------
(* What the emitter takes for granted.                                     *)

\* A set operation as right operand of another is spliced into the compound:
\* right only if that leaves the meaning alone.
SetOpsNestLeft ==
    \A x \in Trees :
        /\ x.op = "minus" => Len(Terms[x.r]) = 1
        /\ x.op = "or" => \A i \in DOMAIN Terms[x.r] : Terms[x.r][i].by = "UNION"

\* The columns of a FROM clause, and how many tables it joins.
Physical[x \in Trees] ==
    CASE TreeLeaf(x) -> TreeHeading[x]
      [] Binary(x) -> Physical[x.l] \cup Physical[x.r]
      [] OTHER -> Physical[x.in]
Tables[x \in Trees] ==
    CASE TreeLeaf(x) -> 1
      [] Binary(x) -> Tables[x.l] + Tables[x.r]
      [] OTHER -> Tables[x.in]

\* The two sides of a join keep a shared attribute in columns of one name, and
\* have no other column of one name, which SQLite would call ambiguous; and
\* the right side is one table: `A JOIN B JOIN C USING (z) USING (x)` is no SQL.
JoinsAlign ==
    \A x \in Trees : x.op = "and" /\ Resolves[x] =>
        LET shared == TreeHeading[x.l] \cap TreeHeading[x.r]
        IN /\ \A a \in shared : Columns[x.l][a] = Columns[x.r][a]
           /\ Physical[x.l] \cap Physical[x.r] = {Columns[x.l][a] : a \in shared}
           /\ Tables[x.r] = 1
=============================================================================
