---------------------------- MODULE MCPublicWrite ----------------------------
(***************************************************************************)
(* Small statements for TLC over two public relvars R (written) and S of   *)
(* the heading {k, v}, key {k}; a table P of more about each k, key {k};   *)
(* and L, which relates each v to any number of w and is all key.          *)
(***************************************************************************)
EXTENDS PublicWrite

T(k, v) == [k |-> k, v |-> v]
Tuples == {T(k, v) : k \in {1, 2}, v \in {1, 2}}
Facts(k, w) == [k |-> k, w |-> w]
Link(v, w) == [v |-> v, w |-> w]
SmallDatabases ==
    {[R |-> r, S |-> sp[1], P |-> sp[2], L |-> {Link(2, 1), Link(2, 2)}] :
        r \in {x \in SUBSET Tuples : Keyed(x)},
        sp \in {<<{T(1, 1)}, {Facts(1, 2), Facts(2, 2)}>>, <<{T(1, 2), T(2, 2)}, {Facts(1, 1)}>>}}
MCSchema == [R |-> {"k", "v"}, S |-> {"k", "v"}, P |-> {"k", "w"}, L |-> {"v", "w"}]
MCPrimary == [R |-> {"k"}, S |-> {"k"}, P |-> {"k"}, L |-> {"v", "w"}]
MCKeys == LET Only(r) == {MCPrimary[r]} IN [r \in DOMAIN MCPrimary |-> Only(r)]

\* Expressions.
R == [op |-> "relvar", name |-> "R"]
S == [op |-> "relvar", name |-> "S"]
P == [op |-> "relvar", name |-> "P"]
L == [op |-> "relvar", name |-> "L"]
Local(rows) == [op |-> "local", heading |-> {"k", "v"}, rows |-> rows]
Lit(rows) == [op |-> "lit", heading |-> {"k", "v"}, rows |-> rows]
Ws == [op |-> "local", heading |-> {"w"}, rows |-> {[w |-> 1], [w |-> 2]}]
Cmp(a, cmp, n) == [attr |-> a, cmp |-> cmp, arg |-> [lit |-> n]]
Same(a, b) == [attr |-> a, cmp |-> "=", arg |-> [attr |-> b]]
W(e, preds) == [op |-> "where", in |-> e, preds |-> preds]
Minus(l, r) == [op |-> "minus", l |-> l, r |-> r]
Union(l, r) == [op |-> "union", l |-> l, r |-> r]
Intersect(l, r) == [op |-> "intersect", l |-> l, r |-> r]
Join(l, r) == [op |-> "join", l |-> l, r |-> r]
Compose(l, r) == [op |-> "compose", l |-> l, r |-> r]
With(l, r) == [op |-> "matching", l |-> l, r |-> r]
Without(l, r) == [op |-> "unmatching", l |-> l, r |-> r]
Extend(e, adds) == [op |-> "extend", in |-> e, adds |-> adds]
Project(e, keep) == [op |-> "project", in |-> e, keep |-> keep]
Rename(e, to) == [op |-> "rename", in |-> e, to |-> to]

\* e with v replaced by a scalar, as `extend ... project ... rename`.
WithV(e, s) == Rename(Project(Extend(e, [w |-> s]), {"k", "w"}), [w |-> "v"])
One == [lit |-> 1]
OfK == [attr |-> "k"]

k1 == Cmp("k", "=", 1)
v1 == Cmp("v", "=", 1)
v2 == Cmp("v", ">=", 2)

Assign(e) == [verb |-> "assign", rhs |-> e]
Read(e) == [verb |-> "read", rhs |-> e]

\* The predicate does not push: the rows that pass the first where are
\* fetched, and filtered in the process.
Diagonal(e) == W(W(e, <<v2>>), <<Same("k", "v")>>)

Writes ==
    {Assign(e) : e \in
        {R, S, Lit({T(1, 2)}), Local({T(1, 1), T(1, 2)}),
         Minus(R, R), Minus(R, W(R, <<k1, v1>>)), Minus(R, S), Minus(R, W(S, <<v2>>)),
         Minus(R, Local({T(1, 1)})), Minus(S, R), Minus(W(S, <<v2>>), Lit({T(1, 2)})),
         Intersect(R, S), Intersect(S, R), Intersect(R, R),
         W(R, <<v2>>), W(W(R, <<k1>>), <<v1>>), Diagonal(S),
         W(Local({T(1, 1), T(1, 2)}), <<Same("k", "v")>>),
         Union(R, S), Union(S, R), Union(R, Lit({T(2, 1)})), Union(Local({T(1, 2)}), R),
         Union(R, Diagonal(R)), Union(R, WithV(S, One)),
         Union(S, W(S, <<v1>>)), WithV(R, OfK), WithV(S, OfK),
         Union(W(R, <<Cmp("k", "<>", 1)>>), WithV(W(R, <<k1>>), OfK)),
         Union(WithV(W(R, <<v2>>), One), W(R, <<Cmp("v", "<", 2)>>)),
         Union(W(R, <<v2>>), WithV(W(R, <<k1>>), OfK)),
         Rename(R, [k |-> "v", v |-> "k"]),
         Project(Join(S, P), {"k", "v"}), Project(Join(S, L), {"k", "v"}), With(S, P),
         Minus(R, With(R, P)), Union(R, Project(Join(S, L), {"k", "v"})), Intersect(R, Without(S, L)),
         Without(R, L)}}
    \cup {[verb |-> "truncate"]}
    \cup {[verb |-> "delete", preds |-> ps] : ps \in {<<k1>>, <<k1, v2>>, <<Same("k", "v")>>}}
    \cup {[verb |-> "insert", from |-> e] : e \in {S, Diagonal(S), Lit({T(1, 2)}), Project(Join(S, L), {"k", "v"})}}
    \cup {[verb |-> "update", preds |-> ps, sets |-> ss] :
            ps \in {<< >>, <<v1>>, <<k1, v1>>},
            ss \in {[v |-> [lit |-> 2]], [k |-> One], [k |-> [attr |-> "v"], v |-> OfK]}}

Reads ==
    {Read(e) : e \in
        {W(R, <<v2>>), W(Rename(R, [k |-> "j"]), <<Cmp("j", "=", 1), v1>>),
         W(W(R, <<v2>>), <<k1, Same("k", "v")>>), W(R, <<v2, Same("k", "v")>>),
         W(WithV(W(R, <<k1>>), OfK), <<v1>>),
         Minus(Minus(R, S), Local({T(2, 2)})), Union(Minus(R, S), W(S, <<v1>>)),
         Intersect(W(R, <<v2>>), S), Minus(Intersect(R, W(S, <<v1>>)), Lit({T(1, 1)})),
         Project(R, {"v"}), Project(W(R, <<k1>>), {"v"}), Project(Rename(L, [v |-> "x"]), {"x"}),
         Join(W(R, <<v2>>), P), Join(R, Ws), Join(Project(R, {"v"}), L), Compose(R, L),
         Compose(Join(R, P), L), Project(Extend(Join(R, P), [x |-> OfK]), {"k", "x"}),
         Union(Project(R, {"k"}), Compose(P, Ws)), Join(Lit({T(1, 2)}), W(P, <<k1>>)),
         With(R, P), Without(R, W(L, <<Cmp("w", "=", 1)>>)), Project(With(L, R), {"w"}),
         Without(Minus(R, S), Project(Local({T(1, 1)}), {"k"})), With(L, Local({T(2, 2)})),
         With(Lit({T(1, 1), T(2, 1)}), W(P, <<k1>>)), Without(Lit({T(1, 1), T(2, 1)}), W(P, <<k1>>)),
         W(With(W(R, <<k1>>), P), <<v2>>), Union(With(R, P), Without(S, P))}}

FaithfulStatements == LET all == Writes \cup Reads IN all

\* The value reads the target, but its predicate does not push.
OpaqueSelfReplace == {Assign(Diagonal(R))}

\* A set operation as the right operand of another.
NestedRightSetOps == {Read(Minus(R, Minus(S, W(R, <<v1>>)))), Read(Union(S, Minus(R, S)))}

\* Values emit_update takes for changes of the target: the rows a bare
\* substitute leaves out, a complement of the last predicate only, and a
\* renaming of an attribute of the target itself.
BareSubstitutes == {Assign(WithV(W(R, <<k1>>), OfK))}
HalfComplements == {Assign(Union(W(R, <<k1, v1>>), WithV(W(R, <<Cmp("v", "<>", 1)>>), One)))}
RenamedTargets == {Assign(Rename(Project(Extend(R, [w |-> One]), {"k", "w"}), [w |-> "k", k |-> "v"]))}

\* A join whose sides keep a shared attribute in different columns, one with
\* a column of both sides that is not shared, and one whose right side joins.
MisalignedJoins ==
    {Read(Intersect(R, Rename(R, [k |-> "v", v |-> "k"]))), Read(Join(Project(R, {"k"}), S)),
     Read(Join(R, Join(P, L)))}

\* A join of the target with a part of it.
PartialJoins == {Assign(Join(R, Project(S, {"k"})))}

\* Declared keys of which the table has only the first.
TwoKeys == [MCKeys EXCEPT !.R = {{"k"}, {"v"}}]

-----------------------------------------------------------------------------
\* The expressions of the statements, the trees built for them, and names.
Roots(s) ==
    CASE s.verb \in {"assign", "read"} -> {s.rhs}
      [] s.verb = "insert" -> {s.from}
      [] s.verb \in {"delete", "update"} -> {Where(s.preds)}
      [] OTHER -> {}

RECURSIVE ExprParts(_), TreeParts(_)
ExprParts(e) == {e} \cup UNION {ExprParts(o) : o \in Operands(e)}
TreeParts(x) == {x} \cup UNION {TreeParts(y) : y \in Below(x)}

\* Operands shipped to a semijoin are projected first.
Shipped == {Narrow(Local({T(2, 2)}), {"v"})}
MCExprs ==
    LET roots == Shipped \cup UNION {Roots(s) : s \in Statements}
    IN UNION {ExprParts(e) : e \in roots}
MCHeight == LET Size(e) == Cardinality(ExprParts(e)) IN [e \in MCExprs |-> Size(e)]
MCTrees ==
    LET built == {e \in MCExprs : Build[e] # None}
    IN UNION {TreeParts(Build[e]) : e \in built}
MCTreeHeight == LET Size(x) == Cardinality(TreeParts(x)) IN [x \in MCTrees |-> Size(x)]
MCTemp == [k |-> "new k", v |-> "new v"]

\* What is read off expressions and trees is defined on all of them.
Names == {"k", "v", "w", "j", "x"}
ASSUME TotalAssumption ==
    /\ HeadingOf \in [Exprs -> SUBSET Names] /\ LeavesOf \in [Exprs -> SUBSET Exprs]
    /\ Build \in [Exprs -> Trees \cup {None}] /\ Compiles \in [Exprs -> BOOLEAN]
    /\ TreeHeading \in [Trees -> SUBSET Names] /\ TreeLeaves \in [Trees -> SUBSET Trees]
    /\ SurvivingKeys \in [Trees -> SUBSET SUBSET Names] /\ CardLeOne \in [Trees -> BOOLEAN]
    /\ Resolves \in [Trees -> BOOLEAN] /\ Emits \in [Trees -> BOOLEAN]
    /\ RootedInTarget \in [Trees -> BOOLEAN]
    /\ Lowered \in [CompiledStatements -> Seq(UNION {Range(Lower(s)) : s \in Statements})]
=============================================================================
