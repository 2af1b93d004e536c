------------------------------ MODULE PublicWrite ------------------------------
(***************************************************************************)
(* Statements on a public relvar: how the lowerer turns `R := e`,          *)
(* `truncate`, `delete`, `insert`, `update` and a read into instructions   *)
(* (coddl-procir/src/lower.rs), the surgical DML the emitter recognizes    *)
(* (emit_assignment, coddl-sqlemit/src/lib.rs), and what running the       *)
(* instructions one by one does to the tables.                             *)
(*                                                                         *)
(* A statement is [verb: "assign", rhs], [verb: "truncate"],               *)
(* [verb: "delete", preds], [verb: "insert", from],                        *)
(* [verb: "update", preds, sets] or [verb: "read", rhs].                   *)
(***************************************************************************)
EXTENDS SqlEmit

CONSTANTS
    Target,      \* the relvar written
    Primary,     \* each relvar's first key, its table's PRIMARY KEY
    Temp,        \* the temporary name `update` gives the new value of an attribute
    Statements,  \* the statements the program may run
    Databases    \* the relvar values it may start from

ASSUME TargetAssumption ==
    Target \in Relvars /\ \A r \in Relvars : Primary[r] \in Keys[r]

Heading == Schema[Target]
Key == Primary[Target]

\* build_substitute_chain's names are fresh.
ASSUME TempAssumption ==
    /\ DOMAIN Temp = Heading /\ IsInjective(Temp)
    /\ \A a \in Heading : Temp[a] \notin Heading

TargetRef == Ref(Target)
TargetExpr == [op |-> "relvar", name |-> Target]
Where(preds) == [op |-> "where", in |-> TargetExpr, preds |-> preds]

\* What the checker lets through: the relation assigned, inserted or read is
\* an expression of the program, of the target's heading if it is to be stored.
Storable(e) == e \in Exprs /\ HeadingOf[e] = Heading
Accepted(s) ==
    \/ s.verb = "assign" /\ Storable(s.rhs)
    \/ s.verb = "truncate"
    \/ s.verb = "delete" /\ Where(s.preds) \in Exprs
    \/ s.verb = "insert" /\ Storable(s.from)
    \/ /\ s.verb = "update" /\ Where(s.preds) \in Exprs
       /\ DOMAIN s.sets \subseteq Heading
       /\ \A a \in DOMAIN s.sets : s.sets[a] \in Scalars(Heading)
    \/ s.verb = "read" /\ s.rhs \in Exprs

ASSUME StatementsAssumption == \A s \in Statements : Accepted(s)

Clashing(t, u) == t # u /\ Restrict(t, Key) = Restrict(u, Key)
Keyed(rows) == \A t, u \in rows : ~Clashing(t, u)

ASSUME DatabasesAssumption ==
    \A d \in Databases :
        /\ IsDb(d) /\ Keyed(d[Target])
        /\ \A r \in Relvars : Identifies(Primary[r], d[r])

-----------------------------------------------------------------------------
(* emit_assignment.                                                        *)

\* delete_base_table(x) = Target.
RootedInTarget[x \in Trees] ==
    x = TargetRef \/ (x.op = "restrict" /\ RootedInTarget[x.in])

\* Of such a tree: the conjuncts of its WHERE.
Conjuncts[x \in Trees] ==
    IF x.op = "restrict" THEN Conjuncts[x.in] \cup {x.pred} ELSE {}

Delete(where) == [inst |-> "delete", where |-> where]
AntiJoin(x, negated) ==
    IF Emits[x] THEN [inst |-> "antijoin", from |-> x, negated |-> negated] ELSE None
InsertNew(x) == IF Emits[x] THEN [inst |-> "insert", from |-> x] ELSE None
Partner(x) == IF x.l = TargetRef THEN x.r ELSE x.l

\* SET pairs come from the chain's extends, each under its renamed name.
SetPairs(chain) == Renamed(NewNames(chain), Core(chain).adds)
Update(chain) ==
    IF DOMAIN SetPairs(chain) # {} /\ DOMAIN SetPairs(chain) \subseteq Heading
    THEN [inst |-> "update", where |-> Conjuncts[Core(chain).in], sets |-> SetPairs(chain)]
    ELSE None

Complements(p, q) == q = NotP(p)

\* Changed rows beside their complement ...
Substituted(x) == IF Computes(x.l) THEN x.l ELSE x.r
Unchanged(x) == IF Computes(x.l) THEN x.r ELSE x.l
IsUpdateUnion(x) ==
    LET in == Core(Substituted(x)).in
        rest == Unchanged(x)
    IN /\ Computes(Substituted(x)) /\ ~Computes(rest)
       /\ in.op = "restrict" /\ rest.op = "restrict"
       /\ RootedInTarget[in.in] /\ RootedInTarget[rest.in]
       /\ Complements(in.pred, rest.pred)

\* ... or a bare substitute.
EmitUpdate(x) ==
    IF x.op = "or"
    THEN IF IsUpdateUnion(x) THEN Update(Substituted(x)) ELSE None
    ELSE IF Computes(x) /\ RootedInTarget[Core(x).in] THEN Update(x) ELSE None

EmitAssignment(x) ==
    CASE x.op = "minus" /\ x.l = TargetRef ->
            IF RootedInTarget[x.r] THEN Delete(Conjuncts[x.r]) ELSE AntiJoin(x.r, FALSE)
      [] x.op = "restrict" /\ x.in = TargetRef -> Delete({NotP(x.pred)})
      [] x.op = "and" /\ TargetRef \in {x.l, x.r} -> AntiJoin(Partner(x), TRUE)
      [] x.op = "or" /\ TargetRef \in {x.l, x.r} -> InsertNew(Partner(x))
      [] OTHER -> EmitUpdate(x)

-----------------------------------------------------------------------------
(* The lowerer.                                                            *)

\* T0049: the program does not compile.
Declined == << None >>

Ship(e) == << [inst |-> "eval", expr |-> e], [inst |-> "insertfrom"] >>
Truncate == Delete({})
Surgical(x) ==
    IF x = None THEN None
    ELSE IF Ships(x) THEN None ELSE EmitAssignment(x)

\* union_insert_source.
UnionSource(e) ==
    IF e.op # "union" THEN None
    ELSE IF e.l = TargetExpr THEN e.r
    ELSE IF e.r = TargetExpr THEN e.l
    ELSE None

EmptyAndRefill(e, x) ==
    IF x # None /\ ~Ships(x) /\ Emits[x]
    THEN << Truncate, [inst |-> "refill", from |-> x] >>
    ELSE << Truncate >> \o Ship(e)

LowerAssignUndeclined(e) ==
    LET x == Build[e] IN
    IF e = TargetExpr THEN << >>
    ELSE IF Surgical(x) # None THEN << Surgical(x) >>
    ELSE IF UnionSource(e) # None THEN Ship(UnionSource(e))
    ELSE EmptyAndRefill(e, x)

\* lower_public_assign: one surgical statement, or a shipped union, or -- for
\* a value whose tree does not mention the target -- replace everything.
LowerAssign(e) ==
    LET x == Build[e] IN
    IF e = TargetExpr THEN << >>
    ELSE IF Surgical(x) # None THEN << Surgical(x) >>
    ELSE IF UnionSource(e) # None THEN Ship(UnionSource(e))
    ELSE IF x # None /\ References(x, Target) THEN Declined
    ELSE EmptyAndRefill(e, x)

LowerDelete(preds) ==
    LET x == Build[Where(preds)]
    IN IF x = None THEN Declined
       ELSE << EmitAssignment([op |-> "minus", l |-> TargetRef, r |-> x]) >>

LowerInsert(e) ==
    LET x == Build[e]
        pushed == IF x = None THEN None ELSE IF Ships(x) THEN None
                  ELSE EmitAssignment([op |-> "or", l |-> TargetRef, r |-> x])
    IN IF pushed # None THEN << pushed >> ELSE Ship(e)

\* build_substitute_chain for `update`: every target attribute is extended
\* under a temporary name, dropped, and renamed back.
Substitute(x, sets) ==
    LET temps == {Temp[a] : a \in DOMAIN sets}
        Of(b) == CHOOSE a \in DOMAIN sets : Temp[a] = b
    IN [op |-> "rename", to |-> [b \in temps |-> Of(b)],
        in |-> [op |-> "project", keep |-> (Heading \ DOMAIN sets) \cup temps,
                in |-> [op |-> "extend", in |-> x, adds |-> [b \in temps |-> sets[Of(b)]]]]]

LowerUpdate(preds, sets) ==
    LET x == Build[Where(preds)]
    IN IF preds = << >> THEN << EmitAssignment(Substitute(TargetRef, sets)) >>
       ELSE IF x = None THEN Declined
       ELSE << EmitAssignment([op |-> "or", l |-> RestrictNode(x.in, NotP(x.pred)),
                               r |-> Substitute(x, sets)]) >>

Lower(s) ==
    CASE s.verb = "assign" -> LowerAssign(s.rhs)
      [] s.verb = "truncate" -> << Truncate >>
      [] s.verb = "delete" -> LowerDelete(s.preds)
      [] s.verb = "insert" -> LowerInsert(s.from)
      [] s.verb = "update" -> LowerUpdate(s.preds, s.sets)
      [] s.verb = "read" -> << [inst |-> "query", expr |-> s.rhs] >>

\* What is computed for the program goes through lower_expr, and its guard.
Compiled(s) ==
    /\ Lower(s) # Declined
    /\ \A i \in DOMAIN Lower(s) :
          Lower(s)[i].inst \in {"eval", "query"} => Compiles[Lower(s)[i].expr]
CompiledStatements == {s \in Statements : Compiled(s)}
Lowered == [s \in CompiledStatements |-> Lower(s)]

-----------------------------------------------------------------------------
(* What the recognizers take for granted of assigned values.               *)

\* A substitute leaves the attributes it does not compute alone.
KeepsOthers(chain) == DOMAIN NewNames(chain) \subseteq DOMAIN Core(chain).adds

\* An update names all the rows of the target: the rows changed and those
\* left alone are told apart by the one predicate that is compared.
WholeUpdate(x) ==
    IF x.op = "or"
    THEN IsUpdateUnion(x) =>
            /\ KeepsOthers(Substituted(x))
            /\ Core(Substituted(x)).in.in = TargetRef /\ Unchanged(x).in = TargetRef
    ELSE Computes(x) /\ RootedInTarget[Core(x).in] =>
            KeepsOthers(x) /\ Core(x).in = TargetRef

UpdatesAreWhole ==
    \A s \in Statements :
        s.verb = "assign" /\ Build[s.rhs] # None => WholeUpdate(Build[s.rhs])

\* A value without a tree does not read the target.
OpaqueIsIndependent ==
    \A s \in CompiledStatements :
        s.verb = "assign" /\ Build[s.rhs] = None /\ UnionSource(s.rhs) = None
            => ~Mentions(s.rhs, Target)

\* A join assigned to one of its operands: the other side has all attributes.
JoinsFillTheTarget ==
    \A s \in Statements :
        s.verb = "assign" /\ Build[s.rhs] # None =>
            LET x == Build[s.rhs]
            IN x.op = "and" /\ TargetRef \in {x.l, x.r} => TreeHeading[x.l] = TreeHeading[x.r]

\* Every declared key is enforced: it holds the one the table has.
KeysAreEnforced == \A r \in Relvars : \A k \in Keys[r] : Primary[r] \subseteq k

-----------------------------------------------------------------------------
VARIABLES
    db,       \* the tables this program sees
    inTx,     \* it is in a transaction
    published,    \* the target's rows on disk
    stmt,     \* the statement last begun
    before,   \* the tables when it began
    code,     \* its instructions still to run
    changing,     \* rows of an UPDATE still to change
    src,      \* the relation value last computed in the process
    outcome   \* "running", "done", or "refused" by SQLite

vars == <<db, inTx, published, stmt, before, code, changing, src, outcome>>

NoStatement == [verb |-> "none"]

Init ==
    /\ db \in Databases
    /\ inTx = FALSE /\ published = db[Target]
    /\ stmt = NoStatement /\ before = db
    /\ code = << >> /\ changing = {} /\ src = {} /\ outcome = "done"

\* `transaction [...]`, the outermost: nothing is under way at either end.
Rest(d) ==
    /\ outcome # "running"
    /\ stmt' = NoStatement /\ before' = d
    /\ code' = << >> /\ changing' = {} /\ src' = {} /\ outcome' = "done"
OpenBracket == ~inTx /\ inTx' = TRUE /\ Rest(db) /\ UNCHANGED <<db, published>>
CloseBracket ==
    /\ inTx /\ inTx' = FALSE
    /\ published' = db[Target]
    /\ Rest(db) /\ UNCHANGED db

\* T0025 keeps every mention of a public relvar in a transaction, but not the
\* name of the relvar an assignment replaces.
Bare(s) == s.verb = "assign" /\ InProcess(s.rhs)

\* A statement of a program that compiled.
Begin(s) ==
    /\ outcome # "running"
    /\ inTx \/ Bare(s)
    /\ stmt' = s /\ before' = db
    /\ code' = Lowered[s]
    /\ changing' = {} /\ src' = {}
    /\ outcome' = IF Lowered[s] = << >> THEN "done" ELSE "running"
    /\ UNCHANGED <<db, inTx, published>>

Running(inst) == outcome = "running" /\ changing = {} /\ Head(code).inst = inst

\* The instruction is done; with the last one, so is the statement.
Advance ==
    /\ code' = Tail(code)
    /\ outcome' = IF Tail(code) = << >> THEN "done" ELSE "running"
    /\ UNCHANGED <<inTx, stmt, before>>

\* SQLite refuses the statement and the runtime aborts: the next process finds
\* what is on disk -- without the transaction, if one was open.
Refuse ==
    /\ db' = [db EXCEPT ![Target] = published]
    /\ inTx' = FALSE
    /\ code' = << >> /\ changing' = {} /\ outcome' = "refused"
    /\ UNCHANGED <<published, stmt, before, src>>

\* Outside a transaction SQLite commits each statement by itself.
Table(t) ==
    /\ db' = [db EXCEPT ![Target] = t]
    /\ published' = IF inTx THEN published ELSE t
Matched(where) == {t \in db[Target] : \A p \in where : Holds(p, t)}

ExecDelete ==
    /\ Running("delete")
    /\ Table(db[Target] \ Matched(Head(code).where))
    /\ Advance /\ UNCHANGED <<changing, src>>

\* The correlation names every column of the target: a partner that lacks one
\* is an error.
ExecAntiJoin ==
    /\ Running("antijoin")
    /\ LET other == Sql(Head(code).from, db)
       IN IF TreeHeading[Head(code).from] = Heading
          THEN /\ Table(IF Head(code).negated THEN db[Target] \cap other ELSE db[Target] \ other)
               /\ Advance /\ UNCHANGED <<changing, src>>
          ELSE Refuse

\* WHERE NOT EXISTS skips a tuple that is already there.
NewRowsUnchecked(from) == from
NewRows(from) == from \ db[Target]
Accepts(new) ==
    \A t \in new : \A u \in db[Target] \cup new :
        Restrict(t, Key) = Restrict(u, Key) => t = u /\ u \notin db[Target]

InsertRows(new, twice) ==
    IF Accepts(new) /\ new \cap twice = {}
    THEN Table(db[Target] \cup new) /\ Advance /\ UNCHANGED <<changing, src>>
    ELSE Refuse

\* A row the SELECT returns twice clashes with itself.
ExecInsert ==
    /\ Running("insert")
    /\ InsertRows(NewRows(Sql(Head(code).from, db)), Repeated(Head(code).from, db))

\* Right after the truncate: no NOT EXISTS.
ExecRefill ==
    /\ Running("refill")
    /\ InsertRows(Sql(Head(code).from, db), Repeated(Head(code).from, db))

\* A relation in the process is sealed: a set.
ExecInsertFrom == Running("insertfrom") /\ InsertRows(NewRows(src), {})

\* The rows an UPDATE changes are collected first ...
ExecUpdate ==
    /\ Running("update")
    /\ LET matched == Matched(Head(code).where)
       IN IF matched = {} THEN Advance /\ UNCHANGED changing
          ELSE changing' = matched /\ UNCHANGED <<inTx, stmt, before, code, outcome>>
    /\ UNCHANGED <<db, published, src>>

\* ... and then changed one by one, the key checked at each.  No UPDATE runs
\* outside a transaction, where SQLite would publish all of it or nothing.
Set(sets, t) == [a \in Heading |-> IF a \in DOMAIN sets THEN Scalar(sets[a], t) ELSE t[a]]
UpdateRow ==
    /\ outcome = "running" /\ changing # {}
    /\ \E t \in changing :
        LET new == Set(Head(code).sets, t)
            others == db[Target] \ {t}
        IN IF \E u \in others : Restrict(u, Key) = Restrict(new, Key)
           THEN Refuse
           ELSE /\ Table(others \cup {new})
                /\ changing' = changing \ {t}
                /\ IF changing = {t} THEN Advance ELSE UNCHANGED <<inTx, stmt, before, code, outcome>>
                /\ UNCHANGED src

ExecQuery ==
    /\ Running("query")
    /\ src' = Value(Head(code).expr, db)
    /\ Advance /\ UNCHANGED <<db, published, changing>>

ExecEval ==
    /\ Running("eval")
    /\ src' = Value(Head(code).expr, db)
    /\ Advance /\ UNCHANGED <<db, published, changing>>

Next ==
    \/ OpenBracket \/ CloseBracket
    \/ \E s \in CompiledStatements : Begin(s)
    \/ ExecDelete \/ ExecAntiJoin \/ ExecInsert \/ ExecRefill \/ ExecInsertFrom
    \/ ExecUpdate \/ UpdateRow \/ ExecQuery \/ ExecEval

Spec == Init /\ [][Next]_vars

-----------------------------------------------------------------------------
(* Properties.                                                             *)

\* The value a statement asks the target to have.
Asked(s, d) ==
    CASE s.verb = "assign" -> Eval(s.rhs, d)
      [] s.verb = "truncate" -> {}
      [] s.verb = "delete" -> {t \in d[Target] : ~Satisfies(s.preds, t)}
      [] s.verb = "insert" -> d[Target] \cup Eval(s.from, d)
      [] s.verb = "update" ->
           {IF Satisfies(s.preds, t) THEN Set(s.sets, t) ELSE t : t \in d[Target]}
      [] OTHER -> d[Target]

\* A statement that ran to its end left the target with exactly the value its
\* right-hand side had before it, and every other relvar alone: the surgical
\* DML, the shipped union and the replace-all all mean plain assignment.
WritesMeanTheirValue ==
    outcome = "done" => db = [before EXCEPT ![Target] = Asked(stmt, before)]

\* A read yields what its expression denotes, pushed whole, in parts or not.
ReadsMeanTheirExpression ==
    outcome = "done" /\ stmt.verb = "read" => src = Eval(stmt.rhs, before)

\* Every SELECT the program runs returns each row once, whatever join,
\* projection or semijoin it is made of: where the emitter left DISTINCT out,
\* a key survives in what is selected, or there is one row at most.
Selects(inst) ==
    CASE inst.inst \in {"query", "eval"} -> Fired[inst.expr]
      [] inst.inst \in {"insert", "refill", "antijoin"} -> {inst.from}
      [] OTHER -> {}
EachRowOnce ==
    outcome = "running" => \A x \in Selects(Head(code)) : Repeated(x, db) = {}

\* The Golden Rule, both ways: no key is ever broken, and a statement is
\* refused only because the value asked for would break it -- or because it
\* is an UPDATE of the key, whose rows SQLite checks one by one.
SetsKey(s) ==
    \E i \in DOMAIN Lower(s) : /\ Lower(s)[i].inst = "update"
                              /\ DOMAIN Lower(s)[i].sets \cap Key # {}
GoldenRule ==
    /\ Keyed(db[Target]) /\ Keyed(published)
    /\ outcome = "refused" => ~Keyed(Asked(stmt, before)) \/ SetsKey(stmt)
=============================================================================
