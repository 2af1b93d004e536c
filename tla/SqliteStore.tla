----------------------------- MODULE SqliteStore -----------------------------
(***************************************************************************)
(* The runtime's SQLite storage engine (coddl-runtime/src/sqlite.rs): the  *)
(* database and plan registries, the connection pool, the transaction      *)
(* nesting counter, the control statements broadcast to every registered   *)
(* database, and the four ways a registered plan is fired -- short circuit, *)
(* cardinality-1 sibling, (VALUES ...) expansion, and escalation into      *)
(* session temp tables.                                                    *)
(*                                                                         *)
(* A compiled program is one thread, so a step is one runtime call or, for *)
(* a call that runs several statements, one SQL statement; the process may *)
(* die between any two of them.                                            *)
(*                                                                         *)
(* Abstracted: a tuple is a member of Rows, a table the set of its tuples; *)
(* SQL text is the operator Meaning (reads) or Effect (writes); a         *)
(* statement that SQLite refuses (busy, I/O, constraint) is a Crash.       *)
(***************************************************************************)
EXTENDS Integers, Sequences, FiniteSets, FiniteSetsExt

CONSTANTS
    Names,          \* logical databases (`database <name>;`)
    Paths,          \* resolved file paths
    PathOf,         \* PathOf[n]: the path name n resolves to
    Rows,           \* tuples
    PlanIds,        \* dense plan ids assigned by codegen
    Plan,           \* Plan[id]: the PlanEntry codegen registers under id
    NoPlan,         \* "no sibling", the card1_alt of -1
    NoAnswer,
    Meaning(_,_,_), \* Meaning(id, args, table): the rows a read plan selects
    Effect(_,_),    \* Effect(id, table): the table after a DML plan
    Clash(_),       \* Clash(table): the table breaks its PRIMARY KEY
    BindCeiling,    \* QUERY_BIND_CEILING (999 in the code)
    InsertBudget,   \* INSERT_PARAM_BUDGET (900 in the code)
    MaxDepth        \* bound: brackets the modelled program nests

Kinds == {"read", "sibling", "dml", "insert"}

\* A plan's registered facts; `arity` has one entry per relation parameter.
PlanEntry ==
    [kind: Kinds, db: Names, params: Nat, arity: Seq(Nat \ {0}),
     absorbs: SUBSET Nat, gated: BOOLEAN,
     alt: PlanIds \cup {NoPlan}, dispatch: Nat]

Slots(id) == DOMAIN Plan[id].arity
PathOfPlan == [id \in PlanIds |-> PathOf[Plan[id].db]]
PlansOf(kind) == {id \in PlanIds : Plan[id].kind = kind}
TempTables == UNION {{id} \X Slots(id) : id \in PlanIds}
NoTempRows == [t \in TempTables |-> {}]

\* What a caller binds: the gate scalar, a relation per slot, and -- only
\* for a sibling -- the shipped row whose cells follow the scalars.
Args(slots) == [gate: BOOLEAN, ships: [slots -> SUBSET Rows], cells: SUBSET Rows]
ArgsOf(id) == {a \in Args(Slots(id)) : a.cells = {} /\ (Plan[id].gated \/ a.gate)}
SiblingArgs(id, a) ==
    [gate |-> a.gate, ships |-> << >>, cells |-> a.ships[Plan[id].dispatch]]

\* The facts coddl_query reads off the bound arguments: an empty relation in
\* an absorbing slot or a false gate, one row in the dispatch slot, and how
\* many cells the slots would bind.
ProvablyEmpty(id, a) ==
    ~a.gate \/ \E s \in Plan[id].absorbs : a.ships[s] = {}
OneShipped(id, a) ==
    Plan[id].alt # NoPlan /\ Cardinality(a.ships[Plan[id].dispatch]) = 1
ShippedCells(id, a) ==
    MapThenSumSet(LAMBDA s : Cardinality(a.ships[s]) * Plan[id].arity[s], Slots(id))

\* Rows per populate or insert statement: at least one, however wide.
BatchRowsUnclamped(arity) == InsertBudget \div arity
BatchRows(arity) == IF InsertBudget \div arity = 0 THEN 1 ELSE InsertBudget \div arity

ASSUME NamesAssumption == PathOf \in [Names -> Paths]
ASSUME NoneAssumption == NoPlan \notin PlanIds
ASSUME BoundsAssumption ==
    /\ BindCeiling \in Nat /\ MaxDepth \in Nat
    /\ InsertBudget \in Nat \ {0} /\ InsertBudget <= BindCeiling
ASSUME RowsAssumption == IsFiniteSet(Rows)

\* Codegen registers well-formed entries: a sibling ships nothing itself and
\* sits in its plan's database, and the dispatch slot exists.
ASSUME PlanAssumption ==
    /\ DOMAIN Plan = PlanIds
    /\ \A id \in PlanIds :
        /\ Plan[id] \in PlanEntry
        /\ Plan[id].absorbs \subseteq Slots(id)
        /\ Plan[id].kind = "insert" => Slots(id) = {1}
        /\ Plan[id].alt # NoPlan =>
            /\ Plan[id].dispatch \in Slots(id)
            /\ Plan[Plan[id].alt].kind = "sibling"
            /\ Plan[Plan[id].alt].db = Plan[id].db
            /\ Plan[Plan[id].alt].params
                 = Plan[id].params + Plan[id].arity[Plan[id].dispatch]

\* What the emitter guarantees of the SQL it bakes: an absorbing slot or a
\* false gate empties the result, and the sibling bound to the one shipped
\* row selects what the general text selects with that row in the slot.
ASSUME SqlAssumption ==
    \A id \in PlansOf("read") : \A a \in ArgsOf(id), t \in SUBSET Rows :
        /\ Meaning(id, a, t) \in SUBSET Rows
        /\ ProvablyEmpty(id, a) => Meaning(id, a, t) = {}
        /\ OneShipped(id, a) =>
             Meaning(Plan[id].alt, SiblingArgs(id, a), t) = Meaning(id, a, t)
ASSUME EffectAssumption ==
    \A id \in PlansOf("dml"), t \in SUBSET Rows : Effect(id, t) \in SUBSET Rows

-----------------------------------------------------------------------------
VARIABLES
    phase,     \* "prologue", "running", "down", "crashed" or "aborted"
    registry,  \* database_registry: the registered logical databases
    plans,     \* plan_registry: the registered plan ids
    conns,     \* db_connections: the paths with a live connection
    depth,     \* tx_depth
    ctl,       \* the control statement being broadcast, and to whom it still goes
    inTx,      \* per path: the connection is inside BEGIN
    disk,      \* per path: the committed table
    work,      \* per path: the table this connection sees
    temp,      \* session temp tables, one per (plan, slot)
    tempSaved, \* their contents at BEGIN, which ROLLBACK restores
    binds,     \* values bound by the last read, populate or insert statement
    call,      \* the multi-statement call in flight
    answer     \* the last relation a query returned, with what was asked

vars == <<phase, registry, plans, conns, depth, ctl, inTx, disk, work, temp,
          tempSaved, binds, call, answer>>
registries == <<registry, plans>>
tables == <<disk, work>>
temps == <<temp, tempSaved>>

Verbs == {"BEGIN", "COMMIT", "ROLLBACK"}
NoCtl == [verb |-> "none", todo |-> {}]
NoArgs == [gate |-> TRUE, ships |-> << >>, cells |-> {}]
Idle == [op |-> "idle", plan |-> NoPlan, args |-> NoArgs, slot |-> 0,
         left |-> {}, out |-> {}]

\* Init is a process started on databases whose tables satisfy their keys.
Init ==
    /\ phase = "prologue"
    /\ registry = {} /\ plans = {} /\ conns = {}
    /\ depth = 0 /\ ctl = NoCtl
    /\ inTx = [p \in Paths |-> FALSE]
    /\ disk \in [Paths -> {t \in SUBSET Rows : ~Clash(t)}]
    /\ work = disk
    /\ temp = NoTempRows /\ tempSaved = NoTempRows
    /\ binds = 0 /\ call = Idle /\ answer = NoAnswer

\* The process is gone: its globals, its connections, their temp tables and
\* every uncommitted change with it.
Gone(how) ==
    /\ phase' = how
    /\ registry' = {} /\ plans' = {} /\ conns' = {}
    /\ depth' = 0 /\ ctl' = NoCtl
    /\ inTx' = [p \in Paths |-> FALSE]
    /\ work' = disk
    /\ temp' = NoTempRows /\ tempSaved' = NoTempRows
    /\ binds' = 0 /\ call' = Idle /\ answer' = NoAnswer
    /\ UNCHANGED disk

\* The runtime is at rest: the program may make its next call.
Ready == phase = "running" /\ ctl = NoCtl /\ call = Idle

\* Brackets balance: the compiler closes every bracket it opens and rejects
\* a `return` out of one (T0093), so a bracket ends only where one is open.
InBracketUnchecked == Ready
InBracket == Ready /\ depth > 0

-----------------------------------------------------------------------------
(* The prologue of main / coddl_app_init.                                  *)

RegisterDatabase(n) ==
    /\ phase = "prologue"
    /\ n \notin registry
    /\ registry' = registry \cup {n}
    /\ UNCHANGED <<phase, plans, conns, depth, ctl, inTx, tables, temps,
                   binds, call, answer>>

\* Databases are registered before plans; a second plan under one id aborts.
RegisterPlan(id) ==
    /\ phase = "prologue"
    /\ registry = Names
    /\ id \notin plans
    /\ plans' = plans \cup {id}
    /\ UNCHANGED <<phase, registry, conns, depth, ctl, inTx, tables, temps,
                   binds, call, answer>>

StartBody ==
    /\ phase = "prologue"
    /\ registry = Names /\ plans = PlanIds
    /\ phase' = "running"
    /\ UNCHANGED <<registries, conns, depth, ctl, inTx, tables, temps,
                   binds, call, answer>>

-----------------------------------------------------------------------------
(* Transaction brackets.                                                   *)

BroadcastToOne(verb) == [verb |-> verb, todo |-> {CHOOSE n \in registry : TRUE}]
Broadcast(verb) == IF registry = {} THEN NoCtl ELSE [verb |-> verb, todo |-> registry]
Opened == {PathOf[n] : n \in registry}

ControlAtEveryLevel(isOuter, verb) ==
    /\ ctl' = Broadcast(verb)
    /\ conns' = conns \cup Opened
    /\ UNCHANGED <<phase, registries, inTx, tables, temps, binds, call, answer>>

\* tx_broadcast opens every registered database before the first statement.
Control(isOuter, verb) ==
    /\ ctl' = IF isOuter THEN Broadcast(verb) ELSE NoCtl
    /\ conns' = IF isOuter THEN conns \cup Opened ELSE conns
    /\ UNCHANGED <<phase, registries, inTx, tables, temps, binds, call, answer>>

BeginTx ==
    /\ Ready
    /\ depth < MaxDepth
    /\ depth' = depth + 1
    /\ Control(depth = 0, "BEGIN")

CommitTx ==
    /\ InBracket
    /\ depth' = depth - 1
    /\ Control(depth = 1, "COMMIT")

RollbackTx ==
    /\ InBracket
    /\ depth' = depth - 1
    /\ Control(depth = 1, "ROLLBACK")

EndedAtFirst(n) ==
    IF ctl.todo = {n} \/ ctl.verb # "BEGIN" THEN NoCtl ELSE [ctl EXCEPT !.todo = @ \ {n}]
Sent(n) ==
    IF ctl.todo = {n} THEN NoCtl ELSE [ctl EXCEPT !.todo = @ \ {n}]

RestoreTemps(p) ==
    [t \in TempTables |-> IF PathOfPlan[t[1]] = p THEN tempSaved[t] ELSE temp[t]]
SaveTemps(p) ==
    [t \in TempTables |-> IF PathOfPlan[t[1]] = p THEN temp[t] ELSE tempSaved[t]]

\* One control statement on one connection.  SQLite refuses BEGIN inside a
\* transaction and COMMIT / ROLLBACK outside one; the runtime then aborts.
ExecBegin(n) ==
    LET p == PathOf[n] IN
    /\ ctl.verb = "BEGIN" /\ n \in ctl.todo
    /\ IF inTx[p]
       THEN Gone("aborted")
       ELSE /\ inTx' = [inTx EXCEPT ![p] = TRUE]
            /\ tempSaved' = SaveTemps(p)
            /\ ctl' = Sent(n)
            /\ UNCHANGED <<phase, registries, conns, depth, tables, temp,
                           binds, call, answer>>

ExecCommit(n) ==
    LET p == PathOf[n] IN
    /\ ctl.verb = "COMMIT" /\ n \in ctl.todo
    /\ IF ~inTx[p]
       THEN Gone("aborted")
       ELSE /\ inTx' = [inTx EXCEPT ![p] = FALSE]
            /\ disk' = [disk EXCEPT ![p] = work[p]]
            /\ ctl' = Sent(n)
            /\ UNCHANGED <<phase, registries, conns, depth, work, temps,
                           binds, call, answer>>

ExecRollback(n) ==
    LET p == PathOf[n] IN
    /\ ctl.verb = "ROLLBACK" /\ n \in ctl.todo
    /\ IF ~inTx[p]
       THEN Gone("aborted")
       ELSE /\ inTx' = [inTx EXCEPT ![p] = FALSE]
            /\ work' = [work EXCEPT ![p] = disk[p]]
            /\ temp' = RestoreTemps(p)
            /\ ctl' = Sent(n)
            /\ UNCHANGED <<phase, registries, conns, depth, disk, tempSaved,
                           binds, call, answer>>

-----------------------------------------------------------------------------
(* coddl_query.  Neither it nor the two calls that write look at the       *)
(* nesting counter: outside every bracket SQLite autocommits.  What gets   *)
(* there is a bare replacement, whose writes the checker does not stop;    *)
(* the reads it does stop (T0025).                                         *)

Firing(id, kind) ==
    /\ Ready
    /\ id \in plans /\ Plan[id].kind = kind
    /\ Plan[id].db \in registry

ViewOfFreshConnection(id) == disk[PathOfPlan[id]]
View(id) == work[PathOfPlan[id]]
Returned(id, a, rows) == [plan |-> id, args |-> a, rows |-> rows]

\* No statement is prepared and no connection is touched.
QueryEmpty(id, a) ==
    /\ Firing(id, "read")
    /\ ProvablyEmpty(id, a)
    /\ answer' = Returned(id, a, {})
    /\ UNCHANGED <<phase, registries, conns, depth, ctl, inTx, tables, temps,
                   binds, call>>

\* Exactly one row at the dispatch slot: the sibling's text is fired with
\* that row's cells bound after the scalars.
QuerySibling(id, a) ==
    /\ Firing(id, "read")
    /\ ~ProvablyEmpty(id, a)
    /\ OneShipped(id, a)
    /\ conns' = conns \cup {PathOfPlan[id]}
    /\ binds' = Plan[Plan[id].alt].params
    /\ answer' = Returned(id, a, Meaning(Plan[id].alt, SiblingArgs(id, a), View(id)))
    /\ UNCHANGED <<phase, registries, depth, ctl, inTx, tables, temps, call>>

OverCeilingOfCells(id, a) == ShippedCells(id, a) > BindCeiling
OverCeiling(id, a) == ~(Plan[id].params + ShippedCells(id, a) <= BindCeiling)

\* Each slot expands in place to its rows, bound after the scalars.
QueryValues(id, a) ==
    /\ Firing(id, "read")
    /\ ~ProvablyEmpty(id, a) /\ ~OneShipped(id, a)
    /\ ~OverCeiling(id, a)
    /\ conns' = conns \cup {PathOfPlan[id]}
    /\ binds' = Plan[id].params + ShippedCells(id, a)
    /\ answer' = Returned(id, a, Meaning(id, a, View(id)))
    /\ UNCHANGED <<phase, registries, depth, ctl, inTx, tables, temps, call>>

\* A read is never split: past the ceiling every slot ships into its temp
\* table first.  Scalars alone past it leave nothing to escalate (without
\* slots only the scalars can be past it).
QueryEscalated(id, a) ==
    /\ Firing(id, "read")
    /\ ~ProvablyEmpty(id, a) /\ ~OneShipped(id, a)
    /\ OverCeiling(id, a)
    /\ IF Plan[id].params > BindCeiling \/ Slots(id) = {}
       THEN Gone("crashed")
       ELSE /\ conns' = conns \cup {PathOfPlan[id]}
            /\ call' = [Idle EXCEPT !.op = "clear", !.plan = id,
                                    !.args = a, !.slot = 1]
            /\ UNCHANGED <<phase, registries, depth, ctl, inTx, tables, temps,
                           binds, answer>>

\* DELETE FROM the slot's temp table.
NeverEmptied(slot) == temp
Emptied(slot) == [temp EXCEPT ![<<call.plan, slot>>] = {}]

\* CREATE TEMP TABLE IF NOT EXISTS; DELETE FROM it.
ClearTemp ==
    /\ call.op = "clear"
    /\ temp' = Emptied(call.slot)
    /\ call' = [call EXCEPT !.op = "fill", !.left = call.args.ships[call.slot]]
    /\ UNCHANGED <<phase, registries, conns, depth, ctl, inTx, tables, tempSaved,
                   binds, answer>>

IsBatch(B, left, arity) ==
    /\ B \subseteq left
    /\ Cardinality(B) = IF BatchRows(arity) < Cardinality(left)
                         THEN BatchRows(arity) ELSE Cardinality(left)

\* One multi-row INSERT into the slot's temp table.
FillTemp ==
    /\ call.op = "fill" /\ call.left # {}
    /\ \E B \in SUBSET call.left :
        /\ IsBatch(B, call.left, Plan[call.plan].arity[call.slot])
        /\ temp' = [temp EXCEPT ![<<call.plan, call.slot>>] = @ \cup B]
        /\ call' = [call EXCEPT !.left = @ \ B]
        /\ binds' = Cardinality(B) * Plan[call.plan].arity[call.slot]
    /\ UNCHANGED <<phase, registries, conns, depth, ctl, inTx, tables, tempSaved,
                   answer>>

NextSlot ==
    /\ call.op = "fill" /\ call.left = {}
    /\ call' = IF call.slot + 1 \in Slots(call.plan)
               THEN [call EXCEPT !.op = "clear", !.slot = @ + 1]
               ELSE [call EXCEPT !.op = "select"]
    /\ UNCHANGED <<phase, registries, conns, depth, ctl, inTx, tables, temps,
                   binds, answer>>

\* The read itself: the slots are now table names, only scalars bind.
ShippedTemps(id) == [s \in Slots(id) |-> temp[<<id, s>>]]
SelectEscalated ==
    /\ call.op = "select"
    /\ call' = [call EXCEPT !.op = "tidy", !.slot = 1,
                  !.out = Meaning(call.plan,
                                  [call.args EXCEPT !.ships = ShippedTemps(call.plan)],
                                  View(call.plan))]
    /\ binds' = Plan[call.plan].params
    /\ UNCHANGED <<phase, registries, conns, depth, ctl, inTx, tables, temps, answer>>

\* Every slot's table is cleared after the read; then the relation returns.
TidyTemp ==
    /\ call.op = "tidy"
    /\ temp' = Emptied(call.slot)
    /\ IF call.slot + 1 \in Slots(call.plan)
       THEN call' = [call EXCEPT !.slot = @ + 1] /\ UNCHANGED answer
       ELSE call' = Idle /\ answer' = Returned(call.plan, call.args, call.out)
    /\ UNCHANGED <<phase, registries, conns, depth, ctl, inTx, tables, tempSaved, binds>>

-----------------------------------------------------------------------------
(* coddl_exec and coddl_exec_insert.                                       *)

\* One statement that writes.  Outside a transaction it commits by itself.
\* A table that would break its key is refused, and the runtime aborts on
\* the refusal (the Golden Rule): to the database that is a crash.
PublishedAtOnce(p, t) == [disk EXCEPT ![p] = t]
Published(p, t) == IF inTx[p] THEN disk ELSE [disk EXCEPT ![p] = t]
Overwrite(id, t) ==
    /\ work' = [work EXCEPT ![PathOfPlan[id]] = t]
    /\ disk' = Published(PathOfPlan[id], t)
    /\ conns' = conns \cup {PathOfPlan[id]}
    /\ UNCHANGED <<phase, registries, depth, ctl, inTx, temps, answer>>

ExecDml(id) ==
    LET t == Effect(id, View(id)) IN
    /\ Firing(id, "dml")
    /\ IF Clash(t)
       THEN Gone("crashed")
       ELSE Overwrite(id, t) /\ UNCHANGED <<binds, call>>

\* An empty relation inserts nothing and touches nothing, so rel # {}.
ExecInsert(id, rel) ==
    /\ Firing(id, "insert")
    /\ rel # {}
    /\ call' = [Idle EXCEPT !.op = "insert", !.plan = id, !.slot = 1, !.left = rel]
    /\ conns' = conns \cup {PathOfPlan[id]}
    /\ UNCHANGED <<phase, registries, depth, ctl, inTx, tables, temps, binds, answer>>

\* One INSERT ... WHERE NOT EXISTS: tuples already there are skipped.
InsertBatch ==
    /\ call.op = "insert"
    /\ \E B \in SUBSET call.left :
        /\ IsBatch(B, call.left, Plan[call.plan].arity[1])
        /\ IF Clash(View(call.plan) \cup B)
           THEN Gone("crashed")
           ELSE /\ Overwrite(call.plan, View(call.plan) \cup B)
                /\ call' = IF B = call.left THEN Idle ELSE [call EXCEPT !.left = @ \ B]
                /\ binds' = Cardinality(B) * Plan[call.plan].arity[1]

-----------------------------------------------------------------------------
\* coddl_runtime_shutdown: connections close, registries clear.
Shutdown ==
    /\ Ready /\ depth = 0
    /\ Gone("down")

\* Power loss, a kill, or a statement SQLite refuses.
Crash ==
    /\ phase \in {"prologue", "running"}
    /\ Gone("crashed")

Restart ==
    /\ phase \in {"down", "crashed"}
    /\ phase' = "prologue"
    /\ UNCHANGED <<registries, conns, depth, ctl, inTx, tables, temps,
                   binds, call, answer>>

\* The steps a call in flight takes by itself.
Step ==
    \/ \E n \in Names : ExecBegin(n) \/ ExecCommit(n) \/ ExecRollback(n)
    \/ ClearTemp \/ FillTemp \/ NextSlot \/ SelectEscalated \/ TidyTemp
    \/ InsertBatch

Program ==
    \/ \E n \in Names : RegisterDatabase(n)
    \/ \E id \in PlanIds : RegisterPlan(id)
    \/ StartBody
    \/ BeginTx \/ CommitTx \/ RollbackTx
    \/ \E id \in PlansOf("read") : \E a \in ArgsOf(id) :
          QueryEmpty(id, a) \/ QuerySibling(id, a) \/ QueryValues(id, a)
            \/ QueryEscalated(id, a)
    \/ \E id \in PlansOf("dml") : ExecDml(id)
    \/ \E id \in PlansOf("insert"), rel \in SUBSET Rows : ExecInsert(id, rel)
    \/ Shutdown

Next == Step \/ Program \/ Crash \/ Restart

\* A call in flight runs on: one thread executes it and nothing blocks it.
Spec == Init /\ [][Next]_vars /\ WF_vars(Step)

-----------------------------------------------------------------------------
(* Properties.                                                             *)

CallArgs ==
    [gate: BOOLEAN, cells: SUBSET Rows,
     ships: {<< >>} \cup UNION {[Slots(id) -> SUBSET Rows] : id \in PlanIds}]
Calls ==
    [op: {"idle", "clear", "fill", "select", "tidy", "insert"},
     plan: PlanIds \cup {NoPlan},
     args: CallArgs,
     slot: Nat, left: SUBSET Rows, out: SUBSET Rows]

\* Every variable stays in its type (`binds` is bounded by BindsWithinCeiling).
TypeOK ==
    /\ phase \in {"prologue", "running", "down", "crashed", "aborted"}
    /\ registry \subseteq Names /\ plans \subseteq PlanIds /\ conns \subseteq Paths
    /\ depth \in Nat
    /\ ctl \in [verb: Verbs \cup {"none"}, todo: SUBSET Names]
    /\ inTx \in [Paths -> BOOLEAN]
    /\ disk \in [Paths -> SUBSET Rows] /\ work \in [Paths -> SUBSET Rows]
    /\ temp \in [TempTables -> SUBSET Rows]
    /\ tempSaved \in [TempTables -> SUBSET Rows]
    /\ call \in Calls

\* Whenever the runtime is at rest, each registered database's connection is
\* inside BEGIN exactly when the nesting counter is positive: the counter and
\* the broadcasts never drift apart, however brackets nest.
ConnectionsFollowDepth ==
    Ready => \A n \in registry : inTx[PathOf[n]] <=> depth > 0

\* SQLite never refuses a control statement: the runtime sends no BEGIN into
\* an open transaction and no COMMIT or ROLLBACK outside one.
NoSelfInflictedAbort == phase # "aborted"

\* An escalated read sees the rows shipped for it and no others: when its
\* SELECT runs each slot's table holds that slot's relation, and between
\* calls all are empty.  The comment at sqlite.rs:1612-1614 allows a ROLLBACK
\* to resurrect rows, which the clearing before each use makes harmless.  None
\* can: no call straddles a BEGIN, which therefore finds the tables empty, and
\* a ROLLBACK puts back what BEGIN found.  The clearing after the read is what
\* makes it so; the clearing before is a second line of defence.
TempsHoldThisReadsRows ==
    /\ call.op = "select" => ShippedTemps(call.plan) = call.args.ships
    /\ call.op \in {"idle", "insert"} => temp = NoTempRows
    /\ tempSaved = NoTempRows

\* No statement binds more values than QUERY_BIND_CEILING, whichever of the
\* four ways a plan is fired.
BindsWithinCeiling == binds <= BindCeiling

\* Whichever way a query is fired, it returns what its plan means on the
\* table this program sees at that moment, its own uncommitted writes included.
QueriesAnswerFromView ==
    [][answer' # answer /\ answer' # NoAnswer =>
         answer'.rows = Meaning(answer'.plan, answer'.args, work[PathOfPlan[answer'.plan]])]_vars

\* The end of the outermost bracket is one outcome for all databases.  While a
\* COMMIT goes round, what the program sees stays; while a ROLLBACK does, what is
\* published stays; and when the round is over the two agree on every database.
OneOutcome ==
    [][phase' = "running" =>
         /\ ctl.verb = "COMMIT" => work' = work
         /\ ctl.verb = "ROLLBACK" => disk' = disk
         /\ ctl.verb \in {"COMMIT", "ROLLBACK"} /\ ctl' = NoCtl => work' = disk']_vars

\* A runtime call that has started returns or takes the process down.
CallsReturn == (ctl # NoCtl \/ call # Idle) ~> (ctl = NoCtl /\ call = Idle)

\* The inductive invariant behind the safety properties.  BracketsOK: what
\* the counter, the broadcast in flight and the connections know of each other.
Holders(N) == {PathOf[n] : n \in N}
BracketsOK ==
    /\ phase # "running" => /\ depth = 0 /\ ctl = NoCtl /\ call = Idle
                           /\ inTx = [p \in Paths |-> FALSE]
    /\ phase = "running" => registry = Names
    /\ ctl # NoCtl => ctl.verb \in Verbs /\ call = Idle
    /\ phase = "running" /\ ctl = NoCtl =>
         \A p \in Paths : inTx[p] <=> depth > 0 /\ p \in Holders(Names)
    /\ ctl.verb = "BEGIN" =>
         /\ depth = 1
         /\ \A p \in Paths : inTx[p] <=> p \in Holders(Names \ ctl.todo)
    /\ ctl.verb \in {"COMMIT", "ROLLBACK"} =>
         /\ depth = 0
         /\ \A p \in Paths : inTx[p] <=> p \in Holders(Names) \ Holders(Names \ ctl.todo)

\* EscalationOK: how far the temp tables have followed the call in flight.
Shipping == {"clear", "fill", "select", "tidy"}
EscalationOK ==
    /\ tempSaved = NoTempRows
    /\ call.op = "idle" => call = Idle
    /\ call.op \in {"idle", "insert"} => temp = NoTempRows
    /\ call.op # "idle" => call.plan \in PlanIds
    /\ call.op \in Shipping =>
         /\ call.plan \in PlansOf("read") /\ call.args \in ArgsOf(call.plan)
         /\ Slots(call.plan) # {}
         /\ \A t \in TempTables : t[1] # call.plan => temp[t] = {}
    /\ call.op \in {"clear", "fill", "tidy"} => call.slot \in Slots(call.plan)
    /\ call.op \in {"clear", "fill"} =>
         \A s \in Slots(call.plan) : s < call.slot =>
            temp[<<call.plan, s>>] = call.args.ships[s]
    /\ call.op = "fill" =>
         /\ call.left \subseteq call.args.ships[call.slot]
         /\ temp[<<call.plan, call.slot>>] = call.args.ships[call.slot] \ call.left
    /\ call.op = "select" =>
         \A s \in Slots(call.plan) : temp[<<call.plan, s>>] = call.args.ships[s]
    /\ call.op = "tidy" =>
         /\ \A s \in Slots(call.plan) : s < call.slot => temp[<<call.plan, s>>] = {}
         /\ call.out = Meaning(call.plan, call.args, View(call.plan))

IndInv == TypeOK /\ BracketsOK /\ EscalationOK

\* All brackets together are one transaction per database, and outside them
\* each statement is one: see FlatTx.
Flat == INSTANCE FlatTx WITH
    level <- depth, committed <- disk, pending <- work, active <- inTx,
    Queries <- PlansOf("read"), PathOfQuery <- PathOfPlan
ImplementsFlatTx == Flat!Spec
=============================================================================
