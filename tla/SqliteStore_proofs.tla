------------------------- MODULE SqliteStore_proofs -------------------------
(***************************************************************************)
(* Theorems about SqliteStore for every choice of databases, plans, tuples *)
(* and bounds.  The inductive invariant is TypeOK, BracketsOK and          *)
(* EscalationOK together; its preservation is proved one part at a time,   *)
(* one step per action.                                                    *)
(***************************************************************************)
EXTENDS SqliteStore, TLAPS, FiniteSetTheorems

-----------------------------------------------------------------------------
(* Facts about the constants.                                              *)

\* A plan's slots are an initial segment of the positive naturals.
LEMMA SlotRange ==
    ASSUME NEW id \in PlanIds
    PROVE  \E n \in Nat : Slots(id) = 1 .. n
<1>1. Plan[id].arity \in Seq(Nat \ {0})
  BY PlanAssumption DEF PlanEntry
<1> QED BY <1>1 DEF Slots

\* Temp tables are named by exactly the (plan, slot) pairs.
LEMMA TempTableNames ==
    /\ \A id \in PlanIds : \A s \in Slots(id) : <<id, s>> \in TempTables
    /\ \A t \in TempTables :
         t[1] \in PlanIds /\ t[2] \in Slots(t[1]) /\ t = <<t[1], t[2]>>
BY DEF TempTables

\* Every registered plan lives in a database with a path.
LEMMA PathOfPlanType == PathOfPlan \in [PlanIds -> Paths]
BY NamesAssumption, PlanAssumption DEF PathOfPlan, PlanEntry

\* A read fired on well-typed arguments returns a set of rows.
LEMMA MeaningType ==
    ASSUME NEW id \in PlansOf("read"), NEW a \in ArgsOf(id), NEW t \in SUBSET Rows
    PROVE  Meaning(id, a, t) \in SUBSET Rows
BY SqlAssumption

\* Whatever a caller may bind to a plan fits the type of a call's arguments.
LEMMA ArgsType ==
    ASSUME NEW id \in PlanIds, NEW a \in ArgsOf(id)
    PROVE  a \in CallArgs /\ a.ships \in [Slots(id) -> SUBSET Rows]
BY DEF ArgsOf, Args, CallArgs

LEMMA IdleType == Idle \in Calls
BY DEF Idle, Calls, CallArgs, NoArgs

LEMMA NoTempRowsType == NoTempRows \in [TempTables -> SUBSET Rows]
BY DEF NoTempRows

\* A process that is gone leaves every part of the invariant intact.
LEMMA GoneTypes ==
    ASSUME TypeOK, NEW how \in {"down", "crashed", "aborted"}, Gone(how)
    PROVE  TypeOK'
BY IdleType, NoTempRowsType DEF TypeOK, Gone, NoCtl, Verbs

-----------------------------------------------------------------------------
(* Every action keeps the types.                                           *)

LEMMA ControlType ==
    ASSUME TypeOK, NEW isOuter, NEW verb \in Verbs,
           Control(isOuter, verb), depth' \in Nat
    PROVE  TypeOK'
BY NamesAssumption
   DEF TypeOK, Control, Broadcast, Opened, NoCtl, Verbs, registries, tables, temps

LEMMA BracketTypes ==
    ASSUME TypeOK
    PROVE  /\ BeginTx => TypeOK'
           /\ CommitTx => TypeOK'
           /\ RollbackTx => TypeOK'
<1>1. depth \in Nat /\ MaxDepth \in Nat
  BY BoundsAssumption DEF TypeOK
<1>2. ASSUME BeginTx PROVE TypeOK'
  <2>1. depth' \in Nat /\ Control(depth = 0, "BEGIN")
    BY <1>1, <1>2 DEF BeginTx
  <2> QED BY <2>1, ControlType DEF Verbs
<1>3. ASSUME CommitTx PROVE TypeOK'
  <2>1. depth' \in Nat /\ Control(depth = 1, "COMMIT")
    BY <1>1, <1>3 DEF CommitTx, InBracket
  <2> QED BY <2>1, ControlType DEF Verbs
<1>4. ASSUME RollbackTx PROVE TypeOK'
  <2>1. depth' \in Nat /\ Control(depth = 1, "ROLLBACK")
    BY <1>1, <1>4 DEF RollbackTx, InBracket
  <2> QED BY <2>1, ControlType DEF Verbs
<1> QED BY <1>2, <1>3, <1>4

LEMMA BroadcastTypes ==
    ASSUME TypeOK, NEW n \in Names
    PROVE  /\ ExecBegin(n) => TypeOK'
           /\ ExecCommit(n) => TypeOK'
           /\ ExecRollback(n) => TypeOK'
<1>1. PathOf[n] \in Paths
  BY NamesAssumption
<1>2. Sent(n) \in [verb: Verbs \cup {"none"}, todo: SUBSET Names]
  BY DEF Sent, NoCtl, TypeOK
<1>3. /\ SaveTemps(PathOf[n]) \in [TempTables -> SUBSET Rows]
      /\ RestoreTemps(PathOf[n]) \in [TempTables -> SUBSET Rows]
  BY DEF SaveTemps, RestoreTemps, TypeOK
<1>4. ASSUME ExecBegin(n) PROVE TypeOK'
  <2>1. CASE inTx[PathOf[n]]
    BY <1>4, <2>1, GoneTypes DEF ExecBegin
  <2>2. CASE ~inTx[PathOf[n]]
    BY <1>1, <1>2, <1>3, <1>4, <2>2 DEF ExecBegin, TypeOK, registries, tables
  <2> QED BY <2>1, <2>2
<1>5. ASSUME ExecCommit(n) PROVE TypeOK'
  <2>1. CASE ~inTx[PathOf[n]]
    BY <1>5, <2>1, GoneTypes DEF ExecCommit
  <2>2. CASE inTx[PathOf[n]]
    BY <1>1, <1>2, <1>5, <2>2 DEF ExecCommit, TypeOK, registries, temps
  <2> QED BY <2>1, <2>2
<1>6. ASSUME ExecRollback(n) PROVE TypeOK'
  <2>1. CASE ~inTx[PathOf[n]]
    BY <1>6, <2>1, GoneTypes DEF ExecRollback
  <2>2. CASE inTx[PathOf[n]]
    BY <1>1, <1>2, <1>3, <1>6, <2>2 DEF ExecRollback, TypeOK, registries
  <2> QED BY <2>1, <2>2
<1> QED BY <1>4, <1>5, <1>6

LEMMA QueryTypes ==
    ASSUME TypeOK, NEW id \in PlansOf("read"), NEW a \in ArgsOf(id)
    PROVE  /\ QueryEmpty(id, a) => TypeOK'
           /\ QuerySibling(id, a) => TypeOK'
           /\ QueryValues(id, a) => TypeOK'
           /\ QueryEscalated(id, a) => TypeOK'
<1>1. id \in PlanIds /\ PathOfPlan[id] \in Paths /\ a \in CallArgs
  BY PathOfPlanType, ArgsType DEF PlansOf
<1>2. [Idle EXCEPT !.op = "clear", !.plan = id, !.args = a, !.slot = 1] \in Calls
  BY <1>1 DEF Idle, Calls
<1>3. ASSUME QueryEmpty(id, a) PROVE TypeOK'
  BY <1>3 DEF QueryEmpty, TypeOK, registries, tables, temps
<1>4. ASSUME QuerySibling(id, a) PROVE TypeOK'
  BY <1>1, <1>4 DEF QuerySibling, TypeOK, registries, tables, temps
<1>5. ASSUME QueryValues(id, a) PROVE TypeOK'
  BY <1>1, <1>5 DEF QueryValues, TypeOK, registries, tables, temps
<1>6. ASSUME QueryEscalated(id, a) PROVE TypeOK'
  <2>1. CASE Plan[id].params > BindCeiling \/ Slots(id) = {}
    BY <1>6, <2>1, GoneTypes DEF QueryEscalated
  <2>2. CASE ~(Plan[id].params > BindCeiling \/ Slots(id) = {})
    BY <1>1, <1>2, <1>6, <2>2 DEF QueryEscalated, TypeOK, registries, tables, temps
  <2> QED BY <2>1, <2>2
<1> QED BY <1>3, <1>4, <1>5, <1>6

\* The select's arguments: the temp tables hold exactly what was shipped.
LEMMA ShippedArgs ==
    ASSUME TypeOK, EscalationOK, call.op = "select"
    PROVE  [call.args EXCEPT !.ships = ShippedTemps(call.plan)] = call.args
<1>1. call.plan \in PlanIds /\ call.args \in ArgsOf(call.plan)
  BY DEF EscalationOK, Shipping, PlansOf
<1>2. call.args.ships \in [Slots(call.plan) -> SUBSET Rows]
  BY <1>1, ArgsType
<1>3. ShippedTemps(call.plan) = call.args.ships
  BY <1>1, <1>2 DEF ShippedTemps, EscalationOK
<1>4. call.args \in [gate: BOOLEAN, ships: [Slots(call.plan) -> SUBSET Rows],
                     cells: SUBSET Rows]
  BY <1>1 DEF ArgsOf, Args
<1> QED BY <1>3, <1>4

LEMMA EscalationTypes ==
    ASSUME TypeOK, EscalationOK
    PROVE  /\ ClearTemp => TypeOK'
           /\ FillTemp => TypeOK'
           /\ NextSlot => TypeOK'
           /\ SelectEscalated => TypeOK'
           /\ TidyTemp => TypeOK'
<1>1. ASSUME call.op \in Shipping
      PROVE  /\ call.plan \in PlanIds /\ call.args \in ArgsOf(call.plan)
             /\ call.plan \in PlansOf("read")
             /\ call.args.ships \in [Slots(call.plan) -> SUBSET Rows]
             /\ PathOfPlan[call.plan] \in Paths
  BY <1>1, ArgsType, PathOfPlanType DEF EscalationOK, PlansOf
<1>2. \A slot : Emptied(slot) \in [TempTables -> SUBSET Rows]
  BY DEF Emptied, TypeOK
<1>3. ASSUME ClearTemp PROVE TypeOK'
  <2>1. call.args.ships[call.slot] \in SUBSET Rows
    BY <1>1, <1>3 DEF ClearTemp, Shipping, EscalationOK
  <2>2. call' \in Calls
    BY <1>3, <2>1 DEF ClearTemp, TypeOK, Calls
  <2> QED BY <1>2, <1>3, <2>2 DEF ClearTemp, TypeOK, registries, tables
<1>4. ASSUME FillTemp PROVE TypeOK'
  <2>1. PICK B \in SUBSET call.left :
          /\ temp' = [temp EXCEPT ![<<call.plan, call.slot>>] = @ \cup B]
          /\ call' = [call EXCEPT !.left = @ \ B]
    BY <1>4 DEF FillTemp
  <2>2. call.left \in SUBSET Rows
    BY DEF TypeOK, Calls
  <2>3. temp' \in [TempTables -> SUBSET Rows]
    BY <2>1, <2>2 DEF TypeOK
  <2>4. call' \in Calls
    BY <2>1, <2>2 DEF TypeOK, Calls
  <2> QED BY <1>4, <2>3, <2>4 DEF FillTemp, TypeOK, registries, tables
<1>5. ASSUME NextSlot PROVE TypeOK'
  <2>1. call \in Calls /\ call.slot + 1 \in Nat
    BY DEF TypeOK, Calls
  <2>2. /\ \A k \in Nat : [call EXCEPT !.op = "clear", !.slot = k] \in Calls
        /\ [call EXCEPT !.op = "select"] \in Calls
    BY <2>1 DEF Calls
  <2>3. call' \in Calls
    BY <1>5, <2>1, <2>2 DEF NextSlot
  <2> QED BY <1>5, <2>3 DEF NextSlot, TypeOK, registries, tables, temps
<1>6. ASSUME SelectEscalated PROVE TypeOK'
  <2>1. work[PathOfPlan[call.plan]] \in SUBSET Rows
    BY <1>1, <1>6 DEF SelectEscalated, Shipping, TypeOK
  <2>2. Meaning(call.plan, call.args, View(call.plan)) \in SUBSET Rows
    BY <1>1, <1>6, <2>1, MeaningType DEF SelectEscalated, Shipping, View
  <2>3. call' = [call EXCEPT !.op = "tidy", !.slot = 1,
                  !.out = Meaning(call.plan, call.args, View(call.plan))]
    BY <1>6, ShippedArgs DEF SelectEscalated
  <2>4. call' \in Calls
    BY <2>2, <2>3 DEF TypeOK, Calls
  <2> QED BY <1>6, <2>4 DEF SelectEscalated, TypeOK, registries, tables, temps
<1>7. ASSUME TidyTemp PROVE TypeOK'
  <2>1. call' \in Calls
    BY <1>7, IdleType DEF TidyTemp, TypeOK, Calls
  <2> QED BY <1>2, <1>7, <2>1 DEF TidyTemp, TypeOK, registries, tables
<1> QED BY <1>3, <1>4, <1>5, <1>6, <1>7

LEMMA WriteTypes ==
    ASSUME TypeOK, EscalationOK
    PROVE  /\ \A id \in PlansOf("dml") : ExecDml(id) => TypeOK'
           /\ \A id \in PlansOf("insert"), rel \in SUBSET Rows : ExecInsert(id, rel) => TypeOK'
           /\ InsertBatch => TypeOK'
<1>1. \A id \in PlanIds : PathOfPlan[id] \in Paths /\ View(id) \in SUBSET Rows
  BY PathOfPlanType DEF View, TypeOK
<1>2. ASSUME NEW id \in PlansOf("dml"), ExecDml(id) PROVE TypeOK'
  <2>1. id \in PlanIds /\ Effect(id, View(id)) \in SUBSET Rows
    BY <1>1, EffectAssumption DEF PlansOf
  <2>2. CASE Clash(Effect(id, View(id)))
    BY <1>2, <2>2, GoneTypes DEF ExecDml
  <2>3. CASE ~Clash(Effect(id, View(id)))
    BY <1>1, <1>2, <2>1, <2>3 DEF ExecDml, Overwrite, Published, TypeOK, registries, temps
  <2> QED BY <2>2, <2>3
<1>3. ASSUME NEW id \in PlansOf("insert"), NEW rel \in SUBSET Rows, ExecInsert(id, rel)
      PROVE  TypeOK'
  <2>1. id \in PlanIds
    BY DEF PlansOf
  <2>2. call' \in Calls
    BY <1>3, <2>1, IdleType DEF ExecInsert, Calls
  <2> QED BY <1>1, <1>3, <2>1, <2>2 DEF ExecInsert, TypeOK, registries, tables, temps
<1>4. ASSUME InsertBatch PROVE TypeOK'
  <2>1. call.plan \in PlanIds /\ call.left \in SUBSET Rows
    BY <1>4 DEF InsertBatch, EscalationOK, TypeOK, Calls
  <2>2. PICK B \in SUBSET call.left :
          IF Clash(View(call.plan) \cup B)
          THEN Gone("crashed")
          ELSE /\ Overwrite(call.plan, View(call.plan) \cup B)
               /\ call' = IF B = call.left THEN Idle ELSE [call EXCEPT !.left = @ \ B]
    BY <1>4 DEF InsertBatch
  <2>3. CASE Clash(View(call.plan) \cup B)
    BY <2>2, <2>3, GoneTypes
  <2>4. CASE ~Clash(View(call.plan) \cup B)
    <3>1. call' \in Calls
      BY <2>1, <2>2, <2>4, IdleType DEF TypeOK, Calls
    <3>2. View(call.plan) \cup B \in SUBSET Rows /\ PathOfPlan[call.plan] \in Paths
      BY <1>1, <2>1
    <3> QED BY <2>2, <2>4, <3>1, <3>2 DEF Overwrite, Published, TypeOK, registries, temps
  <2> QED BY <2>3, <2>4
<1> QED BY <1>2, <1>3, <1>4

LEMMA LifecycleTypes ==
    ASSUME TypeOK
    PROVE  /\ \A n \in Names : RegisterDatabase(n) => TypeOK'
           /\ \A id \in PlanIds : RegisterPlan(id) => TypeOK'
           /\ StartBody => TypeOK'
           /\ Shutdown => TypeOK'
           /\ Crash => TypeOK'
           /\ Restart => TypeOK'
<1>1. ASSUME NEW n \in Names, RegisterDatabase(n) PROVE TypeOK'
  BY <1>1 DEF RegisterDatabase, TypeOK, registries, tables, temps
<1>2. ASSUME NEW id \in PlanIds, RegisterPlan(id) PROVE TypeOK'
  BY <1>2 DEF RegisterPlan, TypeOK, registries, tables, temps
<1>3. ASSUME StartBody PROVE TypeOK'
  BY <1>3 DEF StartBody, TypeOK, registries, tables, temps
<1>4. ASSUME Restart PROVE TypeOK'
  BY <1>4 DEF Restart, TypeOK, registries, tables, temps
<1> QED BY <1>1, <1>2, <1>3, <1>4, GoneTypes DEF Shutdown, Crash

LEMMA TypeStep ==
    ASSUME TypeOK, EscalationOK, [Next]_vars
    PROVE  TypeOK'
<1>1. CASE Step
  BY <1>1, BroadcastTypes, EscalationTypes, WriteTypes DEF Step
<1>2. CASE Program
  BY <1>2, BracketTypes, LifecycleTypes, QueryTypes, WriteTypes DEF Program
<1>3. CASE Crash \/ Restart
  BY <1>3, LifecycleTypes
<1>4. CASE UNCHANGED vars
  BY <1>4 DEF TypeOK, vars
<1> QED BY <1>1, <1>2, <1>3, <1>4 DEF Next

-----------------------------------------------------------------------------
(* Every action keeps the counter, the broadcast and the connections in    *)
(* step.                                                                   *)

\* Actions that touch none of the three, and leave a call in flight only while
\* the process runs and no broadcast does.
LEMMA BracketsUntouched ==
    ASSUME TypeOK, BracketsOK,
           UNCHANGED <<phase, registry, depth, ctl, inTx>>,
           call' # Idle => phase = "running" /\ ctl = NoCtl
    PROVE  BracketsOK'
BY DEF BracketsOK, Holders

LEMMA BracketsGone ==
    ASSUME NEW how \in {"down", "crashed", "aborted"}, Gone(how)
    PROVE  BracketsOK'
BY DEF BracketsOK, Gone, NoCtl, Verbs

\* A control statement starts: nobody has executed it yet.
LEMMA BracketsControl ==
    ASSUME TypeOK, BracketsOK, Ready
    PROVE  /\ BeginTx => BracketsOK'
           /\ CommitTx => BracketsOK'
           /\ RollbackTx => BracketsOK'
<1>1. /\ registry = Names /\ depth \in Nat /\ phase = "running" /\ call = Idle
      /\ \A p \in Paths : inTx[p] <=> depth > 0 /\ p \in Holders(Names)
  BY DEF Ready, BracketsOK, TypeOK
<1>2. Holders({}) = {} /\ (Names = {} => Holders(Names) = {})
  BY DEF Holders
<1>3. ASSUME NEW verb \in Verbs, ctl' = [verb |-> verb, todo |-> Names]
      PROVE  /\ ctl' # NoCtl /\ ctl'.verb = verb
             /\ ctl'.todo = Names /\ Names \ ctl'.todo = {}
  BY <1>3 DEF NoCtl, Verbs
<1>4. NoCtl.verb = "none"
  BY DEF NoCtl
<1>5. ASSUME BeginTx PROVE BracketsOK'
  <2>1. depth' = depth + 1 /\ Control(depth = 0, "BEGIN") /\ "BEGIN" \in Verbs
    BY <1>5 DEF BeginTx, Verbs
  <2>2. CASE depth = 0 /\ Names # {}
    <3>1. /\ ctl' = [verb |-> "BEGIN", todo |-> Names]
          /\ UNCHANGED <<phase, registry, inTx, call>>
      BY <1>1, <2>1, <2>2 DEF Control, Broadcast, registries
    <3>2. \A p \in Paths : ~inTx'[p]
      BY <1>1, <2>2, <3>1
    <3>3. depth' = 1 /\ phase' = "running" /\ registry' = Names /\ call' = Idle
      BY <1>1, <2>1, <2>2, <3>1
    <3>4. /\ ctl' # NoCtl /\ ctl'.verb = "BEGIN" /\ Names \ ctl'.todo = {}
      BY <1>3, <2>1, <3>1
    <3> QED BY <1>2, <2>1, <3>2, <3>3, <3>4 DEF BracketsOK
  <2>3. CASE depth # 0 \/ Names = {}
    <3>1. ctl' = NoCtl /\ UNCHANGED <<phase, registry, inTx, call>>
      <4>1. CASE depth # 0
        BY <2>1, <4>1 DEF Control, registries
      <4>2. CASE depth = 0 /\ Names = {}
        BY <1>1, <2>1, <4>2 DEF Control, Broadcast, registries
      <4> QED BY <2>3, <4>1, <4>2
    <3>2. \A p \in Paths : inTx'[p] <=> depth' > 0 /\ p \in Holders(Names)
      BY <1>1, <1>2, <2>1, <2>3, <3>1
    <3> QED BY <1>1, <1>4, <3>1, <3>2 DEF BracketsOK
  <2> QED BY <2>2, <2>3
<1>6. ASSUME NEW verb \in {"COMMIT", "ROLLBACK"}, Control(depth = 1, verb),
             depth' = depth - 1, depth > 0
      PROVE  BracketsOK'
  <2>1. verb \in Verbs /\ verb # "BEGIN"
    BY DEF Verbs
  <2>2. CASE depth = 1 /\ Names # {}
    <3>1. /\ ctl' = [verb |-> verb, todo |-> Names]
          /\ UNCHANGED <<phase, registry, inTx, call>>
      BY <1>1, <1>6, <2>2 DEF Control, Broadcast, registries
    <3>2. \A p \in Paths : inTx'[p] <=> p \in Holders(Names)
      BY <1>1, <2>2, <3>1
    <3>3. depth' = 0 /\ phase' = "running" /\ registry' = Names /\ call' = Idle
      BY <1>1, <1>6, <2>2, <3>1
    <3>4. /\ ctl' # NoCtl /\ ctl'.verb = verb /\ Names \ ctl'.todo = {}
      BY <1>3, <2>1, <3>1
    <3> QED BY <1>2, <2>1, <3>2, <3>3, <3>4 DEF BracketsOK
  <2>3. CASE depth # 1 \/ Names = {}
    <3>1. ctl' = NoCtl /\ UNCHANGED <<phase, registry, inTx, call>>
      <4>1. CASE depth # 1
        BY <1>6, <4>1 DEF Control, registries
      <4>2. CASE depth = 1 /\ Names = {}
        BY <1>1, <1>6, <4>2 DEF Control, Broadcast, registries
      <4> QED BY <2>3, <4>1, <4>2
    <3>2. \A p \in Paths : inTx'[p] <=> depth' > 0 /\ p \in Holders(Names)
      BY <1>1, <1>2, <1>6, <2>3, <3>1
    <3> QED BY <1>1, <1>4, <3>1, <3>2 DEF BracketsOK
  <2> QED BY <2>2, <2>3
<1> QED BY <1>5, <1>6 DEF CommitTx, RollbackTx, InBracket

\* One database has executed the statement: it left the broadcast and its
\* connection changed side; nobody else moved.
LEMMA BracketsBroadcast ==
    ASSUME TypeOK, BracketsOK, NEW n \in Names
    PROVE  /\ ExecBegin(n) => BracketsOK'
           /\ ExecCommit(n) => BracketsOK'
           /\ ExecRollback(n) => BracketsOK'
<1> DEFINE p == PathOf[n]
<1>1. p \in Paths /\ inTx \in [Paths -> BOOLEAN]
  BY NamesAssumption DEF TypeOK
<1>2. NoCtl.verb = "none"
  BY DEF NoCtl
<1>3. ASSUME ctl.verb \in Verbs, n \in ctl.todo
      PROVE  /\ ctl # NoCtl /\ phase = "running" /\ registry = Names /\ call = Idle
             /\ ctl.todo \subseteq Names
             /\ ctl.todo = {n} => Sent(n) = NoCtl /\ Names \ ctl.todo = Names \ {n}
             /\ ctl.todo # {n} => /\ Sent(n) # NoCtl /\ Sent(n).verb = ctl.verb
                                 /\ Sent(n).todo = ctl.todo \ {n}
  BY <1>2, <1>3 DEF BracketsOK, Verbs, Sent, TypeOK
<1>4. ASSUME n \in ctl.todo, ctl.todo \subseteq Names
      PROVE  /\ Holders(Names \ (ctl.todo \ {n})) = Holders(Names \ ctl.todo) \cup {p}
             /\ ctl.todo = {n} => Holders(Names) = Holders(Names \ ctl.todo) \cup {p}
             /\ p \in Holders(Names)
  BY <1>4 DEF Holders
<1>5. ASSUME ExecBegin(n) PROVE BracketsOK'
  <2>1. CASE inTx[p]
    BY <1>5, <2>1, BracketsGone DEF ExecBegin
  <2>2. CASE ~inTx[p]
    <3>1. /\ ctl.verb = "BEGIN" /\ n \in ctl.todo /\ ctl' = Sent(n)
          /\ inTx' = [inTx EXCEPT ![p] = TRUE]
          /\ UNCHANGED <<phase, registry, depth, call>>
      BY <1>5, <2>2 DEF ExecBegin, registries
    <3>2. depth = 1 /\ \A q \in Paths : inTx[q] <=> q \in Holders(Names \ ctl.todo)
      BY <3>1 DEF BracketsOK
    <3>3. \A q \in Paths : inTx'[q] <=> q \in Holders(Names \ ctl.todo) \cup {p}
      BY <1>1, <3>1, <3>2
    <3>4. CASE ctl.todo = {n}
      BY <1>2, <1>3, <1>4, <3>1, <3>2, <3>3, <3>4 DEF BracketsOK, Verbs
    <3>5. CASE ctl.todo # {n}
      BY <1>2, <1>3, <1>4, <3>1, <3>2, <3>3, <3>5 DEF BracketsOK, Verbs
    <3> QED BY <3>4, <3>5
  <2> QED BY <2>1, <2>2
<1>6. ASSUME ctl.verb \in {"COMMIT", "ROLLBACK"}, n \in ctl.todo, ctl' = Sent(n),
             inTx' = [inTx EXCEPT ![p] = FALSE],
             UNCHANGED <<phase, registry, depth, call>>
      PROVE  BracketsOK'
  <2>1. /\ depth = 0
        /\ \A q \in Paths : inTx[q] <=> q \in Holders(Names) \ Holders(Names \ ctl.todo)
    BY <1>6 DEF BracketsOK
  <2>2. ctl.verb \in Verbs
    BY <1>6 DEF Verbs
  <2>3. \A q \in Paths : inTx'[q]
           <=> q \in Holders(Names) \ (Holders(Names \ ctl.todo) \cup {p})
    BY <1>1, <1>6, <2>1
  <2>4. CASE ctl.todo = {n}
    BY <1>2, <1>3, <1>4, <1>6, <2>1, <2>2, <2>3, <2>4 DEF BracketsOK, Verbs
  <2>5. CASE ctl.todo # {n}
    BY <1>2, <1>3, <1>4, <1>6, <2>1, <2>2, <2>3, <2>5 DEF BracketsOK, Verbs
  <2> QED BY <2>4, <2>5
<1>7. ASSUME ExecCommit(n) PROVE BracketsOK'
  <2>1. CASE ~inTx[p]
    BY <1>7, <2>1, BracketsGone DEF ExecCommit
  <2>2. CASE inTx[p]
    BY <1>6, <1>7, <2>2 DEF ExecCommit, registries
  <2> QED BY <2>1, <2>2
<1>8. ASSUME ExecRollback(n) PROVE BracketsOK'
  <2>1. CASE ~inTx[p]
    BY <1>8, <2>1, BracketsGone DEF ExecRollback
  <2>2. CASE inTx[p]
    BY <1>6, <1>8, <2>2 DEF ExecRollback, registries
  <2> QED BY <2>1, <2>2
<1> QED BY <1>5, <1>7, <1>8

\* The calls a program makes at rest, and the steps of a call in flight.
LEMMA BracketsCalls ==
    ASSUME TypeOK, BracketsOK, EscalationOK
    PROVE  /\ \A id \in PlansOf("read") : \A a \in ArgsOf(id) :
                 /\ QueryEmpty(id, a) => BracketsOK'
                 /\ QuerySibling(id, a) => BracketsOK'
                 /\ QueryValues(id, a) => BracketsOK'
                 /\ QueryEscalated(id, a) => BracketsOK'
           /\ \A id \in PlansOf("dml") : ExecDml(id) => BracketsOK'
           /\ \A id \in PlansOf("insert"), rel \in SUBSET Rows :
                 ExecInsert(id, rel) => BracketsOK'
<1> USE DEF registries, tables, temps
<1>1. ASSUME NEW id \in PlansOf("read"), NEW a \in ArgsOf(id)
      PROVE  /\ QueryEmpty(id, a) => BracketsOK'
             /\ QuerySibling(id, a) => BracketsOK'
             /\ QueryValues(id, a) => BracketsOK'
             /\ QueryEscalated(id, a) => BracketsOK'
  BY BracketsUntouched, BracketsGone
     DEF QueryEmpty, QuerySibling, QueryValues, QueryEscalated, Firing, Ready
<1>2. ASSUME NEW id \in PlansOf("dml"), ExecDml(id) PROVE BracketsOK'
  BY <1>2, BracketsUntouched, BracketsGone
     DEF ExecDml, Overwrite, Firing, Ready
<1>3. ASSUME NEW id \in PlansOf("insert"), NEW rel \in SUBSET Rows, ExecInsert(id, rel)
      PROVE  BracketsOK'
  BY <1>3, BracketsUntouched DEF ExecInsert, Firing, Ready
<1> QED BY <1>1, <1>2, <1>3

LEMMA BracketsInFlight ==
    ASSUME TypeOK, BracketsOK, EscalationOK
    PROVE  /\ ClearTemp => BracketsOK'
           /\ FillTemp => BracketsOK'
           /\ NextSlot => BracketsOK'
           /\ SelectEscalated => BracketsOK'
           /\ TidyTemp => BracketsOK'
           /\ InsertBatch => BracketsOK'
<1> USE DEF registries, tables, temps
<1>1. ASSUME call.op # "idle"
      PROVE  phase = "running" /\ ctl = NoCtl
  BY <1>1 DEF BracketsOK, Idle
<1>2. ASSUME call.op # "idle", UNCHANGED <<phase, registry, depth, ctl, inTx>>
      PROVE  BracketsOK'
  BY <1>1, <1>2, BracketsUntouched
<1>3. ASSUME InsertBatch PROVE BracketsOK'
  <2>1. PICK B \in SUBSET call.left :
          IF Clash(View(call.plan) \cup B)
          THEN Gone("crashed")
          ELSE Overwrite(call.plan, View(call.plan) \cup B)
    BY <1>3 DEF InsertBatch
  <2> QED BY <1>2, <1>3, <2>1, BracketsGone DEF InsertBatch, Overwrite
<1> QED BY <1>2, <1>3 DEF ClearTemp, FillTemp, NextSlot, SelectEscalated, TidyTemp

LEMMA BracketsLifecycle ==
    ASSUME TypeOK, BracketsOK
    PROVE  /\ \A n \in Names : RegisterDatabase(n) => BracketsOK'
           /\ \A id \in PlanIds : RegisterPlan(id) => BracketsOK'
           /\ StartBody => BracketsOK'
           /\ Shutdown => BracketsOK'
           /\ Crash => BracketsOK'
           /\ Restart => BracketsOK'
<1> USE DEF registries, tables, temps
<1>1. NoCtl.verb = "none"
  BY DEF NoCtl
<1>2. ASSUME NEW n \in Names, RegisterDatabase(n) PROVE BracketsOK'
  BY <1>1, <1>2 DEF RegisterDatabase, BracketsOK
<1>3. ASSUME NEW id \in PlanIds, RegisterPlan(id) PROVE BracketsOK'
  BY <1>1, <1>3 DEF RegisterPlan, BracketsOK
<1>4. ASSUME StartBody PROVE BracketsOK'
  BY <1>1, <1>4 DEF StartBody, BracketsOK
<1>5. ASSUME Restart PROVE BracketsOK'
  BY <1>1, <1>5 DEF Restart, BracketsOK
<1> QED BY <1>2, <1>3, <1>4, <1>5, BracketsGone DEF Shutdown, Crash

LEMMA BracketsStep ==
    ASSUME TypeOK, BracketsOK, EscalationOK, [Next]_vars
    PROVE  BracketsOK'
<1>1. CASE Step
  BY <1>1, BracketsBroadcast, BracketsInFlight DEF Step
<1>2. CASE Program
  BY <1>2, BracketsControl, BracketsCalls, BracketsLifecycle
     DEF Program, BeginTx, CommitTx, RollbackTx, InBracket
<1>3. CASE Crash \/ Restart
  BY <1>3, BracketsLifecycle
<1>4. CASE UNCHANGED vars
  BY <1>4 DEF BracketsOK, vars
<1> QED BY <1>1, <1>2, <1>3, <1>4 DEF Next

-----------------------------------------------------------------------------
(* Every action keeps the temp tables in step with the call in flight.     *)

LEMMA IdleOp == Idle.op = "idle"
BY DEF Idle

\* At rest the temp tables are empty, and an action that leaves them and the
\* call alone changes nothing.
LEMMA EscalationAtRest ==
    ASSUME tempSaved' = NoTempRows, temp' = NoTempRows, call' = Idle
    PROVE  EscalationOK'
BY IdleOp DEF EscalationOK, Shipping

LEMMA EscalationGone ==
    ASSUME NEW how, Gone(how)
    PROVE  EscalationOK'
BY EscalationAtRest DEF Gone

\* Between calls: what Ready and BracketsOK say of the temp tables.
LEMMA QuietTemps ==
    ASSUME EscalationOK, call = Idle
    PROVE  temp = NoTempRows /\ tempSaved = NoTempRows
BY IdleOp DEF EscalationOK

LEMMA EscalationBrackets ==
    ASSUME TypeOK, BracketsOK, EscalationOK
    PROVE  /\ BeginTx => EscalationOK'
           /\ CommitTx => EscalationOK'
           /\ RollbackTx => EscalationOK'
           /\ \A n \in Names : ExecBegin(n) \/ ExecCommit(n) \/ ExecRollback(n) => EscalationOK'
<1> USE DEF registries, tables, temps
<1>1. ASSUME BeginTx \/ CommitTx \/ RollbackTx PROVE EscalationOK'
  BY <1>1, QuietTemps, EscalationAtRest
     DEF BeginTx, CommitTx, RollbackTx, InBracket, Ready, Control
<1>2. ASSUME NEW n \in Names, ExecBegin(n) \/ ExecCommit(n) \/ ExecRollback(n)
      PROVE  EscalationOK'
  <2>1. call = Idle
    BY <1>2 DEF ExecBegin, ExecCommit, ExecRollback, BracketsOK, NoCtl
  <2>2. temp = NoTempRows /\ tempSaved = NoTempRows
    BY <2>1, QuietTemps
  <2>3. SaveTemps(PathOf[n]) = NoTempRows /\ RestoreTemps(PathOf[n]) = NoTempRows
    BY <2>2 DEF SaveTemps, RestoreTemps, NoTempRows
  <2>4. CASE ExecBegin(n)
    BY <2>1, <2>2, <2>3, <2>4, EscalationGone, EscalationAtRest DEF ExecBegin
  <2>5. CASE ExecCommit(n)
    BY <2>1, <2>2, <2>5, EscalationGone, EscalationAtRest DEF ExecCommit
  <2>6. CASE ExecRollback(n)
    BY <2>1, <2>2, <2>3, <2>6, EscalationGone, EscalationAtRest DEF ExecRollback
  <2> QED BY <1>2, <2>4, <2>5, <2>6
<1> QED BY <1>1, <1>2

LEMMA EscalationCalls ==
    ASSUME TypeOK, EscalationOK
    PROVE  /\ \A id \in PlansOf("read") : \A a \in ArgsOf(id) :
                 QueryEmpty(id, a) \/ QuerySibling(id, a) \/ QueryValues(id, a)
                   => EscalationOK'
           /\ \A id \in PlansOf("dml") : ExecDml(id) => EscalationOK'
           /\ \A id \in PlansOf("insert"), rel \in SUBSET Rows :
                 ExecInsert(id, rel) => EscalationOK'
           /\ InsertBatch => EscalationOK'
<1> USE DEF registries, tables, temps
<1>1. ASSUME NEW id \in PlansOf("read"), NEW a \in ArgsOf(id),
             QueryEmpty(id, a) \/ QuerySibling(id, a) \/ QueryValues(id, a)
      PROVE  EscalationOK'
  BY <1>1, QuietTemps, EscalationAtRest
     DEF QueryEmpty, QuerySibling, QueryValues, Firing, Ready
<1>2. ASSUME NEW id \in PlansOf("dml"), ExecDml(id) PROVE EscalationOK'
  BY <1>2, QuietTemps, EscalationGone, EscalationAtRest
     DEF ExecDml, Overwrite, Firing, Ready
<1>3. ASSUME NEW id \in PlansOf("insert"), NEW rel \in SUBSET Rows, ExecInsert(id, rel)
      PROVE  EscalationOK'
  <2>1. call'.op = "insert" /\ call'.plan \in PlanIds
    BY <1>3 DEF ExecInsert, Idle, PlansOf
  <2>2. temp' = NoTempRows /\ tempSaved' = NoTempRows
    BY <1>3, QuietTemps DEF ExecInsert, Firing, Ready
  <2> QED BY <2>1, <2>2 DEF EscalationOK, Shipping
<1>4. ASSUME InsertBatch PROVE EscalationOK'
  <2>1. PICK B \in SUBSET call.left :
          IF Clash(View(call.plan) \cup B)
          THEN Gone("crashed")
          ELSE /\ Overwrite(call.plan, View(call.plan) \cup B)
               /\ call' = IF B = call.left THEN Idle ELSE [call EXCEPT !.left = @ \ B]
    BY <1>4 DEF InsertBatch
  <2>2. temp = NoTempRows /\ tempSaved = NoTempRows /\ call.plan \in PlanIds
    BY <1>4 DEF InsertBatch, EscalationOK
  <2>3. CASE Clash(View(call.plan) \cup B)
    BY <2>1, <2>3, EscalationGone
  <2>4. CASE ~Clash(View(call.plan) \cup B) /\ call' = Idle
    BY <2>1, <2>2, <2>4, EscalationAtRest DEF Overwrite
  <2>5. CASE ~Clash(View(call.plan) \cup B) /\ call' = [call EXCEPT !.left = @ \ B]
    <3>1. call'.op = "insert" /\ call'.plan \in PlanIds
      BY <1>4, <2>2, <2>5 DEF InsertBatch, TypeOK, Calls
    <3> QED BY <2>1, <2>2, <2>5, <3>1 DEF Overwrite, EscalationOK, Shipping
  <2> QED BY <2>1, <2>3, <2>4, <2>5
<1> QED BY <1>1, <1>2, <1>3, <1>4

LEMMA EscalationLifecycle ==
    ASSUME TypeOK, BracketsOK, EscalationOK
    PROVE  /\ \A n \in Names : RegisterDatabase(n) => EscalationOK'
           /\ \A id \in PlanIds : RegisterPlan(id) => EscalationOK'
           /\ StartBody \/ Shutdown \/ Crash \/ Restart => EscalationOK'
<1>1. ASSUME phase # "running", UNCHANGED <<temps, call>> PROVE EscalationOK'
  BY <1>1, QuietTemps, EscalationAtRest DEF BracketsOK, temps
<1> QED BY <1>1, EscalationGone
        DEF RegisterDatabase, RegisterPlan, StartBody, Shutdown, Crash, Restart

LEMMA EscalationStart ==
    ASSUME TypeOK, EscalationOK, NEW id \in PlansOf("read"), NEW a \in ArgsOf(id),
           QueryEscalated(id, a)
    PROVE  EscalationOK'
<1>1. id \in PlanIds
  BY DEF PlansOf
<1>2. CASE Plan[id].params > BindCeiling \/ Slots(id) = {}
  BY <1>2, EscalationGone DEF QueryEscalated
<1>3. CASE ~(Plan[id].params > BindCeiling \/ Slots(id) = {})
  <2>1. 1 \in Slots(id)
    BY <1>1, <1>3, SlotRange
  <2>2. /\ call'.op = "clear" /\ call'.plan = id /\ call'.args = a /\ call'.slot = 1
        /\ UNCHANGED temps
    BY <1>3 DEF QueryEscalated, Idle
  <2>3. temp' = NoTempRows /\ tempSaved' = NoTempRows
    BY <2>2, QuietTemps DEF QueryEscalated, Firing, Ready, temps
  <2>4. \A t \in TempTables : temp'[t] = {}
    BY <2>3 DEF NoTempRows
  <2>5. \A s \in Slots(id) : ~(s < 1)
    BY <1>1, SlotRange
  <2> QED BY <1>1, <2>1, <2>2, <2>3, <2>4, <2>5 DEF EscalationOK, Shipping
<1> QED BY <1>2, <1>3

LEMMA EscalationShips ==
    ASSUME TypeOK, EscalationOK
    PROVE  /\ ClearTemp => EscalationOK'
           /\ FillTemp => EscalationOK'
           /\ NextSlot => EscalationOK'
           /\ SelectEscalated => EscalationOK'
           /\ TidyTemp => EscalationOK'
<1> DEFINE id == call.plan
           args == call.args
           table(s) == <<call.plan, s>>
<1>1. ASSUME call.op \in Shipping
      PROVE  /\ id \in PlanIds /\ id \in PlansOf("read") /\ args \in ArgsOf(id)
             /\ args.ships \in [Slots(id) -> SUBSET Rows]
             /\ \A s \in Slots(id) : table(s) \in TempTables
             /\ \A t \in TempTables : t[1] # id => temp[t] = {}
             /\ tempSaved = NoTempRows /\ Slots(id) # {}
  BY <1>1, ArgsType, TempTableNames DEF EscalationOK, PlansOf
<1>2. call \in Calls /\ temp \in [TempTables -> SUBSET Rows]
  BY DEF TypeOK
<1>3. ASSUME ClearTemp PROVE EscalationOK'
  <2>1. call.op = "clear" /\ call.op \in Shipping /\ call.slot \in Slots(id)
    BY <1>3 DEF ClearTemp, Shipping, EscalationOK
  <2>2. /\ call'.op = "fill" /\ call'.plan = id /\ call'.args = args
        /\ call'.slot = call.slot /\ call'.left = args.ships[call.slot]
    BY <1>2, <1>3 DEF ClearTemp, Calls
  <2>3. /\ temp' = [temp EXCEPT ![table(call.slot)] = {}]
        /\ tempSaved' = tempSaved
    BY <1>3 DEF ClearTemp, Emptied
  <2>4. \A s \in Slots(id) : s < call.slot => temp'[table(s)] = args.ships[s]
    <3>1. \A s \in Slots(id) : s < call.slot => temp[table(s)] = args.ships[s]
      BY <2>1 DEF EscalationOK
    <3> QED BY <1>1, <1>2, <2>1, <2>3, <3>1, SlotRange
  <2>5. temp'[table(call.slot)] = {}
    BY <1>1, <1>2, <2>1, <2>3
  <2>6. \A t \in TempTables : t[1] # id => temp'[t] = {}
    BY <1>1, <1>2, <2>1, <2>3
  <2> QED BY <1>1, <2>1, <2>2, <2>3, <2>4, <2>5, <2>6 DEF EscalationOK, Shipping
<1>4. ASSUME FillTemp PROVE EscalationOK'
  <2>1. /\ call.op = "fill" /\ call.op \in Shipping /\ call.slot \in Slots(id)
        /\ call.left \subseteq args.ships[call.slot]
        /\ temp[table(call.slot)] = args.ships[call.slot] \ call.left
    BY <1>4 DEF FillTemp, Shipping, EscalationOK
  <2>2. PICK B \in SUBSET call.left :
          /\ temp' = [temp EXCEPT ![table(call.slot)] = @ \cup B]
          /\ call' = [call EXCEPT !.left = @ \ B]
    BY <1>4 DEF FillTemp
  <2>3. /\ call'.op = "fill" /\ call'.plan = id /\ call'.args = args
        /\ call'.slot = call.slot /\ call'.left = call.left \ B
    BY <1>2, <2>1, <2>2 DEF Calls
  <2>4. temp'[table(call.slot)] = args.ships[call.slot] \ (call.left \ B)
    BY <1>1, <1>2, <2>1, <2>2
  <2>5. \A s \in Slots(id) : s < call.slot => temp'[table(s)] = args.ships[s]
    BY <1>1, <1>2, <2>1, <2>2 DEF EscalationOK
  <2>6. \A t \in TempTables : t[1] # id => temp'[t] = {}
    BY <1>1, <1>2, <2>1, <2>2
  <2>7. tempSaved' = NoTempRows
    BY <1>1, <1>4, <2>1 DEF FillTemp
  <2> QED BY <1>1, <2>1, <2>3, <2>4, <2>5, <2>6, <2>7 DEF EscalationOK, Shipping
<1>5. ASSUME NextSlot PROVE EscalationOK'
  <2>1. /\ call.op = "fill" /\ call.op \in Shipping /\ call.slot \in Slots(id)
        /\ temp[table(call.slot)] = args.ships[call.slot]
        /\ \A s \in Slots(id) : s < call.slot => temp[table(s)] = args.ships[s]
    BY <1>1, <1>5 DEF NextSlot, Shipping, EscalationOK
  <2>2. /\ call'.plan = id /\ call'.args = args /\ UNCHANGED temps
        /\ IF call.slot + 1 \in Slots(id)
           THEN call'.op = "clear" /\ call'.slot = call.slot + 1
           ELSE call'.op = "select"
    BY <1>2, <1>5 DEF NextSlot, Calls
  <2>3. PICK n \in Nat : Slots(id) = 1 .. n
    BY <1>1, <2>1, SlotRange
  <2>4. \A s \in Slots(id) : s < call.slot + 1 => temp'[table(s)] = args.ships[s]
    BY <2>1, <2>2, <2>3 DEF temps
  <2>5. call.slot + 1 \notin Slots(id) => \A s \in Slots(id) : s < call.slot + 1
    BY <2>1, <2>3
  <2> QED BY <1>1, <2>1, <2>2, <2>4, <2>5 DEF EscalationOK, Shipping, temps
<1>6. ASSUME SelectEscalated PROVE EscalationOK'
  <2>1. call.op = "select" /\ call.op \in Shipping
    BY <1>6 DEF SelectEscalated, Shipping
  <2>2. call' = [call EXCEPT !.op = "tidy", !.slot = 1,
                  !.out = Meaning(id, args, View(id))]
    BY <1>6, ShippedArgs DEF SelectEscalated
  <2>3. /\ call'.op = "tidy" /\ call'.plan = id /\ call'.args = args /\ call'.slot = 1
        /\ call'.out = Meaning(id, args, View(id))
    BY <1>2, <2>2 DEF Calls
  <2>4. View(id)' = View(id) /\ UNCHANGED temps
    BY <1>6, <2>3 DEF SelectEscalated, View, tables
  <2>5. 1 \in Slots(id) /\ \A s \in Slots(id) : ~(s < 1)
    BY <1>1, <2>1, SlotRange DEF EscalationOK
  <2> QED BY <1>1, <2>1, <2>3, <2>4, <2>5 DEF EscalationOK, Shipping, temps
<1>7. ASSUME TidyTemp PROVE EscalationOK'
  <2>1. /\ call.op = "tidy" /\ call.op \in Shipping /\ call.slot \in Slots(id)
        /\ \A s \in Slots(id) : s < call.slot => temp[table(s)] = {}
        /\ call.out = Meaning(id, args, View(id))
    BY <1>7 DEF TidyTemp, Shipping, EscalationOK
  <2>2. /\ temp' = [temp EXCEPT ![table(call.slot)] = {}]
        /\ tempSaved' = NoTempRows /\ work' = work
    BY <1>1, <1>7, <2>1 DEF TidyTemp, Emptied, tables
  <2>3. PICK n \in Nat : Slots(id) = 1 .. n
    BY <1>1, <2>1, SlotRange
  <2>4. \A s \in Slots(id) : s < call.slot + 1 => temp'[table(s)] = {}
    BY <1>1, <1>2, <2>1, <2>2, <2>3
  <2>5. \A t \in TempTables : t[1] # id => temp'[t] = {}
    BY <1>1, <1>2, <2>1, <2>2
  <2>6. CASE call.slot + 1 \in Slots(id)
    <3>1. /\ call'.op = "tidy" /\ call'.plan = id /\ call'.args = args
          /\ call'.slot = call.slot + 1 /\ call'.out = call.out
      BY <1>2, <1>7, <2>1, <2>6 DEF TidyTemp, Calls
    <3>2. View(id)' = View(id)
      BY <2>2, <3>1 DEF View
    <3> QED BY <1>1, <2>1, <2>2, <2>4, <2>5, <2>6, <3>1, <3>2 DEF EscalationOK, Shipping
  <2>7. CASE call.slot + 1 \notin Slots(id)
    <3>1. \A s \in Slots(id) : temp'[table(s)] = {}
      BY <2>1, <2>3, <2>4, <2>7
    <3>2. \A t \in TempTables : temp'[t] = {}
      BY <2>5, <3>1, TempTableNames
    <3>3. temp' = NoTempRows
      BY <1>2, <2>2, <3>2 DEF NoTempRows
    <3> QED BY <1>7, <2>2, <2>7, <3>3, EscalationAtRest DEF TidyTemp
  <2> QED BY <2>6, <2>7
<1> QED BY <1>3, <1>4, <1>5, <1>6, <1>7

LEMMA EscalationStep ==
    ASSUME TypeOK, BracketsOK, EscalationOK, [Next]_vars
    PROVE  EscalationOK'
<1>1. CASE Step
  BY <1>1, EscalationBrackets, EscalationCalls, EscalationShips DEF Step
<1>2. CASE Program
  BY <1>2, EscalationBrackets, EscalationCalls, EscalationLifecycle, EscalationStart
     DEF Program
<1>3. CASE Crash \/ Restart
  BY <1>3, EscalationLifecycle
<1>4. CASE UNCHANGED vars
  BY <1>4 DEF EscalationOK, View, vars
<1> QED BY <1>1, <1>2, <1>3, <1>4 DEF Next

-----------------------------------------------------------------------------
(* The inductive invariant and what it implies.                            *)

LEMMA InitInv ==
    ASSUME Init
    PROVE  IndInv
<1>1. TypeOK
  BY IdleType, NoTempRowsType DEF Init, TypeOK, NoCtl
<1>2. BracketsOK
  BY DEF Init, BracketsOK, NoCtl
<1>3. EscalationOK
  BY IdleOp DEF Init, EscalationOK, Shipping
<1> QED BY <1>1, <1>2, <1>3 DEF IndInv

\* IndInv holds in every reachable state.
THEOREM Invariance == Spec => []IndInv
<1>1. ASSUME IndInv, [Next]_vars PROVE IndInv'
  BY <1>1, TypeStep, BracketsStep, EscalationStep DEF IndInv
<1> QED BY <1>1, InitInv, PTL DEF Spec

\* Every variable keeps its type.
THEOREM TypeCorrect == Spec => []TypeOK
<1>1. IndInv => TypeOK
  BY DEF IndInv
<1> QED BY <1>1, Invariance, PTL

\* At rest, each registered connection is inside BEGIN exactly when the
\* nesting counter is positive.
THEOREM DepthCorrect == Spec => []ConnectionsFollowDepth
<1>1. ASSUME IndInv PROVE ConnectionsFollowDepth
  BY <1>1, NamesAssumption
     DEF IndInv, BracketsOK, TypeOK, ConnectionsFollowDepth, Ready, Holders
<1> QED BY <1>1, Invariance, PTL

\* The escalated read finds its own rows in its temp tables and nothing else;
\* between calls they are empty, and what ROLLBACK would restore is empty too.
THEOREM TempsCorrect == Spec => []TempsHoldThisReadsRows
<1>1. ASSUME IndInv PROVE TempsHoldThisReadsRows
  <2>1. ASSUME call.op = "select" PROVE ShippedTemps(call.plan) = call.args.ships
    <3>1. call.plan \in PlanIds /\ call.args \in ArgsOf(call.plan)
      BY <1>1, <2>1 DEF IndInv, EscalationOK, Shipping, PlansOf
    <3>2. call.args.ships \in [Slots(call.plan) -> SUBSET Rows]
      BY <3>1, ArgsType
    <3> QED BY <1>1, <2>1, <3>1, <3>2 DEF ShippedTemps, IndInv, EscalationOK
  <2> QED BY <1>1, <2>1 DEF IndInv, EscalationOK, TempsHoldThisReadsRows
<1> QED BY <1>1, Invariance, PTL

\* If no two logical databases resolve to one path, the runtime never sends
\* SQLite a control statement that it refuses.
THEOREM NoRefusedControl ==
    ASSUME \A m, n \in Names : PathOf[m] = PathOf[n] => m = n
    PROVE  Spec => []NoSelfInflictedAbort
<1>1. Init => NoSelfInflictedAbort
  BY DEF Init, NoSelfInflictedAbort
<1>2. ASSUME IndInv, NoSelfInflictedAbort, [Next]_vars PROVE NoSelfInflictedAbort'
  <2>1. ASSUME NEW n \in Names, ExecBegin(n) \/ ExecCommit(n) \/ ExecRollback(n)
        PROVE  NoSelfInflictedAbort'
    <3>1. n \in ctl.todo /\ PathOf[n] \in Paths
      BY <2>1, NamesAssumption DEF ExecBegin, ExecCommit, ExecRollback
    <3>2. PathOf[n] \notin Holders(Names \ ctl.todo) /\ PathOf[n] \in Holders(Names)
      BY <3>1 DEF Holders
    <3>3. BracketsOK /\ inTx \in [Paths -> BOOLEAN]
      BY <1>2 DEF IndInv, TypeOK
    <3>4. CASE ExecBegin(n)
      BY <1>2, <3>1, <3>2, <3>3, <3>4 DEF ExecBegin, BracketsOK, NoSelfInflictedAbort
    <3>5. CASE ExecCommit(n)
      BY <1>2, <3>1, <3>2, <3>3, <3>5 DEF ExecCommit, BracketsOK, NoSelfInflictedAbort
    <3>6. CASE ExecRollback(n)
      BY <1>2, <3>1, <3>2, <3>3, <3>6 DEF ExecRollback, BracketsOK, NoSelfInflictedAbort
    <3> QED BY <2>1, <3>4, <3>5, <3>6
  <2>2. ASSUME phase' \in {phase, "running", "prologue", "down", "crashed"}
        PROVE  NoSelfInflictedAbort'
    BY <1>2, <2>2 DEF NoSelfInflictedAbort
  <2>3. CASE Step
    <3>1. ASSUME ClearTemp \/ FillTemp \/ NextSlot \/ SelectEscalated \/ TidyTemp
          PROVE  phase' = phase
      BY <3>1 DEF ClearTemp, FillTemp, NextSlot, SelectEscalated, TidyTemp
    <3>2. ASSUME InsertBatch PROVE phase' \in {phase, "crashed"}
      BY <3>2 DEF InsertBatch, Gone, Overwrite
    <3> QED BY <2>1, <2>2, <2>3, <3>1, <3>2 DEF Step
  <2>4. CASE Program
    <3>1. ASSUME NEW id \in PlansOf("read"), NEW a \in ArgsOf(id),
                 QueryEmpty(id, a) \/ QuerySibling(id, a) \/ QueryValues(id, a)
                   \/ QueryEscalated(id, a)
          PROVE  phase' \in {phase, "crashed"}
      BY <3>1 DEF QueryEmpty, QuerySibling, QueryValues, QueryEscalated, Gone
    <3>2. ASSUME NEW id, ExecDml(id) PROVE phase' \in {phase, "crashed"}
      BY <3>2 DEF ExecDml, Overwrite, Gone
    <3>3. ASSUME BeginTx \/ CommitTx \/ RollbackTx PROVE phase' = phase
      BY <3>3 DEF BeginTx, CommitTx, RollbackTx, Control
    <3>4. ASSUME NEW id, NEW rel, ExecInsert(id, rel) PROVE phase' = phase
      BY <3>4 DEF ExecInsert
    <3>5. ASSUME StartBody \/ Shutdown PROVE phase' \in {"running", "down"}
      BY <3>5 DEF StartBody, Shutdown, Gone
    <3>6. ASSUME NEW x, RegisterDatabase(x) \/ RegisterPlan(x) PROVE phase' = phase
      BY <3>6 DEF RegisterDatabase, RegisterPlan
    <3> QED BY <2>2, <2>4, <3>1, <3>2, <3>3, <3>4, <3>5, <3>6 DEF Program
  <2>5. CASE Crash \/ Restart \/ UNCHANGED vars
    BY <2>2, <2>5 DEF Crash, Restart, Gone, vars
  <2> QED BY <1>2, <2>3, <2>4, <2>5 DEF Next
<1> QED BY <1>1, <1>2, Invariance, PTL DEF Spec

-----------------------------------------------------------------------------
(* How many values a statement binds.                                      *)

\* A batch fits the budget, or is one row that alone exceeds it.
LEMMA BatchFits ==
    ASSUME NEW left \in SUBSET Rows, NEW arity \in Nat \ {0}, NEW B, IsBatch(B, left, arity)
    PROVE  /\ Cardinality(B) * arity \in Nat
           /\ Cardinality(B) * arity <= InsertBudget \/ Cardinality(B) * arity = arity
<1> DEFINE q == InsertBudget \div arity
           n == Cardinality(B)
<1>1. InsertBudget \in Nat \ {0} /\ q \in Nat /\ q * arity <= InsertBudget
  BY BoundsAssumption
<1>2. n \in Nat
  <2>1. IsFiniteSet(B)
    BY RowsAssumption, FS_Subset DEF IsBatch
  <2> QED BY <2>1, FS_CardinalityType
<1>3. Cardinality(left) \in Nat
  BY RowsAssumption, FS_Subset, FS_CardinalityType
<1>4. n <= BatchRows(arity) /\ BatchRows(arity) = IF q = 0 THEN 1 ELSE q
  BY <1>1, <1>3 DEF IsBatch, BatchRows
<1> HIDE DEF q, n
<1>5. n * arity \in Nat
  BY <1>2
<1>6. CASE q = 0
  <2>1. n = 0 \/ n = 1
    BY <1>2, <1>4, <1>6
  <2> QED BY <1>1, <1>5, <2>1 DEF n
<1>7. CASE q # 0
  <2>1. n <= q
    BY <1>4, <1>7
  <2>2. n * arity <= q * arity
    BY <1>1, <1>2, <2>1
  <2> QED BY <1>1, <1>5, <2>2 DEF n
<1> QED BY <1>6, <1>7

\* What is wider than the ceiling is a sibling with too many scalars of its
\* own, which coddl_query fires without counting, or a single row.
OnlyTooWide ==
    \/ binds <= BindCeiling
    \/ \E id \in PlansOf("sibling") : binds = Plan[id].params
    \/ \E id \in PlanIds : \E s \in Slots(id) : binds = Plan[id].arity[s]

\* An escalation starts only where the scalars alone fit; an insert plan has
\* one slot.
ScalarsFit ==
    /\ call.op \in {"clear", "fill", "select"} => Plan[call.plan].params <= BindCeiling
    /\ call.op = "insert" => call.plan \in PlansOf("insert")

LEMMA WidthGone ==
    ASSUME NEW how, Gone(how)
    PROVE  OnlyTooWide' /\ ScalarsFit'
BY IdleOp, BoundsAssumption DEF Gone, OnlyTooWide, ScalarsFit

LEMMA WidthQueries ==
    ASSUME OnlyTooWide, ScalarsFit, NEW id \in PlansOf("read"), NEW a \in ArgsOf(id)
    PROVE  /\ QueryEmpty(id, a) \/ QuerySibling(id, a) \/ QueryValues(id, a) => OnlyTooWide' /\ ScalarsFit'
           /\ QueryEscalated(id, a) => OnlyTooWide' /\ ScalarsFit'
<1>1. /\ id \in PlanIds /\ Plan[id].params \in Nat /\ BindCeiling \in Nat
      /\ Plan[id].alt \in PlanIds \cup {NoPlan}
  BY PlanAssumption, BoundsAssumption DEF PlansOf, PlanEntry
<1>2. ASSUME QueryEmpty(id, a) PROVE OnlyTooWide' /\ ScalarsFit'
  BY <1>2 DEF QueryEmpty, OnlyTooWide, ScalarsFit
<1>3. ASSUME QuerySibling(id, a) PROVE OnlyTooWide' /\ ScalarsFit'
  <2>1. Plan[id].alt \in PlansOf("sibling") /\ Plan[Plan[id].alt].params \in Nat
    BY <1>1, <1>3, PlanAssumption DEF QuerySibling, OneShipped, PlansOf, PlanEntry
  <2> QED BY <1>3, <2>1 DEF QuerySibling, OnlyTooWide, ScalarsFit
<1>4. ASSUME QueryValues(id, a) PROVE OnlyTooWide' /\ ScalarsFit'
  BY <1>4 DEF QueryValues, OverCeiling, OnlyTooWide, ScalarsFit
<1>5. ASSUME QueryEscalated(id, a) PROVE OnlyTooWide' /\ ScalarsFit'
  <2>1. CASE Plan[id].params > BindCeiling \/ Slots(id) = {}
    BY <1>5, <2>1, WidthGone DEF QueryEscalated
  <2>2. CASE ~(Plan[id].params > BindCeiling \/ Slots(id) = {})
    <3>1. /\ binds' = binds
          /\ call' = [Idle EXCEPT !.op = "clear", !.plan = id, !.args = a, !.slot = 1]
      BY <1>5, <2>2 DEF QueryEscalated
    <3>2. call'.op = "clear" /\ call'.plan = id
      BY <3>1 DEF Idle
    <3> QED BY <1>1, <2>2, <3>1, <3>2 DEF OnlyTooWide, ScalarsFit
  <2> QED BY <2>1, <2>2
<1> QED BY <1>2, <1>3, <1>4, <1>5

LEMMA WidthShips ==
    ASSUME IndInv, OnlyTooWide, ScalarsFit,
           ClearTemp \/ FillTemp \/ NextSlot \/ SelectEscalated \/ TidyTemp
    PROVE  OnlyTooWide' /\ ScalarsFit'
<1>1. call \in Calls /\ (call.op # "idle" => call.plan \in PlanIds)
  BY DEF IndInv, TypeOK, EscalationOK
<1>2. CASE ClearTemp
  BY <1>1, <1>2 DEF ClearTemp, Calls, OnlyTooWide, ScalarsFit
<1>3. CASE FillTemp
  <2>1. PICK B \in SUBSET call.left :
          /\ IsBatch(B, call.left, Plan[call.plan].arity[call.slot])
          /\ call.op = "fill" /\ call' = [call EXCEPT !.left = @ \ B]
          /\ binds' = Cardinality(B) * Plan[call.plan].arity[call.slot]
    BY <1>3 DEF FillTemp
  <2>2. /\ call.plan \in PlanIds /\ call.slot \in Slots(call.plan)
        /\ call.left \in SUBSET Rows
    BY <1>1, <2>1 DEF IndInv, EscalationOK, Calls
  <2>3. Plan[call.plan].arity[call.slot] \in Nat \ {0}
    BY <2>2, PlanAssumption DEF PlanEntry, Slots
  <2>4. OnlyTooWide'
    <3>1. \/ binds' <= BindCeiling
          \/ binds' = Plan[call.plan].arity[call.slot]
      BY <2>1, <2>2, <2>3, BatchFits, BoundsAssumption
    <3> QED BY <2>2, <3>1 DEF OnlyTooWide
  <2>5. ScalarsFit'
    BY <1>1, <2>1 DEF Calls, ScalarsFit
  <2> QED BY <2>4, <2>5
<1>4. CASE NextSlot
  BY <1>1, <1>4 DEF NextSlot, Calls, OnlyTooWide, ScalarsFit
<1>5. CASE SelectEscalated
  BY <1>1, <1>5 DEF SelectEscalated, Calls, OnlyTooWide, ScalarsFit
<1>6. CASE TidyTemp
  BY <1>1, <1>6, IdleOp DEF TidyTemp, Calls, OnlyTooWide, ScalarsFit
<1> QED BY <1>2, <1>3, <1>4, <1>5, <1>6

LEMMA WidthWrites ==
    ASSUME IndInv, OnlyTooWide, ScalarsFit
    PROVE  /\ \A id \in PlansOf("dml") : ExecDml(id) => OnlyTooWide' /\ ScalarsFit'
           /\ \A id \in PlansOf("insert") : \A rel : ExecInsert(id, rel) => OnlyTooWide' /\ ScalarsFit'
           /\ InsertBatch => OnlyTooWide' /\ ScalarsFit'
<1>1. ASSUME NEW id \in PlansOf("dml"), ExecDml(id) PROVE OnlyTooWide' /\ ScalarsFit'
  BY <1>1, WidthGone DEF ExecDml, OnlyTooWide, ScalarsFit
<1>2. ASSUME NEW id \in PlansOf("insert"), NEW rel, ExecInsert(id, rel) PROVE OnlyTooWide' /\ ScalarsFit'
  BY <1>2 DEF ExecInsert, Idle, OnlyTooWide, ScalarsFit
<1>3. ASSUME InsertBatch PROVE OnlyTooWide' /\ ScalarsFit'
  <2>1. PICK B \in SUBSET call.left :
          /\ call.op = "insert" /\ IsBatch(B, call.left, Plan[call.plan].arity[1])
          /\ \/ Gone("crashed")
             \/ /\ call' = IF B = call.left THEN Idle ELSE [call EXCEPT !.left = @ \ B]
                /\ binds' = Cardinality(B) * Plan[call.plan].arity[1]
    BY <1>3 DEF InsertBatch
  <2>2. call \in Calls /\ call.left \in SUBSET Rows
    BY DEF IndInv, TypeOK, Calls
  <2>3. CASE Gone("crashed")
    BY <2>3, WidthGone
  <2>4. CASE /\ call' = IF B = call.left THEN Idle ELSE [call EXCEPT !.left = @ \ B]
             /\ binds' = Cardinality(B) * Plan[call.plan].arity[1]
    <3>1. call.plan \in PlanIds /\ 1 \in Slots(call.plan)
      BY <2>1, PlanAssumption DEF ScalarsFit, PlansOf
    <3>2. Plan[call.plan].arity[1] \in Nat \ {0}
      BY <3>1, PlanAssumption DEF PlanEntry, Slots
    <3>3. \/ binds' <= BindCeiling
          \/ binds' = Plan[call.plan].arity[1]
      BY <2>1, <2>2, <2>4, <3>2, BatchFits, BoundsAssumption
    <3>4. OnlyTooWide'
      BY <3>1, <3>3 DEF OnlyTooWide
    <3>5. ScalarsFit'
      BY <2>1, <2>2, <2>4, IdleOp DEF Calls, ScalarsFit
    <3> QED BY <3>4, <3>5
  <2> QED BY <2>1, <2>3, <2>4
<1> QED BY <1>1, <1>2, <1>3

LEMMA WidthStep ==
    ASSUME IndInv, OnlyTooWide, ScalarsFit, [Next]_vars
    PROVE  OnlyTooWide' /\ ScalarsFit'
<1>1. CASE Step
  <2>1. ASSUME NEW n \in Names, ExecBegin(n) \/ ExecCommit(n) \/ ExecRollback(n)
        PROVE  OnlyTooWide' /\ ScalarsFit'
    BY <2>1, WidthGone DEF ExecBegin, ExecCommit, ExecRollback, OnlyTooWide, ScalarsFit
  <2> QED BY <1>1, <2>1, WidthShips, WidthWrites DEF Step
<1>2. CASE Program
  <2>1. ASSUME BeginTx \/ CommitTx \/ RollbackTx PROVE OnlyTooWide' /\ ScalarsFit'
    BY <2>1 DEF BeginTx, CommitTx, RollbackTx, Control, OnlyTooWide, ScalarsFit
  <2>2. ASSUME NEW x, RegisterDatabase(x) \/ RegisterPlan(x) \/ StartBody
        PROVE  OnlyTooWide' /\ ScalarsFit'
    BY <2>2 DEF RegisterDatabase, RegisterPlan, StartBody, OnlyTooWide, ScalarsFit
  <2>3. ASSUME Shutdown PROVE OnlyTooWide' /\ ScalarsFit'
    BY <2>3, WidthGone DEF Shutdown
  <2> QED BY <1>2, <2>1, <2>2, <2>3, WidthQueries, WidthWrites DEF Program
<1>3. CASE Crash
  BY <1>3, WidthGone DEF Crash
<1>4. CASE Restart \/ UNCHANGED vars
  BY <1>4 DEF Restart, vars, OnlyTooWide, ScalarsFit
<1> QED BY <1>1, <1>2, <1>3, <1>4 DEF Next

\* A statement over QUERY_BIND_CEILING is a sibling fired with its own scalars
\* alone over it, or carries a single row that alone is over it.
THEOREM WidthCorrect == Spec => []OnlyTooWide
<1>1. Init => OnlyTooWide /\ ScalarsFit
  BY IdleOp, BoundsAssumption DEF Init, OnlyTooWide, ScalarsFit
<1> QED BY <1>1, WidthStep, Invariance, PTL DEF Spec

\* With no such plan or row, no statement binds more than the ceiling; neither
\* coddl_query nor coddl_exec_insert checks that there is none.
THEOREM BindsCorrect ==
    ASSUME \A id \in PlanIds : /\ Plan[id].params <= BindCeiling
                               /\ \A s \in Slots(id) : Plan[id].arity[s] <= BindCeiling
    PROVE  Spec => []BindsWithinCeiling
<1>1. OnlyTooWide => BindsWithinCeiling
  BY DEF OnlyTooWide, BindsWithinCeiling, PlansOf
<1> QED BY <1>1, WidthCorrect, PTL

-----------------------------------------------------------------------------
(* Answers, and the refinement of FlatTx.                                  *)

\* At rest every plan's connection is inside BEGIN or, outside every bracket,
\* none is.
AtRest(id) == Flat!Open(PathOfPlan[id]) \/ Flat!Settled

\* A query returns what its plan means on the table this program sees.
Answers(id) ==
    /\ AtRest(id)
    /\ \E a \in ArgsOf(id) : answer' = Returned(id, a, Meaning(id, a, View(id)))
    /\ UNCHANGED <<depth, disk, work, inTx>>

LEMMA PlansAtRest ==
    ASSUME IndInv, phase = "running", ctl = NoCtl, NEW id \in PlanIds
    PROVE  IF inTx[PathOfPlan[id]] THEN Flat!Open(PathOfPlan[id]) ELSE Flat!Settled
<1>1. Plan[id].db \in Names /\ PathOfPlan[id] = PathOf[Plan[id].db]
  BY PlanAssumption DEF PlanEntry, PathOfPlan
<1>2. PathOf[Plan[id].db] \in Holders(Names) /\ PathOf[Plan[id].db] \in Paths
  BY <1>1, NamesAssumption DEF Holders
<1>3. /\ depth \in Nat
      /\ \A p \in Paths : inTx[p] <=> depth > 0 /\ p \in Holders(Names)
  BY DEF IndInv, TypeOK, BracketsOK
<1> QED BY <1>1, <1>2, <1>3 DEF Flat!Open, Flat!Settled

LEMMA QueryAnswers ==
    ASSUME IndInv, NEW id \in PlansOf("read"), NEW a \in ArgsOf(id),
           QueryEmpty(id, a) \/ QuerySibling(id, a) \/ QueryValues(id, a)
    PROVE  Answers(id)
<1> USE DEF tables
<1>1. id \in PlanIds /\ Ready
  BY DEF QueryEmpty, QuerySibling, QueryValues, Firing, PlansOf
<1>2. AtRest(id)
  BY <1>1, PlansAtRest DEF Ready, AtRest
<1>3. View(id) \in SUBSET Rows
  BY <1>1, PathOfPlanType DEF View, IndInv, TypeOK
<1>4. CASE QueryEmpty(id, a)
  BY <1>1, <1>2, <1>3, <1>4, SqlAssumption DEF QueryEmpty, Answers
<1>5. CASE QuerySibling(id, a)
  BY <1>1, <1>2, <1>3, <1>5, SqlAssumption DEF QuerySibling, Answers
<1>6. CASE QueryValues(id, a)
  BY <1>1, <1>2, <1>6 DEF QueryValues, Answers
<1> QED BY <1>4, <1>5, <1>6

LEMMA TidyAnswers ==
    ASSUME IndInv, TidyTemp
    PROVE  answer' = answer \/ \E id \in PlansOf("read") : Answers(id)
<1> USE DEF tables
<1>1. /\ call.op = "tidy" /\ call.op \in Shipping
      /\ call.plan \in PlansOf("read") /\ call.args \in ArgsOf(call.plan)
      /\ call.out = Meaning(call.plan, call.args, View(call.plan))
  BY DEF TidyTemp, Shipping, IndInv, EscalationOK
<1>2. phase = "running" /\ ctl = NoCtl
  BY <1>1 DEF IndInv, BracketsOK, Idle
<1>3. AtRest(call.plan)
  BY <1>1, <1>2, PlansAtRest DEF PlansOf, AtRest
<1>4. CASE answer' = Returned(call.plan, call.args, call.out)
  <2>1. Answers(call.plan)
    BY <1>1, <1>2, <1>3, <1>4 DEF TidyTemp, Answers
  <2> QED BY <1>1, <2>1
<1> QED BY <1>4 DEF TidyTemp

\* No other action sets an answer, though the end of the process drops it.
LEMMA AnswerStep ==
    ASSUME IndInv, [Next]_vars
    PROVE  \/ answer' \in {answer, NoAnswer}
           \/ \E id \in PlansOf("read") : Answers(id)
<1>1. CASE Step
  <2>1. ASSUME InsertBatch PROVE answer' \in {answer, NoAnswer}
    BY <2>1 DEF InsertBatch, Gone, Overwrite
  <2>2. ASSUME NEW n, ExecBegin(n) \/ ExecCommit(n) \/ ExecRollback(n)
        PROVE  answer' \in {answer, NoAnswer}
    BY <2>2 DEF ExecBegin, ExecCommit, ExecRollback, Gone
  <2>3. ASSUME ClearTemp \/ FillTemp \/ NextSlot \/ SelectEscalated
        PROVE  answer' = answer
    BY <2>3 DEF ClearTemp, FillTemp, NextSlot, SelectEscalated
  <2> QED BY <1>1, <2>1, <2>2, <2>3, TidyAnswers DEF Step
<1>2. CASE Program
  <2>1. ASSUME NEW id, NEW a, QueryEscalated(id, a) PROVE answer' \in {answer, NoAnswer}
    BY <2>1 DEF QueryEscalated, Gone
  <2>2. ASSUME NEW id, ExecDml(id) PROVE answer' \in {answer, NoAnswer}
    BY <2>2 DEF ExecDml, Overwrite, Gone
  <2>3. ASSUME BeginTx \/ CommitTx \/ RollbackTx PROVE answer' = answer
    BY <2>3 DEF BeginTx, CommitTx, RollbackTx, Control
  <2>4. ASSUME NEW id, NEW rel, ExecInsert(id, rel) PROVE answer' = answer
    BY <2>4 DEF ExecInsert
  <2>5. ASSUME StartBody \/ Shutdown PROVE answer' \in {answer, NoAnswer}
    BY <2>5 DEF StartBody, Shutdown, Gone
  <2>6. ASSUME NEW x, RegisterDatabase(x) \/ RegisterPlan(x) PROVE answer' = answer
    BY <2>6 DEF RegisterDatabase, RegisterPlan
  <2> QED BY <1>2, <2>1, <2>2, <2>3, <2>4, <2>5, <2>6, QueryAnswers DEF Program
<1>3. CASE Crash \/ Restart \/ UNCHANGED vars
  BY <1>3 DEF Crash, Restart, Gone, vars
<1> QED BY <1>1, <1>2, <1>3 DEF Next

\* Whichever of the four ways a query is fired, it returns what its plan
\* means on the program's own view.
THEOREM AnswersCorrect == Spec => QueriesAnswerFromView
<1>1. ASSUME IndInv, [Next]_vars
      PROVE  [answer' # answer /\ answer' # NoAnswer =>
                answer'.rows = Meaning(answer'.plan, answer'.args,
                                       work[PathOfPlan[answer'.plan]])]_vars
  <2>1. ASSUME NEW id \in PlansOf("read"), Answers(id)
        PROVE  answer'.rows = Meaning(answer'.plan, answer'.args,
                                      work[PathOfPlan[answer'.plan]])
    BY <2>1 DEF Answers, Returned, View
  <2> QED BY <1>1, <2>1, AnswerStep
<1> QED BY <1>1, Invariance, PTL DEF Spec, QueriesAnswerFromView

\* What FlatTx sees of a state: a step that leaves these alone is a stutter.
flatVars == <<depth, disk, work, inTx, answer>>

LEMMA FlatGone ==
    ASSUME NEW how, Gone(how)
    PROVE  Flat!Stop
BY DEF Gone, Flat!Stop

LEMMA FlatAnswer ==
    ASSUME NEW id \in PlansOf("read"), Answers(id)
    PROVE  Flat!Answer(id)
BY DEF Answers, AtRest, Returned, View, Flat!Answer

LEMMA FlatBrackets ==
    ASSUME IndInv
    PROVE  /\ BeginTx => Flat!Enter
           /\ CommitTx \/ RollbackTx => Flat!Leave
           /\ \A n \in Names : ExecBegin(n) => Flat!Join(PathOf[n]) \/ Flat!Stop
           /\ \A n \in Names : ExecCommit(n) => Flat!Publish(PathOf[n]) \/ Flat!Stop
           /\ \A n \in Names : ExecRollback(n) => Flat!Discard(PathOf[n]) \/ Flat!Stop
<1> USE DEF tables
<1>1. /\ BracketsOK /\ work \in [Paths -> SUBSET Rows] /\ disk \in [Paths -> SUBSET Rows]
      /\ inTx \in [Paths -> BOOLEAN]
  BY DEF IndInv, TypeOK
<1>2. ASSUME BeginTx PROVE Flat!Enter
  <2>1. depth = 0 => \A p \in Paths : ~inTx[p]
    BY <1>1, <1>2 DEF BeginTx, Ready, BracketsOK
  <2>2. depth \in Nat
    BY DEF IndInv, TypeOK
  <2> QED BY <1>2, <2>1, <2>2 DEF BeginTx, Control, Flat!Enter, Flat!Settled
<1>3. ASSUME CommitTx \/ RollbackTx PROVE Flat!Leave
  BY <1>3 DEF CommitTx, RollbackTx, InBracket, Control, Flat!Leave
<1>4. ASSUME NEW n \in Names, ExecBegin(n) PROVE Flat!Join(PathOf[n]) \/ Flat!Stop
  <2>1. CASE inTx[PathOf[n]]
    BY <1>4, <2>1, FlatGone DEF ExecBegin
  <2>2. CASE ~inTx[PathOf[n]]
    <3>1. depth = 1
      BY <1>1, <1>4 DEF ExecBegin, BracketsOK
    <3> QED BY <1>4, <2>2, <3>1 DEF ExecBegin, Flat!Join
  <2> QED BY <2>1, <2>2
<1>5. ASSUME NEW n \in Names, ExecCommit(n) PROVE Flat!Publish(PathOf[n]) \/ Flat!Stop
  <2>1. CASE ~inTx[PathOf[n]]
    BY <1>5, <2>1, FlatGone DEF ExecCommit
  <2>2. CASE inTx[PathOf[n]]
    <3>1. depth = 0
      BY <1>1, <1>5 DEF ExecCommit, BracketsOK
    <3> QED BY <1>5, <2>2, <3>1 DEF ExecCommit, Flat!Publish
  <2> QED BY <2>1, <2>2
<1>6. ASSUME NEW n \in Names, ExecRollback(n) PROVE Flat!Discard(PathOf[n]) \/ Flat!Stop
  <2>1. CASE ~inTx[PathOf[n]]
    BY <1>6, <2>1, FlatGone DEF ExecRollback
  <2>2. CASE inTx[PathOf[n]]
    <3>1. depth = 0
      BY <1>1, <1>6 DEF ExecRollback, BracketsOK
    <3> QED BY <1>6, <2>2, <3>1 DEF ExecRollback, Flat!Discard
  <2> QED BY <2>1, <2>2
<1> QED BY <1>2, <1>3, <1>4, <1>5, <1>6

\* A write lands in the pending table of a database inside BEGIN; outside every
\* bracket it is published with the statement that makes it.
Lands(id) == Flat!Write(PathOfPlan[id]) \/ Flat!WriteThrough(PathOfPlan[id])

LEMMA FlatWrite ==
    ASSUME IndInv, NEW id \in PlanIds, NEW t \in SUBSET Rows, Overwrite(id, t),
           phase = "running", ctl = NoCtl
    PROVE  Lands(id)
<1>1. /\ work' = [work EXCEPT ![PathOfPlan[id]] = t]
      /\ disk' = Published(PathOfPlan[id], t)
      /\ UNCHANGED <<depth, inTx, answer>>
  BY DEF Overwrite
<1>2. CASE inTx[PathOfPlan[id]]
  <2>1. Flat!Open(PathOfPlan[id])
    BY <1>2, PlansAtRest
  <2>2. disk' = disk
    BY <1>1, <1>2 DEF Published
  <2> QED BY <1>1, <2>1, <2>2 DEF Lands, Flat!Write
<1>3. CASE ~inTx[PathOfPlan[id]]
  <2>1. Flat!Settled
    BY <1>3, PlansAtRest
  <2>2. disk' = [disk EXCEPT ![PathOfPlan[id]] = t]
    BY <1>1, <1>3 DEF Published
  <2> QED BY <1>1, <2>1, <2>2 DEF Lands, Flat!WriteThrough
<1> QED BY <1>2, <1>3

LEMMA FlatWrites ==
    ASSUME IndInv
    PROVE  /\ \A id \in PlansOf("dml") : ExecDml(id) => Lands(id) \/ Flat!Stop
           /\ InsertBatch => Lands(call.plan) \/ Flat!Stop
<1>1. \A id \in PlanIds : View(id) \in SUBSET Rows
  BY PathOfPlanType DEF View, IndInv, TypeOK
<1>2. ASSUME NEW id \in PlansOf("dml"), ExecDml(id)
      PROVE  Lands(id) \/ Flat!Stop
  <2>1. id \in PlanIds /\ Effect(id, View(id)) \in SUBSET Rows
    BY <1>1, EffectAssumption DEF PlansOf
  <2>2. phase = "running" /\ ctl = NoCtl
    BY <1>2 DEF ExecDml, Firing, Ready
  <2> QED BY <1>2, <2>1, <2>2, FlatWrite, FlatGone DEF ExecDml
<1>3. ASSUME InsertBatch
      PROVE  Lands(call.plan) \/ Flat!Stop
  <2>1. /\ call.plan \in PlanIds /\ call.left \in SUBSET Rows
        /\ phase = "running" /\ ctl = NoCtl
    BY <1>3 DEF InsertBatch, IndInv, EscalationOK, BracketsOK, TypeOK, Calls, Idle
  <2>2. PICK B \in SUBSET call.left :
          IF Clash(View(call.plan) \cup B)
          THEN Gone("crashed")
          ELSE Overwrite(call.plan, View(call.plan) \cup B)
    BY <1>3 DEF InsertBatch
  <2>3. View(call.plan) \cup B \in SUBSET Rows
    BY <1>1, <2>1
  <2> QED BY <2>1, <2>2, <2>3, FlatWrite, FlatGone
<1> QED BY <1>2, <1>3

\* Every step of the engine is a step of FlatTx or changes nothing it sees.
LEMMA FlatStep ==
    ASSUME IndInv, [Next]_vars
    PROVE  Flat!Next \/ UNCHANGED flatVars
<1> USE DEF tables
<1>1. \A n \in Names : PathOf[n] \in Paths
  BY NamesAssumption
<1>2. \A id \in PlanIds : PathOfPlan[id] \in Paths
  BY PathOfPlanType
<1>3. CASE Step
  <2>1. ASSUME NEW n \in Names, ExecBegin(n) \/ ExecCommit(n) \/ ExecRollback(n)
        PROVE  Flat!Next
    BY <1>1, <2>1, FlatBrackets DEF Flat!Next
  <2>2. ASSUME InsertBatch PROVE Flat!Next
    <3>1. PathOfPlan[call.plan] \in Paths
      BY <1>2, <2>2 DEF InsertBatch, IndInv, EscalationOK
    <3> QED BY <2>2, <3>1, FlatWrites DEF Lands, Flat!Next
  <2>3. ASSUME TidyTemp PROVE Flat!Next \/ UNCHANGED flatVars
    <3>1. UNCHANGED <<depth, disk, work, inTx>>
      BY <2>3 DEF TidyTemp
    <3> QED BY <2>3, <3>1, TidyAnswers, FlatAnswer DEF Flat!Next, flatVars
  <2>4. ASSUME ClearTemp \/ FillTemp \/ NextSlot \/ SelectEscalated
        PROVE  UNCHANGED flatVars
    BY <2>4 DEF ClearTemp, FillTemp, NextSlot, SelectEscalated, flatVars
  <2> QED BY <1>3, <2>1, <2>2, <2>3, <2>4 DEF Step
<1>4. CASE Program
  <2>1. ASSUME NEW id \in PlansOf("read"), NEW a \in ArgsOf(id),
               QueryEmpty(id, a) \/ QuerySibling(id, a) \/ QueryValues(id, a)
        PROVE  Flat!Next
    BY <2>1, QueryAnswers, FlatAnswer DEF Flat!Next
  <2>2. ASSUME NEW id, NEW a, QueryEscalated(id, a)
        PROVE  Flat!Next \/ UNCHANGED flatVars
    BY <2>2, FlatGone DEF QueryEscalated, Flat!Next, flatVars
  <2>3. ASSUME NEW id \in PlansOf("dml"), ExecDml(id) PROVE Flat!Next
    BY <1>2, <2>3, FlatWrites DEF Lands, Flat!Next, PlansOf
  <2>4. ASSUME BeginTx \/ CommitTx \/ RollbackTx PROVE Flat!Next
    BY <2>4, FlatBrackets DEF Flat!Next
  <2>5. ASSUME NEW id, NEW rel, ExecInsert(id, rel) PROVE UNCHANGED flatVars
    BY <2>5 DEF ExecInsert, flatVars
  <2>6. ASSUME Shutdown PROVE Flat!Next
    BY <2>6, FlatGone DEF Shutdown, Flat!Next
  <2>7. ASSUME NEW x, RegisterDatabase(x) \/ RegisterPlan(x) \/ StartBody
        PROVE  UNCHANGED flatVars
    BY <2>7 DEF RegisterDatabase, RegisterPlan, StartBody, flatVars
  <2> QED BY <1>4, <2>1, <2>2, <2>3, <2>4, <2>5, <2>6, <2>7 DEF Program
<1>5. CASE Crash
  BY <1>5, FlatGone DEF Crash, Flat!Next
<1>6. CASE Restart \/ UNCHANGED vars
  BY <1>6 DEF Restart, vars, flatVars
<1> QED BY <1>3, <1>4, <1>5, <1>6 DEF Next

\* All brackets a program opens are together one transaction per database, and
\* what it writes outside them is published statement by statement.
THEOREM Refinement == Spec => ImplementsFlatTx
<1>1. ASSUME Init PROVE Flat!Init
  BY <1>1 DEF Init, Flat!Init
<1>2. ASSUME IndInv, [Next]_vars PROVE [Flat!Next]_(Flat!vars)
  BY <1>2, FlatStep DEF flatVars, Flat!vars
<1> QED BY <1>1, <1>2, Invariance, PTL DEF Spec, ImplementsFlatTx, Flat!Spec


-----------------------------------------------------------------------------
(* The end of the outermost bracket.                                       *)

\* Outside a transaction the program sees what is published.
Settled == \A p \in Paths : ~inTx[p] => work[p] = disk[p]

LEMMA SettledStep ==
    ASSUME IndInv, Settled, [Next]_vars
    PROVE  Settled'
<1>1. /\ inTx \in [Paths -> BOOLEAN]
      /\ work \in [Paths -> SUBSET Rows] /\ disk \in [Paths -> SUBSET Rows]
  BY DEF IndInv, TypeOK
<1>2. CASE UNCHANGED flatVars
  BY <1>2 DEF flatVars, Settled
<1>3. CASE Flat!Enter \/ Flat!Leave \/ Flat!Stop
  BY <1>3 DEF Flat!Enter, Flat!Leave, Flat!Stop, Settled
<1>4. CASE \E p \in Paths : \/ Flat!Join(p) \/ Flat!Write(p) \/ Flat!WriteThrough(p)
                            \/ Flat!Publish(p) \/ Flat!Discard(p)
  <2>1. PICK p \in Paths : \/ Flat!Join(p) \/ Flat!Write(p) \/ Flat!WriteThrough(p)
                          \/ Flat!Publish(p) \/ Flat!Discard(p)
    BY <1>4
  <2>2. CASE Flat!Join(p)
    BY <1>1, <2>2 DEF Flat!Join, Settled
  <2>3. CASE Flat!Write(p)
    BY <1>1, <2>3 DEF Flat!Write, Flat!Open, Settled
  <2>6. CASE Flat!WriteThrough(p)
    BY <1>1, <2>6 DEF Flat!WriteThrough, Settled
  <2>4. CASE Flat!Publish(p)
    BY <1>1, <2>4 DEF Flat!Publish, Settled
  <2>5. CASE Flat!Discard(p)
    BY <1>1, <2>5 DEF Flat!Discard, Settled
  <2> QED BY <2>1, <2>2, <2>3, <2>4, <2>5, <2>6
<1>5. CASE \E id \in PlansOf("read") : Flat!Answer(id)
  BY <1>5 DEF Flat!Answer, Settled
<1> QED BY <1>2, <1>3, <1>4, <1>5, FlatStep DEF Flat!Next

\* While a broadcast goes round nothing else runs.
LEMMA OnlyTheRound ==
    ASSUME IndInv, [Next]_vars, phase' = "running", ctl.verb \in {"COMMIT", "ROLLBACK"}
    PROVE  \/ UNCHANGED vars
           \/ \E n \in Names : ExecCommit(n) \/ ExecRollback(n)
<1>1. ctl # NoCtl /\ ~Ready /\ phase = "running" /\ call = Idle
  BY DEF IndInv, BracketsOK, NoCtl, Ready
<1>2. ASSUME ClearTemp \/ FillTemp \/ NextSlot \/ SelectEscalated \/ TidyTemp \/ InsertBatch
      PROVE  FALSE
  BY <1>1, <1>2 DEF ClearTemp, FillTemp, NextSlot, SelectEscalated, TidyTemp, InsertBatch, Idle
<1>3. ~Program
  BY <1>1 DEF Program, RegisterDatabase, RegisterPlan, StartBody, BeginTx, CommitTx, RollbackTx,
              QueryEmpty, QuerySibling, QueryValues, QueryEscalated, ExecDml, ExecInsert, Shutdown,
              InBracket, Firing
<1>4. \A n : ~ExecBegin(n)
  BY DEF ExecBegin
<1>5. ~Crash /\ ~Restart
  BY <1>1 DEF Crash, Restart, Gone
<1> QED BY <1>2, <1>3, <1>4, <1>5 DEF Next, Step

LEMMA RoundStep ==
    ASSUME IndInv, Settled, [Next]_vars, phase' = "running",
           ctl.verb \in {"COMMIT", "ROLLBACK"}
    PROVE  /\ ctl.verb = "COMMIT" => work' = work
           /\ ctl.verb = "ROLLBACK" => disk' = disk
           /\ ctl' = NoCtl => work' = disk'
<1>1. /\ work \in [Paths -> SUBSET Rows] /\ disk \in [Paths -> SUBSET Rows]
      /\ ctl # NoCtl /\ phase = "running"
  BY DEF IndInv, TypeOK, BracketsOK, NoCtl
<1>2. CASE UNCHANGED vars
  BY <1>1, <1>2 DEF vars
<1>3. ASSUME NEW n \in Names, ExecCommit(n) \/ ExecRollback(n)
      PROVE  /\ ctl.verb = "COMMIT" => work' = work
             /\ ctl.verb = "ROLLBACK" => disk' = disk
             /\ ctl' = NoCtl => work' = disk'
  <2>1. /\ PathOf[n] \in Paths /\ ctl' = Sent(n)
        /\ \/ /\ ctl.verb = "COMMIT" /\ work' = work
              /\ disk' = [disk EXCEPT ![PathOf[n]] = work[PathOf[n]]]
           \/ /\ ctl.verb = "ROLLBACK" /\ disk' = disk
              /\ work' = [work EXCEPT ![PathOf[n]] = disk[PathOf[n]]]
    BY <1>1, <1>3, NamesAssumption DEF ExecCommit, ExecRollback, Gone
  <2>2. ASSUME ctl' = NoCtl PROVE work' = disk'
    <3>1. ctl.todo = {n}
      BY <1>1, <2>1, <2>2 DEF Sent, NoCtl, IndInv, TypeOK
    <3>2. \A p \in Paths : p # PathOf[n] => ~inTx[p]
      BY <3>1 DEF IndInv, BracketsOK, Holders
    <3>3. \A p \in Paths : p # PathOf[n] => work[p] = disk[p]
      BY <3>2 DEF Settled
    <3> QED BY <1>1, <2>1, <3>3
  <2> QED BY <2>1, <2>2
<1> QED BY <1>2, <1>3, OnlyTheRound

\* Without a crash, leaving the outermost bracket publishes on every database
\* what the program saw there, or discards it on every database.
THEOREM OutcomeCorrect == Spec => OneOutcome
<1>1. Init => Settled
  BY DEF Init, Settled
<1>2. ASSUME IndInv, Settled, [Next]_vars
      PROVE  [phase' = "running" =>
                /\ ctl.verb = "COMMIT" => work' = work
                /\ ctl.verb = "ROLLBACK" => disk' = disk
                /\ ctl.verb \in {"COMMIT", "ROLLBACK"} /\ ctl' = NoCtl => work' = disk']_vars
  BY <1>2, RoundStep
<1> QED BY <1>1, <1>2, SettledStep, Invariance, PTL DEF Spec, OneOutcome
=============================================================================
