------------------------------- MODULE Checker -------------------------------
(***************************************************************************)
(* The type checker's walk over the body of one operator                    *)
(* (coddl-types/src/checker.rs).  A behaviour writes the body statement by  *)
(* statement.  `scope`, `txDepth`, `errors` and `warned` are the checker's;  *)
(* `worlds` are all the ways in which the statements written so far can      *)
(* run, so that what the checker claims of every execution can be compared  *)
(* with every execution.                                                    *)
(*                                                                          *)
(* A value at run time is its type: all the flow rules tell apart.  Relvars  *)
(* have one heading; expressions are a literal, a name, or a call with at    *)
(* most one argument.  Conditions are never decided: both ways are taken.    *)
(***************************************************************************)
EXTENDS Integers, Sequences, FiniteSets, SequencesExt

CONSTANTS
    Names,          \* what programs bind
    PublicRelvars, PrivateRelvars,
    Returns,        \* declared result types
    Literals,       \* types of the literals programs write
    Excluded,       \* shapes of program left out, see Shapes
    MaxStmts,       \* statements in a body, blocks apart
    MaxBlocks,      \* blocks in it
    MaxSize         \* both together

ASSUME RelvarsAreNotBound ==
    /\ Names \cap (PublicRelvars \cup PrivateRelvars) = {}
    /\ PublicRelvars \cap PrivateRelvars = {}
ASSUME RelvarsAreFinite == IsFiniteSet(PublicRelvars \cup PrivateRelvars)

\* No type a program writes is one of the checker's own, and no name is a use
\* of a block.
ASSUME TypesAreWritten ==
    (Literals \cup Returns) \cap {"Unknown", "Never", "none", "nothing", "clash"} = {}
ASSUME UsesAreNoNames == Names \cap {"stmt", "tail"} = {}

VARIABLES
    scope,      \* layers of bindings, the innermost last
    txDepth,    \* transaction_depth
    errors,     \* diagnostics that reject the program
    warned,     \* <<code, binding>> of those that do not
    blocks,     \* the blocks being checked, the operator's body first
    tail,       \* the type of a tail expression, "none" before it
    returns,    \* the operator's declared type (current_return_type)
    worlds,     \* executions that have reached this point
    events,     \* what happened in some execution
    touched,    \* bindings some execution has read, and has written again
    size        \* statements and blocks written

checker == <<scope, txDepth, errors, warned, blocks, tail>>
vars == <<scope, txDepth, errors, warned, blocks, tail, returns, worlds, events, touched, size>>

Relvars == PublicRelvars \cup PrivateRelvars

\* Bindings are told apart by when they were written.
Fresh == size.stmts + size.blocks + 1

(***************************************************************************)
(* Types, and the stack of scopes.                                          *)
(***************************************************************************)
AssignableTo(ty, want) == ty = want \/ ty = "Never" \/ "Unknown" \in {ty, want}

Binding(name, ty, origin, id) ==
    [name |-> name, ty |-> ty, origin |-> origin, id |-> id,
     used |-> FALSE, reassigned |-> FALSE, initialized |-> TRUE]

Layers(s, name) == {l \in DOMAIN s: \E i \in DOMAIN s[l]: s[l][i].name = name}

Bound(s, name) == Layers(s, name) # {}

LocateOutermost(s, name) ==      \* mutant: an enclosing binding is found first
    LET l == Min(Layers(s, name))
    IN  <<l, Max({i \in DOMAIN s[l]: s[l][i].name = name})>>

\* The innermost layer's latest binding of the name.
Locate(s, name) ==
    LET l == Max(Layers(s, name))
    IN  <<l, Max({i \in DOMAIN s[l]: s[l][i].name = name})>>

Found(s, name) == LET at == Locate(s, name) IN s[at[1]][at[2]]

Origin(s, name) == IF Bound(s, name) THEN Found(s, name).origin ELSE "none"

MarkUsedHere(s, name) ==         \* mutant: a use in a nested block is not noted
    [s EXCEPT ![Len(s)] = [i \in DOMAIN @ |->
        IF @[i].name = name THEN [@[i] EXCEPT !.used = TRUE] ELSE @[i]]]

MarkUsed(s, name) ==
    IF Bound(s, name)
    THEN LET at == Locate(s, name) IN [s EXCEPT ![at[1]][at[2]].used = TRUE]
    ELSE s

Insert(s, binding) == [s EXCEPT ![Len(s)] = Append(@, binding)]

Push(s) == Append(s, <<>>)
Pop(s) == SubSeq(s, 1, Len(s) - 1)

AssignedQuietly(s, name, ty) ==  \* mutant: the var stays uninitialized
    LET at == Locate(s, name)
        b == s[at[1]][at[2]]
    IN  [s EXCEPT ![at[1]][at[2]] =
            [b EXCEPT !.reassigned = TRUE, !.ty = IF b.ty = "Unknown" THEN ty ELSE b.ty]]

\* An assignment's marks: written again, definitely assigned, and typed if it
\* was declared without a type.
Assigned(s, name, ty) ==
    LET at == Locate(s, name)
        b == s[at[1]][at[2]]
    IN  [s EXCEPT ![at[1]][at[2]] =
            [b EXCEPT !.reassigned = TRUE, !.initialized = TRUE,
                      !.ty = IF b.ty = "Unknown" THEN ty ELSE b.ty]]

UninitSnapshot(s) ==
    UNION {{l} \X {i \in DOMAIN s[l]: ~s[l][i].initialized}: l \in DOMAIN s}

WithInitialized(s, places, value) ==
    [l \in DOMAIN s |-> [i \in DOMAIN s[l] |->
        IF <<l, i>> \in places THEN [s[l][i] EXCEPT !.initialized = value] ELSE s[l][i]]]

RestoreUninit(s, snap) == WithInitialized(s, snap, FALSE)

NewlyInitialized(s, snap) == {at \in snap: s[at[1]][at[2]].initialized}

\* warn_unused over the layer a block leaves.
Unused(layer) ==
    {<<"T0032", layer[i].id>>: i \in {j \in DOMAIN layer:
        ~layer[j].used /\ layer[j].origin \in {"let", "var", "param"}}}
    \cup
    {<<"T0077", layer[i].id>>: i \in {j \in DOMAIN layer:
        layer[j].used /\ layer[j].origin = "var" /\ ~layer[j].reassigned}}

(***************************************************************************)
(* Expressions.  write_line takes a Text and is side-effecting; so is every  *)
(* user operator ("oper", without parameters, returning an Integer).         *)
(***************************************************************************)
Lit(ty) == [k |-> "lit", ty |-> ty]
Name(n) == [k |-> "name", n |-> n]
WriteLine(e) == [k |-> "write_line", arg |-> e]
CallOper == [k |-> "oper"]

Operands == {Lit(ty): ty \in Literals} \cup {Name(n): n \in Names \cup Relvars}
Calls == {CallOper} \cup {WriteLine(e): e \in {Lit("Text")} \cup {Name(n): n \in Names}}
Conditions == {Lit("Boolean")} \cup {Name(n): n \in Names}

\* Checking gives the scope with its marks, the diagnostics and the type.
Checked(s, ty, found) == [scope |-> s, ty |-> ty, errors |-> found]

CheckName(s, n) ==
    IF Bound(s, n)
    THEN LET b == Found(s, n)
         IN  Checked(MarkUsed(s, n), b.ty,
                     (IF b.initialized THEN {} ELSE {"T0079"}) \cup
                     (IF n \in PublicRelvars /\ txDepth = 0 THEN {"T0025"} ELSE {}))
    ELSE Checked(s, "Unknown", {"T0001"})

CallsAreFree == {}               \* mutant: effects pass inside a transaction

CheckCallPurity == IF txDepth > 0 THEN {"T0026"} ELSE {}

CheckNamedArg(s, e, want) ==
    LET arg == IF e.k = "lit" THEN Checked(s, e.ty, {}) ELSE CheckName(s, e.n)
    IN  [arg EXCEPT !.errors = @ \cup (IF AssignableTo(arg.ty, want) THEN {} ELSE {"T0004"})]

CheckCall(s, e) ==
    IF e.k = "oper" THEN Checked(s, "Integer", CheckCallPurity)
    ELSE LET arg == CheckNamedArg(s, e.arg, "Text")
         IN  Checked(arg.scope, "Unit", arg.errors \cup CheckCallPurity)

CheckExpr(s, e) ==
    CASE e.k = "lit"  -> Checked(s, e.ty, {})
      [] e.k = "name" -> CheckName(s, e.n)
      [] OTHER        -> CheckCall(s, e)

(***************************************************************************)
(* Executions.  A world has a frame of cells per block; a cell knows its     *)
(* binding, how it was declared, and what it holds.                          *)
(***************************************************************************)
Cell(id, decl, holds) == [id |-> id, decl |-> decl, holds |-> holds]

FramesOf(w, n) == {f \in DOMAIN w.frames: n \in DOMAIN w.frames[f]}
FrameOf(w, n) == CHOOSE f \in FramesOf(w, n): \A g \in FramesOf(w, n): g <= f
CellOf(w, n) == w.frames[FrameOf(w, n)][n]

With(frame, n, cell) == [m \in DOMAIN frame \cup {n} |-> IF m = n THEN cell ELSE frame[m]]
Declare(w, n, cell) == [w EXCEPT !.frames[Len(w.frames)] = With(@, n, cell)]
Write(w, n, ty) == [w EXCEPT !.frames[FrameOf(w, n)][n].holds = ty]
Enter(w) == [w EXCEPT !.frames = Append(@, <<>>)]
Leave(w) == [w EXCEPT !.frames = SubSeq(@, 1, Len(@) - 1)]

\* What reading, and what evaluating, does in one world.
Touch(w, r) == IF r \in PublicRelvars /\ w.depth = 0 THEN {"bare access"} ELSE {}

ReadFaults(w, n) ==
    IF n \in Relvars THEN Touch(w, n)
    ELSE IF FramesOf(w, n) = {} \/ CellOf(w, n).holds = "nothing" THEN {"unassigned read"} ELSE {}

ReadValue(w, n) ==
    IF n \in Relvars THEN "Relation"
    ELSE IF FramesOf(w, n) = {} THEN "nothing" ELSE CellOf(w, n).holds

Effect(w) == IF w.depth > 0 THEN {"impure"} ELSE {}

Operand(w, e) == IF e.k = "lit" THEN e.ty ELSE ReadValue(w, e.n)
OperandFaults(w, e) == IF e.k = "lit" THEN {} ELSE ReadFaults(w, e.n)

Value(w, e) ==
    CASE e.k = "oper"       -> "Integer"
      [] e.k = "write_line" -> "Unit"
      [] OTHER              -> Operand(w, e)

EvalFaults(w, e) ==
    CASE e.k = "oper"       -> Effect(w)
      [] e.k = "write_line" ->
            Effect(w) \cup OperandFaults(w, e.arg)
            \cup (IF Operand(w, e.arg) \in {"Text", "nothing"} THEN {} ELSE {"mistyped"})
      [] OTHER              -> OperandFaults(w, e)

NamesIn(e) ==
    CASE e.k = "name" -> {e.n}
      [] e.k = "write_line" /\ e.arg.k = "name" -> {e.arg.n}
      [] OTHER -> {}

\* In every execution that is here.
Happens(e) == UNION {EvalFaults(w, e): w \in worlds}

Reads(e) ==
    UNION {{<<"read", CellOf(w, n).id>>: n \in {m \in NamesIn(e): FramesOf(w, m) # {}}}: w \in worlds}

(***************************************************************************)
(* Blocks.                                                                  *)
(***************************************************************************)
Top == blocks[Len(blocks)]
WithTop(block) == [blocks EXCEPT ![Len(blocks)] = block]

Block(form, use) ==
    [form |-> form, use |-> use, id |-> Fresh, diverges |-> FALSE, snap |-> {},
     thenTy |-> "none", thenInit |-> {}, cond |-> Lit("Boolean"), before |-> {}, after |-> {}]

\* check_block's result: a statement or the tail that leaves makes it Never.
BlockType ==
    IF Top.diverges THEN "Never" ELSE IF tail = "none" THEN "Unit" ELSE tail

Checking == errors = {} /\ blocks # <<>>
CanGoOn == Checking /\ tail = "none" /\ size.stmts + size.blocks < MaxSize
CanWrite == CanGoOn /\ size.stmts < MaxStmts
CanOpen == CanGoOn /\ size.blocks < MaxBlocks

\* What the checker makes of a statement and what the executions do.
Step(check, ws, happens, reads) ==
    /\ scope' = check.scope
    /\ errors' = errors \cup check.errors
    /\ worlds' = ws
    /\ events' = events \cup happens
    /\ touched' = touched \cup reads
    /\ UNCHANGED <<txDepth, warned, tail, returns>>

Statement(check, ws, happens, reads) ==
    /\ Step(check, ws, happens, reads)
    /\ size' = [size EXCEPT !.stmts = @ + 1]

Opening == size' = [size EXCEPT !.blocks = @ + 1]

(***************************************************************************)
(* Bindings and assignments.                                                *)
(***************************************************************************)
Annotations == {"none"} \cup Literals

Mismatch(code, ty, want) == IF AssignableTo(ty, want) THEN {} ELSE {code}

\* check_binding with a value: an annotation is authoritative.
Bind(n, e, origin, ann) ==
    LET rhs == CheckExpr(scope, e)
        ty == IF ann = "none" THEN rhs.ty ELSE ann
        found == IF ann = "none" THEN {} ELSE Mismatch("T0010", rhs.ty, ann)
    IN  Statement(Checked(Insert(rhs.scope, Binding(n, ty, origin, Fresh)), ty,
                          rhs.errors \cup found),
                  {Declare(w, n, Cell(Fresh, origin, Value(w, e))): w \in worlds},
                  Happens(e), Reads(e))

LetStmt ==
    \E n \in Names, e \in Operands \cup {CallOper}, ann \in Annotations:
        /\ CanWrite
        /\ Bind(n, e, "let", ann)
        /\ UNCHANGED blocks

VarStmt ==
    \E n \in Names, e \in Operands, ann \in Annotations:
        /\ CanWrite
        /\ Bind(n, e, "var", ann)
        /\ UNCHANGED blocks

\* A declaration without a value: a var is not assigned yet, a let is refused.
DeclareUnassigned ==
    \E n \in Names, origin \in {"let", "var"}, ann \in Annotations:
        LET b == Binding(n, IF ann = "none" THEN "Unknown" ELSE ann, origin, Fresh)
        IN  /\ CanWrite
            /\ Statement(Checked(Insert(scope, [b EXCEPT !.initialized = origin = "let"]), b.ty,
                                 IF origin = "let" THEN {"T0078"} ELSE {}),
                         {Declare(w, n, Cell(Fresh, origin, "nothing")): w \in worlds}, {}, {})
            /\ UNCHANGED blocks

\* What an assignment to a local is refused for.
TargetErrors(s, n, ty, frozen) ==
    CASE Origin(s, n) = "counter"         -> {"T0072"}
      [] Origin(s, n) \in {"let", "param"} -> {"T0074"}
      [] Origin(s, n) = "var"              -> Mismatch("T0075", ty, Found(s, n).ty)
      [] OTHER -> frozen

WriteFaults(w, n) ==
    IF FramesOf(w, n) = {} \/ CellOf(w, n).decl = "var" THEN {} ELSE {"frozen write"}

WriteLocal(n, value(_)) ==
    {IF FramesOf(w, n) = {} THEN w ELSE Write(w, n, value(w)): w \in worlds}

Writes(n) ==
    UNION {IF FramesOf(w, n) = {} THEN {} ELSE {<<"written", CellOf(w, n).id>>}: w \in worlds}

\* check_assignment_stmt: the value first, then the target, locals before relvars.
AssignLocal ==
    \E n \in Names, e \in Operands:
        LET rhs == CheckExpr(scope, e)
            found == TargetErrors(rhs.scope, n, rhs.ty, {"T0033"})
            target == IF Origin(rhs.scope, n) = "var" THEN Assigned(rhs.scope, n, rhs.ty)
                                                     ELSE rhs.scope
        IN  /\ CanWrite
            /\ Statement(Checked(target, "Unit", rhs.errors \cup found),
                         LET Now(w) == Value(w, e) IN WriteLocal(n, Now),
                         Happens(e) \cup UNION {WriteFaults(w, n): w \in worlds},
                         Reads(e) \cup Writes(n))
            /\ UNCHANGED blocks

(***************************************************************************)
(* Relvars.                                                                 *)
(***************************************************************************)
TouchedBy(r) == UNION {Touch(w, r): w \in worlds}

NoneNeeded(r) == {}              \* mutant: a verb may write outside a transaction

TransactionNeeded(r) == IF r \in PublicRelvars /\ txDepth = 0 THEN {"T0025"} ELSE {}

Allows(shape) == shape \notin Excluded

\* R := e.  Nothing but a public relvar in e asks for a transaction.
AssignRelvar ==
    \E r \in Relvars, e \in Operands:
        LET rhs == CheckExpr(scope, e)
        IN  /\ CanWrite
            /\ Allows("BareReplace") \/ r \in PrivateRelvars \/ txDepth > 0
            /\ Statement(Checked(MarkUsed(rhs.scope, r), "Unit",
                                 rhs.errors \cup Mismatch("T0034", rhs.ty, "Relation")),
                         worlds, Happens(e) \cup TouchedBy(r), Reads(e))
            /\ UNCHANGED blocks

TruncateStmt ==
    \E n \in Names \cup Relvars:
        /\ CanWrite
        /\ Statement(IF n \in Relvars THEN Checked(MarkUsed(scope, n), "Unit", TransactionNeeded(n))
                                      ELSE Checked(scope, "Unit", {"T0033"}),
                     worlds, TouchedBy(n), {})
        /\ UNCHANGED blocks

\* delete R where p: the restriction is checked as an expression.
DeleteStmt ==
    \E n \in Names \cup Relvars:
        /\ CanWrite
        /\ Statement(IF n \in Relvars THEN CheckName(scope, n) ELSE Checked(scope, "Unit", {"T0033"}),
                     worlds, TouchedBy(n), {})
        /\ UNCHANGED blocks

\* The operand matters only to a target that is a relvar.
Sources(n) == IF n \in Relvars THEN Operands ELSE {Lit("Relation")}

InsertStmt ==
    \E n \in Names \cup Relvars: \E e \in Sources(n):
        LET source == CheckExpr(scope, e)
        IN  /\ CanWrite
            /\ Statement(IF n \in Relvars
                         THEN Checked(MarkUsed(source.scope, n), "Unit",
                                      source.errors \cup TransactionNeeded(n)
                                      \cup Mismatch("T0034", source.ty, "Relation"))
                         ELSE [source EXCEPT !.errors = @ \cup {"T0033"}],
                         worlds, Happens(e) \cup TouchedBy(n), Reads(e))
            /\ UNCHANGED blocks

\* update R {a: e} for an Integer attribute.
UpdateStmt ==
    \E n \in Names \cup Relvars: \E e \in Sources(n):
        LET operand == CheckName(scope, n)
            value == CheckExpr(operand.scope, e)
        IN  /\ CanWrite
            /\ Statement(IF n \in Relvars
                         THEN Checked(value.scope, "Unit", operand.errors \cup value.errors
                                      \cup Mismatch("T0034", value.ty, "Integer"))
                         ELSE Checked(scope, "Unit", {"T0033"}),
                         worlds, Happens(e) \cup TouchedBy(n), Reads(e))
            /\ UNCHANGED blocks

\* load v from <relation>: the other way a declared var gets its first value.
LoadStmt ==
    \E n \in Names, e \in Operands:
        LET source == CheckExpr(scope, e)
            loaded == IF source.ty = "Relation" THEN "Sequence" ELSE "Unknown"
            found == IF source.ty \in {"Relation", "Unknown"} THEN {} ELSE {"T0081"}
            isVar == Origin(source.scope, n) = "var"
        IN  /\ CanWrite
            /\ source.ty # "Sequence"
            /\ Statement(Checked(IF isVar THEN Assigned(source.scope, n, loaded) ELSE source.scope,
                                 "Unit", source.errors \cup found
                                 \cup TargetErrors(source.scope, n, loaded, {"T0001"})),
                         LET Now(w) == "Sequence" IN WriteLocal(n, Now),
                         Happens(e) \cup UNION {WriteFaults(w, n): w \in worlds},
                         Reads(e) \cup Writes(n))
            /\ UNCHANGED blocks

\* load R from <sequence>: only into a private relvar.
LoadReverse ==
    \E n \in Names \cup Relvars, e \in {Name(m): m \in Names}:
        LET source == CheckExpr(scope, e)
            found == CASE n \in Names          -> {"T0033"}
                       [] n \in PublicRelvars -> {"T0084"}
                       [] OTHER               -> {}
        IN  /\ CanWrite
            /\ source.ty = "Sequence"
            /\ Statement(Checked(MarkUsed(source.scope, n), "Unit", source.errors \cup found),
                         worlds, Happens(e) \cup TouchedBy(n), Reads(e))
            /\ UNCHANGED blocks

(***************************************************************************)
(* Expression statements, tails and return.                                 *)
(***************************************************************************)
ExprStmt ==
    \E e \in Calls:
        /\ CanWrite
        /\ Statement(CheckExpr(scope, e), worlds, Happens(e), Reads(e))
        /\ UNCHANGED blocks

TailExpr ==
    \E e \in Operands \cup Calls:
        LET value == CheckExpr(scope, e)
        IN  /\ CanWrite
            /\ tail' = value.ty
            /\ scope' = value.scope
            /\ errors' = errors \cup value.errors
            /\ worlds' = {[w EXCEPT !.val = Value(w, e)]: w \in worlds}
            /\ events' = events \cup Happens(e)
            /\ touched' = touched \cup Reads(e)
            /\ size' = [size EXCEPT !.stmts = @ + 1]
            /\ UNCHANGED <<txDepth, warned, blocks, returns>>

\* An execution that leaves must have closed its brackets and hand over a value
\* of the declared type.
ExitFaults(depth, ty) ==
    (IF depth > 0 THEN {"open bracket"} ELSE {}) \cup
    (IF ty \in {returns, "nothing"} THEN {} ELSE {"mistyped result"})

ReturnStmt ==
    \E e \in Operands \cup {Lit("Unit")}:
        LET value == CheckExpr(scope, e)
            found == value.errors \cup Mismatch("T0018", value.ty, returns)
                     \cup (IF txDepth > 0 THEN {"T0093"} ELSE {})
        IN  /\ CanWrite
            /\ Statement(Checked(value.scope, "Never", found), {},
                         Happens(e) \cup (IF found = {} THEN {"left early"} ELSE {})
                         \cup UNION {ExitFaults(w.depth, Value(w, e)): w \in worlds},
                         Reads(e))
            /\ blocks' = WithTop([Top EXCEPT !.diverges = TRUE])

(***************************************************************************)
(* Opening and closing blocks.                                              *)
(***************************************************************************)
Uses == {"stmt", "tail"} \cup Names        \* a name: the value of let name := ...

OpenBlock(check, block, ws, happens, reads) ==
    /\ CanOpen
    /\ Opening
    /\ Step(Checked(Push(check.scope), "Unit", check.errors), ws, happens, reads)
    /\ blocks' = Append(blocks, block)

Condition(e, code) ==
    LET cond == CheckExpr(scope, e)
    IN  [cond EXCEPT !.errors = @ \cup (IF cond.ty \in {"Boolean", "Unknown"} THEN {} ELSE {code})]

BeginIf ==
    \E e \in Conditions, use \in Uses:
        LET cond == Condition(e, "T0067")
        IN  OpenBlock(cond, [Block("then", use) EXCEPT !.snap = UninitSnapshot(cond.scope),
                                                       !.before = worlds],
                      {Enter(w): w \in worlds}, Happens(e), Reads(e))

\* Leaving a block's scope: its type, its warnings, its executions.
Left == {Leave(w): w \in worlds}
Layer == scope[Len(scope)]

\* The value of a block expression goes where the expression stands.
Delivered(outer, popped, ty, ws) ==
    LET block == outer[Len(outer)]
        use == Top.use
    IN  /\ scope' = IF use \in Names THEN Insert(popped, Binding(use, ty, "let", Top.id)) ELSE popped
        /\ tail' = IF use = "tail" THEN ty ELSE "none"
        /\ blocks' = IF use = "stmt" /\ ty = "Never"
                     THEN [outer EXCEPT ![Len(outer)] = [block EXCEPT !.diverges = TRUE]] ELSE outer
        /\ worlds' = {IF use \in Names THEN Declare([w EXCEPT !.val = "Unit"], use, Cell(Top.id, "let", w.val))
                      ELSE IF use = "tail" THEN w ELSE [w EXCEPT !.val = "Unit"]: w \in ws}

Outer == SubSeq(blocks, 1, Len(blocks) - 1)

Else ==
    /\ Checking
    /\ Top.form = "then"
    /\ scope' = Push(RestoreUninit(Pop(scope), Top.snap))
    /\ blocks' = WithTop([Top EXCEPT !.form = "else", !.thenTy = BlockType, !.diverges = FALSE,
                                     !.thenInit = NewlyInitialized(scope, Top.snap), !.after = Left])
    /\ worlds' = {Enter(w): w \in Top.before}
    /\ warned' = warned \cup Unused(Layer)
    /\ tail' = "none"
    /\ UNCHANGED <<txDepth, errors, returns, events, touched, size>>

\* The type of the two arms together; "clash" is T0068.
JoinedType(thenTy, elseTy) ==
    IF thenTy \in {"Unknown", "Never"} THEN elseTy
    ELSE IF elseTy \in {"Unknown", "Never", thenTy} THEN thenTy ELSE "clash"

InEitherArm(thenInit, elseInit) == thenInit \cup elseInit   \* mutant

\* What an if leaves assigned: what both its arms assign.
InBothArms(thenInit, elseInit) == thenInit \cap elseInit

EndIf ==
    LET restored == RestoreUninit(Pop(scope), Top.snap)
        both == InBothArms(Top.thenInit, NewlyInitialized(scope, Top.snap))
        joined == JoinedType(Top.thenTy, BlockType)
        alone == Top.form = "then"
    IN  /\ Checking
        /\ Top.form \in {"then", "else"}
        /\ IF alone
           THEN /\ errors' = IF BlockType \in {"Unit", "Unknown", "Never"} THEN errors
                             ELSE errors \cup {"T0069"}
                /\ Delivered(Outer, restored, "Unit",
                             {[w EXCEPT !.val = "Unit"]: w \in Top.before \cup Left})
           ELSE /\ errors' = IF joined = "clash" THEN errors \cup {"T0068"} ELSE errors
                /\ Delivered(Outer, WithInitialized(restored, both, TRUE),
                             IF joined = "clash" THEN "Unknown" ELSE joined, Top.after \cup Left)
        /\ warned' = warned \cup Unused(Layer)
        /\ UNCHANGED <<txDepth, returns, events, touched, size>>

BeginTransaction ==
    \E use \in Uses:
        /\ CanOpen
        /\ scope' = Push(scope)
        /\ txDepth' = txDepth + 1
        /\ blocks' = Append(blocks, Block("transaction", use))
        /\ worlds' = {[Enter(w) EXCEPT !.depth = @ + 1]: w \in worlds}
        /\ Opening
        /\ UNCHANGED <<errors, warned, tail, returns, events, touched>>

EndTransaction ==
    /\ Checking
    /\ Top.form = "transaction"
    /\ txDepth' = txDepth - 1
    /\ Delivered(Outer, Pop(scope), BlockType, {[w EXCEPT !.depth = @ - 1]: w \in Left})
    /\ warned' = warned \cup Unused(Layer)
    /\ UNCHANGED <<errors, returns, events, touched, size>>

BeginWhile ==
    \E e \in Conditions:
        LET cond == Condition(e, "T0080")
        IN  OpenBlock(cond, [Block("while", "stmt") EXCEPT !.snap = UninitSnapshot(cond.scope),
                                                           !.cond = e, !.before = worlds],
                      {Enter(w): w \in worlds}, Happens(e), Reads(e))

BeginFor ==
    \E n \in Names, e \in Operands, each \in BOOLEAN:
        LET bound == CheckExpr(scope, e)
            found == CASE each /\ bound.ty \notin {"Sequence", "Unknown"}  -> {"T0073"}
                       [] ~each /\ bound.ty \notin {"Integer", "Unknown"}  -> {"T0071"}
                       [] OTHER -> {}
            ty == IF each THEN "Tuple" ELSE "Integer"
        IN  /\ CanOpen
            /\ Opening
            /\ Step(Checked(Insert(Push(bound.scope), Binding(n, ty, "counter", Fresh)), ty,
                                 bound.errors \cup found),
                         {Declare(Enter(w), n, Cell(Fresh, "counter", ty)): w \in worlds},
                         Happens(e), Reads(e))
            /\ blocks' = Append(blocks, [Block("for", "stmt") EXCEPT
                                           !.snap = UninitSnapshot(bound.scope), !.before = worlds])

\* while and for: the body may not have run.
EndLoop ==
    /\ Checking
    /\ Top.form \in {"while", "for"}
    /\ Delivered(Outer, Pop(RestoreUninit(scope, Top.snap)), "Unit", Top.before \cup Left)
    /\ warned' = warned \cup Unused(Layer)
    /\ events' = events \cup UNION {EvalFaults(w, Top.cond): w \in Left}
    /\ UNCHANGED <<txDepth, errors, returns, touched, size>>

BeginDo ==
    OpenBlock(Checked(scope, "Unit", {}), Block("do", "stmt"), {Enter(w): w \in worlds}, {}, {})

\* do .. while: the body has run; the condition sees the enclosing scope.
EndDo ==
    \E e \in Conditions:
        LET cond == CheckExpr(Pop(scope), e)
        IN  /\ Checking
            /\ Top.form = "do"
            /\ errors' = errors \cup cond.errors
                         \cup (IF cond.ty \in {"Boolean", "Unknown"} THEN {} ELSE {"T0080"})
            /\ Delivered(Outer, cond.scope, "Unit", Left)
            /\ warned' = warned \cup Unused(Layer)
            /\ events' = events \cup UNION {EvalFaults(w, e): w \in Left}
            /\ touched' = touched \cup
                  UNION {{<<"read", CellOf(w, n).id>>: n \in {m \in NamesIn(e): FramesOf(w, m) # {}}}: w \in Left}
            /\ UNCHANGED <<txDepth, returns, size>>

\* check_oper_decl: the body's type against the declared one.
EndOper ==
    /\ Checking
    /\ Top.form = "oper"
    /\ errors' = errors \cup Mismatch("T0009", BlockType, returns)
    /\ events' = events \cup UNION {ExitFaults(w.depth, w.val): w \in worlds}
    /\ warned' = warned \cup Unused(Layer)
    /\ scope' = Pop(scope)
    /\ blocks' = <<>>
    /\ worlds' = {}
    /\ tail' = "none"
    /\ UNCHANGED <<txDepth, returns, touched, size>>

(***************************************************************************)
(* The specification: one parameter layer, holding the file's relvars and    *)
(* perhaps a parameter.                                                      *)
(***************************************************************************)
RelvarLayer ==
    LET order == SetToSeq(Relvars)
    IN  [i \in DOMAIN order |-> Binding(order[i], "Relation", "relvar", 0)]

Init ==
    /\ returns \in Returns
    /\ \E params \in {{}} \cup {{n}: n \in Names}:
          /\ scope = <<RelvarLayer \o
                [i \in 1..Cardinality(params) |-> Binding(CHOOSE n \in params: TRUE, "Integer", "param", 0)]>>
          /\ worlds = {[frames |-> <<[n \in params |-> Cell(0, "param", "Integer")]>>,
                        depth |-> 0, val |-> "Unit"]}
    /\ size = [stmts |-> 0, blocks |-> 0] /\ txDepth = 0 /\ tail = "none"
    /\ errors = {} /\ warned = {} /\ events = {} /\ touched = {}
    /\ blocks = <<[form |-> "oper", use |-> "stmt", id |-> 0, diverges |-> FALSE, snap |-> {},
                   thenTy |-> "none", thenInit |-> {}, cond |-> Lit("Boolean"),
                   before |-> {}, after |-> {}]>>

Next ==
    \/ LetStmt \/ VarStmt \/ DeclareUnassigned \/ AssignLocal
    \/ AssignRelvar \/ TruncateStmt \/ DeleteStmt \/ InsertStmt \/ UpdateStmt
    \/ LoadStmt \/ LoadReverse \/ ExprStmt \/ TailExpr \/ ReturnStmt
    \/ BeginIf \/ Else \/ EndIf \/ BeginTransaction \/ EndTransaction
    \/ BeginWhile \/ BeginFor \/ EndLoop \/ BeginDo \/ EndDo \/ EndOper

Spec == Init /\ [][Next]_vars

(***************************************************************************)
(* Properties.  An accepted program is one without a diagnostic so far.      *)
(***************************************************************************)
Accepted == errors = {}

\* No execution of an accepted program reads a var before a value was assigned
\* to it, whatever arms it takes and however often loops run.
ReadsAreAssigned == Accepted => "unassigned read" \notin events

\* Every read and write of a public relvar happens inside a transaction bracket.
PublicAccessIsBracketed == Accepted => "bare access" \notin events

\* Nothing with an effect outside the database runs inside a bracket, so that a
\* transaction can be replayed; and no execution leaves the operator with a
\* bracket open.
TransactionsAreReplayable == Accepted => events \cap {"impure", "open bracket"} = {}

\* The name the checker resolved is the cell the execution uses, what the cell
\* holds has the type the checker gave it, and what is returned has the
\* declared type, on every path.
TypesMeanValues ==
    Accepted =>
        /\ "mistyped" \notin events /\ "mistyped result" \notin events
        /\ \A w \in worlds: \A n \in {m \in Names: FramesOf(w, m) # {}}:
              /\ Found(scope, n).id = CellOf(w, n).id
              /\ CellOf(w, n).holds \in {Found(scope, n).ty, "nothing"}

\* A binding reported unused is read by no execution; a var reported as never
\* reassigned is written by none; and nothing but a var is ever written.
WarningsAreTrue ==
    Accepted =>
        /\ \A id \in 0..MaxSize: <<"T0032", id>> \in warned => <<"read", id>> \notin touched
        /\ \A id \in 0..MaxSize: <<"T0077", id>> \in warned => <<"written", id>> \notin touched
        /\ "frozen write" \notin events

RefusedFor(code) == errors = {code} /\ "left early" \notin events

\* A program refused for one of these reasons has an execution that shows it,
\* unless the statement stands behind a return the checker has accepted.
RefusalsAreReal ==
    /\ RefusedFor("T0079") => "unassigned read" \in events
    /\ RefusedFor("T0025") => "bare access" \in events
    /\ RefusedFor("T0026") => "impure" \in events
    /\ RefusedFor("T0093") => "open bracket" \in events
    /\ RefusedFor("T0072") \/ RefusedFor("T0074") => "frozen write" \in events
=============================================================================
