------------------------------- MODULE Lowering -------------------------------
(***************************************************************************)
(* The ownership discipline of coddl-procir's lowering (lower.rs): which   *)
(* Retain and Release instructions it emits for let, var, assignment, if,  *)
(* loops, transactions, return and calls, and what they do to the payloads.*)
(*                                                                         *)
(* A behaviour writes a program statement by statement.  Each step lowers  *)
(* one statement (fn is the lowerer's per-function state) and, when the    *)
(* statement is on the path taken, executes what was emitted (memory).     *)
(* Types: Text; Rel, a relation {x Text}; Flat, a tuple {x Text}, which    *)
(* has no payload of its own: it is the address of its cell.               *)
(***************************************************************************)
EXTENDS Integers, Sequences, SequencesExt, Functions, FiniteSets

CONSTANTS
    Names,          \* of locals, numbers: the least free one is declared next
    MaxStmts,       \* bound on the statements of a program
    MaxDead,        \* bound on the statements written by the end of a path not taken
    MaxNesting,     \* bound on the open ifs, loops, transactions and calls
    Rounds,         \* how often a loop may go round
    Statements,     \* the kinds of statement programs are made of
    Excluded        \* the shapes of program the run leaves out

ASSUME ConstantsAssumption ==
    Names \in SUBSET Nat /\ 1 \in Names /\ IsFiniteSet(Names) /\ Rounds \in Nat \ {0}

VARIABLES
    fn,         \* lowering: the function being lowered
    open,       \* lowering: the control structures being lowered, outermost first
    stmts,      \* number of statements written
    memory,     \* execution: [heap, env, slot, result, fault]
    live        \* execution: the statement written next is on the path taken

vars == <<fn, open, stmts, memory, live>>

-----------------------------------------------------------------------------
(* Execution.                                                              *)

Immortal == 0       \* the address of string constants
NoFault == "none"
NoValue == -1       \* the value of a Unit

\* Every instruction that reads a payload or its count.
Touch(m, v, Effect(_)) ==
    IF v \notin DOMAIN m.env THEN [m EXCEPT !.fault = "undefined"]
    ELSE IF m.env[v] # Immortal /\ m.heap[m.env[v]].rc = 0
         THEN [m EXCEPT !.fault = "freed"]
    ELSE Effect(m.env[v])

\* f with the value a for d.
Put(f, d, a) == [x \in DOMAIN f \cup {d} |-> IF x = d THEN a ELSE f[x]]

Bind(m, d, a) == [m EXCEPT !.env = Put(@, d, a)]
RcRetain(heap, a) == IF a = Immortal THEN heap ELSE [heap EXCEPT ![a].rc = @ + 1]
RcDrop(heap, a) == IF a = Immortal THEN heap ELSE [heap EXCEPT ![a].rc = @ - 1]
\* A payload that is freed releases its cell: a Text, which has none.
RcRelease(heap, a) ==
    LET h == RcDrop(heap, a)
    IN IF a # Immortal /\ h[a].rc = 0 THEN RcDrop(h, h[a].cell) ELSE h

\* A payload with the given cell, which it retains.
Payload(m, d, cell) ==
    [Bind(m, d, Len(m.heap) + 1) EXCEPT
        !.heap = Append(RcRetain(@, cell), [rc |-> 1, cell |-> cell])]

\* RelvarSlotStore takes over the reference and releases the old relation.
Stored(m, a) ==
    LET heap == RcRelease(m.heap, m.slot) IN [m EXCEPT !.heap = heap, !.slot = a]

Exec(m, i) ==
    CASE i.op = "Const" -> Bind(m, i.dst, Immortal)
           [] i.op \in {"TupleLit", "TupleField", "Param"} ->
                IF i.src \in DOMAIN m.env THEN Bind(m, i.dst, m.env[i.src])
                ELSE [m EXCEPT !.fault = "undefined"]
           [] i.op = "Concat" -> Touch(m, i.src, LAMBDA a : Payload(m, i.dst, Immortal))
           [] i.op \in {"RelationLit", "TupleBox"} ->
                Touch(m, i.src, LAMBDA a : Payload(m, i.dst, a))
           [] i.op = "Where" -> Touch(m, i.src, LAMBDA a : Payload(m, i.dst, m.heap[a].cell))
           [] i.op \in {"Extract", "TupleUnbox"} ->
                Touch(m, i.src, LAMBDA a : Bind(m, i.dst, m.heap[a].cell))
           [] i.op = "RelvarRead" ->
                Bind([m EXCEPT !.heap = RcRetain(@, m.slot)], i.dst, m.slot)
           [] i.op = "RelvarSlotStore" -> Touch(m, i.src, LAMBDA a : Stored(m, a))
           [] i.op = "Use" -> Touch(m, i.src, LAMBDA a : m)
           [] i.op = "Return" /\ i.src = NoValue -> m
           [] i.op = "Return" /\ i.src # NoValue ->
                Touch(m, i.src, LAMBDA a : [m EXCEPT !.result = a])
           [] i.op = "Result" -> Bind(m, i.dst, m.result)
           [] i.op = "Retain" -> Touch(m, i.src, LAMBDA a : [m EXCEPT !.heap = RcRetain(@, a)])
           [] i.op = "Release" -> Touch(m, i.src, LAMBDA a : [m EXCEPT !.heap = RcRelease(@, a)])

\* The memory after the first k instructions; a fault ends the execution.
Continue(m, i) == IF m.fault # NoFault THEN m ELSE Exec(m, i)
Execution(m, insts) ==
    LET after[k \in Nat] == IF k = 0 THEN m ELSE Continue(after[k - 1], insts[k])
    IN after
Run(m, insts) == Execution(m, insts)[Len(insts)]

-----------------------------------------------------------------------------
(* The lowerer's state and the instructions it emits.                      *)

Flows == {"Text", "Rel", "Flat"}

\* The return type of an operator, until its body's first value settles it.
AnyType == "Any"
Settles(l, ty) == l.returns \in {AnyType, ty}

\* reset_function_state
Function(params, next, ret) ==
    [locals |-> <<params>>, pending |-> <<{}>>, unset |-> {},
     params |-> DOMAIN params, borrowed |-> {params[n].v : n \in DOMAIN params},
     owned |-> {}, temps |-> << >>, heads |-> {}, deferred |-> << >>,
     next |-> next, diverged |-> FALSE, returns |-> ret, insts |-> << >>]

Emit(l, op, src) == [l EXCEPT !.insts = Append(@, [op |-> op, src |-> src])]
\* An instruction that defines a value: the value is l.next.
Define(l, op, src) ==
    [l EXCEPT !.insts = Append(@, [op |-> op, src |-> src, dst |-> l.next]), !.next = @ + 1]
EmitAll(l, op, srcs) ==
    [l EXCEPT !.insts = @ \o [i \in DOMAIN srcs |-> [op |-> op, src |-> srcs[i]]]]
Value(l, ty) == [l |-> l, v |-> l.next - 1, ty |-> ty]

Declared(l) == (UNION {DOMAIN l.locals[i] : i \in DOMAIN l.locals}) \cup UNION Range(l.pending)
IsLocal(l, n) == \E i \in DOMAIN l.locals : n \in DOMAIN l.locals[i]
IsPending(l, n) == \E i \in DOMAIN l.pending : n \in l.pending[i]
LayerOf(l, n) == CHOOSE i \in DOMAIN l.locals : n \in DOMAIN l.locals[i]
Lookup(l, n) == l.locals[LayerOf(l, n)][n]
BoundValues(l) ==
    UNION {{l.locals[i][n].v : n \in DOMAIN l.locals[i]} : i \in DOMAIN l.locals}
Top(l) == l.locals[Len(l.locals)]

BindAt(l, layer, n, b) == [l EXCEPT !.locals[layer] = Put(@, n, b)]
BindLocal(l, n, b) == BindAt(l, Len(l.locals), n, b)
RebindLocal(l, n, b) == BindAt(l, LayerOf(l, n), n, b)
PushScope(l) == [l EXCEPT !.locals = Append(@, << >>), !.pending = Append(@, {})]
PopScope(l) == [l EXCEPT !.locals = Front(@), !.pending = Front(@)]

MarkOwned(l, v) == [l EXCEPT !.owned = @ \cup {v}]
NeedsScopeRelease(l, v, ty) == ty = "Rel" \/ (ty = "Text" /\ v \in l.owned)

ReleaseTextTemp(l, v) ==
    IF v \in l.owned \ BoundValues(l) THEN Emit(l, "Release", v) ELSE l
ReleaseIfUnowned(l, v) == IF v \in BoundValues(l) THEN l ELSE Emit(l, "Release", v)
\* Mutant: only Text temporaries are given back after a call.
ReleaseTextArgTemp(l, v, ty) == ReleaseTextTemp(l, v)
ReleaseCallArgTemp(l, v, ty) ==
    IF NeedsScopeRelease(l, v, ty) /\ v \notin l.borrowed \cup BoundValues(l)
    THEN Emit(l, "Release", v) ELSE l

OwnsCells(l, v) == v \in l.heads \cup DOMAIN l.temps
\* By heading: project the cell, then retain or release it.
CellByHeading(l, v, op) == LET f == Define(l, "TupleField", v) IN Emit(f, op, f.next - 1)
ReleaseFlatCells(l, v) ==
    IF v \in DOMAIN l.temps
    THEN ReleaseCallArgTemp([l EXCEPT !.temps = Restrict(@, DOMAIN @ \ {v})], l.temps[v], "Text")
    ELSE IF v \in l.heads
    THEN CellByHeading([l EXCEPT !.heads = @ \ {v}], v, "Release")
    ELSE l

ReleaseBinding(l, b) ==
    IF b.v \in l.borrowed THEN l
    ELSE LET f == ReleaseFlatCells(l, b.v)
         IN IF NeedsScopeRelease(f, b.v, b.ty) THEN Emit(f, "Release", b.v) ELSE f
Releasing(l, bindings) ==
    LET after[k \in Nat] ==
            IF k = 0 THEN l ELSE ReleaseBinding(after[k - 1], bindings[k])
    IN after
ReleaseBindings(l, bindings) == Releasing(l, bindings)[Len(bindings)]
\* One release per name, even of names that share a value.
ReleaseTopScope(l) ==
    LET names == SetToSeq(DOMAIN Top(l))
    IN ReleaseBindings(l, [i \in DOMAIN names |-> Top(l)[names[i]]])
\* One release per value.
ReleaseAllScopes(l) ==
    LET bindings == UNION {Range(l.locals[i]) : i \in DOMAIN l.locals}
    IN ReleaseBindings(l, SetToSeq(bindings))

\* Mutant: the value of a block leaves it with the count its scope gives back.
EscapeUnretained(l, v, ty) == l
RetainIfEscapingLocal(l, v, ty) ==
    LET bound == v \in l.borrowed \cup BoundValues(l)
        r == IF bound /\ NeedsScopeRelease(l, v, ty) THEN Emit(l, "Retain", v) ELSE l
    IN IF bound /\ v \in l.heads THEN CellByHeading(r, v, "Retain") ELSE r

\* A returned tuple crosses the call in a box.
BoxReturnValue(l, v, ty) ==
    IF ty = "Flat"
    THEN LET b == Define(l, "TupleBox", v)
         IN [l |-> ReleaseFlatCells(b, v), v |-> b.next - 1, ty |-> "Box"]
    ELSE [l |-> l, v |-> v, ty |-> ty]

Sources(deferred) == [i \in DOMAIN deferred |-> deferred[i].src]
DrainDeferred(l) == [EmitAll(l, "Release", Sources(l.deferred)) EXCEPT !.deferred = << >>]
Defer(l, src, flat) == [l EXCEPT !.deferred = Append(@, [src |-> src, flat |-> flat])]
ExtractSource == -2     \* the flat of a deferred extract source

-----------------------------------------------------------------------------
(* Expressions.                                                            *)

Lit == [op |-> "lit"]
ReadRelvar == [op |-> "read"]
Name(n) == [op |-> "name", name |-> n]
Of(op, e) == [op |-> op, of |-> e]

LowerTuple(o, isName) ==
    LET d == Define(o.l, "TupleLit", o.v)
        v == o.l.next
    IN IF isName
       THEN [l |-> [Emit(d, "Retain", o.v) EXCEPT !.heads = @ \cup {v}], v |-> v, ty |-> "Flat"]
       ELSE [l |-> [d EXCEPT !.temps = Put(@, v, o.v)], v |-> v, ty |-> "Flat"]

LowerConcat(o) ==
    LET d == MarkOwned(Define(o.l, "Concat", o.v), o.l.next)
    IN [l |-> ReleaseTextTemp(d, o.v), v |-> o.l.next, ty |-> "Text"]

LowerFieldAccess(o) ==
    LET v == o.l.next
    IN [l |-> MarkOwned(Emit(Define(o.l, "TupleField", o.v), "Retain", v), v),
        v |-> v, ty |-> "Text"]

LowerRelationLit(t) ==
    LET d == Define(t.l, "RelationLit", t.v)
    IN [l |-> ReleaseFlatCells(d, t.v), v |-> t.l.next, ty |-> "Rel"]

LowerWhere(o) ==
    LET d == Define(o.l, "Where", o.v)
    IN [l |-> ReleaseIfUnowned(d, o.v), v |-> o.l.next, ty |-> "Rel"]

LowerExtract(o) ==
    LET d == Define(o.l, "Extract", o.v)
    IN [l |-> IF o.v \in BoundValues(d) THEN d ELSE Defer(d, o.v, ExtractSource),
        v |-> o.l.next, ty |-> "Flat"]

LowerLeaf(l, e) ==
    CASE e.op = "lit" -> Value(Define(l, "Const", Immortal), "Text")
      [] e.op = "read" -> Value(Define(l, "RelvarRead", Immortal), "Rel")
      [] e.op = "name" -> [l |-> l, v |-> Lookup(l, e.name).v, ty |-> Lookup(l, e.name).ty]
\* The operator of e applied to its operand, lowered to o.
Applied(o, e) ==
    CASE e.op = "concat" -> LowerConcat(o)
      [] e.op = "field" -> LowerFieldAccess(o)
      [] e.op = "tuple" -> LowerTuple(o, e.of.op = "name")
      [] e.op = "rel" -> LowerRelationLit(LowerTuple(o, e.of.op = "name"))
      [] e.op = "where" -> LowerWhere(o)
      [] e.op = "extract" -> LowerExtract(o)
\* Programs apply at most two operators, one to the other.
IsLeaf(e) == e.op \in {"lit", "read", "name"}
LowerOperand(l, e) == IF IsLeaf(e) THEN LowerLeaf(l, e) ELSE Applied(LowerLeaf(l, e.of), e)
LowerExpr(l, e) == IF IsLeaf(e) THEN LowerLeaf(l, e) ELSE Applied(LowerOperand(l, e.of), e)

\* The names definite assignment lets a program read.
NamesOf(l, ty) ==
    {Name(n) : n \in {m \in Names \ l.unset : IsLocal(l, m) /\ Lookup(l, m).ty = ty}}
Each(op, es) == {Of(op, e) : e \in es}

\* The expressions programs are made of.
Texts(names) ==
    {Of("concat", Lit)} \cup names.text \cup Each("concat", names.text)
          \cup Each("field", names.flat \cup {Of("extract", ReadRelvar)})
Cells(names) == {Of("concat", Lit)} \cup names.text
Rels(names) ==
    names.rel \cup Each("rel", Cells(names)) \cup Each("where", names.rel \cup {ReadRelvar})
Flats(names) ==
    names.flat \cup Each("tuple", Cells(names))
          \cup Each("extract", names.rel \cup {ReadRelvar})
ByType(l) ==
    [text |-> NamesOf(l, "Text"), rel |-> NamesOf(l, "Rel"), flat |-> NamesOf(l, "Flat")]
TextExprs(l) == Texts(ByType(l))
RelExprs(l) == Rels(ByType(l))
Exprs(l) == LET names == ByType(l) IN Texts(names) \cup Rels(names) \cup Flats(names)
Arguments(l) ==
    {Lit, Of("concat", Lit), Of("rel", Of("concat", Lit)), Of("tuple", Of("concat", Lit))}
          \cup UNION Range(ByType(l))

Room == stmts < IF live THEN MaxStmts ELSE MaxDead

\* The value of a block, or of a return: of its expression, if it has one.
NoTail == [op |-> "none"]
Tails(l) == IF l.diverged \/ ~Room THEN {NoTail} ELSE {NoTail} \cup Exprs(l)
BlockValue(l, e) ==
    IF e = NoTail THEN [l |-> l, v |-> NoValue, ty |-> "Unit"] ELSE LowerExpr(l, e)

-----------------------------------------------------------------------------
(* Statements.                                                             *)

Main == [kind |-> "main"]
Inner == open[Len(open)]
\* The control structures of the function being lowered.
Enclosing ==
    {open[i] : i \in {j \in DOMAIN open : \A k \in j .. Len(open) :
                                               open[k].kind \notin {"main", "call"}}}
Running == open # << >> /\ memory.fault = NoFault

\* Record in the loops that are open what is executed, for their next rounds.
Logged(stack, insts) ==
    [i \in DOMAIN stack |-> IF stack[i].kind = "loop"
                           THEN [stack[i] EXCEPT !.log = @ \o insts] ELSE stack[i]]
Execute(stack, insts) ==
    /\ memory' = IF live THEN Run(memory, insts) ELSE memory
    /\ open' = IF live THEN Logged(stack, insts) ELSE stack
Lowered(l) == fn' = [l EXCEPT !.insts = << >>]
Write(l, stack) == Lowered(l) /\ Execute(stack, l.insts)

Statement(kind) ==
    /\ Running /\ ~fn.diverged /\ kind \in Statements /\ Room
    /\ stmts' = stmts + 1

\* The name of a declaration.
FreeName(l) == Min(Names \ Declared(l))
HasFreeName(l) == Names \ Declared(l) # {}

-----------------------------------------------------------------------------
(* Shapes of program whose counts the lowering does not balance.           *)

\* A name of a local or of the relvar, of a type with payloads of its own.
IsNameOf(e, ty) == e.op \in {"name", "read"} /\ ty \in {"Text", "Rel"}
Excludes(shape, condition) == shape \in Excluded => ~condition

\* A block yields, or a function returns, a Text parameter: nothing retains it.
ParamEscapes(o) == o.ty = "Text" /\ o.v \in fn.borrowed \ o.l.owned
\* A block yields a tuple that does not own its cells, or that a name owns
\* (an if keeps the cells of such a tuple when they are owned by heading).
TupleEscapes(o) ==
    /\ o.ty = "Flat"
    /\ \/ ~OwnsCells(o.l, o.v)
       \/ o.v \in BoundValues(o.l) /\ (Inner.kind = "tx" \/ o.v \notin o.l.heads)
\* Two names for one tuple.
TupleAliased(e, o) == e.op = "name" /\ o.ty = "Flat"
\* A relation changes while a tuple extracted from it is in scope.
SourceReassigned(o) ==
    o.ty = "Rel" /\ \E i \in DOMAIN o.l.locals : \E b \in Range(o.l.locals[i]) :
                        b.ty = "Flat" /\ ~OwnsCells(o.l, b.v)
\* A tuple extracted from a local relation is assigned to a variable that outlives it.
SourceEndsFirst(e, layer) ==
    e.op = "extract" /\ e.of.op = "name" /\ LayerOf(fn, e.of.name) > layer
\* A relation that has an owner moves into the relvar.
LocalStored(o) == o.v \in BoundValues(o.l)
\* A parameter, or the relvar, is given another name: it is retained once too often.
ParamAliased(e, o) == IsNameOf(e, o.ty) /\ o.v \in fn.borrowed
RelvarAliased(e) == e = ReadRelvar
\* A first assignment in a block inside the one that declares the variable.
PendingInBlock(layer) == \E c \in Enclosing : c.kind \in {"if", "loop"} /\ c.depth >= layer
\* A source whose release waits for the end of the function, in a loop.
InLoop(stack) ==
    \E i \in DOMAIN stack :
        /\ stack[i].kind = "loop"
        /\ \A j \in i .. Len(stack) : stack[j].kind \notin {"if", "call"}
DeferredInLoop(l) == InLoop(open) /\ Len(l.deferred) > Len(fn.deferred)
\* A return in an arm past a tuple that owns its cells: the lowerer forgets them.
ReturnPastTuple(l) ==
    open[Len(open)].kind = "if" /\ \E v \in BoundValues(l) : OwnsCells(l, v)
\* A return past names that share a value.
SharedOnReturn(l) ==
    Cardinality(BoundValues(l)) < Cardinality(UNION {DOMAIN l.locals[i] : i \in DOMAIN l.locals})

-----------------------------------------------------------------------------

\* A binding of an existing name is a second owner.
Bound(o, e) ==
    IF IsNameOf(e, o.ty)
    THEN LET r == Emit(o.l, "Retain", o.v) IN IF o.ty = "Text" THEN MarkOwned(r, o.v) ELSE r
    ELSE o.l
Binding(o) == [v |-> o.v, ty |-> o.ty]
\* The right-hand side of a binding has none of the shapes left out.
Balanced(e, o) ==
    /\ Excludes("TupleAliased", TupleAliased(e, o))
    /\ Excludes("ParamAliased", ParamAliased(e, o))
    /\ Excludes("RelvarAliased", RelvarAliased(e))
    /\ Excludes("DeferredInLoop", DeferredInLoop(o.l))

\* let n = e; or var n := e;
LetStmt ==
    /\ Statement("let") /\ HasFreeName(fn)
    /\ \E e \in Exprs(fn) \cup {Lit, ReadRelvar} :
        LET o == LowerExpr(fn, e)
        IN /\ Balanced(e, o)
           /\ Write(BindLocal(Bound(o, e), FreeName(fn), Binding(o)), open)
    /\ UNCHANGED live

\* var n;
VarStmt ==
    /\ Statement("var") /\ HasFreeName(fn)
    /\ Write([fn EXCEPT !.pending[Len(fn.pending)] = @ \cup {FreeName(fn)}], open)
    /\ UNCHANGED live

\* Assigning to a variable declared outside an if or a loop carries it.
Carried(n) ==
    \A c \in Enclosing : c.kind \in {"if", "loop"} /\ c.depth >= LayerOf(fn, n) =>
                            n \in DOMAIN c.carried

\* n := e; for a variable that has a value
AssignStmt ==
    /\ Statement("assign")
    /\ \E n \in {m \in Names \ fn.params : IsLocal(fn, m) /\ Carried(m)} : \E e \in Exprs(fn) :
        /\ e # Name(n)
        /\ LET o == LowerExpr(fn, e)
               old == Lookup(fn, n)
               l == IF NeedsScopeRelease(o.l, old.v, old.ty)
                    THEN Emit(o.l, "Release", old.v) ELSE o.l
           IN /\ o.ty = old.ty
              /\ Balanced(e, o)
              /\ Excludes("TupleReassigned", o.ty = "Flat")
              /\ Excludes("SourceReassigned", SourceReassigned(o))
              /\ Write([RebindLocal(Bound([o EXCEPT !.l = l], e), n, Binding(o))
                           EXCEPT !.unset = @ \ {n}], open)
    /\ UNCHANGED live

\* n := e; the first assignment to var n;
AssignPending ==
    /\ Statement("assign")
    /\ \E n \in {m \in Names : IsPending(fn, m)} : \E e \in Exprs(fn) :
        LET o == LowerExpr(fn, e)
            layer == CHOOSE i \in DOMAIN fn.pending : n \in fn.pending[i]
            l == BindAt(Bound(o, e), layer, n, Binding(o))
        IN /\ Balanced(e, o)
           /\ Excludes("PendingInBlock", PendingInBlock(layer))
           /\ Excludes("SourceEndsFirst", SourceEndsFirst(e, layer))
           /\ Write([l EXCEPT !.pending[layer] = @ \ {n}], open)
    /\ UNCHANGED live

\* r := e; for a private relvar
StoreRelvar ==
    /\ Statement("store")
    /\ \E e \in RelExprs(fn) :
        LET o == LowerExpr(fn, e)
        IN /\ Excludes("LocalStored", LocalStored(o))
           /\ Write(Emit(o.l, "RelvarSlotStore", o.v), open)
    /\ UNCHANGED live

\* write_line { message: e };
CallBuiltin ==
    /\ Statement("write")
    /\ \E e \in TextExprs(fn) :
        LET o == LowerExpr(fn, e)
        IN /\ Excludes("DeferredInLoop", DeferredInLoop(o.l))
           /\ Write(ReleaseTextTemp(Emit(o.l, "Use", o.v), o.v), open)
    /\ UNCHANGED live

\* return e; or return;
ReturnStmt ==
    /\ Statement("return")
    /\ \A c \in Enclosing : c.kind # "tx"
    /\ \E e \in Tails(fn) :
        LET o == BlockValue(fn, e)
            b == BoxReturnValue(o.l, o.v, o.ty)
            kept == RetainIfEscapingLocal(b.l, b.v, b.ty)
            l == EmitAll(ReleaseAllScopes(kept), "Release", Sources(kept.deferred))
        IN /\ Settles(fn, o.ty)
           /\ Excludes("ParamEscapes", ParamEscapes(o))
           /\ Excludes("SharedOnReturn", SharedOnReturn(o.l))
           /\ Excludes("ReturnPastTuple", ReturnPastTuple(o.l))
           /\ Write([Emit(l, "Return", b.v) EXCEPT !.diverged = TRUE, !.returns = o.ty], open)
    /\ live' = FALSE

-----------------------------------------------------------------------------
(* Transactions, ifs and loops.                                            *)

Escapes(o) == /\ Excludes("ParamEscapes", ParamEscapes(o))
              /\ Excludes("TupleEscapes", TupleEscapes(o))
              /\ Excludes("DeferredInLoop", DeferredInLoop(o.l))

\* Where the bound leaves room for a statement inside.
Opens(kind) == Statement(kind) /\ Len(open) <= MaxNesting /\ stmts + 1 < MaxStmts
\* A tail expression counts as a statement.
Closes(kind, e) ==
    /\ Running /\ Inner.kind = kind
    /\ stmts' = IF e = NoTail THEN stmts ELSE stmts + 1

\* let n = the value of a block, unless that is Unit
LetValue(l, b) == IF b.ty = "Unit" THEN l ELSE BindLocal(l, FreeName(l), Binding(b))

LeaveScope(l, val) ==
    PopScope(ReleaseTopScope(RetainIfEscapingLocal(l, val.v, val.ty)))

\* let n = transaction [ ...
BeginTransaction ==
    /\ Opens("tx") /\ HasFreeName(fn)
    /\ Write(PushScope(fn), Append(open, [kind |-> "tx"]))
    /\ UNCHANGED live

\* ... e ];
EndTransaction ==
    /\ \E e \in Tails(fn) :
        LET o == BlockValue(fn, e)
        IN /\ Closes("tx", e)
           /\ Escapes(o)
           /\ Excludes("ParamAliased", o.v \in fn.borrowed)
           /\ Write(LetValue(LeaveScope(o.l, o), o), Front(open))
    /\ UNCHANGED live

\* The variables a control structure may reassign: values and Texts only.
CarriedSets ==
    {S \in SUBSET ({e.name : e \in NamesOf(fn, "Text")} \ fn.params) :
        Cardinality(S) <= 1 /\ \A n \in S : Carried(n)}
Bindings(l, ns) == [n \in ns |-> Lookup(l, n)]
\* Mutant: the else arm starts from the bindings the then arm left.
RebindNone(l, bindings) == l
RebindAll(l, bindings) ==
    [l EXCEPT !.locals = [i \in DOMAIN @ |-> [n \in DOMAIN @[i] |->
        IF n \in DOMAIN bindings THEN bindings[n] ELSE @[i][n]]]]
\* A block parameter for each carried variable, fed from the given bindings.
BlockParams(l, from) ==
    LET names == SetToSeq(DOMAIN from)
        Param(n) == l.next - 1 + CHOOSE i \in DOMAIN names : names[i] = n
    IN RebindAll([l EXCEPT !.insts = @ \o [i \in DOMAIN names |->
                               [op |-> "Param", src |-> from[names[i]].v, dst |-> Param(names[i])]],
                           !.owned = @ \cup {Param(n) : n \in DOMAIN from},
                           !.next = @ + Len(names)],
                 [n \in DOMAIN from |-> [v |-> Param(n), ty |-> "Text"]])

NoArm == [v |-> NoValue, ty |-> "Unit", diverged |-> FALSE, owns |-> FALSE, carried |-> << >>]

\* let n = if c then [ ...
BeginIf ==
    /\ Opens("if") /\ HasFreeName(fn)
    /\ \E carry \in CarriedSets, taken \in BOOLEAN :
        /\ Write(PushScope(fn),
                 Append(open, [kind |-> "if", arm |-> "then", taken |-> taken,
                               then |-> NoArm, ended |-> FALSE, live |-> live, depth |-> Len(fn.locals),
                               mark |-> Len(fn.deferred), pending |-> UNION Range(fn.pending),
                               carried |-> Bindings(fn, carry)]))
        /\ live' = (live /\ taken)

\* The elements of a sequence at the given places.
Choosing(s, places) ==
    LET upto[k \in Nat] ==
            IF k = 0 THEN << >> ELSE IF k \in places THEN Append(upto[k - 1], s[k]) ELSE upto[k - 1]
    IN upto
Chosen(s, places) == Choosing(s, places)[Len(s)]

\* Mutant: what an arm deferred waits for the end of the function.
LeaveArmUndrained(o) == IF o.l.diverged THEN PopScope(o.l) ELSE LeaveScope(o.l, o)
\* lower_if_arm, after the block
LeaveArm(o) ==
    LET before == SubSeq(o.l.deferred, 1, Inner.mark)
        mine == SubSeq(o.l.deferred, Inner.mark + 1, Len(o.l.deferred))
        lent == {i \in DOMAIN mine : mine[i].flat = o.v}
        stays == Chosen(mine, lent)
        goes == Chosen(mine, DOMAIN mine \ lent)
    IN IF o.l.diverged
       THEN [PopScope(o.l) EXCEPT !.deferred = before]
       ELSE [EmitAll(LeaveScope(o.l, o), "Release", Sources(goes)) EXCEPT !.deferred = before \o stays]

\* What a merge needs to know of an arm.
Arm(o, l) ==
    [v |-> o.v, ty |-> o.ty, diverged |-> o.l.diverged,
     owns |-> ~o.l.diverged /\ OwnsCells(o.l, o.v), carried |-> Bindings(l, DOMAIN Inner.carried)]

\* ... e ] else [ ...
Else ==
    /\ Running /\ Inner.kind = "if" /\ Inner.arm = "then"
    /\ \E e \in Tails(fn) :
        LET o == BlockValue(fn, e)
            l == LeaveArm(o)
            entry == [Inner EXCEPT !.arm = "else", !.then = Arm(o, l), !.ended = live]
        IN /\ Closes("if", e)
           /\ Escapes(o)
           /\ Write([PushScope(RebindAll(l, Inner.carried)) EXCEPT !.diverged = FALSE],
                    Append(Front(open), entry))
           /\ live' = (Inner.live /\ ~Inner.taken)

\* The join value, then the carried variables, fed by the arm that was taken.
Merge(l, then, els) ==
    LET from == IF els.diverged \/ (Inner.taken /\ ~then.diverged) THEN then ELSE els
        r == Define(l, "Param", from.v)
        owned == CASE from.ty = "Text" -> MarkOwned(r, l.next)
                   [] from.ty = "Flat" /\ (then.owns \/ els.owns) ->
                        [r EXCEPT !.heads = @ \cup {l.next}]
                   [] OTHER -> r
        joined == IF from.ty = "Unit" THEN l
                  ELSE LetValue(owned, [v |-> l.next, ty |-> from.ty])
    IN BlockParams(joined, from.carried)

\* ... e ];
EndIf ==
    /\ Running /\ Inner.kind = "if" /\ Inner.arm = "else"
    /\ \E e \in Tails(fn) :
        LET o == BlockValue(fn, e)
            l == LeaveArm(o)
            then == Inner.then
            els == Arm(o, l)
            divergent == then.diverged /\ els.diverged
            merged == IF divergent THEN l ELSE Merge([l EXCEPT !.diverged = FALSE, !.insts = << >>], then, els)
            alive == Inner.ended \/ live
            first == IF live THEN Run(memory, l.insts) ELSE memory
        IN /\ Closes("if", e)
           /\ Escapes(o)
           /\ then.diverged \/ els.diverged \/ then.ty = els.ty
           /\ Lowered([merged EXCEPT !.unset = @ \cup (Inner.pending \ UNION Range(l.pending))])
           /\ memory' = IF alive THEN Run(first, merged.insts) ELSE first
           /\ open' = Logged(Front(open), (IF live THEN l.insts ELSE << >>)
                                          \o (IF alive THEN merged.insts ELSE << >>))
           /\ live' = alive

\* while c [ ... and do [ ...
BeginLoop ==
    /\ Opens("loop")
    /\ \E carry \in CarriedSets, form \in {"while", "do"}, rounds \in {0, Rounds} :
        LET l == BlockParams(fn, Bindings(fn, carry))
        IN /\ form = "do" => rounds > 0
           /\ ~live => rounds = Rounds
           /\ Lowered(PushScope(l))
           /\ memory' = IF live THEN Run(memory, l.insts) ELSE memory
           /\ open' = Append(IF live THEN Logged(open, l.insts) ELSE open,
                             [kind |-> "loop", form |-> form, rounds |-> rounds, live |-> live,
                              depth |-> Len(fn.locals), pending |-> UNION Range(fn.pending),
                              carried |-> Bindings(l, carry), log |-> << >>])
           /\ live' = (live /\ rounds > 0)

\* The back edge feeds the current values to the parameters.
BackEdge(now) ==
    LET ns == SetToSeq(DOMAIN now)
    IN [i \in DOMAIN ns |-> [op |-> "Param", src |-> now[ns[i]].v, dst |-> Inner.carried[ns[i]].v]]

\* ... ] and ... ] while c;  The rounds after the first repeat its instructions.
EndLoop ==
    /\ Closes("loop", NoTail) /\ ~fn.diverged
    /\ LET l == PopScope(ReleaseTopScope(fn))
           now == Bindings(l, DOMAIN Inner.carried)
           back == BackEdge(now)
           round == back \o Inner.log \o l.insts
           again == [i \in 1 .. (Inner.rounds - 1) * Len(round) |-> round[1 + ((i - 1) % Len(round))]]
           last == IF Inner.form = "while" THEN back ELSE << >>
           all == IF live THEN l.insts \o again \o last ELSE << >>
       IN /\ Lowered([RebindAll(l, IF Inner.form = "while" THEN Inner.carried ELSE now)
                        EXCEPT !.unset = @ \cup (Inner.pending \ UNION Range(l.pending))])
          /\ memory' = Run(memory, all)
          /\ open' = Logged(Front(open), all)
          /\ live' = (live \/ (Inner.live /\ Inner.rounds = 0))

-----------------------------------------------------------------------------
(* Functions.                                                              *)

ParamName == 1

\* let n = f { self: e }; the body of f comes next.
CallOper ==
    /\ Opens("call") /\ HasFreeName(fn)
    /\ \A i \in DOMAIN open : open[i].kind # "call"
    /\ \E e \in Arguments(fn) :
        LET o == LowerExpr(fn, e)
            p == Define(o.l, "Param", o.v)
            callee == Function([n \in {ParamName} |-> [v |-> o.l.next, ty |-> o.ty]],
                               p.next, AnyType)
        IN /\ Excludes("TupleArgument", OwnsCells(o.l, o.v) /\ o.v \notin BoundValues(o.l))
           /\ Excludes("DeferredInLoop", DeferredInLoop(o.l))
           /\ Write([callee EXCEPT !.insts = p.insts],
                 Append(open, [kind |-> "call", fn |-> [o.l EXCEPT !.insts = << >>],
                               arg |-> Binding(o), live |-> live]))
    /\ UNCHANGED live

\* The epilogue of lower_oper_decl.
Epilogue(o) ==
    LET b == BoxReturnValue(o.l, o.v, o.ty)
        kept == RetainIfEscapingLocal(b.l, b.v, b.ty)
    IN IF o.l.diverged THEN o.l
       ELSE Emit(DrainDeferred(ReleaseTopScope(kept)), "Return", b.v)

\* lower_user_call, after the call
Returned(l, ret) ==
    LET d == Define(l, "Result", Immortal)
        r == ReleaseCallArgTemp(d, Inner.arg.v, Inner.arg.ty)
        flat == Define(r, "TupleUnbox", l.next)
        v == [v |-> l.next, ty |-> ret]
    IN CASE ret = "Unit" -> ReleaseCallArgTemp(l, Inner.arg.v, Inner.arg.ty)
         [] ret = "Text" -> LetValue(MarkOwned(r, l.next), v)
         [] ret = "Rel" -> LetValue(r, v)
         [] ret = "Flat" -> LetValue(Defer(flat, l.next, r.next), [v |-> r.next, ty |-> "Flat"])

\* The end of f: its epilogue runs, then the caller goes on.
EndOper ==
    /\ Running
    /\ \E e \in Tails(fn) :
        LET o == BlockValue(fn, e)
            l == Epilogue(o)
            ret == IF fn.diverged THEN fn.returns ELSE o.ty
            caller == Returned([Inner.fn EXCEPT !.next = l.next], ret)
            insts == (IF live THEN l.insts ELSE << >>)
                        \o (IF Inner.live THEN caller.insts ELSE << >>)
        IN /\ Closes("call", e)
           /\ fn.diverged \/ Settles(fn, o.ty)
           /\ Excludes("ParamEscapes", ParamEscapes(o))
           /\ Excludes("DeferredInLoop", ret = "Flat" /\ InLoop(Front(open)))
           /\ Lowered(caller)
           /\ memory' = Run(memory, insts)
           /\ open' = Logged(Front(open), insts)
    /\ live' = Inner.live

\* The end of main: locals, then deferred sources.  Its values end with it.
EndMain ==
    /\ Closes("main", NoTail)
    /\ LET l == Epilogue(BlockValue(fn, NoTail))
       IN memory' = [(IF live THEN Run(memory, l.insts) ELSE memory) EXCEPT !.env = << >>]
    /\ open' = << >>
    /\ fn' = Function(<< >>, 1, "Unit")
    /\ UNCHANGED live

-----------------------------------------------------------------------------
Slot == 1
Init ==
    /\ fn = Function(<< >>, 1, "Unit")
    /\ open = <<Main>>
    /\ stmts = 0
    /\ memory = [heap |-> <<[rc |-> 1, cell |-> Immortal]>>, env |-> << >>, slot |-> Slot,
                 result |-> Immortal, fault |-> NoFault]
    /\ live = TRUE

Next ==
    \/ LetStmt \/ VarStmt \/ AssignStmt \/ AssignPending \/ StoreRelvar \/ CallBuiltin
    \/ ReturnStmt \/ BeginTransaction \/ EndTransaction \/ BeginIf \/ Else
    \/ EndIf \/ BeginLoop \/ EndLoop \/ CallOper \/ EndOper \/ EndMain

Spec == Init /\ [][Next]_vars

-----------------------------------------------------------------------------
(* Properties.                                                             *)

\* A value that a name stands for, or that an instruction reads, is not freed
\* before its last use: the counts that binding, escaping blocks, carried
\* variables, deferred sources and returns add and drop never end a payload that
\* the program can still reach.
NamesAreLive == memory.fault # "freed"

\* Every release, also the deferred ones and those at the end of a scope, is
\* executed only where the value it releases has been computed: what an arm or a
\* loop body defines is released on the paths through it and no other.
ReleasesAreDominated == memory.fault # "undefined"

\* At the end of main every payload but the relvar's has been given back: no path
\* through returns, arms, rounds of loops and calls keeps a reference too many.
NoLeak ==
    open = << >> /\ memory.fault = NoFault =>
        \A a \in DOMAIN memory.heap :
            memory.heap[a].rc = (IF a = memory.slot THEN 1 ELSE 0)
                                  + (IF a = memory.heap[memory.slot].cell THEN 1 ELSE 0)

\* After an if or a loop, each name that may be read is bound to a value of the
\* path that was taken, an SSA value that dominates the point reached, and the
\* payload behind it is still counted.
NamesAreBoundHere ==
    Running /\ live =>
        \A i \in DOMAIN fn.locals : \A n \in DOMAIN fn.locals[i] \ fn.unset :
            LET v == fn.locals[i][n].v
            IN /\ v \in DOMAIN memory.env
               /\ memory.env[v] = Immortal \/ memory.heap[memory.env[v]].rc > 0
=============================================================================
