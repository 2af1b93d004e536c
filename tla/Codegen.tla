------------------------------- MODULE Codegen -------------------------------
(***************************************************************************)
(* The two code generators, coddl-codegen-cranelift and coddl-codegen-llvm, *)
(* translating one ProcIR function side by side.  A behaviour appends one  *)
(* instruction at a time, runs it, and keeps for each backend what its     *)
(* value map (ValueRepr) holds, the runtime calls the emitted code makes    *)
(* and whether the emitter or the verifier behind it has given up.          *)
(*                                                                          *)
(* A machine word is a record naming what it holds: an integer, a Boolean,  *)
(* half of a Rational, a pointer or a length.  A payload never changes      *)
(* after it is built, so a pointer is the payload it points to.  Offsets    *)
(* count 8-byte slots.  Binary, Byte, Character, Approximate and empty      *)
(* tuples are left out; Character takes Boolean's arms with a full store.   *)
(***************************************************************************)
EXTENDS Integers, Sequences, FiniteSets, SequencesExt, TLC

CONSTANTS
    Constants,      \* literals: a set of <<type, value>>
    BoxThreshold,   \* slots from which a tuple is boxed (TUPLE_BOX_THRESHOLD is 8)
    Arities,        \* how many fields, records or arguments an instruction may take
    RuntimeCalls,   \* the relational entry points the behaviours may call
    Excluded,       \* the shapes of program left out, see below
    MaxValues,      \* values in one function
    MaxCalls,       \* runtime calls in one behaviour
    MaxEffects      \* of which, instructions that define no value

VARIABLES
    values,     \* the ProcIR values so far: a sequence of [ty, val]
    effects,    \* the runtime calls the ProcIR asks for
    slot,       \* the ProcIR value of the one relvar slot
    loop,       \* the header's block parameter, 0 outside a loop
    regs,       \* per backend, the ValueRepr of each value
    calls,      \* per backend, the runtime calls made
    cell,       \* per backend, the word in the relvar slot
    status      \* per backend: "ok", "unsupported", "invalid", "mismatched" or "panics"

vars == <<values, effects, slot, loop, regs, calls, cell, status>>

Backends == {"cranelift", "llvm"}

(***************************************************************************)
(* Types, and what a value of each occupies.                               *)
(***************************************************************************)
Scalar(k) == [k |-> k]
TupleType(fs) == [k |-> "Tuple", of |-> fs]         \* fs: <<name, type>> in name order
RelationType(h) == [k |-> "Relation", of |-> h]

RECURSIVE Slots(_), HasLeaf(_, _), Inline(_, _), Encode(_, _)

Slots(ty) ==
    CASE ty.k \in {"Text", "Rational"} -> 2
      [] ty.k = "Tuple" -> FoldSeq(LAMBDA f, n: n + Slots(f[2]), 0, ty.of)
      [] OTHER -> 1

Boxed(ty) == ty.k = "Tuple" /\ Slots(ty) >= BoxThreshold

HasLeaf(ty, k) ==
    \/ ty.k = k
    \/ ty.k = "Tuple" /\ \E i \in DOMAIN ty.of: HasLeaf(ty.of[i][2], k)

\* For a mutant: fields found by position instead of by offset.
OffsetByPosition(ty, i) == i - 1

Offset(ty, i) == FoldSeq(LAMBDA f, n: n + Slots(f[2]), 0, SubSeq(ty.of, 1, i - 1))

Garbage == [garbage |-> TRUE]
Low(w) == [low |-> w]           \* one byte of the slot written, seven left as allocated
Records(rs) == [ptr |-> [kind |-> "relation", recs |-> rs]]

\* The words a value means, laid out inline in a record, and as an operand.
Inline(ty, v) ==
    IF ty.k = "Tuple"
    THEN FlattenSeq([i \in DOMAIN ty.of |-> Inline(ty.of[i][2], v[ty.of[i][1]])])
    ELSE Encode(ty, v)

Encode(ty, v) ==
    CASE ty.k = "Integer"  -> <<[int |-> v]>>
      [] ty.k = "Boolean"  -> <<[bool |-> v]>>
      [] ty.k = "Rational" -> <<[num |-> v], [den |-> v]>>
      [] ty.k = "Text"     -> <<[ptr |-> [kind |-> "text", bytes |-> v]], [len |-> Len(v)]>>
      [] ty.k = "Relation" -> <<Records({Inline(ty.of, t): t \in v})>>
      [] Boxed(ty)         -> <<Records({Inline(ty, v)})>>
      [] OTHER             -> Inline(ty, v)

(***************************************************************************)
(* ValueRepr.  "def" is the value whose canonical name %vN holds the word   *)
(* on LLVM, 0 when it is an immediate, a parameter or a derived name.       *)
(***************************************************************************)
RegType(b, ty) ==
    CASE ty.k = "Integer" -> "i64"
      [] ty.k = "Boolean" -> IF b = "llvm" THEN "i1" ELSE "i8"
      [] OTHER            -> "ptr"

ScalarRepr(rt, w, def) == [r |-> "scalar", rt |-> rt, w |-> w, def |-> def]
TextRepr(p, n, def)    == [r |-> "text", ptr |-> p, len |-> n, def |-> def]
RationalRepr(n, d)     == [r |-> "rational", num |-> n, den |-> d]
TupleRepr(fs)          == [r |-> "tuple", fields |-> fs]

FieldOf(repr, name) == repr.fields[CHOOSE i \in DOMAIN repr.fields: repr.fields[i][1] = name][2]

\* push_call_operands: the leaves in order, each with its register type.
RECURSIVE Operands(_)
Operands(repr) ==
    CASE repr.r = "scalar"   -> <<[rt |-> repr.rt, w |-> repr.w]>>
      [] repr.r = "text"     -> <<[rt |-> "ptr", w |-> repr.ptr], [rt |-> "i64", w |-> repr.len]>>
      [] repr.r = "rational" -> <<[rt |-> "i64", w |-> repr.num], [rt |-> "i64", w |-> repr.den]>>
      [] OTHER -> FlattenSeq([i \in DOMAIN repr.fields |-> Operands(repr.fields[i][2])])

WordsOf(repr) == LET ops == Operands(repr) IN [i \in DOMAIN ops |-> ops[i].w]
TypesOf(ops) == [i \in DOMAIN ops |-> ops[i].rt]

\* push_param_types.  LLVM has no Rational arm: it declares one i64.
RECURSIVE ParamTypes(_, _), Bind(_, _, _, _)
ParamTypes(b, ty) ==
    CASE ty.k = "Text"                      -> <<"ptr", "i64">>
      [] ty.k = "Rational"                  -> IF b = "llvm" THEN <<"i64">> ELSE <<"i64", "i64">>
      [] ty.k = "Tuple" /\ ~Boxed(ty)       ->
            FlattenSeq([i \in DOMAIN ty.of |-> ParamTypes(b, ty.of[i][2])])
      [] OTHER                              -> <<RegType(b, ty)>>

\* bind_param_repr, param_value_repr: the representation a parameter is given
\* from the flattened operands, the same recursion as ParamTypes.
Bind(b, ty, ops, def) ==
    CASE ty.k = "Text"                 -> TextRepr(ops[1].w, ops[2].w, def)
      [] ty.k = "Rational"             ->
            IF b = "llvm" THEN ScalarRepr("i64", ops[1].w, def)
                          ELSE RationalRepr(ops[1].w, ops[2].w)
      [] ty.k = "Tuple" /\ ~Boxed(ty)  ->
            LET Before(i) == Len(ParamTypes(b, TupleType(SubSeq(ty.of, 1, i - 1))))
            IN  TupleRepr([i \in DOMAIN ty.of |->
                    <<ty.of[i][1], Bind(b, ty.of[i][2], SubSeq(ops, Before(i) + 1, Len(ops)), 0)>>])
      [] OTHER                         -> ScalarRepr(RegType(b, ty), ops[1].w, def)

(***************************************************************************)
(* Records.  Storing into a cell gives the slots, the retains it makes and  *)
(* whether the backend can; "ty" stands for the layout's kind and sub.      *)
(***************************************************************************)
Retain(w) == [f |-> "coddl_rc_retain", args |-> <<w>>]

RECURSIVE StoreAttr(_, _, _), ReadCell(_, _, _, _)

ScalarCell(b, repr, ty) ==
    CASE ty.k = "Relation" ->
            [slots |-> <<repr.w>>, retains |-> <<Retain(repr.w)>>, status |-> "ok"]
      [] b = "cranelift" /\ repr.rt = "i8" ->
            [slots |-> <<Low(repr.w)>>, retains |-> <<>>, status |-> "ok"]
      [] b = "llvm" /\ repr.rt \in {"i1", "i8"} ->
            [slots |-> <<Garbage>>, retains |-> <<>>, status |-> "unsupported"]
      [] b = "llvm" /\ repr.rt = "ptr" ->
            [slots |-> <<repr.w>>, retains |-> <<Retain(repr.w)>>, status |-> "ok"]
      [] OTHER -> [slots |-> <<repr.w>>, retains |-> <<>>, status |-> "ok"]

\* The slots past what the operand fills stay as rc_alloc left them.
Padded(stored, ty) ==
    [stored EXCEPT !.slots = [i \in 1..Slots(ty) |-> IF i <= Len(@) THEN @[i] ELSE Garbage]]

FirstFailure(ss) ==
    IF \A i \in DOMAIN ss: ss[i] = "ok" THEN "ok" ELSE SelectSeq(ss, LAMBDA s: s # "ok")[1]

StoreFields(b, repr, ty) ==
    LET parts == [i \in DOMAIN ty.of |-> StoreAttr(b, FieldOf(repr, ty.of[i][1]), ty.of[i][2])]
    IN  [slots   |-> FlattenSeq([i \in DOMAIN parts |-> parts[i].slots]),
         retains |-> FlattenSeq([i \in DOMAIN parts |-> parts[i].retains]),
         status  |-> FirstFailure([i \in DOMAIN parts |-> parts[i].status])]

StoreAttr(b, repr, ty) ==
    CASE repr.r = "scalar"   -> Padded(ScalarCell(b, repr, ty), ty)
      [] repr.r = "text"     ->
            [slots |-> <<repr.ptr, repr.len>>, retains |-> <<Retain(repr.ptr)>>, status |-> "ok"]
      [] repr.r = "rational" ->
            [slots |-> <<repr.num, repr.den>>, retains |-> <<>>, status |-> "ok"]
      [] OTHER               -> StoreFields(b, repr, ty)

Reduced(w) == IF "low" \in DOMAIN w THEN w.low ELSE w

\* read_cell, read_boxed_tuple, read_attr_repr.
ReadCell(b, slots, ty, def) ==
    CASE ty.k = "Text"     -> TextRepr(slots[1], slots[2], def)
      [] ty.k = "Rational" -> RationalRepr(slots[1], slots[2])
      [] ty.k = "Boolean"  -> ScalarRepr(RegType(b, ty), Reduced(slots[1]), def)
      [] ty.k = "Tuple"    ->
            TupleRepr([i \in DOMAIN ty.of |->
                <<ty.of[i][1],
                  ReadCell(b, SubSeq(slots, Offset(ty, i) + 1, Offset(ty, i) + Slots(ty.of[i][2])),
                           ty.of[i][2], 0)>>])
      [] OTHER             -> ScalarRepr(RegType(b, ty), slots[1], def)

TheRecord(repr) == CHOOSE r \in repr.w.ptr.recs: TRUE

\* TupleBox and TupleUnbox.
TupleBox(b, repr, ty, def) ==
    LET stored == StoreFields(b, repr, ty)
    IN  [repr |-> ScalarRepr("ptr", Records({stored.slots}), def),
         calls |-> stored.retains, status |-> stored.status]

TupleUnbox(b, repr, ty) == ReadCell(b, TheRecord(repr), ty, 0)

(***************************************************************************)
(* Running one instruction: its ProcIR value and calls, and for each        *)
(* backend an outcome [repr, calls, status].                                *)
(***************************************************************************)
Id == Len(values) + 1
Here == 1..Len(values)
Type(i) == values[i].ty
Val(i) == values[i].val
OfType(k) == {i \in Here: Type(i).k = k}
Ok(repr) == [repr |-> repr, calls |-> <<>>, status |-> "ok"]

Running == \A b \in Backends: status[b] = "ok"

Log(b, made) == calls[b] \o made

Fails(out) == \E b \in Backends: out[b].status # "ok"

Define(ty, val, asked, Out(_)) ==
    LET out == [b \in Backends |-> Out(b)]
    IN  /\ Running
        /\ Len(values) < MaxValues
        /\ Len(effects) + Len(asked) <= MaxCalls
        /\ values' = Append(values, [ty |-> ty, val |-> val])
        /\ effects' = effects \o asked
        /\ status' = [b \in Backends |-> out[b].status]
        /\ regs' = IF Fails(out) THEN regs
                   ELSE [b \in Backends |-> Append(regs[b], out[b].repr)]
        /\ calls' = [b \in Backends |-> Log(b, out[b].calls)]
        /\ UNCHANGED <<slot, loop, cell>>

\* The retains a record asks for: one per Text or relation leaf.
RECURSIVE HeapLeaves(_, _)
HeapLeaves(ty, v) ==
    CASE ty.k \in {"Text", "Relation"} -> <<Retain(Encode(ty, v)[1])>>
      [] ty.k = "Tuple" ->
            FlattenSeq([i \in DOMAIN ty.of |-> HeapLeaves(ty.of[i][2], v[ty.of[i][1]])])
      [] OTHER -> <<>>

(***************************************************************************)
(* Shapes of program the two emitters are known to treat differently, or    *)
(* wrongly; a run names those it leaves out.                                 *)
(*  BooleanCell     Cranelift stores one byte of a Boolean cell, LLVM none   *)
(*  RationalOperand LLVM declares, binds and merges a Rational as one i64,    *)
(*                  and neither returns one                                   *)
(*  BooleanResult   a Boolean call result stays i8 on LLVM, where and, icmp,  *)
(*                  phi, zext and an argument want i1                         *)
(*  BooleanLiteral  LLVM names the widened literal of a return "1.b"          *)
(*  TupleExtract    Extract finds the type by kind tag, which has no tuple    *)
(*  WideCell        a boxed tuple as a field keeps its pointer in an inline   *)
(*                  cell                                                      *)
(*  DerivedCarry    LLVM guesses the name %vN for what a loop carries back    *)
(***************************************************************************)
Shapes == {"BooleanCell", "RationalOperand", "BooleanResult", "BooleanLiteral",
           "TupleExtract", "WideCell", "DerivedCarry"}

Allows(shape) == shape \notin Excluded

Storable(ty) == Allows("BooleanCell") \/ ~HasLeaf(ty, "Boolean")
Passable(ty) == Allows("RationalOperand") \/ ~HasLeaf(ty, "Rational")

RECURSIVE Widened(_)
Widened(repr) ==
    CASE repr.r = "scalar" -> repr.rt = "i8"
      [] repr.r = "tuple"  -> \E i \in DOMAIN repr.fields: Widened(repr.fields[i][2])
      [] OTHER             -> FALSE

Plain(i) == Allows("BooleanResult") \/ ~Widened(regs["llvm"][i])

(***************************************************************************)
(* Instructions.                                                            *)
(***************************************************************************)
\* Inst::Const.  An LLVM literal is an immediate: it has no name of its own.
Const ==
    \E c \in Constants:
        LET ty == c[1]
            Literal(b) ==
                LET ws == Encode(ty, c[2]) IN
                CASE ty.k = "Text"     -> TextRepr(ws[1], ws[2], 0)
                  [] ty.k = "Rational" -> RationalRepr(ws[1], ws[2])
                  [] OTHER             -> ScalarRepr(RegType(b, ty), ws[1], 0)
        IN  Define(ty, c[2], <<>>, LAMBDA b: Ok(Literal(b)))

\* ScalarOp on Integer, Boolean, Text and Rational operands of one type.
\* LLVM prints the operand under the type it expects: an i8 there is invalid.
Expects(b, repr, ty) ==
    repr.r = "scalar" => repr.rt = RegType(b, ty)

ComparisonCalls(ty, x, y) ==
    IF ty.k = "Text"
    THEN <<[f |-> "coddl_text_eq", args |-> Encode(ty, x) \o Encode(ty, y)]>>
    ELSE <<>>

Compare(b, i, j) ==
    LET x == regs[b][i]
        y == regs[b][j]
    IN  [repr |-> ScalarRepr(RegType(b, Scalar("Boolean")),
                             [bool |-> IF WordsOf(x) = WordsOf(y) THEN "T" ELSE "F"], Id),
         calls |-> IF x.r = "text"
                   THEN <<[f |-> "coddl_text_eq", args |-> WordsOf(x) \o WordsOf(y)]>>
                   ELSE <<>>,
         status |-> IF Expects(b, x, Type(i)) /\ Expects(b, y, Type(j)) THEN "ok" ELSE "invalid"]

Equals ==
    \E i, j \in Here:
        /\ i < j
        /\ Type(i) = Type(j)
        /\ Type(i).k \in {"Integer", "Boolean", "Text", "Rational"}
        /\ Plain(i) /\ Plain(j)
        /\ Define(Scalar("Boolean"), IF Val(i) = Val(j) THEN "T" ELSE "F",
                  ComparisonCalls(Type(i), Val(i), Val(j)),
                  LAMBDA b: Compare(b, i, j))

\* Concat: the runtime returns the payload, the length is added inline.
Concatenate(b, i, j) ==
    LET x == regs[b][i]
        y == regs[b][j]
    IN  [repr |-> TextRepr([ptr |-> [kind |-> "text", bytes |-> x.ptr.ptr.bytes \o y.ptr.ptr.bytes]],
                           [len |-> x.len.len + y.len.len], Id),
         calls |-> <<[f |-> "coddl_text_concat", args |-> WordsOf(x) \o WordsOf(y)]>>,
         status |-> "ok"]

Concat ==
    \E i, j \in OfType("Text"):
        Define(Scalar("Text"), Val(i) \o Val(j),
               <<[f |-> "coddl_text_concat",
                  args |-> Encode(Type(i), Val(i)) \o Encode(Type(j), Val(j))]>>,
               LAMBDA b: Concatenate(b, i, j))

\* TupleLit: compile-time grouping, then the lowerer's box for a wide tuple.
Names == <<"a", "b">>
Fields(is) == [i \in DOMAIN is |-> <<Names[i], Type(is[i])>>]

Grouped(b, is, ty) ==
    LET flat == TupleRepr([i \in DOMAIN is |-> <<Names[i], regs[b][is[i]]>>])
    IN  IF Boxed(ty) THEN TupleBox(b, flat, ty, Id) ELSE Ok(flat)

TupleLit ==
    \E is \in UNION {[1..m -> Here]: m \in Arities}:
        LET ty == TupleType(Fields(is))
            val == [x \in {Names[i]: i \in DOMAIN is} |->
                        Val(is[CHOOSE i \in DOMAIN is: Names[i] = x])]
        IN  /\ \A i \in DOMAIN is: Plain(is[i])
            /\ \A i \in DOMAIN is: Allows("WideCell") \/ ~Boxed(Type(is[i]))
            /\ Boxed(ty) => Storable(ty)
            /\ Define(ty, val, IF Boxed(ty) THEN HeapLeaves(ty, val) ELSE <<>>,
                      LAMBDA b: Grouped(b, is, ty))

\* Inst::TupleField, and Inst::AttrLoad on a boxed tuple; the lowerer retains
\* a Text or relation read this way.
ReadField(b, i, f, kept) ==
    LET ty == Type(i)
        whole == regs[b][i]
        record == TheRecord(whole)
        read == IF Boxed(ty)
                THEN ReadCell(b, SubSeq(record, Offset(ty, f) + 1, Len(record)), ty.of[f][2], Id)
                ELSE FieldOf(whole, ty.of[f][1])
    IN  [repr |-> read,
         calls |-> IF kept THEN <<Retain(WordsOf(read)[1])>> ELSE <<>>,
         status |-> "ok"]

Kept(ty) == ty.k \in {"Text", "Relation"}

FieldAccess ==
    \E i \in OfType("Tuple"):
        \E f \in DOMAIN Type(i).of:
            LET name == Type(i).of[f][1]
                ty == Type(i).of[f][2]
            IN  Define(ty, Val(i)[name],
                       IF Kept(ty) THEN <<Retain(Encode(ty, Val(i)[name])[1])>> ELSE <<>>,
                       LAMBDA b: ReadField(b, i, f, Kept(ty)))

\* RelationLit: one record per tuple, a boxed one unboxed first, then the seal.
Flat(b, i) == IF Boxed(Type(i)) THEN TupleUnbox(b, regs[b][i], Type(i)) ELSE regs[b][i]

Sealed(b, is, ty) ==
    LET stored == [i \in DOMAIN is |-> StoreFields(b, Flat(b, is[i]), ty)]
    IN  [repr |-> ScalarRepr("ptr", Records({stored[i].slots: i \in DOMAIN is}), Id),
         calls |-> FlattenSeq([i \in DOMAIN is |-> stored[i].retains]),
         status |-> FirstFailure([i \in DOMAIN is |-> stored[i].status])]

RelationLit ==
    \E is \in UNION {[1..m -> OfType("Tuple")]: m \in Arities}:
        LET ty == Type(is[1])
        IN  /\ \A i \in DOMAIN is: Type(is[i]) = ty /\ Plain(is[i])
            /\ Storable(ty)
            /\ Define(RelationType(ty), {Val(is[i]): i \in DOMAIN is},
                      FlattenSeq([i \in DOMAIN is |-> HeapLeaves(ty, Val(is[i]))]),
                      LAMBDA b: Sealed(b, is, ty))

\* Extract: the cardinality check returns the record, each attribute is read by
\* its kind tag.
Extracted(b, i, ty) ==
    [repr |-> ReadCell(b, TheRecord(regs[b][i]), ty, 0),
     calls |-> <<[f |-> "coddl_extract_check_cardinality",
                  args |-> WordsOf(regs[b][i]) \o <<[desc |-> ty]>>]>>,
     status |-> IF \E f \in DOMAIN ty.of: ty.of[f][2].k = "Tuple" THEN "panics" ELSE "ok"]

Extract ==
    \E i \in OfType("Relation"):
        LET ty == Type(i).of
        IN  /\ Cardinality(Val(i)) = 1
            /\ ~Boxed(ty)
            /\ Allows("TupleExtract") \/ \A f \in DOMAIN ty.of: ty.of[f][2].k # "Tuple"
            /\ Define(ty, CHOOSE t \in Val(i): TRUE,
                      <<[f |-> "coddl_extract_check_cardinality",
                         args |-> Encode(Type(i), Val(i)) \o <<[desc |-> ty]>>]>>,
                      LAMBDA b: Extracted(b, i, ty))

\* A call of a user operator that returns its parameter p, or the literal true
\* for p = 0: operands flattened by push_call_operands, bound by position, a
\* Text returned through the len-out slot, a small tuple boxed by the callee and
\* unboxed by the caller, a Boolean widened to i8 on LLVM.
Arguments(b, is) == FlattenSeq([i \in DOMAIN is |-> Operands(regs[b][is[i]])])
\* For a mutant: a callee declared without the length half of its Text parameters.
DeclaredWithoutLengths(b, is) ==
    FlattenSeq([i \in DOMAIN is |->
        IF Type(is[i]).k = "Text" THEN <<"ptr">> ELSE ParamTypes(b, Type(is[i]))])

Declared(b, is) == FlattenSeq([i \in DOMAIN is |-> ParamTypes(b, Type(is[i]))])

Parameter(b, is, p) ==
    LET before == FlattenSeq([i \in 1..(p - 1) |-> ParamTypes(b, Type(is[i]))])
        ops == Arguments(b, is)
    IN  Bind(b, Type(is[p]), SubSeq(ops, Len(before) + 1, Len(ops)), 0)

Returned(b, repr, ty) ==
    CASE repr.r = "text"     -> Ok([repr EXCEPT !.def = Id])
      [] repr.r = "rational" -> [repr |-> repr, calls |-> <<>>, status |-> "unsupported"]
      [] repr.r = "tuple"    ->
            LET box == TupleBox(b, repr, ty, Id)
            IN  [box EXCEPT !.repr = TupleUnbox(b, box.repr, ty)]
      [] OTHER ->
            Ok([repr EXCEPT !.def = Id, !.rt = IF ty.k = "Boolean" THEN "i8" ELSE @])

CallOf(b, is, p, ty) ==
    IF Len(Arguments(b, is)) # Len(Declared(b, is)) \/ TypesOf(Arguments(b, is)) # Declared(b, is)
    THEN [repr |-> regs[b][1], calls |-> <<>>, status |-> "mismatched"]
    ELSE IF p = 0
    THEN [repr |-> ScalarRepr("i8", [bool |-> "T"], Id), calls |-> <<>>,
          status |-> IF b = "llvm" THEN "invalid" ELSE "ok"]
    ELSE Returned(b, Parameter(b, is, p), ty)

Call ==
    \E is \in UNION {[1..m -> Here]: m \in Arities}, p \in 0..2:
        LET ty == IF p = 0 THEN Scalar("Boolean") ELSE Type(is[p])
            val == IF p = 0 THEN "T" ELSE Val(is[p])
            boxes == p # 0 /\ ty.k = "Tuple" /\ ~Boxed(ty)
        IN  /\ p <= Len(is)
            /\ p = 0 => Allows("BooleanLiteral")
            /\ \A i \in DOMAIN is: Passable(Type(is[i])) /\ Plain(is[i])
            /\ boxes => Storable(ty)
            /\ Define(ty, val, IF boxes THEN HeapLeaves(ty, val) ELSE <<>>,
                      LAMBDA b: CallOf(b, is, p, ty))

(***************************************************************************)
(* Control flow.  A merge block's parameter is block parameters on          *)
(* Cranelift, phi nodes on LLVM.                                            *)
(***************************************************************************)
RECURSIVE PhiFits(_, _)
PhiFits(repr, ty) ==
    CASE ty.k = "Text"                -> "ok"
      [] ty.k = "Rational"            -> "unsupported"
      [] ty.k = "Tuple" /\ ~Boxed(ty) ->
            FirstFailure([i \in DOMAIN ty.of |-> PhiFits(FieldOf(repr, ty.of[i][1]), ty.of[i][2])])
      [] OTHER                        -> IF repr.rt = RegType("llvm", ty) THEN "ok" ELSE "invalid"

MergeFits(b, repr, ty) ==
    CASE b = "llvm"                                    -> PhiFits(repr, ty)
      [] TypesOf(Operands(repr)) = ParamTypes(b, ty)   -> "ok"
      [] OTHER                                         -> "invalid"

\* append_block_param_repr, emit_phi_value: the merged value, from the arm taken.
Merged(b, repr, ty, def) ==
    IF b = "llvm" /\ HasLeaf(ty, "Rational") THEN repr ELSE Bind(b, ty, Operands(repr), def)

\* CondBr and the two arms' Br into the merge block; LLVM truncates an i8
\* condition.
If ==
    \E c \in OfType("Boolean"), i, j \in Here:
        LET taken == IF Val(c) = "T" THEN i ELSE j
            ty == Type(i)
            Word(b) == regs[b][c].w
        IN  /\ i # j
            /\ Type(j) = ty
            /\ Passable(ty) /\ Plain(i) /\ Plain(j)
            /\ Define(ty, Val(taken), <<>>,
                  LAMBDA b:
                      [repr |-> Merged(b, regs[b][IF Word(b) = [bool |-> "T"] THEN i ELSE j], ty, Id),
                       calls |-> <<>>,
                       status |-> FirstFailure(<<MergeFits(b, regs[b][i], ty),
                                                 MergeFits(b, regs[b][j], ty)>>)])

\* The loop header, with one carried variable.
OpenLoop ==
    \E i \in Here:
        /\ loop = 0
        /\ Passable(Type(i)) /\ Plain(i)
        /\ Running
        /\ Len(values) < MaxValues
        /\ values' = Append(values, values[i])
        /\ loop' = Id
        /\ LET out == [b \in Backends |-> MergeFits(b, regs[b][i], Type(i))]
           IN  /\ status' = out
               /\ regs' = [b \in Backends |->
                      Append(regs[b], IF out[b] = "ok" THEN Merged(b, regs[b][i], Type(i), Id)
                                                       ELSE regs[b][i])]
        /\ UNCHANGED <<effects, slot, calls, cell>>

\* The latch's Br.  A value defined after the header has not been emitted when
\* LLVM writes the phi, which then names it %vN.
Guessed(repr, ty, l) ==
    CASE ty.k = "Text"                          -> repr.r = "text" /\ repr.def = l
      [] ty.k = "Tuple" \/ ty.k = "Rational"    -> FALSE
      [] OTHER                                  -> repr.r = "scalar" /\ repr.def = l

CarryFits(b, l) ==
    CASE b = "cranelift" \/ l < loop            -> MergeFits(b, regs[b][l], Type(l))
      [] Guessed(regs[b][l], Type(l), l)        -> PhiFits(regs[b][l], Type(l))
      [] OTHER                                  -> "invalid"

CloseLoop ==
    \E l \in Here:
        /\ loop # 0
        /\ Type(l) = Type(loop)
        /\ Plain(l)
        /\ Allows("DerivedCarry") \/ l < loop \/ Guessed(regs["llvm"][l], Type(l), l)
        /\ Running
        /\ values' = [i \in 1..loop |-> IF i = loop THEN values[l] ELSE values[i]]
        /\ status' = [b \in Backends |-> CarryFits(b, l)]
        /\ regs' = [b \in Backends |-> [i \in 1..loop |->
                      IF i = loop /\ CarryFits(b, l) = "ok"
                      THEN Merged(b, regs[b][l], Type(l), loop) ELSE regs[b][i]]]
        /\ loop' = 0
        /\ UNCHANGED <<effects, slot, calls, cell>>

(***************************************************************************)
(* Calls of the runtime for their effect.                                   *)
(***************************************************************************)
Effectful == RuntimeCalls \cup {"coddl_query", "coddl_relation_when", "coddl_relvar_slot_store"}

Effect(asked, Made(_), Fits(_)) ==
    /\ Running
    /\ Len(effects) < MaxCalls
    /\ Len(SelectSeq(effects, LAMBDA e: e.f \in Effectful)) < MaxEffects
    /\ effects' = Append(effects, asked)
    /\ status' = [b \in Backends |-> Fits(b)]
    /\ calls' = [b \in Backends |-> Append(calls[b], Made(b))]
    /\ UNCHANGED <<values, loop, regs>>

\* CoddlParam: Integer and Boolean in the i field, Text in ptr and len.
Bindable == {"Integer", "Boolean", "Text"}

Query ==
    \E is \in UNION {[1..m -> {i \in Here: Type(i).k \in Bindable}]: m \in Arities}:
        /\ \A i \in DOMAIN is: Plain(is[i])
        /\ UNCHANGED <<slot, cell>>
        /\ Effect([f |-> "coddl_query",
                   args |-> FlattenSeq([i \in DOMAIN is |-> Encode(Type(is[i]), Val(is[i]))])],
                  LAMBDA b: [f |-> "coddl_query",
                             args |-> FlattenSeq([i \in DOMAIN is |-> WordsOf(regs[b][is[i]])])],
                  LAMBDA b: IF \A i \in DOMAIN is: Expects(b, regs[b][is[i]], Type(is[i]))
                            THEN "ok" ELSE "invalid")

\* Gate: LLVM widens the i1 condition for the call.
Gate ==
    \E i \in OfType("Relation"), c \in OfType("Boolean"):
        /\ Plain(c)
        /\ UNCHANGED <<slot, cell>>
        /\ Effect([f |-> "coddl_relation_when",
                   args |-> Encode(Type(i), Val(i)) \o Encode(Type(c), Val(c)) \o <<[desc |-> Type(i)]>>],
                  LAMBDA b: [f |-> "coddl_relation_when",
                             args |-> WordsOf(regs[b][i]) \o WordsOf(regs[b][c]) \o <<[desc |-> Type(i)]>>],
                  LAMBDA b: IF Expects(b, regs[b][c], Type(c)) THEN "ok" ELSE "invalid")

\* The relational operators.  Passed is the order in which the arms of emit_inst
\* pass the operands; Received is the order of the runtime's own declarations.
\* For a mutant: the operands grouped by kind instead of by side.
JoinOperandsByKind == <<"lhs", "rhs", "lhs_desc", "rhs_desc", "result_desc">>

JoinOperands == <<"lhs", "lhs_desc", "rhs", "rhs_desc", "result_desc">>
SetOperands == <<"lhs", "rhs", "desc">>
EqOperands == <<"lhs", "rhs", "desc">>
OtherwiseOperands == <<"lhs", "rhs">>
ProjectOperands == <<"lhs", "lhs_desc", "result_desc">>
RestructureOperands == <<"lhs", "lhs_desc", "result_desc">>
RenameOperands == <<"lhs", "lhs_desc", "result_desc", "perm", "perm_count">>
ExtendOperands == <<"lhs", "lhs_desc", "result_desc", "helper">>
WhereOperands == <<"lhs", "lhs_desc", "helper">>
GroupOperands == <<"lhs", "lhs_desc", "result_desc", "rva", "inner_descs", "rva_count">>
UngroupOperands == <<"lhs", "lhs_desc", "result_desc", "rva", "rva_count">>
ClosureOperands == <<"lhs", "lhs_desc">>
LoadOperands == <<"lhs", "lhs_desc", "keys", "key_count">>
CollectOperands == <<"lhs", "lhs_desc">>
WriteOperands == <<"lhs", "lhs_desc">>

Binary == {"coddl_relation_join", "coddl_relation_union", "coddl_relation_minus",
           "coddl_relation_eq", "coddl_relation_otherwise"}

Passed(f) ==
    CASE f = "coddl_relation_join"          -> JoinOperands
      [] f \in {"coddl_relation_union", "coddl_relation_minus"} -> SetOperands
      [] f = "coddl_relation_eq"            -> EqOperands
      [] f = "coddl_relation_otherwise"     -> OtherwiseOperands
      [] f = "coddl_relation_project"       -> ProjectOperands
      [] f = "coddl_relation_restructure"   -> RestructureOperands
      [] f = "coddl_relation_rename"        -> RenameOperands
      [] f = "coddl_relation_extend"        -> ExtendOperands
      [] f = "coddl_relation_where"         -> WhereOperands
      [] f = "coddl_relation_group"         -> GroupOperands
      [] f = "coddl_relation_ungroup"       -> UngroupOperands
      [] f = "coddl_relation_tclose"        -> ClosureOperands
      [] f = "coddl_load_ordered"           -> LoadOperands
      [] f = "coddl_relation_from_sequence" -> CollectOperands
      [] OTHER                              -> WriteOperands

Received ==
    [coddl_relation_join          |-> <<"lhs", "lhs_desc", "rhs", "rhs_desc", "result_desc">>,
     coddl_relation_union         |-> <<"lhs", "rhs", "desc">>,
     coddl_relation_minus         |-> <<"lhs", "rhs", "desc">>,
     coddl_relation_eq            |-> <<"lhs", "rhs", "desc">>,
     coddl_relation_otherwise     |-> <<"lhs", "rhs">>,
     coddl_relation_project       |-> <<"lhs", "lhs_desc", "result_desc">>,
     coddl_relation_restructure   |-> <<"lhs", "lhs_desc", "result_desc">>,
     coddl_relation_rename        |-> <<"lhs", "lhs_desc", "result_desc", "perm", "perm_count">>,
     coddl_relation_extend        |-> <<"lhs", "lhs_desc", "result_desc", "helper">>,
     coddl_relation_where         |-> <<"lhs", "lhs_desc", "helper">>,
     coddl_relation_group         |->
         <<"lhs", "lhs_desc", "result_desc", "rva", "inner_descs", "rva_count">>,
     coddl_relation_ungroup       |-> <<"lhs", "lhs_desc", "result_desc", "rva", "rva_count">>,
     coddl_relation_tclose        |-> <<"lhs", "lhs_desc">>,
     coddl_relation_from_sequence |-> <<"lhs", "lhs_desc">>,
     coddl_load_ordered           |-> <<"lhs", "lhs_desc", "keys", "key_count">>,
     coddl_write_relation         |-> <<"lhs", "lhs_desc">>]

\* What a role stands for: an operand's word, a descriptor of its type, or data
\* the compiler bakes in.
Actual(role, lhs, rhs, i, j) ==
    CASE role = "lhs" -> lhs
      [] role = "rhs" -> rhs
      [] role \in {"lhs_desc", "desc"} -> [desc |-> Type(i)]
      [] role = "rhs_desc" -> [desc |-> Type(j)]
      [] OTHER -> [baked |-> role]

CallRuntime ==
    \E f \in RuntimeCalls, i, j \in OfType("Relation"):
        /\ f \notin Binary => i = j
        /\ f \in Binary \ {"coddl_relation_join"} => Type(i) = Type(j)
        /\ UNCHANGED <<slot, cell>>
        /\ Effect([f |-> f,
                   args |-> [k \in DOMAIN Received[f] |->
                       Actual(Received[f][k], Encode(Type(i), Val(i))[1],
                              Encode(Type(j), Val(j))[1], i, j)]],
                  LAMBDA b: [f |-> f,
                   args |-> [k \in DOMAIN Passed(f) |->
                       Actual(Passed(f)[k], regs[b][i].w, regs[b][j].w, i, j)]],
                  LAMBDA b: "ok")

\* RelvarSlotStore moves the pointer into the slot; RelvarRead loads and retains.
SlotStore ==
    \E i \in OfType("Relation"):
        /\ slot' = values[i]
        /\ cell' = [b \in Backends |-> regs[b][i].w]
        /\ Effect([f |-> "coddl_relvar_slot_store", args |-> Encode(Type(i), Val(i))],
                  LAMBDA b: [f |-> "coddl_relvar_slot_store", args |-> WordsOf(regs[b][i])],
                  LAMBDA b: "ok")

RelvarRead ==
    /\ slot.ty.k = "Relation"
    /\ Define(slot.ty, slot.val, <<Retain(Encode(slot.ty, slot.val)[1])>>,
              LAMBDA b: [repr |-> ScalarRepr("ptr", cell[b], Id),
                         calls |-> <<Retain(cell[b])>>, status |-> "ok"])

(***************************************************************************)
(* The specification.                                                       *)
(***************************************************************************)
Unset == [ty |-> Scalar("Unit"), val |-> "none"]

Init ==
    /\ values = <<>> /\ effects = <<>> /\ loop = 0 /\ slot = Unset
    /\ regs = [b \in Backends |-> <<>>]
    /\ calls = [b \in Backends |-> <<>>]
    /\ cell = [b \in Backends |-> Garbage]
    /\ status = [b \in Backends |-> "ok"]

Next ==
    \/ Const \/ Equals \/ Concat \/ TupleLit \/ FieldAccess \/ RelationLit \/ Extract
    \/ Call \/ If \/ OpenLoop \/ CloseLoop \/ Query \/ Gate \/ CallRuntime
    \/ SlotStore \/ RelvarRead

Spec == Init /\ [][Next]_vars

(***************************************************************************)
(* Properties.                                                              *)
(***************************************************************************)
\* Both emitters accept every ProcIR function outside the excluded shapes, and
\* what they emit passes the verifier and agrees with the callee's declaration.
BothCompile == \A b \in Backends: status[b] = "ok"

\* What either backend's value map holds for a value is that value: wherever it
\* went - through a flattened or boxed tuple, a cell, a call, a merge, the relvar
\* slot - its words come back in place and whole.
RegistersMeanValues ==
    BothCompile =>
        \A b \in Backends: \A i \in Here: WordsOf(regs[b][i]) = Encode(Type(i), Val(i))

\* Both backends make the runtime calls the ProcIR asks for, in its order, with
\* the operands in the places where the runtime takes them; in particular every
\* Text and relation pointer put into a record is retained exactly once.
CallsAreAsked ==
    BothCompile => \A b \in Backends: calls[b] = effects
=============================================================================
