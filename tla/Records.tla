-------------------------------- MODULE Records --------------------------------
(***************************************************************************)
(* The in-process relational operators of coddl-runtime (relation.rs) on   *)
(* reference-counted payloads (rc.rs).                                     *)
(*                                                                         *)
(* mem maps live addresses to payloads [rc, kind, desc, rows, text].  The  *)
(* addresses of string constants are negative and their count is Immortal. *)
(* A variable holds an address and owns one reference to it.  A call runs  *)
(* to its end in one step, except transitive closure, which takes a step   *)
(* per round.                                                              *)
(***************************************************************************)
EXTENDS Cells

CONSTANTS
    Vars, Literals, Fetches, Projects, Renames, Wraps, Unwraps, Groups,
    Ungroups, Extends, Wheres, Orders, Nestings,    \* as in Values
    Constants,      \* the bytes of the string constants; two copies of each
    SealedCells,    \* TRUE: a literal nests only relations that are sealed
    MaxCalls        \* bound on the calls of a behaviour

VARIABLES
    mem,
    vars,      \* address held by each variable, Null for none
    work,      \* the transitive closure under way, Idle for none
    status,    \* "running", or "panic" after a slice out of bounds
    calls

state == <<mem, vars, work, status, calls>>

Null == 0
Immortal == 0
Idle == [on |-> FALSE]

RelationPayload(h, rows) == [rc |-> 1, kind |-> "Relation", desc |-> h, rows |-> rows, text |-> << >>]
TextPayload(bytes) == [rc |-> 1, kind |-> "Text", desc |-> << >>, rows |-> << >>, text |-> bytes]

\* intern_string: every occurrence of a constant has data of its own.
ConstantAddr(bytes, copy) == -(2 * SelectInSeq(Constants, LAMBDA c : c = bytes) + copy)

-----------------------------------------------------------------------------
(* Reference counts.                                                       *)

Fresh(m) == CHOOSE a \in 1 .. Cardinality(DOMAIN m) + 1 :
                /\ a \notin DOMAIN m
                /\ \A b \in 1 .. a - 1 : b \in DOMAIN m
Allocated(m, payload) == m @@ (Fresh(m) :> payload)

Retain(m, p) == IF m[p].rc = Immortal THEN m ELSE [m EXCEPT ![p].rc = @ + 1]

RECURSIVE Released(_, _)
\* coddl_rc_release and the drop walker.
Released(m, p) ==
    CASE p = Null \/ m[p].rc = Immortal -> m
      [] m[p].rc > 1 -> [m EXCEPT ![p].rc = @ - 1]
      [] OTHER -> FoldLeft(Released, Restrict(m, DOMAIN m \ {p}),
                           PointersOf(m[p].rows, m[p].desc))

RetainAll(m, ps) == FoldLeft(Retain, m, ps)
ReleaseAll(m, ps) == FoldLeft(Released, m, ps)

\* retain_text_cells
RetainCells(m, rows, h) == RetainAll(m, PointersOf(rows, h))

SealedForgetfully(m, a) ==
    [m EXCEPT ![a].rows = Dedup(m, m[a].rows, m[a].desc).kept]

\* coddl_relation_seal: sort, drop duplicates and release what they own.
Sealed(m, a) ==
    LET h == m[a].desc
        parts == Dedup(m, m[a].rows, h)
    IN IF RecordSize(h) = 0
       THEN [m EXCEPT ![a].rows = SubSeq(@, 1, IF @ = << >> THEN 0 ELSE 1)]
       ELSE ReleaseAll([m EXCEPT ![a].rows = parts.kept], PointersOf(parts.dropped, h))

-----------------------------------------------------------------------------
(* What an action does with its result.                                    *)

Holds(v, kind) == vars[v] # Null /\ mem[vars[v]].kind = kind
Rows(v) == mem[vars[v]].rows
Desc(v) == mem[vars[v]].desc

\* The program calls with a free variable as destination.
Call(v) == /\ status = "running" /\ work = Idle /\ calls < MaxCalls
           /\ vars[v] = Null /\ \A u \in Vars : u < v => vars[u] # Null
           /\ calls' = calls + 1

Deliver(v, m, a) ==
    mem' = m /\ vars' = [vars EXCEPT ![v] = a] /\ UNCHANGED <<work, status>>

Share(v, a) == Deliver(v, Retain(mem, a), a)

\* A new relation whose cells are copies: retained, then not sealed ...
Copied(v, h, rows) ==
    Deliver(v, RetainCells(Allocated(mem, RelationPayload(h, rows)), rows, h), Fresh(mem))

\* ... or sealed.
CopiedAndSealed(v, h, rows) ==
    IF Overruns(mem, rows, h)
    THEN status' = "panic" /\ UNCHANGED <<mem, vars, work>>
    ELSE LET a == Fresh(mem)
             m == RetainCells(Allocated(mem, RelationPayload(h, rows)), rows, h)
         IN Deliver(v, Sealed(m, a), a)

\* A record of heading h, put together cell by cell.
Assembled(h, Cell(_)) == FlattenSeq([i \in DOMAIN Attrs(h) |-> Cell(Attrs(h)[i])])
Each(rows, F(_)) == [i \in DOMAIN rows |-> F(rows[i])]

-----------------------------------------------------------------------------
(* Where relations come from.                                              *)

RECURSIVE Encoded(_, _, _)
\* The cell of a literal's value; Texts become pointers to constants.
Encoded(x, t, copy) ==
    CASE t.kind = "Text" -> <<ConstantAddr(x, copy), Len(x)>>
      [] t.kind = "Integer" -> <<x>>
      [] t.kind = "Rational" -> x
      [] t.kind = "Tuple" ->
            Assembled(t.sub, LAMBDA a : Encoded(x[a], t.sub[a], copy))

Literal(v) ==
    \E l \in Literals, copy \in {0, 1} :
        CopiedAndSealed(v, l.of, Each(l.list, LAMBDA t : Encoded(t, TupleType(l.of), copy)))

\* A literal {{name: <variable>, key: with}}: the payload is stored as it is.
Nest(v, u) ==
    \E n \in Nestings :
        /\ SealedCells => Canonically(mem, Rows(u), Desc(u))
        /\ LET h == (n.name :> RelationType(Desc(u))) @@ (n.key :> Text)
               Cell(a) == IF a = n.name THEN <<vars[u]>> ELSE Encoded(n.with, Text, 0)
           IN CopiedAndSealed(v, h, <<Assembled(h, Cell)>>)

\* finalize_relation: the rows of a query in the order the backend sent them,
\* each Text a payload of its own.
Materialized(m, t, h) ==
    FoldLeft(LAMBDA acc, a :
                 IF h[a].kind = "Text"
                 THEN [mem |-> Allocated(acc.mem, TextPayload(t[a])),
                       rec |-> acc.rec \o <<Fresh(acc.mem), Len(t[a])>>]
                 ELSE [acc EXCEPT !.rec = Append(@, t[a])],
             [mem |-> m, rec |-> << >>], Attrs(h))
Fetch(v) ==
    \E f \in Fetches : \E list \in SetToSeqs(f.body) :
        LET all == FoldLeft(LAMBDA acc, t :
                        LET one == Materialized(acc.mem, t, f.of)
                        IN [mem |-> one.mem, rows |-> Append(acc.rows, one.rec)],
                        [mem |-> mem, rows |-> << >>], list)
        IN Deliver(v, Allocated(all.mem, RelationPayload(f.of, all.rows)), Fresh(all.mem))

-----------------------------------------------------------------------------
(* Two operands.                                                           *)

Matches(x, hx, y, hy) == \A a \in Shared(hx, hy) : SameCell(mem, x, hx, a, y, hy, a)

\* coddl_relation_join: each result cell from the left side if it has it.
JoinRows(u, w, h) ==
    LET hu == Desc(u)  hw == Desc(w)
        Pair(x, y) == Assembled(h, LAMBDA a :
                          IF a \in DOMAIN hu THEN CellOf(x, hu, a) ELSE CellOf(y, hw, a))
        With(x) == Each(SelectSeq(Rows(w), LAMBDA y : Matches(x, hu, y, hw)),
                        LAMBDA y : Pair(x, y))
    IN FlattenSeq(Each(Rows(u), With))
Join(v, u, w) ==
    \E h \in JoinHeading(Desc(u), Desc(w)) \cup TimesHeading(Desc(u), Desc(w)) :
        CopiedAndSealed(v, h, JoinRows(u, w, h))

Union(v, u, w) == /\ Desc(u) = Desc(w)
                  /\ CopiedAndSealed(v, Desc(u), Rows(u) \o Rows(w))

HasRecordByPointer(m, rows, x, h) == \E i \in DOMAIN rows : x = rows[i]
HasRecord(m, rows, x, h) == \E i \in DOMAIN rows : RecordCmp(m, x, rows[i], h) = 0
Minus(v, u, w) ==
    /\ Desc(u) = Desc(w)
    /\ Copied(v, Desc(u), SelectSeq(Rows(u), LAMBDA x : ~HasRecord(mem, Rows(w), x, Desc(u))))

Otherwise(v, u, w) ==
    Desc(u) = Desc(w) /\ Share(v, IF Rows(u) # << >> THEN vars[u] ELSE vars[w])

\* coddl_relation_eq, coddl_relation_subset
RelationSubset(m, p, q, proper) ==
    /\ Len(m[p].rows) <= Len(m[q].rows)
    /\ proper => Len(m[p].rows) < Len(m[q].rows)
    /\ \A i \in DOMAIN m[p].rows : HasRecord(m, m[q].rows, m[p].rows[i], m[p].desc)
RelationEq(m, p, q) ==
    Len(m[p].rows) = Len(m[q].rows) /\ RelationSubset(m, p, q, FALSE)

-----------------------------------------------------------------------------
(* One operand.                                                            *)

When(v, u) ==
    \/ Share(v, vars[u])
    \/ Deliver(v, Allocated(mem, RelationPayload(Desc(u), << >>)), Fresh(mem))

\* coddl_relation_where with a predicate attr = value (coddl_text_eq).
Where(v, u) ==
    \E p \in Wheres :
        /\ p.attr \in DOMAIN Desc(u) /\ Desc(u)[p.attr] = Text
        /\ Copied(v, Desc(u), SelectSeq(Rows(u), LAMBDA x :
               Denoted(mem, CellOf(x, Desc(u), p.attr), Desc(u)[p.attr]) = p.value))

Project(v, u) ==
    \E p \in Projects : \E h \in ProjectHeading(Desc(u), p.names, p.allBut) :
        CopiedAndSealed(v, h, Each(Rows(u), LAMBDA x :
            Assembled(h, LAMBDA a : CellOf(x, Desc(u), a))))

Rename(v, u) ==
    \E r \in Renames : \E h \in RenameHeading(Desc(u), r) :
        LET Source(a) == IF a \in DOMAIN r THEN r[a] ELSE a
        IN CopiedAndSealed(v, h, Each(Rows(u), LAMBDA x :
               Assembled(h, LAMBDA a : CellOf(x, Desc(u), Source(a)))))

\* coddl_relation_extend: the helper keeps the source cells (and retains
\* them) and moves the text it computes (coddl_text_concat) into the record.
ExtendRow(acc, x, hu, h, ext) ==
    LET bytes == Denoted(acc.mem, CellOf(x, hu, ext.from), Text) \o ext.suffix
        m == Allocated(acc.mem, TextPayload(bytes))
        rec == Assembled(h, LAMBDA a : IF a = ext.name THEN <<Fresh(acc.mem), Len(bytes)>>
                                       ELSE CellOf(x, hu, a))
    IN [mem |-> RetainAll(m, Pointers(x, hu)), rows |-> Append(acc.rows, rec)]
Extend(v, u) ==
    \E ext \in Extends :
        /\ ext.from \in DOMAIN Desc(u) /\ Desc(u)[ext.from] = Text
        /\ \E h \in ExtendHeading(Desc(u), ext.name, Text) :
            LET all == FoldLeft(LAMBDA acc, x : ExtendRow(acc, x, Desc(u), h, ext),
                                [mem |-> mem, rows |-> << >>], Rows(u))
                a == Fresh(all.mem)
            IN Deliver(v, Sealed(Allocated(all.mem, RelationPayload(h, all.rows)), a), a)

\* flatten_leaves: [name, type, at] of the leaves, in layout order.
RECURSIVE Leaves(_, _)
Leaves(h, base) ==
    FlattenSeq([i \in DOMAIN Attrs(h) |->
        LET a == Attrs(h)[i]
        IN IF h[a].kind = "Tuple" THEN Leaves(h[a].sub, base + Offset(h, a))
           ELSE <<[name |-> a, width |-> Width(h[a]), at |-> base + Offset(h, a)]>>])
\* Leaves are matched by name; the first of that name is taken.
LeafNamed(leaves, name) == leaves[SelectInSeq(leaves, LAMBDA l : l.name = name)]
Restructured(x, from, to) ==
    FlattenSeq(Each(Leaves(to, 0), LAMBDA l :
        LET source == LeafNamed(Leaves(from, 0), l.name)
        IN SubSeq(x, source.at + 1, source.at + l.width)))
Restructure(v, u, h) ==
    CopiedAndSealed(v, h, Each(Rows(u), LAMBDA x : Restructured(x, Desc(u), h)))
Wrap(v, u) == \E p \in Wraps : \E h \in WrapHeading(Desc(u), p) : Restructure(v, u, h)
Unwrap(v, u) == \E names \in Unwraps : \E h \in UnwrapHeading(Desc(u), names) : Restructure(v, u, h)

-----------------------------------------------------------------------------
(* group and ungroup.                                                      *)

\* Survivors compare cell by cell, in name order.
SurvivorCmp(m, x, y, h, survivors) ==
    FirstDifference(Each(Attrs(Restrict(h, survivors)), LAMBDA a :
        CmpCell(m, x, Offset(h, a), y, Offset(h, a), h[a])))

RunsAsStored(m, rows, h, survivors) ==
    LET starts == SelectSeq([i \in DOMAIN rows |-> i],
                            LAMBDA i : i = 1 \/ SurvivorCmp(m, rows[i - 1], rows[i], h, survivors) # 0)
        Until(k) == IF k = Len(starts) THEN Len(rows) ELSE starts[k + 1] - 1
    IN [k \in DOMAIN starts |-> SubSeq(rows, starts[k], Until(k))]

\* The runs of equal survivors of the rows sorted by them.
Runs(m, rows, h, survivors) ==
    LET Cmp(x, y) == SurvivorCmp(m, x, y, h, survivors)
        sorted == StablySorted(rows, Cmp)
        starts == SelectSeq([i \in DOMAIN sorted |-> i],
                            LAMBDA i : i = 1 \/ Cmp(sorted[i - 1], sorted[i]) # 0)
        Until(k) == IF k = Len(starts) THEN Len(sorted) ELSE starts[k + 1] - 1
    IN [k \in DOMAIN starts |-> SubSeq(sorted, starts[k], Until(k))]

\* A nested payload: copied, retained, sealed, and moved into its cell.
NestedPayload(m, run, hu, inner) ==
    LET rows == Each(run, LAMBDA x : Assembled(inner, LAMBDA a : CellOf(x, hu, a)))
    IN Sealed(RetainCells(Allocated(m, RelationPayload(inner, rows)), rows, inner), Fresh(m))
GroupRun(acc, run, hu, h, pairs) ==
    LET new == Attrs(Restrict(h, DOMAIN pairs))
        kept == Restrict(h, DOMAIN h \ DOMAIN pairs)
        rep == run[1]
        nested == FoldLeft(LAMBDA n, a :
                      [mem |-> NestedPayload(n.mem, run, hu, h[a].of),
                       at |-> n.at @@ (a :> Fresh(n.mem))],
                      [mem |-> acc.mem, at |-> << >>], new)
        Cell(a) == IF a \in DOMAIN pairs THEN <<nested.at[a]>> ELSE CellOf(rep, hu, a)
    IN [mem |-> RetainAll(nested.mem, Pointers(Assembled(kept, Cell), kept)),
        rows |-> Append(acc.rows, Assembled(h, Cell))]
Group(v, u) ==
    \E p \in Groups : \E h \in GroupHeading(Desc(u), p) :
        LET all == FoldLeft(LAMBDA acc, run : GroupRun(acc, run, Desc(u), h, p),
                       [mem |-> mem, rows |-> << >>],
                       Runs(mem, Rows(u), Desc(u), DOMAIN Desc(u) \ Consumed(p)))
        IN Deliver(v, Allocated(all.mem, RelationPayload(h, all.rows)), Fresh(all.mem))

\* The odometer over the relation cells named by `names`.
RECURSIVE Combinations(_)
Combinations(lists) ==
    IF lists = << >> THEN << << >> >>
    ELSE FlattenSeq(Each(Combinations(Tail(lists)), LAMBDA c :
             Each(Head(lists), LAMBDA x : <<x>> \o c)))
UngroupRow(x, hu, h, names) ==
    LET nested == Attrs(Restrict(hu, names))
        Source(a, c) ==
            IF a \in DOMAIN hu \ names THEN CellOf(x, hu, a)
            ELSE LET k == SelectInSeq(nested, LAMBDA n : a \in DOMAIN hu[n].of)
                 IN CellOf(c[k], hu[nested[k]].of, a)
    IN Each(Combinations(Each(nested, LAMBDA n : mem[CellOf(x, hu, n)[1]].rows)),
            LAMBDA c : Assembled(h, LAMBDA a : Source(a, c)))
Ungroup(v, u) ==
    \E names \in Ungroups : \E h \in UngroupHeading(Desc(u), names) :
        CopiedAndSealed(v, h, FlattenSeq(Each(Rows(u), LAMBDA x : UngroupRow(x, Desc(u), h, names))))

-----------------------------------------------------------------------------
(* Sequences and relvar slots.                                             *)

\* coddl_load_ordered: a stable sort on one key.
Load(v, u) ==
    \E o \in Orders :
        /\ o.attr \in DOMAIN Desc(u)
        /\ Desc(u)[o.attr].kind \notin {"Tuple", "Relation"}    \* T0082
        /\ LET h == Desc(u)
               Cmp(x, y) == (IF o.desc THEN -1 ELSE 1) *
                   CmpCell(mem, x, Offset(h, o.attr), y, Offset(h, o.attr), h[o.attr])
               rows == StablySorted(Rows(u), Cmp)
               payload == [RelationPayload(h, rows) EXCEPT !.kind = "Sequence"]
           IN Deliver(v, RetainCells(Allocated(mem, payload), rows, h), Fresh(mem))

Collect(v, u) == CopiedAndSealed(v, Desc(u), Rows(u))

\* coddl_relvar_slot_store: releases the old value and takes the new one.
Store(v, u) ==
    /\ status = "running" /\ work = Idle /\ calls < MaxCalls
    /\ u # v /\ Holds(v, "Relation") /\ Holds(u, "Relation") /\ Desc(u) = Desc(v)
    /\ mem' = Released(mem, vars[v])
    /\ vars' = [vars EXCEPT ![v] = vars[u], ![u] = Null]
    /\ calls' = calls + 1 /\ UNCHANGED <<work, status>>

Release(v) ==
    /\ status = "running" /\ work = Idle /\ vars[v] # Null /\ calls < MaxCalls
    /\ mem' = Released(mem, vars[v])
    /\ vars' = [vars EXCEPT ![v] = Null]
    /\ calls' = calls + 1 /\ UNCHANGED <<work, status>>

-----------------------------------------------------------------------------
(* coddl_relation_tclose.                                                  *)

TClose(v, u) ==
    /\ TcloseHeading(Desc(u), {}) # {}
    /\ work' = [on |-> TRUE, from |-> u, to |-> v, acc |-> Rows(u), turn |-> 0]
    /\ UNCHANGED <<mem, vars, status>>

\* Each accumulated pair composed with each of the operand's own.
Composed(acc, edges, h) ==
    LET a == Attrs(h)[1]
        b == Attrs(h)[2]
        From(r) == SelectSeq(edges, LAMBDA e : SameCell(mem, r, h, b, e, h, a))
    IN FlattenSeq(Each(acc, LAMBDA r :
           Each(From(r), LAMBDA e : CellOf(r, h, a) \o CellOf(e, h, b))))

\* The working rows are not retained: their duplicates are just dropped.
NextAcc(acc, edges, h) ==
    LET round == Composed(acc, edges, h)
    IN IF round = << >> THEN acc ELSE Dedup(mem, acc \o round, h).kept
SettledWhenEmpty(acc, edges, h) == Composed(acc, edges, h) = << >>
Settled(acc, edges, h) ==
    Composed(acc, edges, h) = << >> \/ Len(NextAcc(acc, edges, h)) = Len(acc)

Round ==
    /\ work.on
    /\ LET u == work.from
           acc == NextAcc(work.acc, Rows(u), Desc(u))
       IN IF Settled(work.acc, Rows(u), Desc(u))
          THEN /\ work' = Idle
               /\ mem' = RetainCells(Allocated(mem, RelationPayload(Desc(u), acc)), acc, Desc(u))
               /\ vars' = [vars EXCEPT ![work.to] = Fresh(mem)]
          ELSE work' = [work EXCEPT !.acc = acc, !.turn = 1 - @] /\ UNCHANGED <<mem, vars>>
    /\ UNCHANGED <<status, calls>>

-----------------------------------------------------------------------------
Init ==
    /\ mem = [a \in {ConstantAddr(s, c) : s \in ToSet(Constants), c \in {0, 1}} |->
                [TextPayload(Constants[(-a) \div 2]) EXCEPT !.rc = Immortal]]
    /\ vars = [v \in Vars |-> Null]
    /\ work = Idle /\ status = "running" /\ calls = 0

Unary(v, u) ==
    \/ Nest(v, u) \/ When(v, u) \/ Where(v, u) \/ Project(v, u) \/ Rename(v, u)
    \/ Extend(v, u) \/ Wrap(v, u) \/ Unwrap(v, u) \/ Group(v, u) \/ Ungroup(v, u)
    \/ TClose(v, u) \/ Load(v, u)
Binary(v, u, w) == Join(v, u, w) \/ Union(v, u, w) \/ Minus(v, u, w) \/ Otherwise(v, u, w)

Next ==
    \/ Round
    \/ \E v \in Vars :
        \/ Release(v)
        \/ \E u \in Vars : Store(v, u)
        \/ /\ Call(v)
           /\ \/ Literal(v) \/ Fetch(v)
              \/ \E u \in Vars :
                  \/ Holds(u, "Sequence") /\ Collect(v, u)
                  \/ Holds(u, "Relation") /\ Unary(v, u)
                  \/ \E w \in Vars : Holds(u, "Relation") /\ Holds(w, "Relation") /\ Binary(v, u, w)

\* WF_state(Round), its enabling condition written out: the loop runs on.
\* (The turn of work alternates, so every round is a step.)
RoundFairness == []<>(~work.on) \/ []<><<Round>>_state

Spec == Init /\ [][Next]_state /\ RoundFairness

-----------------------------------------------------------------------------
(* Properties.                                                             *)

Owners(p) == Cardinality({v \in Vars : vars[v] = p})
OwningCells(p) ==
    FoldSet(LAMBDA a, n : n + Len(SelectSeq(PointersOf(mem[a].rows, mem[a].desc), LAMBDA q : q = p)),
            0, DOMAIN mem)

\* Every reference is counted and every payload is owned: a count is the
\* number of cells and variables that point to the payload, so nothing is
\* freed early and nothing is kept for ever (docs/memory.md, rc.rs).
CountsAreExact ==
    /\ \A v \in Vars : vars[v] # Null => vars[v] \in DOMAIN mem
    /\ \A a \in DOMAIN mem :
          /\ ToSet(PointersOf(mem[a].rows, mem[a].desc)) \subseteq DOMAIN mem
          /\ a > 0 => mem[a].rc = Owners(a) + OwningCells(a) /\ mem[a].rc > 0

\* RM Pro 3: no relation, at whatever depth, holds a tuple twice, whatever
\* pointers its texts and nested relations came by.
NoDuplicates ==
    \A a \in DOMAIN mem : mem[a].kind = "Relation" =>
        Cardinality(ToSet(TuplesOf(mem, mem[a].rows, mem[a].desc))) = Len(mem[a].rows)

\* RM Pre 8: =, <= and < on relations compare the sets of tuples they denote.
EqualityIsSetEquality ==
    status = "running" =>
    \A u, w \in {v \in Vars : Holds(v, "Relation")} : Desc(u) = Desc(w) =>
        LET p == vars[u]  q == vars[w]
            left == ToSet(TuplesOf(mem, Rows(u), Desc(u)))
            right == ToSet(TuplesOf(mem, Rows(w), Desc(w)))
        IN /\ RelationEq(mem, p, q) <=> left = right
           /\ RelationSubset(mem, p, q, FALSE) <=> left \subseteq right
           /\ RelationSubset(mem, p, q, TRUE) <=> left \subseteq right /\ left # right

\* A transitive closure once started comes to its end.
ClosureEnds == work.on ~> ~work.on

\* What variable v means: the value Values gives it.
Abstract(v) ==
    CASE vars[v] = Null -> [kind |-> "None"]
      [] Holds(v, "Relation") ->
            [kind |-> "Relation", of |-> Desc(v), body |-> ToSet(TuplesOf(mem, Rows(v), Desc(v)))]
      [] OTHER ->
            [kind |-> "Sequence", of |-> Desc(v), list |-> TuplesOf(mem, Rows(v), Desc(v))]
=============================================================================
