-------------------------------- MODULE Cells --------------------------------
(***************************************************************************)
(* Records as the runtime lays them out: fixed-stride sequences of 8-byte  *)
(* words in name order of the attributes (coddl-procir/src/layout.rs), and *)
(* the comparison every in-process operator rests on (cmp_cell, record_cmp *)
(* in coddl-runtime/src/relation.rs).                                      *)
(*                                                                         *)
(* A cell is one or more words: a number, the two numbers of a Rational,   *)
(* the pointer and length of a Text, the words of an inline Tuple, the     *)
(* pointer of a nested Relation.  Pointers are addresses in a memory mem;  *)
(* a Text payload holds its bytes in .text, a relation its heading in      *)
(* .desc and its records in .rows.                                         *)
(***************************************************************************)
EXTENDS Headings

CONSTANTS
    Canonical,    \* all attribute names, in name order
    Base          \* how many values one byte of a word holds

ASSUME CanonicalAssumption == IsInjective(Canonical)

-----------------------------------------------------------------------------
(* The compiler's layout.                                                  *)

Attrs(h) == SelectSeq(Canonical, LAMBDA a : a \in DOMAIN h)

RECURSIVE Width(_), Widths(_, _)
Width(t) ==
    CASE t.kind \in {"Text", "Rational"} -> 2
      [] t.kind = "Tuple" -> Widths(t.sub, Attrs(t.sub))
      [] OTHER -> 1
Widths(h, attrs) ==
    IF attrs = << >> THEN 0 ELSE Width(h[Head(attrs)]) + Widths(h, Tail(attrs))

RecordSize(h) == Widths(h, Attrs(h))

Rank == [a \in ToSet(Canonical) |-> CHOOSE i \in DOMAIN Canonical : Canonical[i] = a]
Offset(h, a) == Widths(h, SelectSeq(Canonical, LAMBDA b : b \in DOMAIN h /\ Rank[b] < Rank[a]))

CellOf(rec, h, a) == SubSeq(rec, Offset(h, a) + 1, Offset(h, a) + Width(h[a]))

-----------------------------------------------------------------------------
(* The runtime's comparison.                                               *)

\* cell_width: a Rational takes four words here, two in the layout.
CellWidth(t) == CASE t.kind = "Text" -> 2 [] t.kind = "Rational" -> 4 [] OTHER -> 1

\* Orderings are -1, 0 and 1; Overrun is the panic of a slice out of bounds.
Overrun == 2
Sign(n) == IF n < 0 THEN -1 ELSE IF n > 0 THEN 1 ELSE 0
FirstDifference(ords) ==
    LET different == SelectSeq(ords, LAMBDA o : o # 0)
    IN IF different = << >> THEN 0 ELSE Head(different)
Lexicographic(s, t) ==
    LET shared == (DOMAIN s) \cap (DOMAIN t)
        first == FirstDifference([i \in 1 .. Cardinality(shared) |-> Sign(s[i] - t[i])])
    IN IF first # 0 THEN first ELSE Sign(Len(s) - Len(t))

\* The bytes of little-endian words.
Bytes(words) == FlattenSeq([i \in DOMAIN words |-> <<words[i] % Base, words[i] \div Base>>])

Slice(rec, off, w) == SubSeq(rec, off + 1, off + w)

RECURSIVE CmpCell(_, _, _, _, _, _)
RECURSIVE CmpNested(_, _, _)
RECURSIVE RecordCmp(_, _, _, _)

\* cmp_cell: by content, never by pointer; everything else as raw bytes.
CmpCell(mem, x, xoff, y, yoff, t) ==
    CASE t.kind = "Text" ->
            Lexicographic(mem[x[xoff + 1]].text, mem[y[yoff + 1]].text)
      [] t.kind = "Tuple" ->
            LET attrs == Attrs(t.sub)
            IN FirstDifference([i \in DOMAIN attrs |->
                LET at == Offset(t.sub, attrs[i])
                IN CmpCell(mem, x, xoff + at, y, yoff + at, t.sub[attrs[i]])])
      [] t.kind = "Relation" -> CmpNested(mem, x[xoff + 1], y[yoff + 1])
      [] OTHER ->
            LET w == CellWidth(t)
            IN IF xoff + w > Len(x) \/ yoff + w > Len(y) THEN Overrun
               ELSE Lexicographic(Bytes(Slice(x, xoff, w)), Bytes(Slice(y, yoff, w)))

\* cmp_nested_relation: cardinality, then record by record in stored order.
CmpNested(mem, p, q) ==
    CASE p = q -> 0
      [] Len(mem[p].rows) # Len(mem[q].rows) ->
            Sign(Len(mem[p].rows) - Len(mem[q].rows))
      [] OTHER ->
            FirstDifference([i \in DOMAIN mem[p].rows |->
                RecordCmp(mem, mem[p].rows[i], mem[q].rows[i], mem[p].desc)])

RecordCmp(mem, x, y, h) == CmpCell(mem, x, 0, y, 0, TupleType(h))

\* The cells of attribute a in x (heading hx) and of b in y (heading hy).
SameCell(mem, x, hx, a, y, hy, b) ==
    CmpCell(mem, x, Offset(hx, a), y, Offset(hy, b), hx[a]) = 0

-----------------------------------------------------------------------------
(* Sorting and dropping duplicates.                                        *)

\* sort_by on record indices: stable.
StablySorted(rows, Cmp(_, _)) ==
    LET Below(i, j) == LET o == Cmp(rows[i], rows[j]) IN o < 0 \/ (o = 0 /\ i < j)
        order == SortSeq([i \in DOMAIN rows |-> i], Below)
    IN [k \in DOMAIN rows |-> rows[order[k]]]

SortedRows(mem, rows, h) == StablySorted(rows, LAMBDA x, y : RecordCmp(mem, x, y, h))

\* dedup_records: sort, then keep the first record of each run of equals.
FirstOfRunByPointer(mem, sorted, h, i) == i = 1 \/ sorted[i - 1] # sorted[i]
FirstOfRun(mem, sorted, h, i) ==
    i = 1 \/ RecordCmp(mem, sorted[i - 1], sorted[i], h) # 0
PartsOfSorted(sorted, Keep(_)) ==
    LET kept == SelectSeq([i \in DOMAIN sorted |-> i], Keep)
        dropped == SelectSeq([i \in DOMAIN sorted |-> i], LAMBDA i : ~Keep(i))
    IN [kept |-> [k \in DOMAIN kept |-> sorted[kept[k]]],
        dropped |-> [k \in DOMAIN dropped |-> sorted[dropped[k]]]]
Dedup(mem, rows, h) ==
    LET sorted == SortedRows(mem, rows, h)
    IN PartsOfSorted(sorted, LAMBDA i : FirstOfRun(mem, sorted, h, i))

Canonically(mem, rows, h) == Dedup(mem, rows, h) = [kept |-> rows, dropped |-> << >>]

\* A comparison the sort makes runs past a record.
Overruns(mem, rows, h) ==
    \E i, j \in DOMAIN rows : i < j /\ RecordCmp(mem, rows[i], rows[j], h) = Overrun

-----------------------------------------------------------------------------
(* What cells point to and what they mean.                                 *)

\* walk_text_cells: the heap pointers of a record.
RECURSIVE Pointers(_, _)
Pointers(rec, h) ==
    FlattenSeq([i \in DOMAIN Attrs(h) |->
        LET a == Attrs(h)[i]
            cell == CellOf(rec, h, a)
        IN CASE h[a].kind \in {"Text", "Relation"} -> <<cell[1]>>
             [] h[a].kind = "Tuple" -> Pointers(cell, h[a].sub)
             [] OTHER -> << >>])

PointersOf(rows, h) == FlattenSeq([i \in DOMAIN rows |-> Pointers(rows[i], h)])

RECURSIVE Denoted(_, _, _)
Denoted(mem, cell, t) ==
    CASE t.kind = "Integer" -> cell[1]
      [] t.kind = "Rational" -> cell
      [] t.kind = "Text" -> mem[cell[1]].text
      [] t.kind = "Tuple" -> [a \in DOMAIN t.sub |-> Denoted(mem, CellOf(cell, t.sub, a), t.sub[a])]
      [] t.kind = "Relation" ->
            {Denoted(mem, rec, TupleType(t.of)) : rec \in ToSet(mem[cell[1]].rows)}

TuplesOf(mem, rows, h) ==
    [i \in DOMAIN rows |-> Denoted(mem, rows[i], TupleType(h))]
=============================================================================
