---------------------------- MODULE MCSqliteStore ----------------------------
(***************************************************************************)
(* Small programs for TLC.  A tuple is <<key, value>>; two tuples with one *)
(* key clash.  ReadPlans covers every way of firing a read on one          *)
(* database; WritePlans spreads reads and writes over two databases.       *)
(***************************************************************************)
EXTENDS SqliteStore, TLC

OnePath == "n1" :> "p1"
TwoPaths == [n \in {"n1", "n2"} |-> IF n = "n1" THEN "p1" ELSE "p2"]

a1 == <<"a", 1>>
a2 == <<"a", 2>>
b1 == <<"b", 1>>
TwoRows == {a1, b1}
ThreeRows == {a1, a2, b1}

SameKey(t) == \E r, s \in t : r # s /\ r[1] = s[1]

Entry == [kind |-> "read", db |-> "n1", params |-> 0, arity |-> << >>,
          absorbs |-> {}, gated |-> FALSE, alt |-> 0, dispatch |-> 0]

\* r matching S, and its sibling; (r matching S1) not matching S2; r when
\* gate; (r where k = ?) union S; delete a1.
ReadPlans == <<
    [Entry EXCEPT !.arity = <<1>>, !.absorbs = {1}, !.alt = 2, !.dispatch = 1],
    [Entry EXCEPT !.kind = "sibling", !.params = 1],
    [Entry EXCEPT !.arity = <<1, 2>>, !.absorbs = {1}],
    [Entry EXCEPT !.params = 1, !.gated = TRUE],
    [Entry EXCEPT !.params = 1, !.arity = <<1>>],
    [Entry EXCEPT !.kind = "dml"] >>

ReadMeaning(id, a, t) ==
    CASE id = 1 -> t \cap a.ships[1]
      [] id = 2 -> t \cap a.cells
      [] id = 3 -> (t \cap a.ships[1]) \ a.ships[2]
      [] id = 4 -> IF a.gate THEN t ELSE {}
      [] id = 5 -> t \cup a.ships[1]

ReadEffect(id, t) == t \ {a1}

\* On n1: read r, delete a1, rekey b1 to a.  On n2: insert.
WritePlans == <<
    Entry,
    [Entry EXCEPT !.kind = "dml"],
    [Entry EXCEPT !.kind = "dml"],
    [Entry EXCEPT !.kind = "insert", !.db = "n2", !.arity = <<2>>] >>

WriteMeaning(id, a, t) == t
WriteEffect(id, t) ==
    CASE id = 2 -> t \ {a1}
      [] id = 3 -> IF b1 \in t THEN (t \ {b1}) \cup {a2} ELSE t

=============================================================================
