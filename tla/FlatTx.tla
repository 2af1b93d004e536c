------------------------------- MODULE FlatTx -------------------------------
(***************************************************************************)
(* What the runtime's transaction brackets promise a Coddl program,        *)
(* without connections, nesting counters or shipped temp tables.           *)
(*                                                                         *)
(* `transaction [ ... ]` brackets nest, but nesting is transparent: all    *)
(* brackets together are ONE transaction per database.  Reads see the      *)
(* program's own uncommitted writes, nothing is published while a bracket  *)
(* is open, and a crash leaves each database as last published.  A write   *)
(* outside every bracket is published at once, and by itself: what takes   *)
(* several such writes may stop after any of them.                         *)
(***************************************************************************)
EXTENDS Naturals

CONSTANTS
    Paths,             \* the databases, named by their resolved path
    Rows,              \* the tuples a relvar may hold
    Queries,           \* the static queries of the program
    PathOfQuery,       \* the database each query reads
    NoAnswer,          \* no query has been answered
    Meaning(_, _, _)   \* Meaning(q, args, table): the relation q denotes

VARIABLES
    level,       \* how many brackets the program has open
    committed,   \* what a fresh connection would read
    pending,     \* what the program reads
    active,      \* whether a database holds an unpublished transaction
    answer       \* the last query answered: [plan, args, rows]

vars == <<level, committed, pending, active, answer>>

Init ==
    /\ level = 0
    /\ committed \in [Paths -> SUBSET Rows]
    /\ pending = committed
    /\ active = [p \in Paths |-> FALSE]
    /\ answer = NoAnswer

Open(p) == level > 0 /\ active[p]
Settled == level = 0 /\ \A p \in Paths : ~active[p]

\* A new outermost bracket opens only once the previous one has settled.
Enter ==
    /\ level > 0 \/ Settled
    /\ level' = level + 1
    /\ UNCHANGED <<committed, pending, active, answer>>

Leave ==
    /\ level > 0
    /\ level' = level - 1
    /\ UNCHANGED <<committed, pending, active, answer>>

Join(p) ==
    /\ level > 0
    /\ ~active[p]
    /\ active' = [active EXCEPT ![p] = TRUE]
    /\ UNCHANGED <<level, committed, pending, answer>>

Write(p) ==
    /\ Open(p)
    /\ \E t \in SUBSET Rows : pending' = [pending EXCEPT ![p] = t]
    /\ UNCHANGED <<level, committed, active, answer>>

\* Autocommit: one write, published with the statement that makes it.
WriteThrough(p) ==
    /\ Settled
    /\ \E t \in SUBSET Rows : /\ pending' = [pending EXCEPT ![p] = t]
                             /\ committed' = [committed EXCEPT ![p] = t]
    /\ UNCHANGED <<level, active, answer>>

Answer(q) ==
    /\ Open(PathOfQuery[q]) \/ Settled
    /\ UNCHANGED <<level, committed, pending, active>>
    /\ answer'.plan = q
    /\ answer'.rows = Meaning(q, answer'.args, pending[PathOfQuery[q]])

Publish(p) ==
    /\ level = 0
    /\ active[p]
    /\ committed' = [committed EXCEPT ![p] = pending[p]]
    /\ active' = [active EXCEPT ![p] = FALSE]
    /\ UNCHANGED <<level, pending, answer>>

Discard(p) ==
    /\ level = 0
    /\ active[p]
    /\ pending' = [pending EXCEPT ![p] = committed[p]]
    /\ active' = [active EXCEPT ![p] = FALSE]
    /\ UNCHANGED <<level, committed, answer>>

\* The program ends, by itself or not: whatever was not published is gone.
Stop ==
    /\ level' = 0
    /\ pending' = committed
    /\ active' = [p \in Paths |-> FALSE]
    /\ answer' = NoAnswer
    /\ UNCHANGED committed

Next ==
    \/ Enter \/ Leave \/ Stop
    \/ \E p \in Paths : Join(p) \/ Write(p) \/ WriteThrough(p) \/ Publish(p) \/ Discard(p)
    \/ \E q \in Queries : Answer(q)

Spec == Init /\ [][Next]_vars
=============================================================================
