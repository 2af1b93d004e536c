------------------------------- MODULE Headings -------------------------------
(***************************************************************************)
(* Headings and the typing rules of the relational operators               *)
(* (coddl-types/src/ty.rs, checker.rs).                                    *)
(*                                                                         *)
(* A heading is a function from attribute names to types, a type a record  *)
(* [kind], with [sub] for a Tuple and [of] for a Relation.  A typing rule  *)
(* returns the set of headings of its result: {} when the checker reports  *)
(* an error, one heading otherwise.  Lists of pairs new : old... become    *)
(* functions from new names; a list that repeats an attribute (T0028,      *)
(* T0031) is no such function and is left out.                             *)
(***************************************************************************)
EXTENDS Integers, Sequences, SequencesExt, FiniteSets, Functions, TLC

Integer == [kind |-> "Integer"]
Rational == [kind |-> "Rational"]
Text == [kind |-> "Text"]
TupleType(h) == [kind |-> "Tuple", sub |-> h]
RelationType(h) == [kind |-> "Relation", of |-> h]

Accept(condition, h) == IF condition THEN {h} ELSE {}
Over(names, f, g) == [a \in names |-> IF a \in DOMAIN f THEN f[a] ELSE g[a]]
Removed(h, names) == Restrict(h, DOMAIN h \ names)
Consumed(parts) == UNION Range(parts)
Overlap(parts) == \E n, m \in DOMAIN parts : n # m /\ parts[n] \cap parts[m] # {}

-----------------------------------------------------------------------------
(* One operand.                                                            *)

\* project {..}, project all but {..}
ProjectHeading(h, names, allBut) ==
    Accept(names \subseteq DOMAIN h, IF allBut THEN Removed(h, names) ELSE Restrict(h, names))

\* The rule wrap and group share: every pair consumes components of its own,
\* and no new name meets a surviving one.
NestedHeading(h, pairs, Constructor(_)) ==
    LET survivors == DOMAIN h \ Consumed(pairs)
    IN Accept(/\ Consumed(pairs) \subseteq DOMAIN h
              /\ ~Overlap(pairs)
              /\ survivors \cap DOMAIN pairs = {},
              Over(survivors \cup DOMAIN pairs,
                   [n \in DOMAIN pairs |-> Constructor(Restrict(h, pairs[n]))], h))
WrapHeading(h, pairs) == NestedHeading(h, pairs, TupleType)
GroupHeading(h, pairs) == NestedHeading(h, pairs, RelationType)

\* The rule unwrap and ungroup share.
LiftedHeading(h, names, kind, Inner(_)) ==
    IF names \subseteq DOMAIN h /\ \A n \in names : h[n].kind = kind
    THEN LET survivors == DOMAIN h \ names
             inner == [n \in names |-> DOMAIN Inner(h[n])]
             holder(a) == CHOOSE n \in names : a \in inner[n]
         IN Accept(~Overlap(inner) /\ survivors \cap Consumed(inner) = {},
                   Over(survivors \cup Consumed(inner),
                        [a \in Consumed(inner) |-> Inner(h[holder(a)])[a]], h))
    ELSE {}
UnwrapHeading(h, names) == LiftedHeading(h, names, "Tuple", LAMBDA t : t.sub)
UngroupHeading(h, names) == LiftedHeading(h, names, "Relation", LAMBDA t : t.of)

\* rename {new : old, ..}: no attribute is renamed twice.
RenameHeading(h, renames) ==
    LET old == Range(renames)
    IN Accept(/\ old \subseteq DOMAIN h
              /\ IsInjective(renames)
              /\ (DOMAIN h \ old) \cap DOMAIN renames = {},
              Over((DOMAIN h \ old) \cup DOMAIN renames,
                   [n \in DOMAIN renames |-> h[renames[n]]], h))

\* extend {new : value}: a fresh name, a value of Integer or Text.
ExtendHeading(h, name, type) ==
    Accept(name \notin DOMAIN h /\ type \in {Integer, Text},
           Over(DOMAIN h \cup {name}, name :> type, h))

\* replace {new : value}: drops the attributes the value reads.
ReplaceHeading(h, name, type, reads) ==
    Accept(/\ reads # {} /\ reads \subseteq DOMAIN h
           /\ type \in {Integer, Text}
           /\ name \notin DOMAIN h \ reads,
           Over((DOMAIN h \ reads) \cup {name}, name :> type, h))

\* tclose {a, b}: with no list, all attributes; exactly two of one type.
TcloseHeading(h, names) ==
    LET picked == IF names = {} THEN DOMAIN h ELSE names
    IN Accept(/\ picked \subseteq DOMAIN h
              /\ Cardinality(picked) = 2
              /\ \A a, b \in picked : h[a] = h[b],
              Restrict(h, picked))

-----------------------------------------------------------------------------
(* Two operands.                                                           *)

Shared(h, k) == DOMAIN h \cap DOMAIN k
Agree(h, k) == \A a \in Shared(h, k) : h[a] = k[a]
Merged(h, k) == Over(DOMAIN h \cup DOMAIN k, h, k)

JoinHeading(h, k) == Accept(h # k /\ Shared(h, k) # {} /\ Agree(h, k), Merged(h, k))
TimesHeading(h, k) == Accept(Shared(h, k) = {}, Merged(h, k))
ComposeHeading(h, k) == {Removed(m, Shared(h, k)) : m \in JoinHeading(h, k)}
MatchingHeading(h, k) == {h : m \in JoinHeading(h, k)}
IdenticalHeading(h, k) == Accept(h = k, h)   \* intersect, union, minus, otherwise
=============================================================================
