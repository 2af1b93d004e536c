-------------------------------- MODULE Values --------------------------------
(***************************************************************************)
(* What the in-process relational operators promise: variables hold        *)
(* values, a relation is a set of tuples, and each operator is the one of  *)
(* the relational algebra.  Records implements it.                         *)
(***************************************************************************)
EXTENDS Headings

CONSTANTS
    Vars,        \* the program's variables: 1 .. n
    Literals,    \* relation literals: [of: heading, list: sequence of tuples]
    Fetches,     \* query results: [of: heading, body: set of tuples]
    Projects,    \* {[names, allBut]}
    Renames,     \* {new -> old}
    Wraps,       \* {new -> components}
    Unwraps,     \* {attributes}
    Groups,      \* {new -> components}
    Ungroups,    \* {attributes}
    Extends,     \* {[name, from, suffix]}: name := from || suffix
    Wheres,      \* {[attr, value]}: attr = value
    Orders,      \* {[attr, desc]}: load .. order [attr]
    Nestings     \* {[name, key, with]}: a literal {{name: <variable>, key: with}}

VARIABLE value

None == [kind |-> "None"]
RelationOf(h, tuples) == [kind |-> "Relation", of |-> h, body |-> tuples]
SequenceOf(h, list) == [kind |-> "Sequence", of |-> h, list |-> list]

Is(v, kind) == value[v].kind = kind
Heading(v) == value[v].of
Body(v) == value[v].body
\* (The kinds and headings first, so that TLC compares like with like.)
Gets(v, val) ==
    /\ value'[v].kind = val.kind
    /\ value'[v].of = val.of
    /\ value' = [value EXCEPT ![v] = val]
Become(v, h, tuples) == Gets(v, RelationOf(h, tuples))

Init == value = [v \in Vars |-> None]

Literal(v) == \E l \in Literals : Become(v, l.of, ToSet(l.list))
Fetch(v) == \E f \in Fetches : Become(v, f.of, f.body)
Nest(v, u) ==
    \E n \in Nestings :
        Become(v, (n.name :> RelationType(Heading(u))) @@ (n.key :> Text),
               {(n.name :> Body(u)) @@ (n.key :> n.with)})

-----------------------------------------------------------------------------
Joined(r, s) ==
    {t @@ u : <<t, u>> \in
        {p \in r \X s : \A a \in DOMAIN p[1] \cap DOMAIN p[2] : p[1][a] = p[2][a]}}
Join(v, u, w) ==
    \E h \in JoinHeading(Heading(u), Heading(w)) \cup TimesHeading(Heading(u), Heading(w)) :
        Become(v, h, Joined(Body(u), Body(w)))

Union(v, u, w) == \E h \in IdenticalHeading(Heading(u), Heading(w)) :
                      Become(v, h, Body(u) \cup Body(w))
Minus(v, u, w) == \E h \in IdenticalHeading(Heading(u), Heading(w)) :
                      Become(v, h, Body(u) \ Body(w))
Otherwise(v, u, w) ==
    \E h \in IdenticalHeading(Heading(u), Heading(w)) :
        Become(v, h, IF Body(u) # {} THEN Body(u) ELSE Body(w))
When(v, u) == \E c \in BOOLEAN : Become(v, Heading(u), IF c THEN Body(u) ELSE {})
Where(v, u) ==
    \E p \in Wheres : /\ p.attr \in DOMAIN Heading(u) /\ Heading(u)[p.attr] = Text
                      /\ Become(v, Heading(u), {t \in Body(u) : t[p.attr] = p.value})

Project(v, u) ==
    \E p \in Projects : \E h \in ProjectHeading(Heading(u), p.names, p.allBut) :
        Become(v, h, {Restrict(t, DOMAIN h) : t \in Body(u)})
Rename(v, u) ==
    \E r \in Renames : \E h \in RenameHeading(Heading(u), r) :
        Become(v, h, {[a \in DOMAIN h |-> IF a \in DOMAIN r THEN t[r[a]] ELSE t[a]] : t \in Body(u)})
Extend(v, u) ==
    \E x \in Extends :
        /\ x.from \in DOMAIN Heading(u) /\ Heading(u)[x.from] = Text
        /\ \E h \in ExtendHeading(Heading(u), x.name, Text) :
               Become(v, h, {t @@ (x.name :> (t[x.from] \o x.suffix)) : t \in Body(u)})

Wrap(v, u) ==
    \E p \in Wraps : \E h \in WrapHeading(Heading(u), p) :
        Become(v, h, {[n \in DOMAIN h |-> IF n \in DOMAIN p THEN Restrict(t, p[n]) ELSE t[n]] : t \in Body(u)})
Unwrap(v, u) ==
    \E names \in Unwraps : \E h \in UnwrapHeading(Heading(u), names) :
        Become(v, h, {Restrict(FoldSet(LAMBDA n, s : t[n] @@ s, Removed(t, names), names), DOMAIN h) : t \in Body(u)})

SameSurvivors(t, s, p) == Removed(t, Consumed(p)) = Removed(s, Consumed(p))
Group(v, u) ==
    \E p \in Groups : \E h \in GroupHeading(Heading(u), p) :
        Become(v, h,
            {[n \in DOMAIN h |->
                IF n \in DOMAIN p
                THEN {Restrict(s, p[n]) : s \in {s \in Body(u) : SameSurvivors(t, s, p)}}
                ELSE t[n]] : t \in Body(u)})
Ungroup(v, u) ==
    \E names \in Ungroups : \E h \in UngroupHeading(Heading(u), names) :
        Become(v, h, UNION {
            FoldSet(LAMBDA n, r : Joined(r, t[n]), {Removed(t, names)}, names) : t \in Body(u)})

\* The pairs a path connects.
Closure(pairs) ==
    LET nodes == {p[1] : p \in pairs} \cup {p[2] : p \in pairs}
        Step(r, k) == r \cup {<<p[1], q[2]>> : <<p, q>> \in {pq \in r \X r : pq[1][2] = pq[2][1]}}
    IN FoldLeft(Step, pairs, [k \in 1 .. Cardinality(nodes) |-> k])
TClose(v, u) ==
    \E h \in TcloseHeading(Heading(u), {}) :
        LET a == CHOOSE x \in DOMAIN h : TRUE
            b == CHOOSE x \in DOMAIN h : x # a
        IN Become(v, h, {(a :> p[1]) @@ (b :> p[2]) : p \in Closure({<<t[a], t[b]>> : t \in Body(u)})})

-----------------------------------------------------------------------------
\* Texts compare as their bytes, integers as numbers.
Below(x, y, type) ==
    IF type = Integer THEN x < y
    ELSE \E k \in 1 .. Len(x) + Len(y) :
            /\ k <= Len(y)
            /\ \A i \in 1 .. k - 1 : i <= Len(x) /\ x[i] = y[i]
            /\ k > Len(x) \/ x[k] < y[k]

\* load .. order: any arrangement of the tuples the keys allow.
Arranged(list, attr, desc, h) ==
    \A i, j \in DOMAIN list : i < j =>
        ~(IF desc THEN Below(list[i][attr], list[j][attr], h[attr])
          ELSE Below(list[j][attr], list[i][attr], h[attr]))
Load(v, u) ==
    \E o \in Orders : \E list \in SetToSeqs(Body(u)) :
        /\ o.attr \in DOMAIN Heading(u) /\ Heading(u)[o.attr].kind \notin {"Tuple", "Relation"}
        /\ Arranged(list, o.attr, o.desc, Heading(u))
        /\ Gets(v, SequenceOf(Heading(u), list))
Collect(v, u) == Become(v, Heading(u), ToSet(value[u].list))

\* v := u for a relvar slot: the value moves.
Store(v, u) == value' = [value EXCEPT ![v] = value[u], ![u] = None]
Release(v) == value' = [value EXCEPT ![v] = None]

-----------------------------------------------------------------------------
Next ==
    \E v \in Vars :
        \/ ~Is(v, "None") /\ Release(v)
        \/ Is(v, "None") /\ (Literal(v) \/ Fetch(v))
        \/ \E u \in Vars :
              \/ Is(v, "None") /\ Is(u, "Sequence") /\ Collect(v, u)
              \/ Is(v, "Relation") /\ Is(u, "Relation") /\ u # v /\ Heading(u) = Heading(v) /\ Store(v, u)
              \/ /\ Is(v, "None") /\ Is(u, "Relation")
                 /\ \/ Nest(v, u) \/ When(v, u) \/ Where(v, u)
                    \/ Project(v, u) \/ Rename(v, u) \/ Extend(v, u)
                    \/ Wrap(v, u) \/ Unwrap(v, u) \/ Group(v, u) \/ Ungroup(v, u)
                    \/ TClose(v, u) \/ Load(v, u)
                    \/ \E w \in Vars : /\ Is(w, "Relation")
                                       /\ \/ Join(v, u, w) \/ Union(v, u, w)
                                          \/ Minus(v, u, w) \/ Otherwise(v, u, w)

Spec == Init /\ [][Next]_value
=============================================================================
