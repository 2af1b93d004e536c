--------------------------- MODULE PublicWrite_proofs ---------------------------
(***************************************************************************)
(* Theorems about PublicWrite: what a statement is lowered to, run         *)
(* instruction by instruction, is the assignment, insertion, deletion,     *)
(* update or read that was asked for.                                      *)
(***************************************************************************)
EXTENDS PublicWrite, SqlEmit_proofs

-----------------------------------------------------------------------------
(* Trees rooted in the target.                                             *)

RootedStep(p, x, f) == x = TargetRef \/ (x.op = "restrict" /\ f[x.in])
RRooted == INSTANCE Recursion WITH Dom <- Trees, Depth <- TreeHeight, Step <- RootedStep

LEMMA RootedDef == RootedInTarget = [x \in Trees |-> RootedStep(0, x, RootedInTarget)]
<1>1. RRooted!Local
  BY TreesAssumption DEF RRooted!Local, RootedStep, Below, TreeLeaf, Binary
<1>2. \E f : f = [x \in Trees |-> RootedStep(0, x, f)]
  BY <1>1, RRooted!Defined
<1> QED BY <1>2 DEF RootedInTarget, RootedStep

ConjunctsStep(p, x, f) == IF x.op = "restrict" THEN f[x.in] \cup {x.pred} ELSE {}
RConjuncts == INSTANCE Recursion WITH Dom <- Trees, Depth <- TreeHeight, Step <- ConjunctsStep

LEMMA ConjunctsDef == Conjuncts = [x \in Trees |-> ConjunctsStep(0, x, Conjuncts)]
<1>1. RConjuncts!Local
  BY TreesAssumption DEF RConjuncts!Local, ConjunctsStep, Below, TreeLeaf, Binary
<1>2. \E f : f = [x \in Trees |-> ConjunctsStep(0, x, f)]
  BY <1>1, RConjuncts!Defined
<1> QED BY <1>2 DEF Conjuncts, ConjunctsStep

LEMMA TargetRefShape ==
    /\ TargetRef.op = "ref" /\ TargetRef.name = Target
    /\ TargetExpr.op = "relvar" /\ TargetExpr.name = Target
BY DEF TargetRef, Ref, TargetExpr

LEMMA RootedFacts ==
    ASSUME NEW x \in Trees
    PROVE  /\ x = TargetRef => RootedInTarget[x] /\ Conjuncts[x] = {}
           /\ x.op = "restrict" => /\ RootedInTarget[x] <=> RootedInTarget[x.in]
                                   /\ Conjuncts[x] = Conjuncts[x.in] \cup {x.pred}
           /\ RootedInTarget[x] => x = TargetRef \/ x.op = "restrict"
<1>1. RootedInTarget[x] = RootedStep(0, x, RootedInTarget)
  BY RootedDef
<1>2. Conjuncts[x] = ConjunctsStep(0, x, Conjuncts)
  BY ConjunctsDef
<1> QED BY <1>1, <1>2, TargetRefShape DEF RootedStep, ConjunctsStep

\* The rows of table d that meet all predicates of a set.
Chosen(d, where) == {t \in d[Target] : \A p \in where : Holds(p, t)}

\* A tree rooted in the target is a selection of its rows.
LEMMA RootedMeans ==
    \A x \in Trees : RootedInTarget[x] =>
        /\ \A d : Meaning(d)[x] = Chosen(d, Conjuncts[x])
        /\ TreeHeading[x] = Heading
        /\ Conjuncts[x] \subseteq Predicates(Heading)
<1> DEFINE Good(x) == RootedInTarget[x] =>
              /\ \A d : Meaning(d)[x] = Chosen(d, Conjuncts[x])
              /\ TreeHeading[x] = Heading
              /\ Conjuncts[x] \subseteq Predicates(Heading)
           S == {x \in Trees : Good(x)}
<1>1. ASSUME NEW x \in Trees, \A o \in Trees : TreeHeight[o] < TreeHeight[x] => o \in S,
             RootedInTarget[x]
      PROVE  /\ \A d : Meaning(d)[x] = Chosen(d, Conjuncts[x])
             /\ TreeHeading[x] = Heading
             /\ Conjuncts[x] \subseteq Predicates(Heading)
  <2>1. CASE x = TargetRef
    <3>1. x.op = "ref" /\ x.name = Target /\ Conjuncts[x] = {}
      BY <2>1, TargetRefShape, RootedFacts
    <3>2. \A d : Meaning(d)[x] = d[Target]
      BY <3>1, MeaningFacts
    <3> QED BY <3>1, <3>2, TreeHeadingFacts DEF Chosen, Heading
  <2>2. CASE x.op = "restrict"
    <3>1. RootedInTarget[x.in] /\ Conjuncts[x] = Conjuncts[x.in] \cup {x.pred}
      BY <1>1, <2>2, RootedFacts
    <3>2. x.in \in S
      BY <1>1, <2>2, TreeShapes DEF ChainOps
    <3>3. \A d : Meaning(d)[x] = {t \in Meaning(d)[x.in] : Holds(x.pred, t)}
      BY <2>2, MeaningFacts
    <3>4. \A d : Meaning(d)[x.in] = Chosen(d, Conjuncts[x.in])
      BY <3>1, <3>2
    <3>5. \A d : Meaning(d)[x] = Chosen(d, Conjuncts[x])
      <4> SUFFICES ASSUME NEW d PROVE Meaning(d)[x] = Chosen(d, Conjuncts[x])
        OBVIOUS
      <4>1. Meaning(d)[x] = {t \in Chosen(d, Conjuncts[x.in]) : Holds(x.pred, t)}
        BY <3>3, <3>4
      <4> QED BY <3>1, <4>1 DEF Chosen
    <3>6. TreeHeading[x] = TreeHeading[x.in] /\ TreeHeading[x.in] = Heading
          /\ Conjuncts[x.in] \subseteq Predicates(Heading)
      BY <2>2, <3>1, <3>2, TreeHeadingFacts
    <3>7. x.pred \in Predicates(Heading)
      BY <2>2, <3>6, FormedFacts
    <3> QED BY <3>1, <3>5, <3>6, <3>7
  <2> QED BY <1>1, <2>1, <2>2, RootedFacts
<1>2. \A x \in Trees : x \in S
  <2>1. \A x \in Trees : TreeHeight[x] \in Nat
    BY TreesAssumption
  <2>2. \A x \in Trees : (\A o \in Trees : TreeHeight[o] < TreeHeight[x] => o \in S) => x \in S
    BY <1>1
  <2> HIDE DEF S
  <2> QED BY <2>1, <2>2, RRooted!Induction
<1> QED BY <1>2

\* NotP is the complement on typed tuples.
LEMMA NotPHolds ==
    ASSUME NEW p \in Predicates(Heading), NEW t \in [Heading -> Int]
    PROVE  Holds(NotP(p), t) <=> ~Holds(p, t)
<1> DEFINE y == Scalar(p.arg, t)
<1>1. p.attr \in Heading /\ p.cmp \in Comparisons /\ p.arg \in Scalars(Heading)
  BY DEF Predicates
<1>2. t[p.attr] \in Int /\ y \in Int
  BY <1>1, ScalarTyped
<1>3. NotP(p).attr = p.attr /\ NotP(p).cmp = Negated(p.cmp) /\ NotP(p).arg = p.arg
  BY DEF NotP
<1>4. Holds(NotP(p), t) <=> Compare(t[p.attr], Negated(p.cmp), y)
  BY <1>3 DEF Holds
<1>5. Holds(p, t) <=> Compare(t[p.attr], p.cmp, y)
  BY DEF Holds
<1> HIDE DEF y
<1>6. \A c \in Comparisons : \A a, b \in Int : Compare(a, Negated(c), b) <=> ~Compare(a, c, b)
  <2> SUFFICES ASSUME NEW c \in Comparisons, NEW a \in Int, NEW b \in Int
               PROVE  Compare(a, Negated(c), b) <=> ~Compare(a, c, b)
    OBVIOUS
  <2>1. CASE c = "="
    BY <2>1 DEF Compare, Negated
  <2>2. CASE c = "<>"
    BY <2>2 DEF Compare, Negated
  <2>3. CASE c = "<"
    BY <2>3 DEF Compare, Negated
  <2>4. CASE c = ">="
    BY <2>4 DEF Compare, Negated
  <2>5. CASE c = ">"
    BY <2>5 DEF Compare, Negated
  <2>6. CASE c = "<="
    BY <2>6 DEF Compare, Negated
  <2> QED BY <2>1, <2>2, <2>3, <2>4, <2>5, <2>6 DEF Comparisons
<1> QED BY <1>1, <1>2, <1>4, <1>5, <1>6

-----------------------------------------------------------------------------
(* A where upon the target.                                                *)

LEMMA WhereBuilt ==
    ASSUME NEW preds, Where(preds) \in Exprs
    PROVE  /\ TargetExpr \in Exprs /\ TargetRef \in Trees
           /\ Len(preds) \in Nat /\ DOMAIN preds = 1 .. Len(preds)
           /\ preds \in Seq(Predicates(Heading))
           /\ Build[Where(preds)] # None =>
                Build[Where(preds)] = Restricted(TargetRef, preds) /\ Build[Where(preds)] \in Trees
<1> DEFINE e == Where(preds)
<1>1. e.op = "where" /\ e.in = TargetExpr /\ e.preds = preds
  BY DEF Where
<1> HIDE DEF e
<1>2. e \in Exprs
  BY DEF e
<1>3. TargetExpr \in Exprs
  BY <1>1, <1>2, ExprShapes DEF UnaryOps
<1>4. Build[TargetExpr] = TargetRef /\ HeadingOf[TargetExpr] = Heading
  BY <1>3, TargetRefShape, BuildFacts, HeadingFacts DEF Leaf, BuiltLeaf, TargetRef, Heading
<1>5. TargetRef # None
  BY TargetRefShape DEF None
<1>6. TargetRef \in Trees
  BY <1>3, <1>4, <1>5, BuiltTree
<1>7. ~InProcess(TargetExpr)
  BY <1>3, TargetRefShape, LeavesFacts DEF InProcess, Leaf
<1>8. Build[e] # None => Build[e] = Restricted(TargetRef, preds) /\ Build[e] \in Trees
  BY <1>1, <1>2, <1>4, <1>7, BuiltWhereCases, BuiltTree
<1>9. preds \in Seq(Predicates(Heading))
  BY <1>1, <1>2, <1>4, TypingAssumption DEF WellTyped
<1> QED BY <1>3, <1>6, <1>8, <1>9 DEF e

LEMMA RestrictedRooted ==
    ASSUME TargetRef \in Trees, NEW preds, Len(preds) \in Nat,
           DOMAIN preds = 1 .. Len(preds), Restricted(TargetRef, preds) \in Trees
    PROVE  /\ RootedInTarget[Restricted(TargetRef, preds)]
           /\ Conjuncts[Restricted(TargetRef, preds)] = {preds[i] : i \in DOMAIN preds}
           /\ Len(preds) > 0 => Restricted(TargetRef, preds).op = "restrict"
           /\ Len(preds) = 0 => Restricted(TargetRef, preds) = TargetRef
<1> DEFINE n == Len(preds)
<1>1. PICK c : /\ c[0] = TargetRef
               /\ \A i \in 1 .. n : c[i] = RestrictNode(c[i - 1], preds[i])
               /\ Restricted(TargetRef, preds) = c[n]
  BY RestrictedChain
<1> DEFINE Good(i) == RootedInTarget[c[i]] /\ Conjuncts[c[i]] = {preds[j] : j \in 1 .. i}
           S == {i \in Nat : i <= n => (c[i] \in Trees => Good(i))}
<1>2. Good(0)
  <2>1. {preds[j] : j \in 1 .. 0} = {}
    OBVIOUS
  <2> QED BY <1>1, <2>1, RootedFacts
<1>3. ASSUME NEW i \in Nat, i + 1 <= n, c[i + 1] \in Trees, c[i] \in Trees => Good(i)
      PROVE  Good(i + 1)
  <2>1. i + 1 \in 1 .. n /\ (i + 1) - 1 = i
    BY <1>3
  <2>2. c[i + 1] = RestrictNode(c[i], preds[i + 1])
    BY <1>1, <2>1
  <2>3. c[i + 1].op = "restrict" /\ c[i + 1].in = c[i] /\ c[i + 1].pred = preds[i + 1]
    BY <2>2 DEF RestrictNode
  <2>4. c[i] \in Trees
    BY <1>3, <2>3, TreeShapes DEF ChainOps
  <2>5. Good(i)
    BY <1>3, <2>4
  <2>6. /\ RootedInTarget[c[i + 1]] <=> RootedInTarget[c[i]]
        /\ Conjuncts[c[i + 1]] = Conjuncts[c[i]] \cup {preds[i + 1]}
    BY <1>3, <2>3, RootedFacts
  <2>7. {preds[j] : j \in 1 .. i + 1} = {preds[j] : j \in 1 .. i} \cup {preds[i + 1]}
    <3>1. \A j \in 1 .. i + 1 : j = i + 1 \/ j \in 1 .. i
      OBVIOUS
    <3>2. 1 .. i \subseteq 1 .. i + 1 /\ i + 1 \in 1 .. i + 1
      OBVIOUS
    <3> QED BY <3>1, <3>2
  <2> QED BY <2>5, <2>6, <2>7
<1>4. \A i \in Nat : i \in S
  <2> HIDE DEF Good
  <2>1. 0 \in S
    BY <1>2
  <2>2. \A i \in Nat : i \in S => i + 1 \in S
    BY <1>1, <1>3, TreeShapes DEF RestrictNode, ChainOps
  <2> HIDE DEF S
  <2> QED BY <2>1, <2>2, NatSteps
<1>5. Good(n)
  <2> HIDE DEF Good
  <2>1. n \in S /\ c[n] \in Trees
    BY <1>1, <1>4
  <2> QED BY <2>1
<1>6. n > 0 => c[n].op = "restrict"
  <2> SUFFICES ASSUME n > 0 PROVE c[n].op = "restrict"
    OBVIOUS
  <2>1. n \in 1 .. n
    OBVIOUS
  <2>2. c[n] = RestrictNode(c[n - 1], preds[n])
    BY <1>1, <2>1
  <2> QED BY <2>2 DEF RestrictNode
<1> QED BY <1>1, <1>5, <1>6

-----------------------------------------------------------------------------
(* What an UPDATE sets.                                                    *)

Settable(sets) ==
    DOMAIN sets \subseteq Heading /\ \A a \in DOMAIN sets : sets[a] \in Scalars(Heading)

LEMMA SetTyped ==
    ASSUME NEW sets, Settable(sets), NEW t \in [Heading -> Int]
    PROVE  Set(sets, t) \in [Heading -> Int]
<1>1. \A a \in DOMAIN sets : Scalar(sets[a], t) \in Int
  BY ScalarTyped DEF Settable
<1>2. \A a \in Heading : t[a] \in Int
  OBVIOUS
<1> QED BY <1>1, <1>2 DEF Set

\* A substitute that keeps the attributes it does not compute is an UPDATE
\* with the pairs read off it.
LEMMA ChainMeans ==
    ASSUME NEW x \in Trees, Computes(x), KeepsOthers(x), TreeHeading[x] = Heading,
           TreeHeading[Core(x).in] = Heading,
           DOMAIN SetPairs(x) # {}, DOMAIN SetPairs(x) \subseteq Heading, NEW d, IsDb(d)
    PROVE  /\ Settable(SetPairs(x))
           /\ Meaning(d)[x] = {Set(SetPairs(x), t) : t \in Meaning(d)[Core(x).in]}
<1> DEFINE y == Peel(x, "rename")
           z == Core(x)
           adds == z.adds
           to == x.to
           h == TreeHeading[y]
           pairs == SetPairs(x)
<1>1. y \in Trees /\ z \in Trees /\ z.op = "extend" /\ z.in \in Trees /\ z = Peel(y, "project")
  BY CoreIsTree
<1>2. Extends(adds, Heading) /\ TreeHeading[z] = Heading \cup DOMAIN adds
  BY <1>1, FormedFacts, TreeHeadingFacts
<1>3. \A b \in DOMAIN adds : b \notin Heading /\ adds[b] \in Scalars(Heading)
  BY <1>2 DEF Extends
<1>4. pairs = Renamed(NewNames(x), adds) /\ DOMAIN pairs = {NameOf(NewNames(x), b) : b \in DOMAIN adds}
  BY DEF SetPairs, Renamed
<1>5. x.op = "rename"
  <2> SUFFICES ASSUME x.op # "rename" PROVE FALSE
    OBVIOUS
  <2>1. NewNames(x) = << >>
    BY DEF NewNames
  <2>2. DOMAIN << >> = {}
    OBVIOUS
  <2>3. \A b : NameOf(NewNames(x), b) = b
    BY <2>1, <2>2 DEF NameOf
  <2> HIDE DEF pairs, adds
  <2>4. DOMAIN pairs = DOMAIN adds
    BY <1>4, <2>3
  <2> QED BY <1>3, <2>4 DEF pairs
<1>6. NewNames(x) = to /\ x.in = y
  BY <1>5 DEF NewNames, Peel
<1>7. Renames(to, h) /\ TreeHeading[x] = {NameOf(to, a) : a \in h}
  BY <1>5, <1>6, FormedFacts, TreeHeadingFacts
<1> DEFINE K(t) == IF y.op = "project" THEN Restrict(Extended(adds, t), y.keep) ELSE Extended(adds, t)
<1>9. h \subseteq Heading \cup DOMAIN adds
  <2>1. CASE y.op = "project"
    <3>1. y.in = z
      BY <1>1, <2>1 DEF Peel
    <3>2. y.keep \subseteq TreeHeading[y.in] /\ TreeHeading[y] = y.keep
      BY <1>1, <2>1, FormedFacts, TreeHeadingFacts
    <3> QED BY <1>2, <3>1, <3>2
  <2>2. CASE y.op # "project"
    <3>1. y = z
      BY <1>1, <2>2 DEF Peel
    <3> QED BY <1>2, <3>1
  <2> QED BY <2>1, <2>2
<1>10. \A t \in [Heading -> Int] : DOMAIN K(t) = h /\ \A b \in h : K(t)[b] = Extended(adds, t)[b]
  <2> SUFFICES ASSUME NEW t \in [Heading -> Int]
               PROVE  DOMAIN K(t) = h /\ \A b \in h : K(t)[b] = Extended(adds, t)[b]
    OBVIOUS
  <2>1. CASE y.op = "project"
    <3>1. TreeHeading[y] = y.keep
      BY <1>1, <2>1, TreeHeadingFacts
    <3> QED BY <2>1, <3>1 DEF Restrict
  <2>2. CASE y.op # "project"
    <3>1. y = z
      BY <1>1, <2>2 DEF Peel
    <3>2. DOMAIN Extended(adds, t) = Heading \cup DOMAIN adds
      BY DEF Extended
    <3>3. h = Heading \cup DOMAIN adds
      BY <1>2, <3>1
    <3> QED BY <2>2, <3>2, <3>3
  <2> QED BY <2>1, <2>2
<1>11. Meaning(d)[x] = {Renamed(to, K(t)) : t \in Meaning(d)[z.in]}
  <2>1. Meaning(d)[z] = {Extended(adds, t) : t \in Meaning(d)[z.in]}
    BY <1>1, MeaningFacts
  <2>2. Meaning(d)[y] = {K(t) : t \in Meaning(d)[z.in]}
    <3>1. CASE y.op = "project"
      <4>1. y.in = z
        BY <1>1, <3>1 DEF Peel
      <4>2. Meaning(d)[y] = {Restrict(t, y.keep) : t \in Meaning(d)[y.in]}
        BY <1>1, <3>1, MeaningFacts
      <4> HIDE DEF y, z, adds
      <4> QED BY <2>1, <3>1, <4>1, <4>2
    <3>2. CASE y.op # "project"
      <4>1. y = z
        BY <1>1, <3>2 DEF Peel
      <4> HIDE DEF y, z, adds
      <4> QED BY <2>1, <3>2, <4>1
    <3> QED BY <3>1, <3>2
  <2>3. Meaning(d)[x] = {Renamed(to, t) : t \in Meaning(d)[x.in]}
    BY <1>5, MeaningFacts
  <2> HIDE DEF K, y, z, to
  <2> QED BY <1>6, <2>2, <2>3
<1>12. \A b \in DOMAIN adds : b \in DOMAIN to
  <2> HIDE DEF adds, to, pairs
  <2> SUFFICES ASSUME NEW b \in DOMAIN adds, b \notin DOMAIN to PROVE FALSE
    OBVIOUS
  <2>1. NameOf(to, b) = b /\ NameOf(to, b) \in DOMAIN pairs
    BY <1>4, <1>6 DEF NameOf
  <2> QED BY <1>3, <2>1 DEF pairs
<1>13. DOMAIN to \subseteq DOMAIN adds
  BY <1>6 DEF KeepsOthers
<1>14. DOMAIN adds \subseteq h /\ Renames(to, DOMAIN adds)
  BY <1>7, <1>12, <1>13 DEF Renames
<1>15. /\ DOMAIN pairs = {NameOf(to, b) : b \in DOMAIN adds}
       /\ \A b \in DOMAIN adds : pairs[NameOf(to, b)] = adds[b]
  <2>1. \A f : DOMAIN f = DOMAIN adds =>
           /\ DOMAIN Renamed(to, f) = {NameOf(to, b) : b \in DOMAIN adds}
           /\ \A b \in DOMAIN adds : Renamed(to, f)[NameOf(to, b)] = f[b]
    <3> DEFINE g == DOMAIN adds
    <3>1. Renames(to, g)
      BY <1>14
    <3> HIDE DEF adds, to, g
    <3>2. \A f : DOMAIN f = g =>
             /\ DOMAIN Renamed(to, f) = {NameOf(to, b) : b \in g}
             /\ \A b \in g : Renamed(to, f)[NameOf(to, b)] = f[b]
      BY <3>1, RenamedAt
    <3> QED BY <3>2 DEF g
  <2> QED BY <1>4, <1>6, <2>1
<1> HIDE DEF pairs, adds, to, h, z
<1>16. Settable(pairs)
  BY <1>3, <1>15 DEF Settable, pairs
<1>17. ASSUME NEW t \in [Heading -> Int] PROVE Renamed(to, K(t)) = Set(pairs, t)
  <2>1. DOMAIN K(t) = h /\ \A b \in h : K(t)[b] = Extended(adds, t)[b]
    BY <1>10
  <2> HIDE DEF K
  <2>2. \A f : DOMAIN f = h =>
           /\ Renamed(to, f) = [b \in {NameOf(to, a) : a \in h} |-> Renamed(to, f)[b]]
           /\ \A b \in h : Renamed(to, f)[NameOf(to, b)] = f[b]
    <3> SUFFICES ASSUME NEW f, DOMAIN f = h
                 PROVE  /\ Renamed(to, f) = [b \in {NameOf(to, a) : a \in h} |-> Renamed(to, f)[b]]
                        /\ \A b \in h : Renamed(to, f)[NameOf(to, b)] = f[b]
      OBVIOUS
    <3>1. Renames(to, h)
      BY <1>7
    <3> QED BY <3>1, RenamedAt
  <2> DEFINE u == Renamed(to, K(t))
  <2>3. u = [a \in Heading |-> u[a]] /\ \A b \in h : u[NameOf(to, b)] = Extended(adds, t)[b]
    <3>1. /\ u = [b \in {NameOf(to, a) : a \in h} |-> u[b]]
          /\ \A b \in h : u[NameOf(to, b)] = K(t)[b]
      BY <2>1, <2>2
    <3>2. {NameOf(to, a) : a \in h} = Heading
      BY <1>7
    <3> HIDE DEF u
    <3> QED BY <2>1, <3>1, <3>2
  <2> HIDE DEF u
  <2>4. ASSUME NEW a \in Heading
        PROVE  u[a] = IF a \in DOMAIN pairs THEN Scalar(pairs[a], t) ELSE t[a]
    <3>1. PICK b \in h : a = NameOf(to, b)
      BY <1>7
    <3>2. u[a] = Extended(adds, t)[b]
      BY <2>3, <3>1
    <3>3. CASE b \in DOMAIN adds
      <4>1. a \in DOMAIN pairs /\ pairs[a] = adds[b]
        BY <1>15, <3>1, <3>3
      <4>2. Extended(adds, t)[b] = Scalar(adds[b], t)
        BY <1>3, <3>3 DEF Extended
      <4> QED BY <3>2, <4>1, <4>2
    <3>4. CASE b \notin DOMAIN adds
      <4>1. b \notin DOMAIN to
        BY <1>13, <3>4
      <4>2. a = b
        BY <3>1, <4>1 DEF NameOf
      <4>3. Extended(adds, t)[b] = t[a]
        BY <4>2 DEF Extended
      <4>4. a \notin DOMAIN pairs
        <5> SUFFICES ASSUME NEW c \in DOMAIN adds, a = NameOf(to, c) PROVE FALSE
          BY <1>15
        <5>1. c \in h
          BY <1>14
        <5>2. c = b
          BY <1>7, <3>1, <5>1 DEF Renames
        <5> QED BY <3>4, <5>2
      <4> QED BY <3>2, <4>3, <4>4
    <3> QED BY <3>3, <3>4
  <2>5. u = Set(pairs, t)
    BY <2>3, <2>4 DEF Set
  <2> QED BY <2>5 DEF u
<1>18. Meaning(d)[z.in] \subseteq [Heading -> Int]
  <2>1. Meaning(d)[z.in] \in Rows(TreeHeading[z.in]) /\ TreeHeading[z.in] = Heading
    BY <1>1, MeaningTyped DEF z
  <2> QED BY <2>1 DEF Rows
<1>19. Meaning(d)[x] = {Set(pairs, t) : t \in Meaning(d)[z.in]}
  <2> HIDE DEF K
  <2> QED BY <1>11, <1>17, <1>18
<1> QED BY <1>16, <1>19 DEF pairs, z

\* The substitute chain `update` is lowered to sets what was asked for.
LEMMA SubstituteSets ==
    ASSUME NEW x, NEW sets, Settable(sets)
    PROVE  /\ Substitute(x, sets).op = "rename"
           /\ Core(Substitute(x, sets)).op = "extend" /\ Core(Substitute(x, sets)).in = x
           /\ DOMAIN SetPairs(Substitute(x, sets)) = DOMAIN sets
           /\ Settable(SetPairs(Substitute(x, sets)))
           /\ \A t : Set(SetPairs(Substitute(x, sets)), t) = Set(sets, t)
<1> DEFINE temps == {Temp[a] : a \in DOMAIN sets}
           Of(b) == CHOOSE a \in DOMAIN sets : Temp[a] = b
           to == [b \in temps |-> Of(b)]
           adds == [b \in temps |-> sets[Of(b)]]
           core == [op |-> "extend", in |-> x, adds |-> adds]
           mid == [op |-> "project", keep |-> (Heading \ DOMAIN sets) \cup temps, in |-> core]
           c == Substitute(x, sets)
<1>1. c = [op |-> "rename", to |-> to, in |-> mid]
  BY DEF Substitute
<1> HIDE DEF c
<1>2. c.op = "rename" /\ c.to = to /\ c.in = mid
  BY <1>1
<1>3. Peel(c, "rename") = mid
  BY <1>2 DEF Peel
<1>4. Core(c) = core
  <2>1. mid.op = "project" /\ mid.in = core
    OBVIOUS
  <2> HIDE DEF mid, core
  <2> QED BY <1>3, <2>1 DEF Core, Peel
<1>5. Core(c).op = "extend" /\ Core(c).in = x /\ Core(c).adds = adds
  BY <1>4
<1>6. \A a \in DOMAIN sets : Temp[a] \in temps /\ Of(Temp[a]) = a
  <2> SUFFICES ASSUME NEW a \in DOMAIN sets PROVE Temp[a] \in temps /\ Of(Temp[a]) = a
    OBVIOUS
  <2>1. Of(Temp[a]) \in DOMAIN sets /\ Temp[Of(Temp[a])] = Temp[a]
    OBVIOUS
  <2> HIDE DEF Of
  <2>2. Of(Temp[a]) = a
    BY <2>1, TempAssumption DEF Settable, IsInjective
  <2> QED BY <2>2
<1> HIDE DEF Of
<1>7. \A b \in temps : Of(b) \in DOMAIN sets /\ Temp[Of(b)] = b
  BY <1>6
<1>8. NewNames(c) = to /\ SetPairs(c) = Renamed(to, adds)
  BY <1>2, <1>5 DEF NewNames, SetPairs
<1>9. DOMAIN to = temps /\ \A b \in temps : NameOf(to, b) = Of(b)
  BY DEF NameOf
<1>10. Renames(to, temps)
  BY <1>7, <1>9 DEF Renames
<1>11. DOMAIN adds = temps /\ \A b \in temps : adds[b] = sets[Of(b)]
  OBVIOUS
<1> HIDE DEF temps, to, adds, core, mid
<1>12. /\ DOMAIN Renamed(to, adds) = {NameOf(to, b) : b \in temps}
       /\ \A b \in temps : Renamed(to, adds)[NameOf(to, b)] = adds[b]
  <2>1. ASSUME NEW h, NEW r, Renames(r, h), NEW f, DOMAIN f = h
        PROVE  /\ DOMAIN Renamed(r, f) = {NameOf(r, b) : b \in h}
               /\ \A b \in h : Renamed(r, f)[NameOf(r, b)] = f[b]
    BY <2>1, RenamedAt
  <2> QED BY <1>10, <1>11, <2>1
<1>13. DOMAIN SetPairs(c) = DOMAIN sets
  BY <1>6, <1>7, <1>8, <1>9, <1>12
<1>14. \A a \in DOMAIN sets : SetPairs(c)[a] = sets[a]
  BY <1>6, <1>8, <1>9, <1>11, <1>12
<1>15. Settable(SetPairs(c))
  BY <1>13, <1>14 DEF Settable
<1>16. \A t : Set(SetPairs(c), t) = Set(sets, t)
  BY <1>13, <1>14 DEF Set
<1> QED BY <1>2, <1>5, <1>13, <1>15, <1>16 DEF c

-----------------------------------------------------------------------------
(* What the recognizers emit is the assignment.                            *)

\* The rows of d, those that meet `where` changed.
Changed(d, where, sets) ==
    {IF \A p \in where : Holds(p, t) THEN Set(sets, t) ELSE t : t \in d[Target]}

LEMMA EmitUpdateMeans ==
    ASSUME NEW x \in Trees, TreeHeading[x] = Heading, WholeUpdate(x), EmitUpdate(x) # None,
           NEW d, IsDb(d)
    PROVE  /\ EmitUpdate(x).inst = "update" /\ Settable(EmitUpdate(x).sets)
           /\ Meaning(d)[x] = Changed(d, EmitUpdate(x).where, EmitUpdate(x).sets)
<1>1. CASE x.op = "or"
  <2> DEFINE sub == Substituted(x)
             rest == Unchanged(x)
             in == Core(sub).in
             pairs == SetPairs(sub)
             p == in.pred
  <2>1. IsUpdateUnion(x) /\ EmitUpdate(x) = Update(sub)
    BY <1>1 DEF EmitUpdate
  <2>2. /\ Computes(sub) /\ in.op = "restrict" /\ rest.op = "restrict" /\ rest.pred = NotP(p)
        /\ KeepsOthers(sub) /\ in.in = TargetRef /\ rest.in = TargetRef
    BY <1>1, <2>1 DEF IsUpdateUnion, WholeUpdate, Complements
  <2>3. /\ x.l \in Trees /\ x.r \in Trees
        /\ TreeHeading[x.l] = Heading /\ TreeHeading[x.r] = Heading
        /\ Meaning(d)[x] = Meaning(d)[x.l] \cup Meaning(d)[x.r]
    BY <1>1, TreeShapes, FormedFacts, TreeHeadingFacts, MeaningFacts DEF TreePairs
  <2>4. /\ sub \in Trees /\ rest \in Trees /\ TreeHeading[sub] = Heading
        /\ Meaning(d)[x] = Meaning(d)[sub] \cup Meaning(d)[rest]
    BY <2>3 DEF Substituted, Unchanged
  <2> HIDE DEF sub, rest
  <2>5. in \in Trees
    BY <2>2, <2>4, CoreIsTree
  <2>6. DOMAIN pairs # {} /\ DOMAIN pairs \subseteq Heading
        /\ EmitUpdate(x) = [inst |-> "update", where |-> Conjuncts[in], sets |-> pairs]
    BY <2>1 DEF Update
  <2>7. TargetRef \in Trees /\ RootedInTarget[in] /\ Conjuncts[in] = {p}
    BY <2>2, <2>5, TreeShapes, RootedFacts DEF ChainOps
  <2>8. TreeHeading[in] = Heading /\ p \in Predicates(Heading) /\ Meaning(d)[in] = Chosen(d, {p})
    BY <2>5, <2>7, RootedMeans
  <2>9. Settable(pairs) /\ Meaning(d)[sub] = {Set(pairs, t) : t \in Meaning(d)[in]}
    BY <2>2, <2>4, <2>6, <2>8, ChainMeans
  <2>10. Meaning(d)[rest] = {t \in d[Target] : Holds(NotP(p), t)}
    <3>1. Meaning(d)[rest] = {t \in Meaning(d)[TargetRef] : Holds(NotP(p), t)}
      BY <2>2, <2>4, MeaningFacts
    <3>2. Meaning(d)[TargetRef] = d[Target]
      BY <2>7, TargetRefShape, MeaningFacts
    <3> QED BY <3>1, <3>2
  <2>11. \A t \in d[Target] : Holds(NotP(p), t) <=> ~Holds(p, t)
    BY <2>8, NotPHolds, TargetAssumption DEF IsDb, Rows, Heading
  <2>12. Meaning(d)[x] = Changed(d, {p}, pairs)
    <3> HIDE DEF pairs, p
    <3>1. Meaning(d)[sub] = {Set(pairs, t) : t \in {t \in d[Target] : Holds(p, t)}}
      BY <2>8, <2>9 DEF Chosen
    <3>2. Meaning(d)[rest] = {t \in d[Target] : ~Holds(p, t)}
      BY <2>10, <2>11
    <3>3. Changed(d, {p}, pairs) = {IF Holds(p, t) THEN Set(pairs, t) ELSE t : t \in d[Target]}
      BY DEF Changed
    <3> QED BY <2>4, <3>1, <3>2, <3>3
  <2>13. EmitUpdate(x).inst = "update" /\ EmitUpdate(x).where = {p} /\ EmitUpdate(x).sets = pairs
    BY <2>6, <2>7
  <2> QED BY <2>9, <2>12, <2>13
<1>2. CASE x.op # "or"
  <2> DEFINE in == Core(x).in
             pairs == SetPairs(x)
  <2>1. Computes(x) /\ RootedInTarget[in] /\ EmitUpdate(x) = Update(x)
    BY <1>2 DEF EmitUpdate
  <2>2. KeepsOthers(x) /\ in = TargetRef
    BY <1>2, <2>1 DEF WholeUpdate
  <2>3. in \in Trees
    BY <2>1, CoreIsTree
  <2>4. DOMAIN pairs # {} /\ DOMAIN pairs \subseteq Heading
        /\ EmitUpdate(x) = [inst |-> "update", where |-> Conjuncts[in], sets |-> pairs]
    BY <2>1 DEF Update
  <2>5. Conjuncts[in] = {} /\ TreeHeading[in] = Heading /\ Meaning(d)[in] = Chosen(d, {})
    BY <2>1, <2>2, <2>3, RootedFacts, RootedMeans
  <2>6. Settable(pairs) /\ Meaning(d)[x] = {Set(pairs, t) : t \in Meaning(d)[in]}
    BY <2>1, <2>2, <2>4, <2>5, ChainMeans
  <2>7. Changed(d, {}, pairs) = {Set(pairs, t) : t \in d[Target]} /\ Chosen(d, {}) = d[Target]
    BY DEF Changed, Chosen
  <2>8. EmitUpdate(x).inst = "update" /\ EmitUpdate(x).where = {} /\ EmitUpdate(x).sets = pairs
    BY <2>4, <2>5
  <2> HIDE DEF pairs, in
  <2> QED BY <2>5, <2>6, <2>7, <2>8
<1> QED BY <1>1, <1>2

\* Instruction i, run once over d, leaves `asked` in the target.
Does(i, d, asked) ==
    \/ i.inst = "delete" /\ d[Target] \ Chosen(d, i.where) = asked
    \/ /\ i.inst = "antijoin" /\ i.from \in Trees /\ Emits[i.from] /\ TreeHeading[i.from] = Heading
       /\ asked = IF i.negated THEN d[Target] \cap Meaning(d)[i.from] ELSE d[Target] \ Meaning(d)[i.from]
    \/ /\ i.inst = "insert" /\ i.from \in Trees /\ Emits[i.from] /\ TreeHeading[i.from] = Heading
       /\ d[Target] \cup Meaning(d)[i.from] = asked
    \/ i.inst = "update" /\ Settable(i.sets) /\ Changed(d, i.where, i.sets) = asked

\* A join of the target is with a relation of the target's heading.
FillsTheTarget(x) ==
    x.op = "and" /\ TargetRef \in {x.l, x.r} => TreeHeading[x.l] = TreeHeading[x.r]

LEMMA EmitAssignmentMeans ==
    ASSUME NEW x \in Trees, TreeHeading[x] = Heading, WholeUpdate(x), FillsTheTarget(x),
           EmitAssignment(x) # None, NEW d, IsDb(d)
    PROVE  Does(EmitAssignment(x), d, Meaning(d)[x])
<1> DEFINE i == EmitAssignment(x)
           M(y) == Meaning(d)[y]
<1>0. TargetRef \in Trees => M(TargetRef) = d[Target]
  BY TargetRefShape, MeaningFacts
<1>1. ASSUME NEW y \in Trees, TreeHeading[y] = Heading, NEW n, i = AntiJoin(y, n), n \in BOOLEAN,
             M(x) = IF n THEN d[Target] \cap M(y) ELSE d[Target] \ M(y)
      PROVE  Does(i, d, M(x))
  <2>1. Emits[y] /\ i = [inst |-> "antijoin", from |-> y, negated |-> n]
    BY <1>1 DEF AntiJoin
  <2>2. i.inst = "antijoin" /\ i.from = y /\ i.negated = n
    BY <2>1
  <2> QED BY <1>1, <2>1, <2>2 DEF Does
<1>2. CASE x.op = "minus" /\ x.l = TargetRef
  <2>1. x.l \in Trees /\ x.r \in Trees /\ M(x) = d[Target] \ M(x.r)
    BY <1>0, <1>2, TreeShapes, MeaningFacts DEF TreePairs
  <2>4. TreeHeading[x.r] = Heading
    BY <1>2, FormedFacts, TreeHeadingFacts
  <2>2. CASE RootedInTarget[x.r]
    <3>1. i = Delete(Conjuncts[x.r])
      BY <1>2, <2>2 DEF EmitAssignment
    <3>2. i.inst = "delete" /\ i.where = Conjuncts[x.r]
      BY <3>1 DEF Delete
    <3>3. M(x.r) = Chosen(d, Conjuncts[x.r])
      BY <2>1, <2>2, RootedMeans
    <3> QED BY <2>1, <3>2, <3>3 DEF Does
  <2>3. CASE ~RootedInTarget[x.r]
    <3>1. i = AntiJoin(x.r, FALSE)
      BY <1>2, <2>3 DEF EmitAssignment
    <3> QED BY <1>1, <2>1, <2>4, <3>1
  <2> QED BY <2>2, <2>3
<1>3. CASE x.op = "restrict" /\ x.in = TargetRef
  <2>1. x.in \in Trees /\ M(x) = {t \in d[Target] : Holds(x.pred, t)}
    BY <1>0, <1>3, TreeShapes, MeaningFacts DEF ChainOps
  <2>2. i = Delete({NotP(x.pred)})
    BY <1>3 DEF EmitAssignment
  <2>3. i.inst = "delete" /\ i.where = {NotP(x.pred)}
    BY <2>2 DEF Delete
  <2>4. x.pred \in Predicates(Heading)
    BY <1>3, <2>1, FormedFacts, TreeHeadingFacts
  <2>5. \A t \in d[Target] : Holds(NotP(x.pred), t) <=> ~Holds(x.pred, t)
    BY <2>4, NotPHolds, TargetAssumption DEF IsDb, Rows, Heading
  <2>6. d[Target] \ Chosen(d, {NotP(x.pred)}) = M(x)
    BY <2>1, <2>5 DEF Chosen
  <2> QED BY <2>3, <2>6 DEF Does
<1>4. CASE x.op = "and" /\ TargetRef \in {x.l, x.r}
  <2>0. /\ x.l \in Trees /\ x.r \in Trees /\ TreeHeading[x.l] = Heading /\ TreeHeading[x.r] = Heading
    <3>1. x.l \in Trees /\ x.r \in Trees
      BY <1>4, TreeShapes DEF TreePairs
    <3>2. TreeHeading[x.l] = TreeHeading[x.r]
      BY <1>4 DEF FillsTheTarget
    <3>3. TreeHeading[x] = TreeHeading[x.l] \cup TreeHeading[x.r]
      BY <1>4, TreeHeadingFacts
    <3> QED BY <3>1, <3>2, <3>3
  <2>1. M(x) = M(x.l) \cap M(x.r)
    <3>1. M(x) = Joined(M(x.l), M(x.r))
      BY <1>4, JoinMeaning
    <3>2. M(x.l) \in Rows(Heading) /\ M(x.r) \in Rows(Heading)
      BY <2>0, MeaningTyped
    <3> HIDE DEF M
    <3> QED BY <3>1, <3>2, JoinedSame
  <2>2. /\ Partner(x) \in Trees /\ TreeHeading[Partner(x)] = Heading
        /\ M(x) = d[Target] \cap M(Partner(x))
    BY <1>0, <1>4, <2>0, <2>1 DEF Partner
  <2>3. i = AntiJoin(Partner(x), TRUE)
    BY <1>4 DEF EmitAssignment
  <2> QED BY <1>1, <2>2, <2>3
<1>5. CASE x.op = "or" /\ TargetRef \in {x.l, x.r}
  <2>1. /\ x.l \in Trees /\ x.r \in Trees /\ M(x) = M(x.l) \cup M(x.r)
        /\ TreeHeading[x.l] = Heading /\ TreeHeading[x.r] = Heading
    BY <1>5, TreeShapes, MeaningFacts, TreeHeadingFacts, FormedFacts DEF TreePairs
  <2>2. Partner(x) \in Trees /\ M(x) = d[Target] \cup M(Partner(x)) /\ TreeHeading[Partner(x)] = Heading
    BY <1>0, <1>5, <2>1 DEF Partner
  <2>3. i = InsertNew(Partner(x))
    BY <1>5 DEF EmitAssignment
  <2>4. Emits[Partner(x)] /\ i = [inst |-> "insert", from |-> Partner(x)]
    BY <2>3 DEF InsertNew
  <2>5. i.inst = "insert" /\ i.from = Partner(x)
    BY <2>4
  <2> QED BY <2>2, <2>4, <2>5 DEF Does
<1>6. CASE /\ ~(x.op = "minus" /\ x.l = TargetRef) /\ ~(x.op = "restrict" /\ x.in = TargetRef)
           /\ ~(x.op = "and" /\ TargetRef \in {x.l, x.r}) /\ ~(x.op = "or" /\ TargetRef \in {x.l, x.r})
  <2>1. i = EmitUpdate(x)
    BY <1>6 DEF EmitAssignment
  <2>2. i.inst = "update" /\ Settable(i.sets) /\ M(x) = Changed(d, i.where, i.sets)
    BY <2>1, EmitUpdateMeans
  <2> QED BY <2>2 DEF Does
<1> QED BY <1>2, <1>3, <1>4, <1>5, <1>6

-----------------------------------------------------------------------------
(* What a statement is lowered to.                                         *)

Wiped(d) == [d EXCEPT ![Target] = {}]
InsertFrom == [inst |-> "insertfrom"]
Evaluate(e) == [inst |-> "eval", expr |-> e]
Refill(x) == [inst |-> "refill", from |-> x]
Fits(x) == x \in Trees /\ Emits[x] /\ TreeHeading[x] = Heading

\* The instructions c, still to be run over d with q in the process's hand,
\* leave `asked` in the target.
Writes(c, d, q, asked) ==
    \/ Len(c) = 1 /\ c = <<c[1]>> /\ Does(c[1], d, asked)
    \/ c = << InsertFrom >> /\ q \in Rows(Heading) /\ d[Target] \cup q = asked
    \/ \E e : Storable(e) /\ c = << Evaluate(e), InsertFrom >> /\ d[Target] \cup Eval(e, d) = asked
    \/ \E x : Fits(x) /\ c = << Refill(x) >> /\ d[Target] = {} /\ Meaning(d)[x] = asked
    \/ \E x : Fits(x) /\ c = << Truncate, Refill(x) >> /\ Meaning(Wiped(d))[x] = asked
    \/ \E e : Storable(e) /\ c = << Truncate, Evaluate(e), InsertFrom >> /\ Eval(e, Wiped(d)) = asked

LEMMA OneWrites ==
    ASSUME NEW i, NEW d, NEW asked, Does(i, d, asked)
    PROVE  Writes(<< i >>, d, {}, asked)
<1>1. Len(<< i >>) = 1 /\ << i >>[1] = i
  OBVIOUS
<1> QED BY <1>1 DEF Writes

LEMMA ShipWrites ==
    ASSUME NEW e, Storable(e), NEW d, NEW asked, d[Target] \cup Eval(e, d) = asked
    PROVE  Writes(Ship(e), d, {}, asked)
BY DEF Writes, Ship, Evaluate, InsertFrom

LEMMA WipedFacts ==
    ASSUME NEW d, IsDb(d)
    PROVE  /\ IsDb(Wiped(d)) /\ Wiped(d)[Target] = {}
           /\ \A r \in Relvars \ {Target} : Wiped(d)[r] = d[r]
<1>1. {} \in Rows(Heading)
  BY DEF Rows
<1> QED BY <1>1, TargetAssumption DEF Wiped, IsDb, Heading

LEMMA TargetExprFacts ==
    ASSUME TargetExpr \in Exprs, NEW d
    PROVE  Eval(TargetExpr, d) = d[Target] /\ HeadingOf[TargetExpr] = Heading
BY TargetRefShape, EvalFacts, HeadingFacts DEF Leaf, LeafRows, Heading

LEMMA Prepended ==
    ASSUME NEW a, NEW b, NEW c
    PROVE  << a >> \o << b, c >> = << a, b, c >>
<1> DEFINE S == {a, b, c}
           u == << a >> \o << b, c >>
           v == << a, b, c >>
<1>1. << a >> \in Seq(S) /\ << b, c >> \in Seq(S) /\ v \in Seq(S)
  OBVIOUS
<1>2. Len(<< a >>) = 1 /\ Len(<< b, c >>) = 2 /\ Len(v) = 3
  OBVIOUS
<1>3. u \in Seq(S) /\ Len(u) = 3
  BY <1>1, <1>2
<1>4. \A i \in 1 .. 3 : i = 1 \/ i = 2 \/ i = 3
  OBVIOUS
<1>5. u[1] = a /\ u[2] = b /\ u[3] = c
  BY <1>1, <1>2
<1>6. v[1] = a /\ v[2] = b /\ v[3] = c
  OBVIOUS
<1> HIDE DEF u, v
<1>7. \A i \in 1 .. 3 : u[i] = v[i]
  BY <1>4, <1>5, <1>6
<1>8. u = v
  BY <1>1, <1>2, <1>3, <1>7
<1> QED BY <1>8 DEF u, v

\* Replacing everything: the value does not read what is emptied first.
LEMMA RefillWrites ==
    ASSUME NEW e, Storable(e), NEW d, IsDb(d), Build[e] # None \/ ~Mentions(e, Target),
           ~(Build[e] # None /\ References(Build[e], Target))
    PROVE  Writes(EmptyAndRefill(e, Build[e]), d, {}, Eval(e, d))
<1> DEFINE x == Build[e]
<1>1. e \in Exprs /\ HeadingOf[e] = Heading
  BY DEF Storable
<1>2. ~Mentions(e, Target)
  BY <1>1, BuildMentions
<1>3. Eval(e, Wiped(d)) = Eval(e, d)
  BY <1>1, <1>2, WipedFacts, EvalIndependent
<1>4. CASE x # None /\ ~Ships(x) /\ Emits[x]
  <2>1. EmptyAndRefill(e, x) = << Truncate, Refill(x) >>
    BY <1>4 DEF EmptyAndRefill, Refill
  <2>2. x \in Trees /\ TreeHeading[x] = Heading /\ Meaning(Wiped(d))[x] = Eval(e, Wiped(d))
    BY <1>1, <1>4, BuiltTree, BuildMeans, WipedFacts
  <2>3. Fits(x) /\ Meaning(Wiped(d))[x] = Eval(e, d)
    BY <1>3, <1>4, <2>2 DEF Fits
  <2> HIDE DEF x
  <2> QED BY <2>1, <2>3 DEF Writes, x
<1>5. CASE ~(x # None /\ ~Ships(x) /\ Emits[x])
  <2>1. EmptyAndRefill(e, x) = << Truncate >> \o Ship(e)
    BY <1>5 DEF EmptyAndRefill
  <2>2. << Truncate >> \o Ship(e) = << Truncate, Evaluate(e), InsertFrom >>
    <3>1. Ship(e) = << Evaluate(e), InsertFrom >>
      BY DEF Ship, Evaluate, InsertFrom
    <3> QED BY <3>1, Prepended
  <2> HIDE DEF x
  <2> QED BY <1>3, <2>1, <2>2 DEF Writes, x
<1> QED BY <1>4, <1>5

LEMMA AssignWrites ==
    ASSUME UpdatesAreWhole, OpaqueIsIndependent, JoinsFillTheTarget, NEW s \in CompiledStatements,
           s.verb = "assign", LowerAssign(s.rhs) # Declined, NEW d, IsDb(d)
    PROVE  \/ LowerAssign(s.rhs) = << >> /\ d[Target] = Eval(s.rhs, d)
           \/ Writes(LowerAssign(s.rhs), d, {}, Eval(s.rhs, d))
<1> DEFINE e == s.rhs
           x == Build[e]
<1>0. s \in Statements
  BY DEF CompiledStatements
<1>1. e \in Exprs /\ HeadingOf[e] = Heading /\ Storable(e)
  BY <1>0, StatementsAssumption DEF Accepted, Storable
<1>2. CASE e = TargetExpr
  <2>1. LowerAssign(e) = << >>
    BY <1>2 DEF LowerAssign
  <2> QED BY <1>1, <1>2, <2>1, TargetExprFacts
<1>3. CASE e # TargetExpr /\ Surgical(x) # None
  <2>1. LowerAssign(e) = << Surgical(x) >>
    BY <1>3 DEF LowerAssign
  <2>2. x # None /\ Surgical(x) = EmitAssignment(x)
    BY <1>3 DEF Surgical
  <2>3. x \in Trees /\ TreeHeading[x] = Heading /\ Meaning(d)[x] = Eval(e, d)
    BY <1>1, <2>2, BuiltTree, BuildMeans
  <2>4. WholeUpdate(x) /\ FillsTheTarget(x)
    BY <1>0, <2>2 DEF UpdatesAreWhole, JoinsFillTheTarget, FillsTheTarget
  <2>5. Does(EmitAssignment(x), d, Eval(e, d))
    <3>1. Does(EmitAssignment(x), d, Meaning(d)[x])
      <4> HIDE DEF x
      <4> QED BY <1>3, <2>2, <2>3, <2>4, EmitAssignmentMeans
    <3> QED BY <2>3, <3>1
  <2> QED BY <2>1, <2>2, <2>5, OneWrites
<1>4. CASE e # TargetExpr /\ Surgical(x) = None /\ UnionSource(e) # None
  <2> DEFINE r == UnionSource(e)
  <2>1. LowerAssign(e) = Ship(r)
    BY <1>4 DEF LowerAssign
  <2>2. e.op = "union" /\ ((e.l = TargetExpr /\ r = e.r) \/ (e.r = TargetExpr /\ r = e.l))
    BY <1>4 DEF UnionSource
  <2>3. /\ e.l \in Exprs /\ e.r \in Exprs /\ HeadingOf[e.l] = Heading
        /\ Eval(e, d) = Eval(e.l, d) \cup Eval(e.r, d)
    BY <1>1, <2>2, ExprShapes, HeadingFacts, EvalFacts DEF BinaryOps, SetOps, Applied
  <2>4. HeadingOf[e.r] = Heading
    BY <1>1, <2>2, <2>3, TypingAssumption DEF WellTyped
  <2>5. Storable(r) /\ d[Target] \cup Eval(r, d) = Eval(e, d)
    BY <2>2, <2>3, <2>4, TargetExprFacts DEF Storable
  <2> HIDE DEF r
  <2> QED BY <2>1, <2>5, ShipWrites
<1>5. CASE e # TargetExpr /\ Surgical(x) = None /\ UnionSource(e) = None
  <2>1. /\ ~(x # None /\ References(x, Target))
        /\ LowerAssign(e) = EmptyAndRefill(e, x)
    BY <1>5 DEF LowerAssign
  <2>2. x # None \/ ~Mentions(e, Target)
    BY <1>5 DEF OpaqueIsIndependent
  <2> QED BY <1>1, <2>1, <2>2, RefillWrites
<1> QED BY <1>2, <1>3, <1>4, <1>5

LEMMA DeleteWrites ==
    ASSUME NEW preds, Where(preds) \in Exprs, LowerDelete(preds) # Declined, NEW d, IsDb(d)
    PROVE  Writes(LowerDelete(preds), d, {}, {t \in d[Target] : ~Satisfies(preds, t)})
<1> DEFINE x == Build[Where(preds)]
           y == [op |-> "minus", l |-> TargetRef, r |-> x]
           i == Delete(Conjuncts[x])
<1>1. x # None /\ LowerDelete(preds) = << EmitAssignment(y) >>
  BY DEF LowerDelete
<1>2. x = Restricted(TargetRef, preds) /\ x \in Trees /\ TargetRef \in Trees
      /\ Len(preds) \in Nat /\ DOMAIN preds = 1 .. Len(preds)
  BY <1>1, WhereBuilt
<1>3. RootedInTarget[x] /\ Conjuncts[x] = {preds[j] : j \in DOMAIN preds}
  BY <1>2, RestrictedRooted
<1>4. y.op = "minus" /\ y.l = TargetRef /\ y.r = x
  OBVIOUS
<1> HIDE DEF x, y
<1>5. EmitAssignment(y) = i
  BY <1>3, <1>4 DEF EmitAssignment
<1>6. i.inst = "delete" /\ i.where = {preds[j] : j \in DOMAIN preds}
  BY <1>3 DEF Delete
<1>7. d[Target] \ Chosen(d, {preds[j] : j \in DOMAIN preds}) = {t \in d[Target] : ~Satisfies(preds, t)}
  BY DEF Chosen, Satisfies
<1> HIDE DEF i
<1>8. Does(i, d, {t \in d[Target] : ~Satisfies(preds, t)})
  BY <1>6, <1>7 DEF Does
<1> QED BY <1>1, <1>5, <1>8, OneWrites

LEMMA InsertWrites ==
    ASSUME NEW e, Storable(e), NEW d, IsDb(d)
    PROVE  Writes(LowerInsert(e), d, {}, d[Target] \cup Eval(e, d))
<1> DEFINE x == Build[e]
           y == [op |-> "or", l |-> TargetRef, r |-> x]
           i == EmitAssignment(y)
<1>1. CASE x # None /\ ~Ships(x) /\ i # None
  <2>1. LowerInsert(e) = << i >>
    BY <1>1 DEF LowerInsert
  <2>2. y.op = "or" /\ y.l = TargetRef /\ y.r = x
    OBVIOUS
  <2>3. x \in Trees /\ TreeHeading[x] = Heading /\ Meaning(d)[x] = Eval(e, d)
    BY <1>1, BuiltTree, BuildMeans DEF Storable
  <2> HIDE DEF x, y
  <2>4. i = InsertNew(x)
    BY <2>2 DEF EmitAssignment, Partner
  <2>5. Emits[x] /\ i = [inst |-> "insert", from |-> x]
    BY <1>1, <2>4 DEF InsertNew
  <2> HIDE DEF i
  <2>6. i.inst = "insert" /\ i.from = x
    BY <2>5
  <2>7. Does(i, d, d[Target] \cup Eval(e, d))
    BY <2>3, <2>5, <2>6 DEF Does
  <2> QED BY <2>1, <2>7, OneWrites
<1>2. CASE ~(x # None /\ ~Ships(x) /\ i # None)
  <2>1. LowerInsert(e) = Ship(e)
    BY <1>2 DEF LowerInsert
  <2> QED BY <2>1, ShipWrites
<1> QED BY <1>1, <1>2

\* The changed rows beside the others are the UPDATE that was asked for.
LEMMA UpdateWrites ==
    ASSUME NEW preds, NEW sets, Where(preds) \in Exprs, Settable(sets),
           LowerUpdate(preds, sets) # Declined, NEW d, IsDb(d)
    PROVE  \E i : /\ LowerUpdate(preds, sets) = << i >> /\ i.inst = "update"
                  /\ Does(i, d, {IF Satisfies(preds, t) THEN Set(sets, t) ELSE t : t \in d[Target]})
<1> DEFINE x == Build[Where(preds)]
           where == {preds[j] : j \in DOMAIN preds}
           asked == {IF Satisfies(preds, t) THEN Set(sets, t) ELSE t : t \in d[Target]}
<1>1. /\ TargetRef \in Trees /\ Len(preds) \in Nat /\ DOMAIN preds = 1 .. Len(preds)
      /\ preds \in Seq(Predicates(Heading))
      /\ x # None => x = Restricted(TargetRef, preds) /\ x \in Trees
  BY WhereBuilt
<1>2. asked = Changed(d, where, sets)
  BY DEF Changed, Satisfies
<1>3. ASSUME NEW y, NEW c, c = Substitute(y, sets), NEW i, i # None, i = Update(c), Conjuncts[y] = where
      PROVE  i.inst = "update" /\ Does(i, d, asked)
  <2>1. i = [inst |-> "update", where |-> Conjuncts[Core(c).in], sets |-> SetPairs(c)]
    BY <1>3 DEF Update
  <2>2. Core(c).in = y /\ Settable(SetPairs(c)) /\ \A t : Set(SetPairs(c), t) = Set(sets, t)
    BY <1>3, SubstituteSets
  <2>3. i.inst = "update" /\ i.where = where /\ i.sets = SetPairs(c)
    BY <1>3, <2>1, <2>2
  <2> HIDE DEF asked, where
  <2>4. Changed(d, where, SetPairs(c)) = Changed(d, where, sets)
    BY <2>2 DEF Changed
  <2> QED BY <1>2, <2>2, <2>3, <2>4 DEF Does
<1>4. CASE preds = << >>
  <2> DEFINE c == Substitute(TargetRef, sets)
             i == EmitAssignment(c)
  <2>1. LowerUpdate(preds, sets) = << i >> /\ i # None
    BY <1>4 DEF LowerUpdate, Declined
  <2>2. c.op = "rename" /\ Core(c).op = "extend" /\ Core(c).in = TargetRef
    BY SubstituteSets
  <2> HIDE DEF c
  <2>3. i = Update(c)
    BY <1>1, <2>2, RootedFacts DEF EmitAssignment, EmitUpdate, Computes
  <2>4. where = {}
    BY <1>4
  <2>5. Conjuncts[TargetRef] = where
    BY <1>1, <2>4, RootedFacts
  <2> HIDE DEF i, where, asked
  <2>6. i.inst = "update" /\ Does(i, d, asked)
    BY <1>3, <2>1, <2>3, <2>5 DEF c
  <2> QED BY <2>1, <2>6 DEF asked
<1>5. CASE preds # << >>
  <2> DEFINE l == RestrictNode(x.in, NotP(x.pred))
             r == Substitute(x, sets)
             y == [op |-> "or", l |-> l, r |-> r]
             i == EmitAssignment(y)
  <2>1. x # None /\ LowerUpdate(preds, sets) = << i >> /\ i # None
    BY <1>5 DEF LowerUpdate, Declined
  <2>2. Len(preds) > 0
    <3> HIDE DEF x
    <3> QED BY <1>1, <1>5
  <2>3. x \in Trees /\ x.op = "restrict" /\ RootedInTarget[x] /\ Conjuncts[x] = where
    BY <1>1, <2>1, <2>2, RestrictedRooted
  <2>4. RootedInTarget[x.in] /\ x.in \in Trees
    BY <2>3, RootedFacts, TreeShapes DEF ChainOps
  <2>5. l.op = "restrict" /\ l.in = x.in /\ l.pred = NotP(x.pred)
    BY DEF RestrictNode
  <2>6. r.op = "rename" /\ Core(r).op = "extend" /\ Core(r).in = x
    BY SubstituteSets
  <2>7. y.op = "or" /\ y.l = l /\ y.r = r
    OBVIOUS
  <2> HIDE DEF x, l, r, y
  <2>8. ~Computes(l) /\ Computes(r)
    BY <2>5, <2>6 DEF Computes, Core, Peel
  <2>9. Substituted(y) = r /\ Unchanged(y) = l
    BY <2>7, <2>8 DEF Substituted, Unchanged
  <2>10. IsUpdateUnion(y)
    BY <2>3, <2>4, <2>5, <2>6, <2>8, <2>9 DEF IsUpdateUnion, Complements
  <2>11. TargetRef \notin {y.l, y.r}
    BY <2>5, <2>6, <2>7, TargetRefShape
  <2>12. i = Update(r)
    BY <2>7, <2>9, <2>10, <2>11 DEF EmitAssignment, EmitUpdate
  <2> HIDE DEF i, where, asked
  <2>13. i.inst = "update" /\ Does(i, d, asked)
    BY <1>3, <2>1, <2>3, <2>12 DEF r
  <2> QED BY <2>1, <2>13 DEF asked
<1> QED BY <1>4, <1>5

\* Of every accepted statement that compiles.
LEMMA LowerWrites ==
    ASSUME UpdatesAreWhole, OpaqueIsIndependent, JoinsFillTheTarget, NEW s \in CompiledStatements,
           s.verb # "read", NEW d, IsDb(d)
    PROVE  \/ Lower(s) = << >> /\ d[Target] = Asked(s, d)
           \/ Writes(Lower(s), d, {}, Asked(s, d))
<1>0. Accepted(s) /\ Lower(s) # Declined
  BY StatementsAssumption DEF CompiledStatements, Compiled
<1>1. CASE s.verb = "assign"
  <2>1. Lower(s) = LowerAssign(s.rhs) /\ Asked(s, d) = Eval(s.rhs, d)
    BY <1>1 DEF Lower, Asked
  <2> QED BY <1>0, <1>1, <2>1, AssignWrites
<1>2. CASE s.verb = "truncate"
  <2>1. Lower(s) = << Truncate >> /\ Asked(s, d) = {}
    BY <1>2 DEF Lower, Asked
  <2>2. Truncate.inst = "delete" /\ Truncate.where = {}
    BY DEF Truncate, Delete
  <2>3. Chosen(d, {}) = d[Target]
    BY DEF Chosen
  <2>4. Does(Truncate, d, {})
    BY <2>2, <2>3 DEF Does
  <2> QED BY <2>1, <2>4, OneWrites
<1>3. CASE s.verb = "delete"
  <2>1. Lower(s) = LowerDelete(s.preds) /\ Asked(s, d) = {t \in d[Target] : ~Satisfies(s.preds, t)}
    BY <1>3 DEF Lower, Asked
  <2>2. Where(s.preds) \in Exprs
    BY <1>0, <1>3 DEF Accepted
  <2> QED BY <1>0, <2>1, <2>2, DeleteWrites
<1>4. CASE s.verb = "insert"
  <2>1. Lower(s) = LowerInsert(s.from) /\ Asked(s, d) = d[Target] \cup Eval(s.from, d)
    BY <1>4 DEF Lower, Asked
  <2>2. Storable(s.from)
    BY <1>0, <1>4 DEF Accepted
  <2> QED BY <2>1, <2>2, InsertWrites
<1>5. CASE s.verb = "update"
  <2>1. /\ Lower(s) = LowerUpdate(s.preds, s.sets)
        /\ Asked(s, d) = {IF Satisfies(s.preds, t) THEN Set(s.sets, t) ELSE t : t \in d[Target]}
    BY <1>5 DEF Lower, Asked
  <2>2. Where(s.preds) \in Exprs /\ Settable(s.sets)
    BY <1>0, <1>5 DEF Accepted, Settable
  <2>3. PICK i : Lower(s) = << i >> /\ Does(i, d, Asked(s, d))
    <3> DEFINE asked == {IF Satisfies(s.preds, t) THEN Set(s.sets, t) ELSE t : t \in d[Target]}
    <3>1. LowerUpdate(s.preds, s.sets) # Declined
      BY <1>0, <2>1
    <3>2. \E i : LowerUpdate(s.preds, s.sets) = << i >> /\ i.inst = "update" /\ Does(i, d, asked)
      BY <2>2, <3>1, UpdateWrites
    <3>3. Asked(s, d) = asked
      BY <2>1
    <3> HIDE DEF asked
    <3> QED BY <2>1, <3>2, <3>3
  <2> QED BY <2>3, OneWrites
<1> QED BY <1>0, <1>1, <1>2, <1>3, <1>4, <1>5 DEF Accepted

-----------------------------------------------------------------------------
(* One instruction.                                                        *)

LEMMA InstNames ==
    /\ InsertFrom.inst = "insertfrom"
    /\ Truncate.inst = "delete" /\ Truncate.where = {}
    /\ \A e : Evaluate(e).inst = "eval" /\ Evaluate(e).expr = e
    /\ \A x : Refill(x).inst = "refill" /\ Refill(x).from = x
BY DEF InsertFrom, Truncate, Delete, Evaluate, Refill

\* What is known of the instruction about to run.
LEMMA WritesHead ==
    ASSUME NEW c, NEW d, NEW q, NEW asked, Writes(c, d, q, asked)
    PROVE  /\ Head(c).inst \in {"delete", "antijoin", "insert", "update", "insertfrom", "eval", "refill"}
           /\ Head(c).inst \in {"antijoin", "insert", "update"} =>
                Tail(c) = << >> /\ Does(Head(c), d, asked) /\ c = << Head(c) >>
           /\ Head(c).inst = "insertfrom" =>
                Tail(c) = << >> /\ q \in Rows(Heading) /\ d[Target] \cup q = asked
           /\ Head(c).inst = "eval" =>
                /\ Tail(c) = << InsertFrom >> /\ Storable(Head(c).expr)
                /\ d[Target] \cup Eval(Head(c).expr, d) = asked
           /\ Head(c).inst = "refill" =>
                /\ Tail(c) = << >> /\ Fits(Head(c).from) /\ d[Target] = {}
                /\ Meaning(d)[Head(c).from] = asked
           /\ Head(c).inst = "delete" =>
                \/ Tail(c) = << >> /\ Does(Head(c), d, asked)
                \/ /\ Head(c) = Truncate
                   /\ \E x : Fits(x) /\ Tail(c) = << Refill(x) >> /\ Meaning(Wiped(d))[x] = asked
                \/ /\ Head(c) = Truncate
                   /\ \E e : Storable(e) /\ Tail(c) = << Evaluate(e), InsertFrom >> /\ Eval(e, Wiped(d)) = asked
<1>0. \A a : Head(<< a >>) = a /\ Tail(<< a >>) = << >>
  OBVIOUS
<1>1. \A a, b : Head(<< a, b >>) = a /\ Tail(<< a, b >>) = << b >>
  OBVIOUS
<1>2. \A a, b, g : Head(<< a, b, g >>) = a /\ Tail(<< a, b, g >>) = << b, g >>
  OBVIOUS
<1>3. CASE Len(c) = 1 /\ c = <<c[1]>> /\ Does(c[1], d, asked)
  <2>1. Head(c) = c[1] /\ Tail(c) = << >> /\ c = << Head(c) >> /\ Does(Head(c), d, asked)
    BY <1>0, <1>3
  <2>2. Head(c).inst \in {"delete", "antijoin", "insert", "update"}
    BY <2>1 DEF Does
  <2> HIDE DEF Does
  <2> QED BY <2>1, <2>2
<1>4. CASE c = << InsertFrom >> /\ q \in Rows(Heading) /\ d[Target] \cup q = asked
  BY <1>0, <1>4, InstNames
<1>5. ASSUME NEW e, Storable(e), c = << Evaluate(e), InsertFrom >>, d[Target] \cup Eval(e, d) = asked
      PROVE  /\ Tail(c) = << InsertFrom >> /\ Storable(Head(c).expr) /\ Head(c).inst = "eval"
             /\ d[Target] \cup Eval(Head(c).expr, d) = asked
  <2>1. Head(c) = Evaluate(e) /\ Tail(c) = << InsertFrom >>
    BY <1>1, <1>5
  <2> QED BY <1>5, <2>1, InstNames
<1>6. ASSUME NEW x, Fits(x), c = << Refill(x) >>, d[Target] = {}, Meaning(d)[x] = asked
      PROVE  /\ Tail(c) = << >> /\ Fits(Head(c).from) /\ d[Target] = {} /\ Head(c).inst = "refill"
             /\ Meaning(d)[Head(c).from] = asked
  <2>1. Head(c) = Refill(x) /\ Tail(c) = << >>
    BY <1>0, <1>6
  <2> QED BY <1>6, <2>1, InstNames
<1>7. ASSUME NEW x, Fits(x), c = << Truncate, Refill(x) >>, Meaning(Wiped(d))[x] = asked
      PROVE  /\ Head(c) = Truncate /\ Head(c).inst = "delete"
             /\ \E y : Fits(y) /\ Tail(c) = << Refill(y) >> /\ Meaning(Wiped(d))[y] = asked
  <2>1. Head(c) = Truncate /\ Tail(c) = << Refill(x) >>
    BY <1>1, <1>7
  <2> QED BY <1>7, <2>1, InstNames
<1>8. ASSUME NEW e, Storable(e), c = << Truncate, Evaluate(e), InsertFrom >>, Eval(e, Wiped(d)) = asked
      PROVE  /\ Head(c) = Truncate /\ Head(c).inst = "delete"
             /\ \E y : Storable(y) /\ Tail(c) = << Evaluate(y), InsertFrom >> /\ Eval(y, Wiped(d)) = asked
  <2>1. Head(c) = Truncate /\ Tail(c) = << Evaluate(e), InsertFrom >>
    BY <1>2, <1>8
  <2> QED BY <1>8, <2>1, InstNames
<1>9. CASE \E e : Storable(e) /\ c = << Evaluate(e), InsertFrom >> /\ d[Target] \cup Eval(e, d) = asked
  <2>1. /\ Tail(c) = << InsertFrom >> /\ Storable(Head(c).expr) /\ Head(c).inst = "eval"
        /\ d[Target] \cup Eval(Head(c).expr, d) = asked
    BY <1>5, <1>9
  <2> QED BY <2>1
<1>10. CASE \E x : Fits(x) /\ c = << Refill(x) >> /\ d[Target] = {} /\ Meaning(d)[x] = asked
  <2>1. /\ Tail(c) = << >> /\ Fits(Head(c).from) /\ d[Target] = {} /\ Head(c).inst = "refill"
        /\ Meaning(d)[Head(c).from] = asked
    BY <1>6, <1>10
  <2> QED BY <2>1
<1>11. CASE \E x : Fits(x) /\ c = << Truncate, Refill(x) >> /\ Meaning(Wiped(d))[x] = asked
  <2>1. /\ Head(c) = Truncate /\ Head(c).inst = "delete"
        /\ \E y : Fits(y) /\ Tail(c) = << Refill(y) >> /\ Meaning(Wiped(d))[y] = asked
    BY <1>7, <1>11
  <2> QED BY <2>1
<1>12. CASE \E e : Storable(e) /\ c = << Truncate, Evaluate(e), InsertFrom >> /\ Eval(e, Wiped(d)) = asked
  <2>1. /\ Head(c) = Truncate /\ Head(c).inst = "delete"
        /\ \E y : Storable(y) /\ Tail(c) = << Evaluate(y), InsertFrom >> /\ Eval(y, Wiped(d)) = asked
    BY <1>8, <1>12
  <2> QED BY <2>1
<1> QED BY <1>3, <1>4, <1>9, <1>10, <1>11, <1>12 DEF Writes

WithTarget(d, rows) == [d EXCEPT ![Target] = rows]

LEMMA WithTargetFacts ==
    ASSUME NEW d, IsDb(d), NEW rows \in Rows(Heading)
    PROVE  /\ IsDb(WithTarget(d, rows)) /\ WithTarget(d, rows)[Target] = rows
           /\ \A r \in Relvars : r # Target => WithTarget(d, rows)[r] = d[r]
BY TargetAssumption DEF WithTarget, IsDb, Heading

\* A DELETE does its part: all of it, or the emptying before a refill.
LEMMA DeleteStep ==
    ASSUME NEW c, NEW d, IsDb(d), NEW q, NEW asked, Writes(c, d, q, asked), Head(c).inst = "delete",
           NEW d2, d2 = WithTarget(d, d[Target] \ Chosen(d, Head(c).where))
    PROVE  /\ IsDb(d2)
           /\ Tail(c) = << >> => d2[Target] = asked
           /\ Tail(c) # << >> => Writes(Tail(c), d2, q, asked) /\ Head(Tail(c)).inst # "update"
<1>1. d[Target] \in Rows(Heading)
  BY TargetAssumption DEF IsDb, Heading
<1>2. d[Target] \ Chosen(d, Head(c).where) \in Rows(Heading)
  BY <1>1 DEF Rows
<1>3. IsDb(d2) /\ d2[Target] = d[Target] \ Chosen(d, Head(c).where)
  BY <1>2, WithTargetFacts
<1>4. CASE Tail(c) = << >> /\ Does(Head(c), d, asked)
  <2>1. d[Target] \ Chosen(d, Head(c).where) = asked
    BY <1>4 DEF Does
  <2> QED BY <1>3, <1>4, <2>1
<1>5. Head(c) = Truncate => d2 = Wiped(d) /\ d2[Target] = {}
  <2> SUFFICES ASSUME Head(c) = Truncate PROVE d2 = Wiped(d) /\ d2[Target] = {}
    OBVIOUS
  <2>1. d[Target] \ Chosen(d, Head(c).where) = {}
    BY InstNames DEF Chosen
  <2> QED BY <1>3, <2>1 DEF WithTarget, Wiped
<1>6. ASSUME Head(c) = Truncate, NEW x, Fits(x), Tail(c) = << Refill(x) >>, Meaning(Wiped(d))[x] = asked
      PROVE  Tail(c) # << >> /\ Writes(Tail(c), d2, q, asked) /\ Head(Tail(c)).inst # "update"
  <2>1. Head(Tail(c)) = Refill(x) /\ Tail(c) # << >>
    <3>1. \A a : Head(<< a >>) = a /\ << a >> # << >>
      OBVIOUS
    <3> QED BY <1>6, <3>1
  <2>2. Writes(Tail(c), d2, q, asked)
    BY <1>5, <1>6 DEF Writes
  <2> QED BY <2>1, <2>2, InstNames
<1>7. ASSUME Head(c) = Truncate, NEW e, Storable(e), Tail(c) = << Evaluate(e), InsertFrom >>,
             Eval(e, Wiped(d)) = asked
      PROVE  Tail(c) # << >> /\ Writes(Tail(c), d2, q, asked) /\ Head(Tail(c)).inst # "update"
  <2>1. Head(Tail(c)) = Evaluate(e) /\ Tail(c) # << >>
    <3>1. \A a, b : Head(<< a, b >>) = a /\ << a, b >> # << >>
      OBVIOUS
    <3> QED BY <1>7, <3>1
  <2>2. d2[Target] \cup Eval(e, d2) = asked
    BY <1>5, <1>7
  <2>3. Writes(Tail(c), d2, q, asked)
    BY <1>7, <2>2 DEF Writes
  <2> QED BY <2>1, <2>3, InstNames
<1>8. \/ Tail(c) = << >> /\ Does(Head(c), d, asked)
      \/ /\ Head(c) = Truncate
         /\ \E x : Fits(x) /\ Tail(c) = << Refill(x) >> /\ Meaning(Wiped(d))[x] = asked
      \/ /\ Head(c) = Truncate
         /\ \E e : Storable(e) /\ Tail(c) = << Evaluate(e), InsertFrom >> /\ Eval(e, Wiped(d)) = asked
  BY WritesHead
<1>9. CASE Tail(c) = << >>
  <2>1. \A a, b : << a >> # << >> /\ << a, b >> # << >>
    OBVIOUS
  <2> QED BY <1>3, <1>4, <1>8, <1>9, <2>1
<1>10. CASE Tail(c) # << >>
  <2>1. Writes(Tail(c), d2, q, asked) /\ Head(Tail(c)).inst # "update"
    BY <1>6, <1>7, <1>8, <1>10
  <2> QED BY <1>3, <1>10, <2>1
<1> QED BY <1>9, <1>10

-----------------------------------------------------------------------------
(* The invariant.                                                          *)

Query(e) == [inst |-> "query", expr |-> e]

\* The tables keep their keys, and only the target is touched.
Sound ==
    /\ IsDb(db) /\ IsDb(before)
    /\ Keyed(db[Target]) /\ Keyed(before[Target])
    /\ \A r \in Relvars : r # Target => db[r] = before[r] /\ Identifies(Primary[r], before[r])
    /\ stmt \in Statements \cup {NoStatement}
    /\ outcome \in {"running", "done", "refused"}
    /\ outcome = "running" => stmt \in Statements
    /\ changing # {} => outcome = "running"

\* The disk holds rows of the target, the ones the program sees unless a
\* transaction is open.
OnDisk ==
    /\ published \in Rows(Heading) /\ Keyed(published)
    /\ ~inTx => published = db[Target]

\* The keys the emitter counts on.
LEMMA KeysAreHeld ==
    ASSUME KeysAreEnforced, Sound
    PROVE  KeysHold(db)
<1> SUFFICES ASSUME NEW r \in Relvars, NEW k \in Keys[r]
             PROVE  Identifies(k, db[r])
  BY DEF KeysHold
<1>1. Primary[r] \subseteq k
  BY DEF KeysAreEnforced
<1>2. Identifies(Primary[r], db[r])
  <2>1. CASE r = Target
    BY <2>1 DEF Sound, Keyed, Clashing, Identifies, Key
  <2>2. CASE r # Target
    BY <2>2 DEF Sound
  <2> QED BY <2>1, <2>2
<1>3. \A t, u \in db[r] : (\A a \in Primary[r] : t[a] = u[a]) => t = u
  BY <1>2, IdentifiesSame
<1>4. \A t, u \in db[r] : (\A a \in k : t[a] = u[a]) => t = u
  BY <1>1, <1>3
<1> QED BY <1>4, IdentifiesSame

\* Between instructions, those left still make what was asked for.
Steady ==
    outcome = "running" /\ changing = {} =>
        /\ stmt.verb = "read" => code = << Query(stmt.rhs) >> /\ db = before
        /\ stmt.verb # "read" =>
              /\ Writes(code, db, src, Asked(stmt, before))
              /\ Head(code).inst = "update" => code = Lower(stmt) /\ db = before

\* In the middle of an UPDATE: the rows it found are either still to change,
\* and as they were, or changed -- and no changed row is one still to change.
Partway(rows, found, left, sets, now) ==
    /\ found \subseteq rows /\ left \subseteq found
    /\ now = (rows \ found) \cup left \cup {Set(sets, t) : t \in found \ left}
    /\ \A t \in found \ left : Set(sets, t) \notin left

Midway ==
    changing # {} =>
        /\ stmt.verb # "read"
        /\ code = << Head(code) >> /\ Lower(stmt) = code
        /\ Head(code).inst = "update" /\ Settable(Head(code).sets)
        /\ Changed(before, Head(code).where, Head(code).sets) = Asked(stmt, before)
        /\ Partway(before[Target], Chosen(before, Head(code).where), changing, Head(code).sets, db[Target])

Finished ==
    outcome = "done" =>
        /\ db[Target] = Asked(stmt, before)
        /\ stmt.verb = "read" => src = Eval(stmt.rhs, before)

Rejected == outcome = "refused" => ~Keyed(Asked(stmt, before)) \/ SetsKey(stmt)

Inv == Sound /\ OnDisk /\ Steady /\ Midway /\ Finished /\ Rejected

-----------------------------------------------------------------------------
(* Steps.                                                                  *)

LEMMA TargetRows ==
    ASSUME NEW d, IsDb(d)
    PROVE  d[Target] \in Rows(Heading)
BY TargetAssumption DEF IsDb, Heading

\* The target gets other rows: on disk too, outside transactions.
LEMMA TableStep ==
    ASSUME IsDb(db), OnDisk, NEW rows \in Rows(Heading), Keyed(rows), Table(rows), inTx' = inTx
    PROVE  /\ OnDisk' /\ db' = WithTarget(db, rows)
           /\ IsDb(db') /\ db'[Target] = rows /\ \A r \in Relvars : r # Target => db'[r] = db[r]
<1>1. db' = WithTarget(db, rows) /\ published' = IF inTx THEN published ELSE rows
  BY DEF Table, WithTarget
<1>2. IsDb(db') /\ db'[Target] = rows /\ \A r \in Relvars : r # Target => db'[r] = db[r]
  BY <1>1, WithTargetFacts
<1>3. published' \in Rows(Heading) /\ Keyed(published)' /\ (~inTx' => published' = db'[Target])
  BY <1>1, <1>2 DEF OnDisk, Keyed
<1>4. OnDisk'
  BY <1>3 DEF OnDisk
<1> QED BY <1>1, <1>2, <1>4

LEMMA DiskStays ==
    ASSUME OnDisk, db' = db, published' = published, inTx' = inTx
    PROVE  OnDisk'
BY DEF OnDisk, Keyed

\* The last instruction is done.
LEMMA LastStep ==
    ASSUME Inv, outcome = "running", stmt.verb # "read", Tail(code) = << >>, Advance, changing' = {},
           NEW rows \in Rows(Heading), Table(rows), rows = Asked(stmt, before), Keyed(rows)
    PROVE  Inv'
<1>1. stmt' = stmt /\ before' = before /\ outcome' = "done" /\ changing' = {} /\ inTx' = inTx
  BY DEF Advance
<1>2. OnDisk' /\ IsDb(db') /\ db'[Target] = rows /\ \A r \in Relvars : r # Target => db'[r] = db[r]
  BY <1>1, TableStep DEF Inv, Sound
<1>3. Sound'
  BY <1>1, <1>2 DEF Inv, Sound
<1>4. Steady' /\ Midway' /\ Rejected'
  BY <1>1 DEF Steady, Midway, Rejected
<1>5. Finished'
  BY <1>1, <1>2 DEF Finished
<1> QED BY <1>2, <1>3, <1>4, <1>5 DEF Inv

LEMMA RefuseStep ==
    ASSUME Inv, outcome = "running", Refuse, ~Keyed(Asked(stmt, before)) \/ SetsKey(stmt)
    PROVE  Inv'
<1>1. /\ stmt' = stmt /\ before' = before /\ outcome' = "refused" /\ changing' = {}
      /\ db' = WithTarget(db, published) /\ published' = published
  BY DEF Refuse, WithTarget
<1>2. published \in Rows(Heading) /\ Keyed(published)
  BY DEF Inv, OnDisk
<1>3. IsDb(db') /\ db'[Target] = published /\ \A r \in Relvars : r # Target => db'[r] = db[r]
  BY <1>1, <1>2, WithTargetFacts DEF Inv, Sound
<1>4. Sound'
  BY <1>1, <1>2, <1>3 DEF Inv, Sound
<1>5. OnDisk'
  BY <1>1, <1>2, <1>3 DEF OnDisk, Keyed
<1>6. Steady' /\ Midway' /\ Finished'
  BY <1>1 DEF Steady, Midway, Finished
<1>7. Rejected'
  BY <1>1 DEF Rejected
<1> QED BY <1>4, <1>5, <1>6, <1>7 DEF Inv

\* New rows are stored, or refused because they clash.
LEMMA InsertStep ==
    ASSUME Inv, outcome = "running", stmt.verb # "read", changing = {}, Tail(code) = << >>,
           NEW new \in Rows(Heading), db[Target] \cup new = Asked(stmt, before),
           \A t \in new : t \notin db[Target], InsertRows(new, {})
    PROVE  Inv'
<1>1. IsDb(db) /\ Keyed(db[Target]) /\ db[Target] \in Rows(Heading)
  BY TargetRows DEF Inv, Sound
<1>2. CASE Accepts(new)
  <2>1. Table(db[Target] \cup new) /\ Advance /\ changing' = {}
    BY <1>2 DEF InsertRows
  <2>2. Keyed(db[Target] \cup new)
    <3> SUFFICES ASSUME NEW t \in db[Target] \cup new, NEW u \in db[Target] \cup new,
                        t # u, Restrict(t, Key) = Restrict(u, Key)
                 PROVE  FALSE
      BY DEF Keyed, Clashing
    <3>1. CASE t \in new
      BY <1>2, <3>1 DEF Accepts
    <3>2. CASE u \in new
      BY <1>2, <3>2 DEF Accepts
    <3>3. CASE t \in db[Target] /\ u \in db[Target]
      BY <1>1, <3>3 DEF Keyed, Clashing
    <3> QED BY <3>1, <3>2, <3>3
  <2>3. db[Target] \cup new \in Rows(Heading)
    BY <1>1 DEF Rows
  <2> QED BY <2>1, <2>2, <2>3, LastStep
<1>3. CASE ~Accepts(new)
  <2>1. Refuse
    BY <1>3 DEF InsertRows
  <2>2. PICK t \in new, u \in db[Target] \cup new :
           Restrict(t, Key) = Restrict(u, Key) /\ ~(t = u /\ u \notin db[Target])
    BY <1>3 DEF Accepts
  <2>3. Clashing(t, u) /\ t \in db[Target] \cup new
    BY <2>2 DEF Clashing
  <2>4. ~Keyed(Asked(stmt, before))
    BY <2>2, <2>3 DEF Keyed
  <2> QED BY <2>1, <2>4, RefuseStep
<1> QED BY <1>2, <1>3

\* One row of an UPDATE.
LEMMA PartwayStep ==
    ASSUME NEW rows, NEW found, NEW left, NEW sets, NEW now, Partway(rows, found, left, sets, now),
           NEW t \in left, Set(sets, t) \notin now \ {t}
    PROVE  Partway(rows, found, left \ {t}, sets, (now \ {t}) \cup {Set(sets, t)})
<1> DEFINE F(s) == Set(sets, s)
           more == left \ {t}
<1>1. /\ found \subseteq rows /\ left \subseteq found
      /\ now = (rows \ found) \cup left \cup {F(s) : s \in found \ left}
      /\ \A s \in found \ left : F(s) \notin left
      /\ F(t) \notin now \ {t}
  BY DEF Partway
<1> HIDE DEF F
<1>2. \A s : s \in found \ more <=> s \in found \ left \/ s = t
  BY <1>1
<1>3. (now \ {t}) \cup {F(t)} = (rows \ found) \cup more \cup {F(s) : s \in found \ more}
  BY <1>1, <1>2
<1>4. \A s \in found \ more : F(s) \notin more
  BY <1>1, <1>2
<1> QED BY <1>1, <1>3, <1>4 DEF Partway, F

LEMMA PartwayEnds ==
    ASSUME NEW d, NEW where, NEW sets, NEW now,
           Partway(d[Target], Chosen(d, where), {}, sets, now)
    PROVE  now = Changed(d, where, sets)
BY DEF Partway, Chosen, Changed

LEMMA PartwayStarts ==
    ASSUME NEW d, NEW where, NEW sets
    PROVE  Partway(d[Target], Chosen(d, where), Chosen(d, where), sets, d[Target])
BY DEF Partway, Chosen

LEMMA WritesNonempty ==
    ASSUME NEW c, NEW d, NEW q, NEW asked, Writes(c, d, q, asked)
    PROVE  c # << >>
<1>1. Len(<< >>) = 0
  OBVIOUS
<1>2. \A a, b, g : << a >> # << >> /\ << a, b >> # << >> /\ << a, b, g >> # << >>
  OBVIOUS
<1>3. CASE Len(c) = 1
  BY <1>1, <1>3
<1>4. CASE Len(c) # 1
  BY <1>2, <1>4 DEF Writes
<1> QED BY <1>3, <1>4

\* An instruction that is no query is one of a statement that writes.
LEMMA RunningFacts ==
    ASSUME Inv, NEW inst, Running(inst), inst # "query"
    PROVE  /\ outcome = "running" /\ changing = {} /\ Head(code).inst = inst
           /\ stmt \in Statements /\ stmt.verb # "read"
           /\ IsDb(db) /\ Writes(code, db, src, Asked(stmt, before))
           /\ inst = "update" => code = Lower(stmt) /\ db = before
<1>1. outcome = "running" /\ changing = {} /\ Head(code).inst = inst
  BY DEF Running
<1>2. stmt.verb # "read"
  <2> SUFFICES ASSUME stmt.verb = "read" PROVE FALSE
    OBVIOUS
  <2>1. code = << Query(stmt.rhs) >>
    BY <1>1 DEF Inv, Steady
  <2>2. Head(code) = Query(stmt.rhs)
    BY <2>1
  <2>3. Head(code).inst = "query"
    BY <2>2 DEF Query
  <2> QED BY <1>1, <2>3
<1>3. /\ Writes(code, db, src, Asked(stmt, before))
      /\ Head(code).inst = "update" => code = Lower(stmt) /\ db = before
  BY <1>1, <1>2 DEF Inv, Steady
<1>4. stmt \in Statements /\ IsDb(db)
  BY <1>1 DEF Inv, Sound
<1> QED BY <1>1, <1>2, <1>3, <1>4

LEMMA InitHolds ==
    ASSUME Init
    PROVE  Inv
<1>1. NoStatement.verb = "none"
  BY DEF NoStatement
<1>2. Asked(stmt, before) = db[Target] /\ stmt.verb # "read"
  BY <1>1 DEF Init, Asked
<1>3. Sound
  BY DatabasesAssumption DEF Init, Sound
<1>4. Steady /\ Midway /\ Finished /\ Rejected
  BY <1>2 DEF Init, Steady, Midway, Finished, Rejected
<1>5. OnDisk
  BY <1>3, TargetRows DEF Init, OnDisk, Sound
<1> QED BY <1>3, <1>4, <1>5 DEF Inv

\* A transaction begins, or ends.
LEMMA BracketStep ==
    ASSUME Inv, OpenBracket \/ CloseBracket
    PROVE  Inv'
<1>1. /\ db' = db /\ stmt' = NoStatement /\ before' = db /\ changing' = {} /\ outcome' = "done"
      /\ (inTx' /\ published' = published) \/ published' = db[Target]
  BY DEF OpenBracket, CloseBracket, Rest
<1>2. NoStatement.verb = "none"
  BY DEF NoStatement
<1>3. Sound'
  BY <1>1 DEF Inv, Sound
<1>4. OnDisk'
  <2>1. db[Target] \in Rows(Heading) /\ Keyed(db[Target])
    BY TargetRows DEF Inv, Sound
  <2>2. published \in Rows(Heading) /\ Keyed(published)
    BY DEF Inv, OnDisk
  <2> QED BY <1>1, <2>1, <2>2 DEF OnDisk, Keyed
<1>5. Asked(stmt', before') = db'[Target] /\ stmt'.verb # "read"
  BY <1>1, <1>2 DEF Asked
<1>6. Steady' /\ Midway' /\ Finished' /\ Rejected'
  BY <1>1, <1>5 DEF Steady, Midway, Finished, Rejected
<1> QED BY <1>3, <1>4, <1>6 DEF Inv

LEMMA BeginStep ==
    ASSUME UpdatesAreWhole, OpaqueIsIndependent, JoinsFillTheTarget, Inv, NEW s \in CompiledStatements,
           Begin(s)
    PROVE  Inv'
<1>1. /\ stmt' = s /\ before' = db /\ code' = Lower(s) /\ changing' = {} /\ src' = {} /\ db' = db
      /\ outcome' = (IF Lower(s) = << >> THEN "done" ELSE "running")
      /\ inTx' = inTx /\ published' = published /\ s \in Statements
  BY DEF Begin, Lowered, CompiledStatements
<1>2. /\ IsDb(db) /\ Keyed(db[Target])
      /\ \A r \in Relvars : r # Target => Identifies(Primary[r], db[r])
  BY DEF Inv, Sound
<1>3. Sound'
  BY <1>1, <1>2 DEF Sound
<1>4. Midway' /\ Rejected' /\ OnDisk'
  BY <1>1, DiskStays DEF Midway, Rejected, Inv
<1>5. CASE s.verb = "read"
  <2>1. Lower(s) = << Query(s.rhs) >>
    BY <1>5 DEF Lower, Query
  <2>2. Lower(s) # << >>
    BY <2>1
  <2>3. outcome' = "running"
    BY <1>1, <2>2
  <2>4. Steady'
    BY <1>1, <1>5, <2>1 DEF Steady
  <2>5. Finished'
    BY <2>3 DEF Finished
  <2> QED BY <1>3, <1>4, <2>4, <2>5 DEF Inv
<1>6. CASE s.verb # "read" /\ Lower(s) = << >> /\ db[Target] = Asked(s, db)
  <2>1. outcome' = "done"
    BY <1>1, <1>6
  <2>2. Steady'
    BY <2>1 DEF Steady
  <2>3. Finished'
    BY <1>1, <1>6 DEF Finished
  <2> QED BY <1>3, <1>4, <2>2, <2>3 DEF Inv
<1>7. CASE s.verb # "read" /\ Writes(Lower(s), db, {}, Asked(s, db))
  <2>1. Lower(s) # << >>
    BY <1>7, WritesNonempty
  <2>2. outcome' = "running"
    BY <1>1, <2>1
  <2>3. Finished'
    BY <2>2 DEF Finished
  <2>4. Steady'
    BY <1>1, <1>7 DEF Steady
  <2> QED BY <1>3, <1>4, <2>3, <2>4 DEF Inv
<1> QED BY <1>1, <1>2, <1>5, <1>6, <1>7, LowerWrites

LEMMA ExecDeleteStep ==
    ASSUME Inv, ExecDelete
    PROVE  Inv'
<1> DEFINE rows == db[Target] \ Chosen(db, Head(code).where)
           asked == Asked(stmt, before)
<1>0. Running("delete")
  BY DEF ExecDelete
<1>1. /\ outcome = "running" /\ changing = {} /\ Head(code).inst = "delete" /\ stmt.verb # "read"
      /\ IsDb(db) /\ Writes(code, db, src, asked) /\ stmt \in Statements
  BY <1>0, RunningFacts
<1>2. Table(rows) /\ Advance /\ changing' = {} /\ src' = src
  BY <1>1 DEF ExecDelete, Matched, Chosen
<1>3. rows \in Rows(Heading) /\ Keyed(rows)
  <2>1. db[Target] \in Rows(Heading) /\ Keyed(db[Target])
    BY <1>1, TargetRows DEF Inv, Sound
  <2> QED BY <2>1 DEF Keyed, Rows
<1>4. /\ OnDisk' /\ db' = WithTarget(db, rows)
      /\ db'[Target] = rows /\ \A r \in Relvars : r # Target => db'[r] = db[r]
  <2> HIDE DEF rows
  <2>1. inTx' = inTx
    BY <1>2 DEF Advance
  <2> QED BY <1>1, <1>2, <1>3, <2>1, TableStep DEF Inv
<1> HIDE DEF asked
<1>5. /\ IsDb(db') /\ (Tail(code) = << >> => db'[Target] = asked)
      /\ Tail(code) # << >> => Writes(Tail(code), db', src, asked) /\ Head(Tail(code)).inst # "update"
  BY <1>1, <1>4, DeleteStep
<1> USE DEF asked
<1>6. CASE Tail(code) = << >>
  <2>1. rows = Asked(stmt, before)
    BY <1>4, <1>5, <1>6
  <2> HIDE DEF rows, asked
  <2> QED BY <1>1, <1>2, <1>3, <1>6, <2>1, LastStep
<1>7. CASE Tail(code) # << >>
  <2> HIDE DEF rows
  <2>1. /\ code' = Tail(code) /\ outcome' = "running" /\ stmt' = stmt /\ before' = before
        /\ changing' = {} /\ src' = src
    BY <1>2, <1>7 DEF Advance
  <2>2. Sound'
    BY <1>1, <1>3, <1>4, <1>5, <2>1 DEF Inv, Sound
  <2>3. Steady'
    BY <1>1, <1>5, <1>7, <2>1 DEF Steady
  <2>4. Midway' /\ Finished' /\ Rejected'
    BY <2>1 DEF Midway, Finished, Rejected
  <2> QED BY <1>4, <2>2, <2>3, <2>4 DEF Inv
<1> QED BY <1>6, <1>7

LEMMA ExecAntiJoinStep ==
    ASSUME SetOpsNestLeft, JoinsAlign, Inv, ExecAntiJoin
    PROVE  Inv'
<1> DEFINE i == Head(code)
           other == Sql(i.from, db)
           rows == IF i.negated THEN db[Target] \cap other ELSE db[Target] \ other
<1>0. Running("antijoin")
  BY DEF ExecAntiJoin
<1>1. /\ outcome = "running" /\ changing = {} /\ i.inst = "antijoin" /\ stmt.verb # "read"
      /\ IsDb(db) /\ Writes(code, db, src, Asked(stmt, before))
  BY <1>0, RunningFacts
<1>2. Tail(code) = << >> /\ Does(i, db, Asked(stmt, before))
  BY <1>1, WritesHead
<1>3. /\ i.from \in Trees /\ Emits[i.from] /\ TreeHeading[i.from] = Heading
      /\ Asked(stmt, before) =
            IF i.negated THEN db[Target] \cap Meaning(db)[i.from] ELSE db[Target] \ Meaning(db)[i.from]
  BY <1>1, <1>2 DEF Does
<1>4. other = Meaning(db)[i.from]
  BY <1>1, <1>3, SqlMeans
<1>5. rows = Asked(stmt, before)
  BY <1>3, <1>4
<1>6. Table(rows) /\ Advance /\ changing' = {}
  BY <1>1, <1>3 DEF ExecAntiJoin
<1>7. rows \in Rows(Heading) /\ Keyed(rows)
  <2>1. db[Target] \in Rows(Heading) /\ Keyed(db[Target])
    BY <1>1, TargetRows DEF Inv, Sound
  <2>2. rows \subseteq db[Target]
    OBVIOUS
  <2> HIDE DEF rows
  <2> QED BY <2>1, <2>2 DEF Keyed, Rows
<1> HIDE DEF rows
<1> QED BY <1>1, <1>2, <1>5, <1>6, <1>7, LastStep

LEMMA ExecInsertStep ==
    ASSUME SetOpsNestLeft, JoinsAlign, KeysAreEnforced, Inv, ExecInsert
    PROVE  Inv'
<1> DEFINE x == Head(code).from
           new == NewRows(Sql(x, db))
<1>0. Running("insert")
  BY DEF ExecInsert
<1>1. /\ outcome = "running" /\ changing = {} /\ Head(code).inst = "insert" /\ stmt.verb # "read"
      /\ IsDb(db) /\ Writes(code, db, src, Asked(stmt, before))
  BY <1>0, RunningFacts
<1>2. Tail(code) = << >> /\ Does(Head(code), db, Asked(stmt, before))
  BY <1>1, WritesHead
<1>3. /\ x \in Trees /\ Emits[x] /\ TreeHeading[x] = Heading
      /\ db[Target] \cup Meaning(db)[x] = Asked(stmt, before)
  BY <1>1, <1>2 DEF Does
<1>4. Sql(x, db) = Meaning(db)[x] /\ Meaning(db)[x] \in Rows(Heading)
  BY <1>1, <1>3, SqlMeans, MeaningTyped
<1>5. new \in Rows(Heading) /\ (\A t \in new : t \notin db[Target])
  BY <1>4 DEF NewRows, Rows
<1>6. db[Target] \cup new = Asked(stmt, before)
  BY <1>3, <1>4 DEF NewRows
<1>7. InsertRows(new, {})
  <2>1. Repeated(x, db) = {}
    BY <1>1, <1>3, KeysAreHeld, DistinctIsRedundant DEF Inv
  <2> QED BY <2>1 DEF ExecInsert
<1> HIDE DEF new
<1> QED BY <1>1, <1>2, <1>5, <1>6, <1>7, InsertStep

LEMMA ExecRefillStep ==
    ASSUME SetOpsNestLeft, JoinsAlign, KeysAreEnforced, Inv, ExecRefill
    PROVE  Inv'
<1> DEFINE x == Head(code).from
           new == Sql(x, db)
<1>0. Running("refill")
  BY DEF ExecRefill
<1>1. /\ outcome = "running" /\ changing = {} /\ Head(code).inst = "refill" /\ stmt.verb # "read"
      /\ IsDb(db) /\ Writes(code, db, src, Asked(stmt, before))
  BY <1>0, RunningFacts
<1>2. /\ Tail(code) = << >> /\ Fits(x) /\ db[Target] = {}
      /\ Meaning(db)[x] = Asked(stmt, before)
  BY <1>1, WritesHead
<1>3. new = Meaning(db)[x] /\ Meaning(db)[x] \in Rows(Heading)
  BY <1>1, <1>2, SqlMeans, MeaningTyped DEF Fits
<1>4. InsertRows(new, {})
  <2>1. Repeated(x, db) = {}
    BY <1>1, <1>2, KeysAreHeld, DistinctIsRedundant DEF Inv, Fits
  <2> QED BY <2>1 DEF ExecRefill
<1> HIDE DEF new
<1>5. new \in Rows(Heading) /\ (\A t \in new : t \notin db[Target]) /\ db[Target] \cup new = Asked(stmt, before)
  BY <1>2, <1>3
<1> QED BY <1>1, <1>2, <1>4, <1>5, InsertStep

LEMMA ExecInsertFromStep ==
    ASSUME Inv, ExecInsertFrom
    PROVE  Inv'
<1> DEFINE new == NewRows(src)
<1>0. Running("insertfrom")
  BY DEF ExecInsertFrom
<1>1. /\ outcome = "running" /\ changing = {} /\ Head(code).inst = "insertfrom" /\ stmt.verb # "read"
      /\ IsDb(db) /\ Writes(code, db, src, Asked(stmt, before))
  BY <1>0, RunningFacts
<1>2. Tail(code) = << >> /\ src \in Rows(Heading) /\ db[Target] \cup src = Asked(stmt, before)
  BY <1>1, WritesHead
<1>3. /\ new \in Rows(Heading) /\ (\A t \in new : t \notin db[Target])
      /\ db[Target] \cup new = Asked(stmt, before)
  BY <1>2 DEF NewRows, Rows
<1>4. InsertRows(new, {})
  BY DEF ExecInsertFrom
<1> HIDE DEF new
<1> QED BY <1>1, <1>2, <1>3, <1>4, InsertStep

LEMMA ExecEvalStep ==
    ASSUME SetOpsNestLeft, JoinsAlign, Inv, ExecEval
    PROVE  Inv'
<1> DEFINE e == Head(code).expr
<1>0. Running("eval")
  BY DEF ExecEval
<1>1. /\ outcome = "running" /\ changing = {} /\ Head(code).inst = "eval" /\ stmt.verb # "read"
      /\ IsDb(db) /\ Writes(code, db, src, Asked(stmt, before)) /\ stmt \in Statements
  BY <1>0, RunningFacts
<1>2. /\ Tail(code) = << InsertFrom >> /\ Storable(e)
      /\ db[Target] \cup Eval(e, db) = Asked(stmt, before)
  BY <1>1, WritesHead
<1>3. Value(e, db) = Eval(e, db) /\ Eval(e, db) \in Rows(Heading)
  BY <1>1, <1>2, ValueMeans, EvalTyped DEF Storable
<1>4. << InsertFrom >> # << >> /\ Head(<< InsertFrom >>) = InsertFrom
  OBVIOUS
<1>5. /\ code' = << InsertFrom >> /\ outcome' = "running" /\ stmt' = stmt /\ before' = before
      /\ changing' = {} /\ src' = Eval(e, db) /\ db' = db /\ published' = published /\ inTx' = inTx
  BY <1>1, <1>2, <1>3, <1>4 DEF ExecEval, Advance
<1>6. Writes(code', db', src', Asked(stmt, before))
  BY <1>2, <1>3, <1>5 DEF Writes
<1>7. Head(code').inst # "update"
  BY <1>4, <1>5, InstNames
<1>8. Sound'
  BY <1>1, <1>5 DEF Inv, Sound
<1>9. Steady'
  BY <1>1, <1>5, <1>6, <1>7 DEF Steady
<1>10. Midway' /\ Finished' /\ Rejected' /\ OnDisk'
  BY <1>5, DiskStays DEF Midway, Finished, Rejected, Inv
<1> QED BY <1>8, <1>9, <1>10 DEF Inv

LEMMA ExecQueryStep ==
    ASSUME SetOpsNestLeft, JoinsAlign, Inv, ExecQuery
    PROVE  Inv'
<1>1. outcome = "running" /\ changing = {} /\ Head(code).inst = "query"
  BY DEF ExecQuery, Running
<1>2. stmt \in Statements /\ IsDb(db)
  BY <1>1 DEF Inv, Sound
<1>3. stmt.verb = "read"
  <2> SUFFICES ASSUME stmt.verb # "read" PROVE FALSE
    OBVIOUS
  <2>1. Writes(code, db, src, Asked(stmt, before))
    BY <1>1 DEF Inv, Steady
  <2>2. Head(code).inst \in {"delete", "antijoin", "insert", "update", "insertfrom", "eval", "refill"}
    BY <2>1, WritesHead
  <2> QED BY <1>1, <2>2
<1>4. code = << Query(stmt.rhs) >> /\ db = before
  BY <1>1, <1>3 DEF Inv, Steady
<1>5. stmt.rhs \in Exprs
  BY <1>2, <1>3, StatementsAssumption DEF Accepted
<1>6. Head(code) = Query(stmt.rhs) /\ Tail(code) = << >>
  BY <1>4
<1>7. Head(code).expr = stmt.rhs
  BY <1>6 DEF Query
<1>8. Value(stmt.rhs, db) = Eval(stmt.rhs, before)
  BY <1>2, <1>4, <1>5, ValueMeans
<1>9. /\ outcome' = "done" /\ stmt' = stmt /\ before' = before /\ changing' = {} /\ db' = db
      /\ src' = Eval(stmt.rhs, before) /\ published' = published /\ inTx' = inTx
  BY <1>1, <1>6, <1>7, <1>8 DEF ExecQuery, Advance
<1>10. Asked(stmt, before) = before[Target]
  BY <1>3 DEF Asked
<1>11. Sound'
  BY <1>9 DEF Inv, Sound
<1>12. Finished'
  BY <1>4, <1>9, <1>10 DEF Finished
<1>13. Steady' /\ Midway' /\ Rejected' /\ OnDisk'
  BY <1>9, DiskStays DEF Steady, Midway, Rejected, Inv
<1> QED BY <1>11, <1>12, <1>13 DEF Inv

LEMMA ExecUpdateStep ==
    ASSUME Inv, ExecUpdate
    PROVE  Inv'
<1> DEFINE i == Head(code)
           found == Chosen(db, i.where)
<1>0. Running("update")
  BY DEF ExecUpdate
<1>1. /\ outcome = "running" /\ changing = {} /\ i.inst = "update" /\ stmt.verb # "read"
      /\ IsDb(db) /\ Writes(code, db, src, Asked(stmt, before)) /\ stmt \in Statements
      /\ code = Lower(stmt) /\ db = before
  BY <1>0, RunningFacts
<1>2. Tail(code) = << >> /\ Does(i, db, Asked(stmt, before)) /\ code = << i >>
  BY <1>1, WritesHead
<1>3. Settable(i.sets) /\ Changed(db, i.where, i.sets) = Asked(stmt, before)
  BY <1>1, <1>2 DEF Does
<1>4. /\ db' = db /\ src' = src /\ published' = published
      /\ IF found = {} THEN Advance /\ changing' = changing
         ELSE /\ changing' = found /\ stmt' = stmt /\ before' = before /\ code' = code
              /\ outcome' = outcome /\ inTx' = inTx
  BY DEF ExecUpdate, Matched, Chosen
<1>5. db[Target] \in Rows(Heading) /\ Keyed(db[Target])
  BY <1>1, TargetRows DEF Inv, Sound
<1>6. CASE found = {}
  <2>1. Changed(db, i.where, i.sets) = db[Target]
    BY <1>6 DEF Changed, Chosen
  <2>2. Table(db[Target])
    BY <1>1, <1>4 DEF Table, IsDb, Inv, OnDisk
  <2> QED BY <1>1, <1>2, <1>3, <1>4, <1>5, <1>6, <2>1, <2>2, LastStep
<1>7. CASE found # {}
  <2>0. /\ changing' = found /\ stmt' = stmt /\ before' = before /\ code' = code /\ outcome' = "running"
        /\ db' = db /\ src' = src /\ changing' # {} /\ published' = published /\ inTx' = inTx
    BY <1>1, <1>4, <1>7
  <2>1. Partway(before[Target], Chosen(before, i.where), found, i.sets, db[Target])
    BY <1>1, PartwayStarts
  <2> HIDE DEF found
  <2>2. Sound'
    BY <1>1, <2>0 DEF Inv, Sound
  <2>3. Midway'
    BY <1>1, <1>2, <1>3, <2>0, <2>1 DEF Midway
  <2>4. Steady' /\ Finished' /\ Rejected' /\ OnDisk'
    BY <2>0, DiskStays DEF Steady, Finished, Rejected, Inv
  <2> QED BY <2>2, <2>3, <2>4 DEF Inv
<1> QED BY <1>6, <1>7

LEMMA UpdateRowStep ==
    ASSUME Inv, UpdateRow
    PROVE  Inv'
<1> DEFINE i == Head(code)
           found == Chosen(before, i.where)
<1>1. outcome = "running" /\ changing # {}
  BY DEF UpdateRow
<1>2. /\ stmt.verb # "read" /\ code = << i >> /\ Lower(stmt) = code
      /\ i.inst = "update" /\ Settable(i.sets)
      /\ Changed(before, i.where, i.sets) = Asked(stmt, before)
      /\ Partway(before[Target], found, changing, i.sets, db[Target])
  BY <1>1 DEF Inv, Midway
<1>3. /\ IsDb(db) /\ db[Target] \in Rows(Heading) /\ Keyed(db[Target]) /\ stmt \in Statements
  BY <1>1, TargetRows DEF Inv, Sound
<1>4. PICK t \in changing :
        LET new == Set(i.sets, t)
            others == db[Target] \ {t}
        IN IF \E u \in others : Restrict(u, Key) = Restrict(new, Key)
           THEN Refuse
           ELSE /\ Table(others \cup {new})
                /\ changing' = changing \ {t}
                /\ IF changing = {t} THEN Advance ELSE UNCHANGED <<inTx, stmt, before, code, outcome>>
                /\ UNCHANGED src
  BY DEF UpdateRow
<1> DEFINE new == Set(i.sets, t)
           others == db[Target] \ {t}
           rows == others \cup {new}
           left == changing \ {t}
<1>5. t \in db[Target] /\ t \in [Heading -> Int]
  BY <1>2, <1>3 DEF Partway, Rows
<1>6. ASSUME NEW u \in others, Restrict(u, Key) = Restrict(new, Key)
      PROVE  Inv'
  <2>1. Refuse
    BY <1>4, <1>6
  <2>2. DOMAIN i.sets \cap Key # {}
    <3> SUFFICES ASSUME DOMAIN i.sets \cap Key = {} PROVE FALSE
      OBVIOUS
    <3>0. Key \subseteq Heading
      BY TargetAssumption, KeysAssumption DEF Key, Heading
    <3>1. \A a \in Key : new[a] = t[a]
      BY <3>0 DEF Set
    <3>2. Restrict(new, Key) = Restrict(t, Key)
      BY <3>1 DEF Restrict
    <3>3. Clashing(u, t) /\ u \in db[Target]
      BY <1>6, <3>2 DEF Clashing
    <3> QED BY <1>3, <1>5, <3>3 DEF Keyed
  <2>3. 1 \in DOMAIN Lower(stmt) /\ Lower(stmt)[1] = i
    BY <1>2
  <2>4. SetsKey(stmt)
    BY <1>2, <2>2, <2>3 DEF SetsKey
  <2> QED BY <1>1, <2>1, <2>4, RefuseStep
<1>7. ASSUME \A u \in others : Restrict(u, Key) # Restrict(new, Key)
      PROVE  Inv'
  <2>1. /\ Table(rows) /\ changing' = left /\ src' = src
        /\ IF changing = {t} THEN Advance ELSE UNCHANGED <<inTx, stmt, before, code, outcome>>
    BY <1>4, <1>7
  <2>2. new \notin others
    BY <1>7
  <2>3. new \in [Heading -> Int]
    BY <1>2, <1>5, SetTyped
  <2>4. rows \in Rows(Heading)
    BY <1>3, <2>3 DEF Rows
  <2>5. Keyed(rows)
    <3> HIDE DEF new
    <3> QED BY <1>3, <1>7 DEF Keyed, Clashing
  <2>6. Partway(before[Target], found, left, i.sets, rows)
    <3> HIDE DEF found
    <3> QED BY <1>2, <2>2, PartwayStep
  <2> HIDE DEF new, others, rows, found
  <2>7. CASE changing = {t}
    <3>0. Tail(code) = << >>
      <4>1. \A a : Tail(<< a >>) = << >>
        OBVIOUS
      <4>2. code = << i >>
        BY <1>2
      <4> HIDE DEF i
      <4> QED BY <4>1, <4>2
    <3>1. left = {} /\ Advance /\ changing' = {}
      BY <2>1, <2>7
    <3>2. rows = Asked(stmt, before)
      BY <1>2, <2>6, <3>1, PartwayEnds DEF found
    <3> QED BY <1>1, <1>2, <2>1, <2>4, <2>5, <3>0, <3>1, <3>2, LastStep
  <2>8. CASE changing # {t}
    <3>1. /\ stmt' = stmt /\ before' = before /\ code' = code /\ outcome' = "running"
          /\ changing' = left /\ left # {} /\ inTx' = inTx
      BY <1>1, <2>1, <2>8
    <3>2. /\ OnDisk'
          /\ IsDb(db') /\ db'[Target] = rows /\ \A r \in Relvars : r # Target => db'[r] = db[r]
      BY <1>3, <2>1, <2>4, <2>5, <3>1, TableStep DEF Inv
    <3>3. Sound'
      BY <1>3, <2>5, <3>1, <3>2 DEF Inv, Sound
    <3>4. Midway'
      BY <1>2, <2>6, <3>1, <3>2 DEF Midway, found
    <3>5. Steady' /\ Finished' /\ Rejected'
      BY <3>1 DEF Steady, Finished, Rejected
    <3> QED BY <3>2, <3>3, <3>4, <3>5 DEF Inv
  <2> QED BY <2>7, <2>8
<1> QED BY <1>6, <1>7

LEMMA IdleStep ==
    ASSUME Inv, UNCHANGED vars
    PROVE  Inv'
<1>1. /\ db' = db /\ stmt' = stmt /\ before' = before /\ code' = code
      /\ changing' = changing /\ src' = src /\ outcome' = outcome /\ inTx' = inTx
      /\ published' = published
  BY DEF vars
<1>2. Sound' /\ Steady' /\ OnDisk'
  BY <1>1, DiskStays DEF Inv, Sound, Steady
<1>3. Midway' /\ Finished' /\ Rejected'
  BY <1>1 DEF Inv, Midway, Finished, Rejected
<1> QED BY <1>2, <1>3 DEF Inv

-----------------------------------------------------------------------------
(* The statements that return rows.                                        *)

\* What is run for an expression is trees the emitter has text for.
LEMMA FiredEmits == \A e \in Exprs : \A x \in Fired[e] : x \in Trees /\ Emits[x]
<1> DEFINE S == {e \in Exprs : \A x \in Fired[e] : x \in Trees /\ Emits[x]}
<1>1. ASSUME NEW e \in Exprs, \A o \in Exprs : Height[o] < Height[e] => o \in S
      PROVE  e \in S
  <2>1. CASE Pushed(e)
    <3>1. Build[e] # None /\ Emits[Build[e]]
      BY <2>1 DEF Pushed
    <3> QED BY <2>1, <3>1, BuiltTree, FiredFacts
  <2>2. CASE ~Pushed(e) /\ Leaf(e)
    BY <2>2, FiredFacts
  <2>3. CASE ~Pushed(e) /\ e.op \in UnaryOps
    <3>1. e.in \in S
      BY <1>1, <2>3, ExprShapes
    <3> QED BY <2>3, <3>1, FiredFacts
  <2>4. CASE ~Pushed(e) /\ e.op \in BinaryOps
    <3>1. e.l \in S /\ e.r \in S
      BY <1>1, <2>4, ExprShapes
    <3> QED BY <2>4, <3>1, FiredFacts
  <2> QED BY <2>1, <2>2, <2>3, <2>4, ExprShapes DEF Leaf
<1>2. \A e \in Exprs : e \in S
  <2>1. \A e \in Exprs : Height[e] \in Nat
    BY ExprsAssumption
  <2>2. \A e \in Exprs : (\A o \in Exprs : Height[o] < Height[e] => o \in S) => e \in S
    BY <1>1
  <2> HIDE DEF S
  <2> QED BY <2>1, <2>2, RHeading!Induction
<1> QED BY <1>2

LEMMA SelectsEmit ==
    ASSUME Inv, outcome = "running", NEW x \in Selects(Head(code))
    PROVE  x \in Trees /\ Emits[x]
<1> DEFINE i == Head(code)
<1>1. CASE changing # {}
  <2>1. i.inst = "update"
    BY <1>1 DEF Inv, Midway
  <2>2. Selects(i) = {}
    BY <2>1 DEF Selects
  <2> QED BY <2>2
<1>2. CASE changing = {} /\ stmt.verb = "read"
  <2>1. code = << Query(stmt.rhs) >>
    BY <1>2 DEF Inv, Steady
  <2>2. i = Query(stmt.rhs)
    BY <2>1
  <2>3. i.inst = "query" /\ i.expr = stmt.rhs
    BY <2>2 DEF Query
  <2>4. stmt \in Statements
    BY DEF Inv, Sound
  <2>5. stmt.rhs \in Exprs
    BY <1>2, <2>4, StatementsAssumption DEF Accepted
  <2>6. Selects(i) = Fired[stmt.rhs]
    BY <2>3 DEF Selects
  <2> QED BY <2>5, <2>6, FiredEmits
<1>3. CASE changing = {} /\ stmt.verb # "read"
  <2> DEFINE asked == Asked(stmt, before)
  <2>1. Writes(code, db, src, asked)
    BY <1>3 DEF Inv, Steady
  <2> HIDE DEF asked
  <2>2. /\ i.inst \in {"delete", "antijoin", "insert", "update", "insertfrom", "eval", "refill"}
        /\ i.inst \in {"antijoin", "insert"} => Does(i, db, asked)
        /\ i.inst = "eval" => Storable(i.expr)
        /\ i.inst = "refill" => Fits(i.from)
    BY <2>1, WritesHead
  <2>3. CASE i.inst \in {"antijoin", "insert"}
    <3>1. i.from \in Trees /\ Emits[i.from]
      BY <2>2, <2>3 DEF Does
    <3>2. Selects(i) = {i.from}
      BY <2>3 DEF Selects
    <3> QED BY <3>1, <3>2
  <2>4. CASE i.inst = "eval"
    <3>1. i.expr \in Exprs
      BY <2>2, <2>4 DEF Storable
    <3>2. Selects(i) = Fired[i.expr]
      BY <2>4 DEF Selects
    <3> QED BY <3>1, <3>2, FiredEmits
  <2>5. CASE i.inst = "refill"
    <3>1. i.from \in Trees /\ Emits[i.from]
      BY <2>2, <2>5 DEF Fits
    <3>2. Selects(i) = {i.from}
      BY <2>5 DEF Selects
    <3> QED BY <3>1, <3>2
  <2>6. CASE i.inst \in {"delete", "update", "insertfrom"}
    <3>1. Selects(i) = {}
      BY <2>6 DEF Selects
    <3> QED BY <3>1
  <2> QED BY <2>2, <2>3, <2>4, <2>5, <2>6
<1> QED BY <1>1, <1>2, <1>3

-----------------------------------------------------------------------------
(* The theorems.                                                           *)

\* Between any two instructions, and between any two rows of an UPDATE, what
\* is left to run over the tables as they are makes what was asked for.
THEOREM WritesAreInvariant ==
    ASSUME SetOpsNestLeft, JoinsAlign, UpdatesAreWhole, OpaqueIsIndependent, JoinsFillTheTarget,
           KeysAreEnforced
    PROVE  Spec => []Inv
<1>1. Init => Inv
  BY InitHolds
<1>2. Inv /\ [Next]_vars => Inv'
  <2> SUFFICES ASSUME Inv, [Next]_vars
               PROVE  Inv'
    OBVIOUS
  <2>0. CASE OpenBracket \/ CloseBracket
    BY <2>0, BracketStep
  <2>1. ASSUME NEW s \in CompiledStatements, Begin(s)
        PROVE  Inv'
    BY <2>1, BeginStep
  <2>2. CASE ExecDelete
    BY <2>2, ExecDeleteStep
  <2>3. CASE ExecAntiJoin
    BY <2>3, ExecAntiJoinStep
  <2>4. CASE ExecInsert
    BY <2>4, ExecInsertStep
  <2>5. CASE ExecRefill
    BY <2>5, ExecRefillStep
  <2>6. CASE ExecInsertFrom
    BY <2>6, ExecInsertFromStep
  <2>7. CASE ExecUpdate
    BY <2>7, ExecUpdateStep
  <2>8. CASE UpdateRow
    BY <2>8, UpdateRowStep
  <2>9. CASE ExecQuery
    BY <2>9, ExecQueryStep
  <2>10. CASE ExecEval
    BY <2>10, ExecEvalStep
  <2>11. CASE UNCHANGED vars
    BY <2>11, IdleStep
  <2> QED BY <2>0, <2>1, <2>2, <2>3, <2>4, <2>5, <2>6, <2>7, <2>8, <2>9, <2>10, <2>11 DEF Next
<1> QED BY <1>1, <1>2, PTL DEF Spec

\* A statement that ran to its end left the target with exactly the value
\* asked for, and every other relvar alone, for any program whose trees the
\* SQL emitter's and the recognizers' assumptions hold of.
THEOREM WritesAreCorrect ==
    ASSUME SetOpsNestLeft, JoinsAlign, UpdatesAreWhole, OpaqueIsIndependent, JoinsFillTheTarget,
           KeysAreEnforced
    PROVE  Spec => []WritesMeanTheirValue
<1>1. Inv => WritesMeanTheirValue
  <2> SUFFICES ASSUME Inv, outcome = "done"
               PROVE  db = [before EXCEPT ![Target] = Asked(stmt, before)]
    BY DEF WritesMeanTheirValue
  <2>1. /\ IsDb(db) /\ IsDb(before) /\ \A r \in Relvars : r # Target => db[r] = before[r]
    BY DEF Inv, Sound
  <2>2. db[Target] = Asked(stmt, before)
    BY DEF Inv, Finished
  <2> QED BY <2>1, <2>2, TargetAssumption DEF IsDb
<1> QED BY <1>1, WritesAreInvariant, PTL

\* A read yields what its expression denotes, however much of it is pushed.
THEOREM ReadsAreCorrect ==
    ASSUME SetOpsNestLeft, JoinsAlign, UpdatesAreWhole, OpaqueIsIndependent, JoinsFillTheTarget,
           KeysAreEnforced
    PROVE  Spec => []ReadsMeanTheirExpression
<1>1. Inv => ReadsMeanTheirExpression
  BY DEF Inv, Finished, ReadsMeanTheirExpression
<1> QED BY <1>1, WritesAreInvariant, PTL

\* No key is ever broken, in the middle of a statement or after a refusal,
\* and a statement that leaves the key alone is refused only for a value that
\* breaks it.
THEOREM KeysAreKept ==
    ASSUME SetOpsNestLeft, JoinsAlign, UpdatesAreWhole, OpaqueIsIndependent, JoinsFillTheTarget,
           KeysAreEnforced
    PROVE  Spec => []GoldenRule
<1>1. Inv => GoldenRule
  BY DEF Inv, Sound, OnDisk, Rejected, GoldenRule
<1> QED BY <1>1, WritesAreInvariant, PTL

\* Every SELECT run returns each row once, with and without DISTINCT: the
\* keys inferred for it hold whatever the statements before have written.
THEOREM RowsComeOnce ==
    ASSUME SetOpsNestLeft, JoinsAlign, UpdatesAreWhole, OpaqueIsIndependent, JoinsFillTheTarget,
           KeysAreEnforced
    PROVE  Spec => []EachRowOnce
<1>1. Inv => EachRowOnce
  <2> SUFFICES ASSUME Inv, outcome = "running", NEW x \in Selects(Head(code))
               PROVE  Repeated(x, db) = {}
    BY DEF EachRowOnce
  <2>1. x \in Trees /\ Emits[x]
    BY SelectsEmit
  <2>2. IsDb(db) /\ KeysHold(db)
    BY KeysAreHeld DEF Inv, Sound
  <2> QED BY <2>1, <2>2, DistinctIsRedundant
<1> QED BY <1>1, WritesAreInvariant, PTL
=============================================================================
