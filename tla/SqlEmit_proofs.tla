----------------------------- MODULE SqlEmit_proofs -----------------------------
(***************************************************************************)
(* Theorems about SqlEmit: a tree means what the expression it was built   *)
(* for means, and the SQL written for it returns just that.                *)
(***************************************************************************)
EXTENDS SqlEmit, TLAPS

-----------------------------------------------------------------------------
(* The recursive functions of the model are what their bodies say.  Each   *)
(* step operator repeats a body, with the function's name made a parameter.*)

HeadingStep(p, e, f) ==
    CASE e.op = "relvar" -> Schema[e.name]
      [] e.op \in {"local", "lit"} -> e.heading
      [] e.op = "where" -> f[e.in]
      [] e.op = "extend" -> f[e.in] \cup DOMAIN e.adds
      [] e.op = "project" -> e.keep
      [] e.op = "rename" -> {NameOf(e.to, a) : a \in f[e.in]}
      [] e.op = "join" -> f[e.l] \cup f[e.r]
      [] e.op = "compose" -> (f[e.l] \cup f[e.r]) \ (f[e.l] \cap f[e.r])
      [] OTHER -> f[e.l]
RHeading == INSTANCE Recursion WITH Dom <- Exprs, Depth <- Height, Step <- HeadingStep

LEMMA HeadingOfDef == HeadingOf = [e \in Exprs |-> HeadingStep(0, e, HeadingOf)]
<1>1. ASSUME NEW p, NEW e \in Exprs, NEW f, NEW g,
             \A o \in Exprs : Height[o] < Height[e] => f[o] = g[o]
      PROVE  HeadingStep(p, e, f) = HeadingStep(p, e, g)
  <2>1. CASE Leaf(e)
    BY <2>1 DEF HeadingStep, Leaf
  <2>2. CASE Unary(e)
    <3>1. f[e.in] = g[e.in]
      BY <1>1, <2>2, ExprsAssumption DEF Operands, Leaf, Unary
    <3> QED BY <3>1, <2>2 DEF HeadingStep, Unary
  <2>3. CASE ~Leaf(e) /\ ~Unary(e)
    <3>1. f[e.l] = g[e.l] /\ f[e.r] = g[e.r]
      BY <1>1, <2>3, ExprsAssumption DEF Operands
    <3> QED BY <3>1, <2>3 DEF HeadingStep, Unary, Leaf
  <2> QED BY <2>1, <2>2, <2>3
<1>2. RHeading!Local
  BY <1>1, ExprsAssumption DEF RHeading!Local
<1>3. \E f : f = [e \in Exprs |-> HeadingStep(0, e, f)]
  BY <1>2, RHeading!Defined
<1> QED BY <1>3 DEF HeadingOf, HeadingStep

EvalStep(db, e, f) ==
    IF Leaf(e) THEN LeafRows(e, db)
    ELSE IF Unary(e) THEN Applied(e, f[e.in], {})
    ELSE Applied(e, f[e.l], f[e.r])
REval == INSTANCE Recursion WITH Dom <- Exprs, Depth <- Height, Step <- EvalStep

LEMMA EvaluatedDef ==
    ASSUME NEW db
    PROVE  Evaluated(db) = [e \in Exprs |-> EvalStep(db, e, Evaluated(db))]
<1>1. REval!Local
  BY ExprsAssumption DEF REval!Local, EvalStep, Operands, Leaf, Unary
<1>2. \E f : f = [e \in Exprs |-> EvalStep(db, e, f)]
  BY <1>1, REval!Defined
<1> QED BY <1>2 DEF Evaluated, EvalStep

LeavesStep(p, e, f) ==
    IF Leaf(e) THEN {e}
    ELSE IF Unary(e) THEN f[e.in]
    ELSE f[e.l] \cup f[e.r]
RLeaves == INSTANCE Recursion WITH Dom <- Exprs, Depth <- Height, Step <- LeavesStep

LEMMA LeavesOfDef == LeavesOf = [e \in Exprs |-> LeavesStep(0, e, LeavesOf)]
<1>1. RLeaves!Local
  BY ExprsAssumption DEF RLeaves!Local, LeavesStep, Operands, Leaf, Unary
<1>2. \E f : f = [e \in Exprs |-> LeavesStep(0, e, f)]
  BY <1>1, RLeaves!Defined
<1> QED BY <1>2 DEF LeavesOf, LeavesStep

BuildStep(p, e, f) ==
    IF Leaf(e) THEN BuiltLeaf(e)
    ELSE IF Unary(e) THEN IF f[e.in] = None THEN None ELSE BuiltUnary(e, f[e.in])
    ELSE BuiltBinary(e, f[e.l], f[e.r])
RBuild == INSTANCE Recursion WITH Dom <- Exprs, Depth <- Height, Step <- BuildStep

LEMMA BuildDef == Build = [e \in Exprs |-> BuildStep(0, e, Build)]
<1>1. RBuild!Local
  BY ExprsAssumption DEF RBuild!Local, BuildStep, Operands, Leaf, Unary
<1>2. \E f : f = [e \in Exprs |-> BuildStep(0, e, f)]
  BY <1>1, RBuild!Defined
<1> QED BY <1>2 DEF Build, BuildStep

TreeHeadingStep(p, x, f) ==
    CASE x.op = "ref" -> Schema[x.name]
      [] x.op = "param" -> HeadingOf[x.ast]
      [] x.op = "restrict" -> f[x.in]
      [] x.op = "extend" -> f[x.in] \cup DOMAIN x.adds
      [] x.op = "project" -> x.keep
      [] x.op = "rename" -> {NameOf(x.to, a) : a \in f[x.in]}
      [] x.op = "and" -> f[x.l] \cup f[x.r]
      [] OTHER -> f[x.l]
RTreeHeading == INSTANCE Recursion WITH Dom <- Trees, Depth <- TreeHeight, Step <- TreeHeadingStep

LEMMA TreeHeadingDef == TreeHeading = [x \in Trees |-> TreeHeadingStep(0, x, TreeHeading)]
<1>1. ASSUME NEW p, NEW x \in Trees, NEW f, NEW g,
             \A o \in Trees : TreeHeight[o] < TreeHeight[x] => f[o] = g[o]
      PROVE  TreeHeadingStep(p, x, f) = TreeHeadingStep(p, x, g)
  <2>1. CASE TreeLeaf(x)
    BY <2>1 DEF TreeHeadingStep, TreeLeaf
  <2>2. CASE Binary(x)
    <3>1. f[x.l] = g[x.l] /\ f[x.r] = g[x.r]
      BY <1>1, <2>2, TreesAssumption DEF Below, TreeLeaf, Binary
    <3> QED BY <3>1, <2>2 DEF TreeHeadingStep, Binary
  <2>3. CASE x.op \in {"restrict", "extend", "project", "rename"}
    <3>1. f[x.in] = g[x.in]
      BY <1>1, <2>3, TreesAssumption DEF Below, TreeLeaf, Binary
    <3> QED BY <3>1, <2>3 DEF TreeHeadingStep
  <2>4. TreeLeaf(x) \/ Binary(x) \/ x.op \in {"restrict", "extend", "project", "rename"}
    BY TreesAssumption DEF Formed, TreeLeaf, Binary
  <2> QED BY <2>1, <2>2, <2>3, <2>4
<1>2. RTreeHeading!Local
  BY <1>1, TreesAssumption DEF RTreeHeading!Local
<1>3. \E f : f = [x \in Trees |-> TreeHeadingStep(0, x, f)]
  BY <1>2, RTreeHeading!Defined
<1> QED BY <1>3 DEF TreeHeading, TreeHeadingStep

TreeLeavesStep(p, x, f) ==
    IF TreeLeaf(x) THEN {x}
    ELSE IF Binary(x) THEN f[x.l] \cup f[x.r]
    ELSE f[x.in]
RTreeLeaves == INSTANCE Recursion WITH Dom <- Trees, Depth <- TreeHeight, Step <- TreeLeavesStep

LEMMA TreeLeavesDef == TreeLeaves = [x \in Trees |-> TreeLeavesStep(0, x, TreeLeaves)]
<1>1. RTreeLeaves!Local
  BY TreesAssumption DEF RTreeLeaves!Local, TreeLeavesStep, Below, TreeLeaf, Binary
<1>2. \E f : f = [x \in Trees |-> TreeLeavesStep(0, x, f)]
  BY <1>1, RTreeLeaves!Defined
<1> QED BY <1>2 DEF TreeLeaves, TreeLeavesStep

ResolvesStep(p, x, f) ==
    CASE x.op = "ref" -> TRUE
      [] x.op = "param" -> HeadingOf[x.ast] # {}
      [] x.op \in {"restrict", "project", "rename"} -> f[x.in]
      [] x.op = "and" -> f[x.l] /\ f[x.r]
      [] OTHER -> FALSE
RResolves == INSTANCE Recursion WITH Dom <- Trees, Depth <- TreeHeight, Step <- ResolvesStep

LEMMA ResolvesDef == Resolves = [x \in Trees |-> ResolvesStep(0, x, Resolves)]
<1>1. RResolves!Local
  BY TreesAssumption DEF RResolves!Local, ResolvesStep, Below, TreeLeaf, Binary
<1>2. \E f : f = [x \in Trees |-> ResolvesStep(0, x, f)]
  BY <1>1, RResolves!Defined
<1> QED BY <1>2 DEF Resolves, ResolvesStep

PhysicalStep(p, x, f) ==
    CASE TreeLeaf(x) -> TreeHeading[x]
      [] Binary(x) -> f[x.l] \cup f[x.r]
      [] OTHER -> f[x.in]
RPhysical == INSTANCE Recursion WITH Dom <- Trees, Depth <- TreeHeight, Step <- PhysicalStep

LEMMA PhysicalDef == Physical = [x \in Trees |-> PhysicalStep(0, x, Physical)]
<1>1. RPhysical!Local
  BY TreesAssumption DEF RPhysical!Local, PhysicalStep, Below, TreeLeaf, Binary
<1>2. \E f : f = [x \in Trees |-> PhysicalStep(0, x, f)]
  BY <1>1, RPhysical!Defined
<1> QED BY <1>2 DEF Physical, PhysicalStep

KeysStep(p, x, f) ==
    CASE x.op = "ref" -> Keys[x.name]
      [] x.op = "param" -> {HeadingOf[x.ast]}
      [] x.op \in {"restrict", "extend"} -> f[x.in]
      [] x.op = "project" -> KeptKeys(f[x.in], x.keep)
      [] x.op = "rename" -> RenamedKeys(f[x.in], x.to)
      [] x.op = "and" -> JoinKeys(f[x.l], f[x.r], TreeHeading[x.l] \cap TreeHeading[x.r])
      [] x.op = "or" -> {}
      [] OTHER -> f[x.l]
RKeys == INSTANCE Recursion WITH Dom <- Trees, Depth <- TreeHeight, Step <- KeysStep

LEMMA SurvivingKeysDef == SurvivingKeys = [x \in Trees |-> KeysStep(0, x, SurvivingKeys)]
<1>1. ASSUME NEW p, NEW x \in Trees, NEW f, NEW g,
             \A o \in Trees : TreeHeight[o] < TreeHeight[x] => f[o] = g[o]
      PROVE  KeysStep(p, x, f) = KeysStep(p, x, g)
  <2>1. CASE TreeLeaf(x)
    BY <2>1 DEF KeysStep, TreeLeaf
  <2>2. CASE Binary(x)
    <3>1. f[x.l] = g[x.l] /\ f[x.r] = g[x.r]
      BY <1>1, <2>2, TreesAssumption DEF Below, TreeLeaf, Binary
    <3> QED BY <3>1, <2>2 DEF KeysStep, Binary
  <2>3. CASE x.op \in {"restrict", "extend", "project", "rename"}
    <3>1. f[x.in] = g[x.in]
      BY <1>1, <2>3, TreesAssumption DEF Below, TreeLeaf, Binary
    <3> QED BY <3>1, <2>3 DEF KeysStep
  <2>4. TreeLeaf(x) \/ Binary(x) \/ x.op \in {"restrict", "extend", "project", "rename"}
    BY TreesAssumption DEF Formed, TreeLeaf, Binary
  <2> QED BY <2>1, <2>2, <2>3, <2>4
<1>2. RKeys!Local
  BY <1>1, TreesAssumption DEF RKeys!Local
<1>3. \E f : f = [x \in Trees |-> KeysStep(0, x, f)]
  BY <1>2, RKeys!Defined
<1> QED BY <1>3 DEF SurvivingKeys, KeysStep

CardStep(p, x, f) ==
    CASE x.op = "restrict" -> f[x.in] \/ Pins(x.pred, SurvivingKeys[x.in])
      [] x.op \in {"extend", "project", "rename"} -> f[x.in]
      [] x.op = "and" -> f[x.l] /\ f[x.r]
      [] x.op = "semi" -> f[x.l]
      [] OTHER -> FALSE
RCard == INSTANCE Recursion WITH Dom <- Trees, Depth <- TreeHeight, Step <- CardStep

LEMMA CardLeOneDef == CardLeOne = [x \in Trees |-> CardStep(0, x, CardLeOne)]
<1>1. ASSUME NEW p, NEW x \in Trees, NEW f, NEW g,
             \A o \in Trees : TreeHeight[o] < TreeHeight[x] => f[o] = g[o]
      PROVE  CardStep(p, x, f) = CardStep(p, x, g)
  <2>1. CASE TreeLeaf(x)
    BY <2>1 DEF CardStep, TreeLeaf
  <2>2. CASE Binary(x)
    <3>1. f[x.l] = g[x.l] /\ f[x.r] = g[x.r]
      BY <1>1, <2>2, TreesAssumption DEF Below, TreeLeaf, Binary
    <3> QED BY <3>1, <2>2 DEF CardStep, Binary
  <2>3. CASE x.op \in {"restrict", "extend", "project", "rename"}
    <3>1. f[x.in] = g[x.in]
      BY <1>1, <2>3, TreesAssumption DEF Below, TreeLeaf, Binary
    <3> QED BY <3>1, <2>3 DEF CardStep
  <2>4. TreeLeaf(x) \/ Binary(x) \/ x.op \in {"restrict", "extend", "project", "rename"}
    BY TreesAssumption DEF Formed, TreeLeaf, Binary
  <2> QED BY <2>1, <2>2, <2>3, <2>4
<1>2. RCard!Local
  BY <1>1, TreesAssumption DEF RCard!Local
<1>3. \E f : f = [x \in Trees |-> CardStep(0, x, f)]
  BY <1>2, RCard!Defined
<1> QED BY <1>3 DEF CardLeOne, CardStep

ColumnsStep(p, x, f) ==
    CASE x.op = "ref" -> [a \in Schema[x.name] |-> a]
      [] x.op = "param" -> [a \in HeadingOf[x.ast] |-> a]
      [] x.op = "restrict" -> f[x.in]
      [] x.op = "project" -> Restrict(f[x.in], x.keep)
      [] x.op = "rename" -> Renamed(x.to, f[x.in])
      [] x.op = "and" ->
            LET l == f[x.l]
                r == f[x.r]
            IN [a \in (DOMAIN l) \cup (DOMAIN r) |-> IF a \in DOMAIN l THEN l[a] ELSE r[a]]
RColumns == INSTANCE Recursion WITH Dom <- Trees, Depth <- TreeHeight, Step <- ColumnsStep

LEMMA ColumnsDef == Columns = [x \in Trees |-> ColumnsStep(0, x, Columns)]
<1>1. RColumns!Local
  BY TreesAssumption DEF RColumns!Local, ColumnsStep, Below, TreeLeaf, Binary
<1>2. \E f : f = [x \in Trees |-> ColumnsStep(0, x, f)]
  BY <1>1, RColumns!Defined
<1> QED BY <1>2 DEF Columns, ColumnsStep

FromStep(db, x, f) ==
    CASE x.op = "ref" -> db[x.name]
      [] x.op = "param" -> Eval(x.ast, db)
      [] x.op = "restrict" ->
            {t \in f[x.in] : Compare(t[Columns[x.in][x.pred.attr]], x.pred.cmp, x.pred.arg.lit)}
      [] x.op \in {"project", "rename"} -> f[x.in]
      [] x.op = "and" ->
            LET l == Columns[x.l]
                using == {l[a] : a \in (DOMAIN l) \cap (DOMAIN Columns[x.r])}
            IN {Beside(p[1], p[2]) : p \in
                  {p \in f[x.l] \X f[x.r] : \A c \in using : p[1][c] = p[2][c]}}
RFrom == INSTANCE Recursion WITH Dom <- Trees, Depth <- TreeHeight, Step <- FromStep

LEMMA FromDef ==
    ASSUME NEW db
    PROVE  From(db) = [x \in Trees |-> FromStep(db, x, From(db))]
<1>1. RFrom!Local
  BY TreesAssumption DEF RFrom!Local, FromStep, Below, TreeLeaf, Binary
<1>2. \E f : f = [x \in Trees |-> FromStep(db, x, f)]
  BY <1>1, RFrom!Defined
<1> QED BY <1>2 DEF From, FromStep

TermsStep(p, x, f) ==
    CASE x.op = "or" -> f[x.l] \o By("UNION", f[x.r])
      [] x.op = "minus" -> f[x.l] \o By("EXCEPT", f[x.r])
      [] OTHER -> << [by |-> "UNION", select |-> x] >>
RTerms == INSTANCE Recursion WITH Dom <- Trees, Depth <- TreeHeight, Step <- TermsStep

LEMMA TermsDef == Terms = [x \in Trees |-> TermsStep(0, x, Terms)]
<1>1. RTerms!Local
  BY TreesAssumption DEF RTerms!Local, TermsStep, Below, TreeLeaf, Binary
<1>2. \E f : f = [x \in Trees |-> TermsStep(0, x, f)]
  BY <1>1, RTerms!Defined
<1> QED BY <1>2 DEF Terms, TermsStep

ComputedStep(db, e, f) ==
    IF Pushed(e) THEN Sql(Build[e], db)
    ELSE IF Leaf(e) THEN LeafRows(e, db)
    ELSE IF Unary(e) THEN Applied(e, f[e.in], {})
    ELSE Operated(e, f[e.l], f[e.r])
RComputed == INSTANCE Recursion WITH Dom <- Exprs, Depth <- Height, Step <- ComputedStep

LEMMA ComputedDef ==
    ASSUME NEW db
    PROVE  Computed(db) = [e \in Exprs |-> ComputedStep(db, e, Computed(db))]
<1>1. RComputed!Local
  BY ExprsAssumption DEF RComputed!Local, ComputedStep, Operands, Leaf, Unary
<1>2. \E f : f = [e \in Exprs |-> ComputedStep(db, e, f)]
  BY <1>1, RComputed!Defined
<1> QED BY <1>2 DEF Computed, ComputedStep

FiredStep(p, e, f) ==
    IF Pushed(e) THEN {Build[e]}
    ELSE IF Leaf(e) THEN {}
    ELSE IF Unary(e) THEN f[e.in]
    ELSE f[e.l] \cup f[e.r]
RFired == INSTANCE Recursion WITH Dom <- Exprs, Depth <- Height, Step <- FiredStep

LEMMA FiredDef == Fired = [e \in Exprs |-> FiredStep(0, e, Fired)]
<1>1. RFired!Local
  BY ExprsAssumption DEF RFired!Local, FiredStep, Operands, Leaf, Unary
<1>2. \E f : f = [e \in Exprs |-> FiredStep(0, e, f)]
  BY <1>1, RFired!Defined
<1> QED BY <1>2 DEF Fired, FiredStep

\* What a tree means, operator by operator.
MeaningStep(db, x, f) ==
    CASE x.op = "ref" -> db[x.name]
      [] x.op = "param" -> Eval(x.ast, db)
      [] x.op = "restrict" -> {t \in f[x.in] : Holds(x.pred, t)}
      [] x.op = "extend" -> {Extended(x.adds, t) : t \in f[x.in]}
      [] x.op = "project" -> {Restrict(t, x.keep) : t \in f[x.in]}
      [] x.op = "rename" -> {Renamed(x.to, t) : t \in f[x.in]}
      [] x.op = "or" -> f[x.l] \cup f[x.r]
      [] x.op = "minus" -> f[x.l] \ f[x.r]
      [] x.op = "and" -> Joined(f[x.l], f[x.r])
      [] x.op = "semi" ->
            IF x.negated THEN f[x.l] \ Partnered(f[x.l], f[x.r]) ELSE Partnered(f[x.l], f[x.r])
Meaning(db) == CHOOSE f : f = [x \in Trees |-> MeaningStep(db, x, f)]
RMeaning == INSTANCE Recursion WITH Dom <- Trees, Depth <- TreeHeight, Step <- MeaningStep

LEMMA MeaningDef ==
    ASSUME NEW db
    PROVE  Meaning(db) = [x \in Trees |-> MeaningStep(db, x, Meaning(db))]
<1>1. RMeaning!Local
  BY TreesAssumption DEF RMeaning!Local, MeaningStep, Below, TreeLeaf, Binary
<1>2. \E f : f = [x \in Trees |-> MeaningStep(db, x, f)]
  BY <1>1, RMeaning!Defined
<1> QED BY <1>2 DEF Meaning, MeaningStep

-----------------------------------------------------------------------------
(* Expressions and trees, case by case.                                    *)

UnaryOps == {"where", "extend", "project", "rename"}
SetOps == {"minus", "union", "intersect"}
BinaryOps == SetOps \cup {"join", "compose", "matching", "unmatching"}

LEMMA ExprShapes ==
    ASSUME NEW e \in Exprs
    PROVE  /\ e.op \in {"relvar", "local", "lit"} \cup UnaryOps \cup BinaryOps
           /\ e.op \in UnaryOps => e.in \in Exprs /\ Height[e.in] < Height[e]
           /\ e.op \in BinaryOps => /\ e.l \in Exprs /\ Height[e.l] < Height[e]
                                    /\ e.r \in Exprs /\ Height[e.r] < Height[e]
           /\ Height[e] \in Nat
<1>1. e.op \in {"relvar", "local", "lit"} \cup UnaryOps \cup BinaryOps
  BY TypingAssumption DEF WellTyped, UnaryOps, BinaryOps, SetOps
<1> QED BY <1>1, ExprsAssumption DEF Operands, Leaf, Unary, UnaryOps, BinaryOps, SetOps

LEMMA HeadingFacts ==
    ASSUME NEW e \in Exprs
    PROVE  /\ e.op = "relvar" => HeadingOf[e] = Schema[e.name]
           /\ e.op \in {"local", "lit"} => HeadingOf[e] = e.heading
           /\ e.op = "where" => HeadingOf[e] = HeadingOf[e.in]
           /\ e.op = "extend" => HeadingOf[e] = HeadingOf[e.in] \cup DOMAIN e.adds
           /\ e.op = "project" => HeadingOf[e] = e.keep
           /\ e.op = "rename" => HeadingOf[e] = {NameOf(e.to, a) : a \in HeadingOf[e.in]}
           /\ e.op \in SetOps \cup {"matching", "unmatching"} => HeadingOf[e] = HeadingOf[e.l]
           /\ e.op = "join" => HeadingOf[e] = HeadingOf[e.l] \cup HeadingOf[e.r]
           /\ e.op = "compose" => HeadingOf[e] = (HeadingOf[e.l] \cup HeadingOf[e.r]) \ Shared(e)
<1>1. HeadingOf[e] = HeadingStep(0, e, HeadingOf)
  BY HeadingOfDef
<1> QED BY <1>1 DEF HeadingStep, SetOps, Shared

LEMMA EvalFacts ==
    ASSUME NEW e \in Exprs, NEW db
    PROVE  /\ Leaf(e) => Eval(e, db) = LeafRows(e, db)
           /\ e.op \in UnaryOps => Eval(e, db) = Applied(e, Eval(e.in, db), {})
           /\ e.op \in BinaryOps => Eval(e, db) = Applied(e, Eval(e.l, db), Eval(e.r, db))
<1>1. Evaluated(db)[e] = EvalStep(db, e, Evaluated(db))
  BY EvaluatedDef
<1> QED BY <1>1 DEF EvalStep, Eval, Leaf, Unary, UnaryOps, BinaryOps, SetOps

LEMMA LeavesFacts ==
    ASSUME NEW e \in Exprs
    PROVE  /\ Leaf(e) => LeavesOf[e] = {e}
           /\ e.op \in UnaryOps => LeavesOf[e] = LeavesOf[e.in]
           /\ e.op \in BinaryOps => LeavesOf[e] = LeavesOf[e.l] \cup LeavesOf[e.r]
<1>1. LeavesOf[e] = LeavesStep(0, e, LeavesOf)
  BY LeavesOfDef
<1> QED BY <1>1 DEF LeavesStep, Leaf, Unary, UnaryOps, BinaryOps, SetOps

LEMMA BuildFacts ==
    ASSUME NEW e \in Exprs
    PROVE  /\ Leaf(e) => Build[e] = BuiltLeaf(e)
           /\ e.op \in UnaryOps =>
                Build[e] = IF Build[e.in] = None THEN None ELSE BuiltUnary(e, Build[e.in])
           /\ e.op \in BinaryOps => Build[e] = BuiltBinary(e, Build[e.l], Build[e.r])
<1>1. Build[e] = BuildStep(0, e, Build)
  BY BuildDef
<1> QED BY <1>1 DEF BuildStep, Leaf, Unary, UnaryOps, BinaryOps, SetOps

LEMMA FiredFacts ==
    ASSUME NEW e \in Exprs
    PROVE  /\ Pushed(e) => Fired[e] = {Build[e]}
           /\ ~Pushed(e) /\ Leaf(e) => Fired[e] = {}
           /\ ~Pushed(e) /\ e.op \in UnaryOps => Fired[e] = Fired[e.in]
           /\ ~Pushed(e) /\ e.op \in BinaryOps => Fired[e] = Fired[e.l] \cup Fired[e.r]
<1>1. Fired[e] = FiredStep(0, e, Fired)
  BY FiredDef
<1> QED BY <1>1 DEF FiredStep, Leaf, Unary, UnaryOps, BinaryOps, SetOps

ChainOps == {"restrict", "extend", "project", "rename"}
TreePairs == {"minus", "or", "and", "semi"}

LEMMA TreeShapes ==
    ASSUME NEW x \in Trees
    PROVE  /\ x.op \in {"ref", "param"} \cup ChainOps \cup TreePairs
           /\ x.op \in ChainOps => x.in \in Trees /\ TreeHeight[x.in] < TreeHeight[x]
           /\ x.op \in TreePairs =>
                /\ x.l \in Trees /\ TreeHeight[x.l] < TreeHeight[x]
                /\ x.r \in Trees /\ TreeHeight[x.r] < TreeHeight[x]
           /\ TreeHeight[x] \in Nat
           /\ Formed(x)
<1>1. Formed(x)
  BY TreesAssumption
<1>2. x.op \in {"ref", "param"} \cup ChainOps \cup TreePairs
  BY <1>1 DEF Formed, ChainOps, TreePairs
<1> QED BY <1>1, <1>2, TreesAssumption DEF Below, TreeLeaf, Binary, ChainOps, TreePairs

LEMMA FormedFacts ==
    ASSUME NEW x \in Trees
    PROVE  /\ x.op = "ref" => x.name \in Relvars /\ x = Ref(x.name)
           /\ x.op = "param" => x.ast \in Exprs
           /\ x.op = "restrict" => Pushable(x.pred) /\ x.pred \in Predicates(TreeHeading[x.in])
           /\ x.op = "extend" => Extends(x.adds, TreeHeading[x.in])
           /\ x.op = "project" => x.keep \subseteq TreeHeading[x.in]
           /\ x.op = "rename" => Renames(x.to, TreeHeading[x.in])
           /\ x.op \in {"minus", "or"} => TreeHeading[x.l] = TreeHeading[x.r]
           /\ x.op = "semi" => TreeHeading[x.r] \subseteq TreeHeading[x.l]
<1>1. Formed(x)
  BY TreesAssumption
<1>2. CASE x.op = "ref"
  <2>1. PICK r \in Relvars : x = Ref(r)
    BY <1>1, <1>2 DEF Formed
  <2>2. x.name = r
    BY <2>1 DEF Ref
  <2> QED BY <1>2, <2>1, <2>2
<1>3. CASE x.op # "ref"
  BY <1>1, <1>3 DEF Formed
<1> QED BY <1>2, <1>3

LEMMA TreeHeadingFacts ==
    ASSUME NEW x \in Trees
    PROVE  /\ x.op = "ref" => TreeHeading[x] = Schema[x.name]
           /\ x.op = "param" => TreeHeading[x] = HeadingOf[x.ast]
           /\ x.op = "restrict" => TreeHeading[x] = TreeHeading[x.in]
           /\ x.op = "extend" => TreeHeading[x] = TreeHeading[x.in] \cup DOMAIN x.adds
           /\ x.op = "project" => TreeHeading[x] = x.keep
           /\ x.op = "rename" => TreeHeading[x] = {NameOf(x.to, a) : a \in TreeHeading[x.in]}
           /\ x.op = "and" => TreeHeading[x] = TreeHeading[x.l] \cup TreeHeading[x.r]
           /\ x.op \in {"minus", "or", "semi"} => TreeHeading[x] = TreeHeading[x.l]
<1>1. TreeHeading[x] = TreeHeadingStep(0, x, TreeHeading)
  BY TreeHeadingDef
<1> QED BY <1>1 DEF TreeHeadingStep

LEMMA MeaningFacts ==
    ASSUME NEW x \in Trees, NEW db
    PROVE  /\ x.op = "ref" => Meaning(db)[x] = db[x.name]
           /\ x.op = "param" => Meaning(db)[x] = Eval(x.ast, db)
           /\ x.op = "restrict" => Meaning(db)[x] = {t \in Meaning(db)[x.in] : Holds(x.pred, t)}
           /\ x.op = "extend" => Meaning(db)[x] = {Extended(x.adds, t) : t \in Meaning(db)[x.in]}
           /\ x.op = "project" => Meaning(db)[x] = {Restrict(t, x.keep) : t \in Meaning(db)[x.in]}
           /\ x.op = "rename" => Meaning(db)[x] = {Renamed(x.to, t) : t \in Meaning(db)[x.in]}
           /\ x.op = "or" => Meaning(db)[x] = Meaning(db)[x.l] \cup Meaning(db)[x.r]
           /\ x.op = "minus" => Meaning(db)[x] = Meaning(db)[x.l] \ Meaning(db)[x.r]
<1>1. Meaning(db)[x] = MeaningStep(db, x, Meaning(db))
  BY MeaningDef
<1> HIDE DEF Meaning
<1> QED BY <1>1 DEF MeaningStep

LEMMA JoinMeaning ==
    ASSUME NEW x \in Trees, NEW db, x.op = "and"
    PROVE  Meaning(db)[x] = Joined(Meaning(db)[x.l], Meaning(db)[x.r])
<1>1. Meaning(db)[x] = MeaningStep(db, x, Meaning(db))
  BY MeaningDef
<1> HIDE DEF Meaning
<1> QED BY <1>1 DEF MeaningStep

LEMMA SemiMeaning ==
    ASSUME NEW x \in Trees, NEW db, x.op = "semi"
    PROVE  Meaning(db)[x] = IF x.negated
                            THEN Meaning(db)[x.l] \ Partnered(Meaning(db)[x.l], Meaning(db)[x.r])
                            ELSE Partnered(Meaning(db)[x.l], Meaning(db)[x.r])
<1>1. Meaning(db)[x] = MeaningStep(db, x, Meaning(db))
  BY MeaningDef
<1> HIDE DEF Meaning
<1> QED BY <1>1 DEF MeaningStep

LEMMA ResolvesFacts ==
    ASSUME NEW x \in Trees
    PROVE  /\ x.op = "ref" => Resolves[x]
           /\ x.op \in {"restrict", "project", "rename"} => (Resolves[x] <=> Resolves[x.in])
           /\ x.op = "and" => (Resolves[x] <=> Resolves[x.l] /\ Resolves[x.r])
           /\ x.op \in {"extend", "or", "minus", "semi"} => ~Resolves[x]
<1>1. Resolves[x] = ResolvesStep(0, x, Resolves)
  BY ResolvesDef
<1> QED BY <1>1 DEF ResolvesStep

LEMMA PhysicalFacts ==
    ASSUME NEW x \in Trees
    PROVE  /\ x.op \in {"ref", "param"} => Physical[x] = TreeHeading[x]
           /\ x.op \in ChainOps => Physical[x] = Physical[x.in]
           /\ x.op \in TreePairs => Physical[x] = Physical[x.l] \cup Physical[x.r]
<1>1. Physical[x] = PhysicalStep(0, x, Physical)
  BY PhysicalDef
<1> QED BY <1>1 DEF PhysicalStep, TreeLeaf, Binary, ChainOps, TreePairs

LEMMA KeysFacts ==
    ASSUME NEW x \in Trees
    PROVE  /\ x.op = "ref" => SurvivingKeys[x] = Keys[x.name]
           /\ x.op = "param" => SurvivingKeys[x] = {HeadingOf[x.ast]}
           /\ x.op \in {"restrict", "extend"} => SurvivingKeys[x] = SurvivingKeys[x.in]
           /\ x.op = "project" => SurvivingKeys[x] = KeptKeys(SurvivingKeys[x.in], x.keep)
           /\ x.op = "rename" => SurvivingKeys[x] = RenamedKeys(SurvivingKeys[x.in], x.to)
           /\ x.op = "and" =>
                SurvivingKeys[x] = JoinKeys(SurvivingKeys[x.l], SurvivingKeys[x.r],
                                            TreeHeading[x.l] \cap TreeHeading[x.r])
           /\ x.op = "or" => SurvivingKeys[x] = {}
           /\ x.op \in {"minus", "semi"} => SurvivingKeys[x] = SurvivingKeys[x.l]
<1>1. SurvivingKeys[x] = KeysStep(0, x, SurvivingKeys)
  BY SurvivingKeysDef
<1> QED BY <1>1 DEF KeysStep

LEMMA CardFacts ==
    ASSUME NEW x \in Trees
    PROVE  /\ x.op \in {"ref", "param", "or", "minus"} => ~CardLeOne[x]
           /\ x.op = "restrict" =>
                (CardLeOne[x] <=> CardLeOne[x.in] \/ Pins(x.pred, SurvivingKeys[x.in]))
           /\ x.op \in {"extend", "project", "rename"} => (CardLeOne[x] <=> CardLeOne[x.in])
           /\ x.op = "and" => (CardLeOne[x] <=> CardLeOne[x.l] /\ CardLeOne[x.r])
           /\ x.op = "semi" => (CardLeOne[x] <=> CardLeOne[x.l])
<1>1. CardLeOne[x] = CardStep(0, x, CardLeOne)
  BY CardLeOneDef
<1> QED BY <1>1 DEF CardStep

LEMMA ColumnsFacts ==
    ASSUME NEW x \in Trees
    PROVE  /\ x.op = "ref" => Columns[x] = [a \in Schema[x.name] |-> a]
           /\ x.op = "param" => Columns[x] = [a \in HeadingOf[x.ast] |-> a]
           /\ x.op = "restrict" => Columns[x] = Columns[x.in]
           /\ x.op = "project" => Columns[x] = Restrict(Columns[x.in], x.keep)
           /\ x.op = "rename" => Columns[x] = Renamed(x.to, Columns[x.in])
           /\ x.op = "and" =>
                Columns[x] = [a \in (DOMAIN Columns[x.l]) \cup (DOMAIN Columns[x.r]) |->
                                IF a \in DOMAIN Columns[x.l] THEN Columns[x.l][a] ELSE Columns[x.r][a]]
<1>1. Columns[x] = ColumnsStep(0, x, Columns)
  BY ColumnsDef
<1> QED BY <1>1 DEF ColumnsStep

LEMMA FromFacts ==
    ASSUME NEW x \in Trees, NEW db
    PROVE  /\ x.op = "ref" => From(db)[x] = db[x.name]
           /\ x.op = "param" => From(db)[x] = Eval(x.ast, db)
           /\ x.op = "restrict" =>
                From(db)[x] = {t \in From(db)[x.in] :
                    Compare(t[Columns[x.in][x.pred.attr]], x.pred.cmp, x.pred.arg.lit)}
           /\ x.op \in {"project", "rename"} => From(db)[x] = From(db)[x.in]
           /\ x.op = "and" =>
                From(db)[x] = {Beside(p[1], p[2]) : p \in
                    {p \in From(db)[x.l] \X From(db)[x.r] :
                       \A c \in {Columns[x.l][a] : a \in (DOMAIN Columns[x.l]) \cap (DOMAIN Columns[x.r])} :
                          p[1][c] = p[2][c]}}
<1>1. From(db)[x] = FromStep(db, x, From(db))
  BY FromDef
<1> HIDE DEF From
<1> QED BY <1>1 DEF FromStep

LEMMA TermsFacts ==
    ASSUME NEW x \in Trees
    PROVE  /\ x.op = "or" => Terms[x] = Terms[x.l] \o By("UNION", Terms[x.r])
           /\ x.op = "minus" => Terms[x] = Terms[x.l] \o By("EXCEPT", Terms[x.r])
           /\ x.op \notin {"or", "minus"} => Terms[x] = << [by |-> "UNION", select |-> x] >>
<1>1. Terms[x] = TermsStep(0, x, Terms)
  BY TermsDef
<1> QED BY <1>1 DEF TermsStep

LEMMA ComputedFacts ==
    ASSUME NEW e \in Exprs, NEW db
    PROVE  /\ Pushed(e) => Value(e, db) = Sql(Build[e], db)
           /\ ~Pushed(e) /\ Leaf(e) => Value(e, db) = LeafRows(e, db)
           /\ ~Pushed(e) /\ e.op \in UnaryOps => Value(e, db) = Applied(e, Value(e.in, db), {})
           /\ ~Pushed(e) /\ e.op \in BinaryOps =>
                Value(e, db) = Operated(e, Value(e.l, db), Value(e.r, db))
<1>1. Computed(db)[e] = ComputedStep(db, e, Computed(db))
  BY ComputedDef
<1> HIDE DEF Computed
<1> QED BY <1>1 DEF ComputedStep, Value, Leaf, Unary, UnaryOps, BinaryOps, SetOps

-----------------------------------------------------------------------------
(* Tuples have their headings.                                             *)

LEMMA ScalarTyped ==
    ASSUME NEW h, NEW s \in Scalars(h), NEW t \in [h -> Int]
    PROVE  Scalar(s, t) \in Int
<1>1. CASE s \in [lit : Int]
  BY <1>1 DEF Scalar, IsLit
<1>2. CASE s \in [attr : h]
  BY <1>2 DEF Scalar, IsLit
<1> QED BY <1>1, <1>2 DEF Scalars

LEMMA ExtendedTyped ==
    ASSUME NEW h, NEW adds, Extends(adds, h), NEW t \in [h -> Int]
    PROVE  Extended(adds, t) \in [h \cup DOMAIN adds -> Int]
<1>1. \A a \in DOMAIN adds : Scalar(adds[a], t) \in Int
  BY ScalarTyped DEF Extends
<1>2. DOMAIN t = h /\ \A a \in h : t[a] \in Int
  OBVIOUS
<1> QED BY <1>1, <1>2 DEF Extended

LEMMA RestrictTyped ==
    ASSUME NEW h, NEW keep \in SUBSET h, NEW t \in [h -> Int]
    PROVE  Restrict(t, keep) \in [keep -> Int]
BY DEF Restrict

\* A renaming moves each value to its new name.
LEMMA RenamedValue ==
    ASSUME NEW h, NEW to, Renames(to, h), NEW f, DOMAIN f = h
    PROVE  \A a \in h : Renamed(to, f)[NameOf(to, a)] = f[a]
<1> SUFFICES ASSUME NEW a \in h PROVE Renamed(to, f)[NameOf(to, a)] = f[a]
  OBVIOUS
<1>1. \E c \in h : NameOf(to, c) = NameOf(to, a)
  OBVIOUS
<1>2. (CHOOSE c \in h : NameOf(to, c) = NameOf(to, a)) \in h
        /\ NameOf(to, CHOOSE c \in h : NameOf(to, c) = NameOf(to, a)) = NameOf(to, a)
  BY <1>1
<1>3. (CHOOSE c \in h : NameOf(to, c) = NameOf(to, a)) = a
  BY <1>2 DEF Renames
<1>4. NameOf(to, a) \in {NameOf(to, c) : c \in DOMAIN f}
  OBVIOUS
<1>5. Renamed(to, f)[NameOf(to, a)] = f[CHOOSE c \in DOMAIN f : NameOf(to, c) = NameOf(to, a)]
  BY <1>4 DEF Renamed
<1> QED BY <1>3, <1>5

LEMMA RenamedAt ==
    ASSUME NEW h, NEW to, Renames(to, h), NEW f, DOMAIN f = h
    PROVE  /\ Renamed(to, f) = [b \in {NameOf(to, a) : a \in h} |-> Renamed(to, f)[b]]
           /\ DOMAIN Renamed(to, f) = {NameOf(to, a) : a \in h}
           /\ \A a \in h : Renamed(to, f)[NameOf(to, a)] = f[a]
<1>1. DOMAIN Renamed(to, f) = {NameOf(to, a) : a \in h}
  BY DEF Renamed
<1> QED BY <1>1, RenamedValue DEF Renamed

LEMMA RenamedTyped ==
    ASSUME NEW h, NEW to, Renames(to, h), NEW t \in [h -> Int]
    PROVE  Renamed(to, t) \in [{NameOf(to, a) : a \in h} -> Int]
<1> DEFINE names == {NameOf(to, a) : a \in h}
           u == Renamed(to, t)
<1>1. DOMAIN t = h /\ \A a \in h : t[a] \in Int
  OBVIOUS
<1>0. DOMAIN t = h
  OBVIOUS
<1>2. u = [b \in names |-> u[b]] /\ \A a \in h : u[NameOf(to, a)] = t[a]
  <2> HIDE DEF u, names
  <2>1. \A f : DOMAIN f = h => Renamed(to, f) = [b \in names |-> Renamed(to, f)[b]]
    BY DEF Renamed, names
  <2>2. \A f : DOMAIN f = h => \A a \in h : Renamed(to, f)[NameOf(to, a)] = f[a]
    BY RenamedValue
  <2> QED BY <1>0, <2>1, <2>2 DEF u
<1>3. \A b \in names : u[b] \in Int
  BY <1>1, <1>2
<1>4. u \in [names -> Int]
  <2> HIDE DEF u, names
  <2> QED BY <1>2, <1>3
<1> QED BY <1>4

\* Two tuples beside each other.
LEMMA BesideTyped ==
    ASSUME NEW h, NEW k, NEW p \in [h -> Int], NEW q \in [k -> Int]
    PROVE  Beside(p, q) \in [h \cup k -> Int]
BY DEF Beside

LEMMA BesideParts ==
    ASSUME NEW h, NEW k, NEW p \in [h -> Int], NEW q \in [k -> Int], Agree(p, q)
    PROVE  /\ Restrict(Beside(p, q), h) = p /\ Restrict(Beside(p, q), k) = q
           /\ DOMAIN Beside(p, q) = h \cup k
           /\ \A a \in h : Beside(p, q)[a] = p[a]
           /\ \A a \in k : Beside(p, q)[a] = q[a]
<1>1. DOMAIN p = h /\ DOMAIN q = k
  OBVIOUS
<1>2. DOMAIN Beside(p, q) = h \cup k /\ \A a \in h : Beside(p, q)[a] = p[a]
  BY <1>1 DEF Beside
<1>3. \A a \in k : Beside(p, q)[a] = q[a]
  BY <1>1 DEF Beside, Agree
<1>4. Restrict(Beside(p, q), h) = p
  BY <1>2 DEF Restrict
<1>5. Restrict(Beside(p, q), k) = q
  BY <1>3 DEF Restrict
<1> QED BY <1>2, <1>3, <1>4, <1>5

LEMMA JoinedMember ==
    ASSUME NEW ls, NEW rs, NEW t
    PROVE  t \in Joined(ls, rs) <=> \E p \in ls, q \in rs : Agree(p, q) /\ t = Beside(p, q)
<1> DEFINE pairs == {pq \in ls \X rs : Agree(pq[1], pq[2])}
<1>1. ASSUME NEW p \in ls, NEW q \in rs, Agree(p, q), t = Beside(p, q)
      PROVE  t \in Joined(ls, rs)
  <2>1. <<p, q>> \in pairs /\ <<p, q>>[1] = p /\ <<p, q>>[2] = q
    BY <1>1
  <2> HIDE DEF pairs
  <2> QED BY <1>1, <2>1 DEF Joined, pairs
<1>2. ASSUME t \in Joined(ls, rs)
      PROVE  \E p \in ls, q \in rs : Agree(p, q) /\ t = Beside(p, q)
  <2>1. PICK w \in pairs : t = Beside(w[1], w[2])
    BY <1>2 DEF Joined
  <2> QED BY <2>1
<1> QED BY <1>1, <1>2

LEMMA JoinedTyped ==
    ASSUME NEW h, NEW k, NEW ls \in Rows(h), NEW rs \in Rows(k)
    PROVE  Joined(ls, rs) \in Rows(h \cup k)
<1>1. \A t \in Joined(ls, rs) : \E p \in ls, q \in rs : t = Beside(p, q)
  BY JoinedMember
<1>2. \A p \in ls, q \in rs : p \in [h -> Int] /\ q \in [k -> Int]
  BY DEF Rows
<1>3. \A p \in ls, q \in rs : Beside(p, q) \in [h \cup k -> Int]
  BY <1>2, BesideTyped
<1>4. \A t \in Joined(ls, rs) : t \in [h \cup k -> Int]
  BY <1>1, <1>3
<1> QED BY <1>4 DEF Rows

\* Of one heading, a join is an intersection.
LEMMA JoinedSame ==
    ASSUME NEW h, NEW ls \in Rows(h), NEW rs \in Rows(h)
    PROVE  Joined(ls, rs) = ls \cap rs
<1>1. \A p \in ls : p \in [h -> Int] /\ DOMAIN p = h /\ p = [a \in h |-> p[a]]
  BY DEF Rows
<1>2. \A q \in rs : q \in [h -> Int] /\ DOMAIN q = h /\ q = [a \in h |-> q[a]]
  BY DEF Rows
<1>3. \A p \in ls, q \in rs : Agree(p, q) => p = q
  BY <1>1, <1>2 DEF Agree
<1>4. \A p \in ls : Beside(p, p) = p /\ Agree(p, p)
  BY <1>1 DEF Beside, Agree
<1>5. ASSUME NEW t PROVE t \in Joined(ls, rs) <=> t \in ls \cap rs
  <2>1. t \in Joined(ls, rs) <=> \E p \in ls, q \in rs : Agree(p, q) /\ t = Beside(p, q)
    BY JoinedMember
  <2> QED BY <2>1, <1>3, <1>4
<1>6. \A t : t \in Joined(ls, rs) <=> t \in ls \cap rs
  BY <1>5
<1>7. Joined(ls, rs) \in Rows(h \cup h)
  BY JoinedTyped
<1> QED BY <1>6, <1>7 DEF Rows

\* To meet a row only the shared attributes matter.
LEMMA PartneredNarrow ==
    ASSUME NEW h, NEW k, NEW ls \in Rows(h), NEW rs \in Rows(k)
    PROVE  Partnered(ls, {Restrict(u, h \cap k) : u \in rs}) = Partnered(ls, rs)
<1>1. ASSUME NEW t \in ls, NEW u \in rs
      PROVE  Agree(t, Restrict(u, h \cap k)) <=> Agree(t, u)
  <2>1. DOMAIN t = h /\ DOMAIN u = k
    BY DEF Rows
  <2>2. DOMAIN Restrict(u, h \cap k) = h \cap k /\ \A a \in h \cap k : Restrict(u, h \cap k)[a] = u[a]
    BY DEF Restrict
  <2> QED BY <2>1, <2>2 DEF Agree
<1> QED BY <1>1 DEF Partnered

\* What each operator yields has the heading the checker gives it.
LEMMA AppliedTyped ==
    ASSUME NEW e \in Exprs, NEW ls, NEW rs,
           e.op \in UnaryOps => ls \in Rows(HeadingOf[e.in]),
           e.op \in BinaryOps => ls \in Rows(HeadingOf[e.l]) /\ rs \in Rows(HeadingOf[e.r]),
           ~Leaf(e)
    PROVE  Applied(e, ls, rs) \in Rows(HeadingOf[e])
<1> DEFINE h == HeadingOf[e.in]
<1>0. WellTyped(e)
  BY TypingAssumption
<1>1. CASE e.op = "where"
  BY <1>1, HeadingFacts DEF Applied, Rows, UnaryOps
<1>2. CASE e.op = "extend"
  <2>1. Extends(e.adds, h) /\ ls \in SUBSET [h -> Int] /\ HeadingOf[e] = h \cup DOMAIN e.adds
    BY <1>0, <1>2, HeadingFacts DEF WellTyped, UnaryOps, Rows
  <2>2. Applied(e, ls, rs) = {Extended(e.adds, t) : t \in ls}
    BY <1>2 DEF Applied
  <2> HIDE DEF h
  <2>3. \A t \in ls : Extended(e.adds, t) \in [h \cup DOMAIN e.adds -> Int]
    BY <2>1, ExtendedTyped
  <2>4. HeadingOf[e] = h \cup DOMAIN e.adds
    BY <2>1
  <2> QED BY <2>2, <2>3, <2>4 DEF Rows
<1>3. CASE e.op = "project"
  <2>1. e.keep \in SUBSET h /\ ls \in SUBSET [h -> Int] /\ HeadingOf[e] = e.keep
    BY <1>0, <1>3, HeadingFacts DEF WellTyped, UnaryOps, Rows
  <2>2. Applied(e, ls, rs) = {Restrict(t, e.keep) : t \in ls}
    BY <1>3 DEF Applied
  <2> HIDE DEF h
  <2>3. \A t \in ls : Restrict(t, e.keep) \in [e.keep -> Int]
    BY <2>1, RestrictTyped
  <2> QED BY <2>1, <2>2, <2>3 DEF Rows
<1>4. CASE e.op = "rename"
  <2>1. Renames(e.to, h) /\ ls \in SUBSET [h -> Int]
        /\ HeadingOf[e] = {NameOf(e.to, a) : a \in h}
    BY <1>0, <1>4, HeadingFacts DEF WellTyped, UnaryOps, Rows
  <2>2. Applied(e, ls, rs) = {Renamed(e.to, t) : t \in ls}
    BY <1>4 DEF Applied
  <2> HIDE DEF h
  <2> DEFINE names == {NameOf(e.to, a) : a \in h}
  <2>3. \A t \in ls : Renamed(e.to, t) \in [names -> Int]
    BY <2>1, RenamedTyped
  <2>4. HeadingOf[e] = names
    BY <2>1
  <2> HIDE DEF names
  <2> QED BY <2>2, <2>3, <2>4 DEF Rows
<1>5. CASE e.op \in BinaryOps
  <2> DEFINE hl == HeadingOf[e.l]
             hr == HeadingOf[e.r]
  <2>1. ls \in Rows(hl) /\ rs \in Rows(hr)
    BY <1>5
  <2>2. CASE e.op \in SetOps
    <3>1. HeadingOf[e] = hl /\ hl = hr
      BY <1>0, <2>2, HeadingFacts DEF WellTyped, SetOps
    <3> HIDE DEF hl, hr
    <3> QED BY <2>1, <2>2, <3>1 DEF Applied, SetOps, Rows
  <2>3. CASE e.op = "join"
    <3>1. HeadingOf[e] = hl \cup hr
      BY <2>3, HeadingFacts
    <3>2. Joined(ls, rs) \in Rows(hl \cup hr)
      <4> HIDE DEF hl, hr
      <4> QED BY <2>1, JoinedTyped
    <3> QED BY <2>3, <3>1, <3>2 DEF Applied
  <2>4. CASE e.op = "compose"
    <3> DEFINE hc == HeadingOf[e]
    <3>1. hc \in SUBSET (hl \cup hr)
      BY <2>4, HeadingFacts
    <3>2. Joined(ls, rs) \in Rows(hl \cup hr)
      <4> HIDE DEF hl, hr
      <4> QED BY <2>1, JoinedTyped
    <3>3. Applied(e, ls, rs) = {Restrict(t, hc) : t \in Joined(ls, rs)}
      BY <2>4 DEF Applied
    <3> HIDE DEF hl, hr, hc
    <3>4. \A t \in Joined(ls, rs) : Restrict(t, hc) \in [hc -> Int]
      BY <3>1, <3>2, RestrictTyped DEF Rows
    <3>5. Applied(e, ls, rs) \in Rows(hc)
      BY <3>3, <3>4 DEF Rows
    <3> QED BY <3>5 DEF hc
  <2>5. CASE e.op \in {"matching", "unmatching"}
    <3>1. HeadingOf[e] = hl
      BY <2>5, HeadingFacts
    <3>2. Applied(e, ls, rs) \subseteq ls
      BY <2>5 DEF Applied, Partnered
    <3> HIDE DEF hl
    <3> QED BY <2>1, <3>1, <3>2 DEF Rows
  <2> QED BY <1>5, <2>2, <2>3, <2>4, <2>5 DEF BinaryOps
<1> QED BY <1>1, <1>2, <1>3, <1>4, <1>5, ExprShapes DEF Leaf, UnaryOps

LEMMA EvalTyped ==
    ASSUME NEW db, IsDb(db)
    PROVE  \A e \in Exprs : Eval(e, db) \in Rows(HeadingOf[e])
<1> DEFINE S == {e \in Exprs : Eval(e, db) \in Rows(HeadingOf[e])}
<1>1. ASSUME NEW e \in Exprs, \A o \in Exprs : Height[o] < Height[e] => o \in S
      PROVE  e \in S
  <2>1. CASE Leaf(e)
    <3>1. Eval(e, db) = LeafRows(e, db)
      BY <2>1, EvalFacts
    <3>2. LeafRows(e, db) \in Rows(HeadingOf[e])
      <4>1. WellTyped(e)
        BY TypingAssumption
      <4>2. CASE e.op = "relvar"
        BY <4>1, <4>2, HeadingFacts DEF LeafRows, WellTyped, IsDb
      <4>3. CASE e.op \in {"local", "lit"}
        BY <4>1, <4>3, HeadingFacts DEF LeafRows, WellTyped
      <4> QED BY <2>1, <4>2, <4>3 DEF Leaf
    <3> QED BY <3>1, <3>2
  <2>2. CASE e.op \in UnaryOps
    <3>1. e.in \in S /\ Eval(e, db) = Applied(e, Eval(e.in, db), {})
      BY <1>1, <2>2, ExprShapes, EvalFacts
    <3>2. ~Leaf(e) /\ e.op \notin BinaryOps
      BY <2>2 DEF Leaf, UnaryOps, BinaryOps, SetOps
    <3> QED BY <3>1, <3>2, AppliedTyped
  <2>3. CASE e.op \in BinaryOps
    <3>1. e.l \in S /\ e.r \in S /\ Eval(e, db) = Applied(e, Eval(e.l, db), Eval(e.r, db))
      BY <1>1, <2>3, ExprShapes, EvalFacts
    <3>2. ~Leaf(e) /\ e.op \notin UnaryOps
      BY <2>3 DEF Leaf, UnaryOps, BinaryOps, SetOps
    <3> QED BY <3>1, <3>2, AppliedTyped
  <2> QED BY <2>1, <2>2, <2>3, ExprShapes DEF Leaf
<1>2. \A e \in Exprs : e \in S
  <2> HIDE DEF S
  <2>1. \A e \in Exprs : Height[e] \in Nat
    BY ExprsAssumption
  <2> QED BY <1>1, <2>1, RHeading!Induction
<1> QED BY <1>2

LEMMA MeaningTyped ==
    ASSUME NEW db, IsDb(db)
    PROVE  \A x \in Trees : Meaning(db)[x] \in Rows(TreeHeading[x])
<1> DEFINE M(x) == Meaning(db)[x]
           S == {x \in Trees : M(x) \in Rows(TreeHeading[x])}
<1>1. ASSUME NEW x \in Trees, \A o \in Trees : TreeHeight[o] < TreeHeight[x] => o \in S
      PROVE  x \in S
  <2> DEFINE h == TreeHeading[x.in]
  <2>1. CASE x.op = "ref"
    <3>1. x.name \in Relvars
      BY <2>1, FormedFacts
    <3> QED BY <2>1, <3>1, MeaningFacts, TreeHeadingFacts DEF IsDb
  <2>2. CASE x.op = "param"
    <3>1. x.ast \in Exprs
      BY <2>2, FormedFacts
    <3> QED BY <2>2, <3>1, MeaningFacts, TreeHeadingFacts, EvalTyped
  <2>3. x.op \in ChainOps => M(x.in) \in SUBSET [h -> Int]
    BY <1>1, TreeShapes DEF Rows
  <2>4. x.op \in TreePairs => M(x.l) \in Rows(TreeHeading[x.l]) /\ M(x.r) \in Rows(TreeHeading[x.r])
    BY <1>1, TreeShapes
  <2>5. CASE x.op = "restrict"
    <3>1. M(x) \subseteq M(x.in) /\ TreeHeading[x] = h
      BY <2>5, MeaningFacts, TreeHeadingFacts
    <3> HIDE DEF M, h
    <3> QED BY <2>3, <2>5, <3>1 DEF Rows, ChainOps
  <2>6. CASE x.op = "extend"
    <3>1. M(x) = {Extended(x.adds, t) : t \in M(x.in)} /\ TreeHeading[x] = h \cup DOMAIN x.adds
      BY <2>6, MeaningFacts, TreeHeadingFacts
    <3>2. Extends(x.adds, h)
      BY <2>6, FormedFacts
    <3> HIDE DEF M, h
    <3>3. \A t \in M(x.in) : Extended(x.adds, t) \in [h \cup DOMAIN x.adds -> Int]
      BY <2>3, <2>6, <3>2, ExtendedTyped DEF ChainOps
    <3> QED BY <3>1, <3>3 DEF Rows
  <2>7. CASE x.op = "project"
    <3>1. M(x) = {Restrict(t, x.keep) : t \in M(x.in)} /\ TreeHeading[x] = x.keep
      BY <2>7, MeaningFacts, TreeHeadingFacts
    <3>2. x.keep \in SUBSET h
      BY <2>7, FormedFacts
    <3> HIDE DEF M, h
    <3>3. \A t \in M(x.in) : Restrict(t, x.keep) \in [x.keep -> Int]
      BY <2>3, <2>7, <3>2, RestrictTyped DEF ChainOps
    <3> QED BY <3>1, <3>3 DEF Rows
  <2>8. CASE x.op = "rename"
    <3>1. M(x) = {Renamed(x.to, t) : t \in M(x.in)} /\ TreeHeading[x] = {NameOf(x.to, a) : a \in h}
      BY <2>8, MeaningFacts, TreeHeadingFacts
    <3>2. Renames(x.to, h)
      BY <2>8, FormedFacts
    <3> HIDE DEF M, h
    <3>3. \A t \in M(x.in) : Renamed(x.to, t) \in [{NameOf(x.to, a) : a \in h} -> Int]
      BY <2>3, <2>8, <3>2, RenamedTyped DEF ChainOps
    <3> QED BY <3>1, <3>3 DEF Rows
  <2>9. CASE x.op \in {"minus", "or"}
    <3>1. TreeHeading[x] = TreeHeading[x.l] /\ TreeHeading[x.l] = TreeHeading[x.r]
      BY <2>9, FormedFacts, TreeHeadingFacts
    <3>2. M(x) \subseteq M(x.l) \cup M(x.r)
      BY <2>9, MeaningFacts
    <3> HIDE DEF M
    <3> QED BY <2>4, <2>9, <3>1, <3>2 DEF Rows, TreePairs
  <2>10. CASE x.op = "and"
    <3>1. TreeHeading[x] = TreeHeading[x.l] \cup TreeHeading[x.r]
      BY <2>10, TreeHeadingFacts
    <3>2. M(x) = Joined(M(x.l), M(x.r))
      BY <2>10, JoinMeaning
    <3>3. M(x.l) \in Rows(TreeHeading[x.l]) /\ M(x.r) \in Rows(TreeHeading[x.r])
      BY <2>4, <2>10 DEF TreePairs
    <3> HIDE DEF M
    <3>4. Joined(M(x.l), M(x.r)) \in Rows(TreeHeading[x.l] \cup TreeHeading[x.r])
      BY <3>3, JoinedTyped
    <3> QED BY <3>1, <3>2, <3>4
  <2>11. CASE x.op = "semi"
    <3>1. TreeHeading[x] = TreeHeading[x.l]
      BY <2>11, TreeHeadingFacts
    <3>2. M(x) \subseteq M(x.l)
      <4>1. Partnered(M(x.l), M(x.r)) \subseteq M(x.l)
        <5> HIDE DEF M
        <5> QED BY DEF Partnered
      <4> QED BY <2>11, <4>1, SemiMeaning
    <3> HIDE DEF M
    <3> QED BY <2>4, <2>11, <3>1, <3>2 DEF Rows, TreePairs
  <2> HIDE DEF S
  <2> QED BY <2>1, <2>2, <2>5, <2>6, <2>7, <2>8, <2>9, <2>10, <2>11, TreeShapes DEF ChainOps, TreePairs
<1>2. \A x \in Trees : x \in S
  <2> HIDE DEF S
  <2>1. \A x \in Trees : TreeHeight[x] \in Nat
    BY TreesAssumption
  <2> QED BY <1>1, <2>1, RMeaning!Induction
<1> QED BY <1>2

-----------------------------------------------------------------------------
(* build_rel_expr keeps the meaning.                                       *)

LEMMA TreeLeavesFacts ==
    ASSUME NEW x \in Trees
    PROVE  /\ x.op \in {"ref", "param"} => TreeLeaves[x] = {x}
           /\ x.op \in ChainOps => TreeLeaves[x] = TreeLeaves[x.in]
           /\ x.op \in TreePairs => TreeLeaves[x] = TreeLeaves[x.l] \cup TreeLeaves[x.r]
<1>1. TreeLeaves[x] = TreeLeavesStep(0, x, TreeLeaves)
  BY TreeLeavesDef
<1> QED BY <1>1 DEF TreeLeavesStep, TreeLeaf, Binary, ChainOps, TreePairs

\* The restrictions of a where, one upon the other.
ChainStep(p, i, f) == IF i = 0 THEN p[1] ELSE RestrictNode(f[i - 1], p[2][i])
Self == [n \in Nat |-> n]
RChain == INSTANCE Recursion WITH Dom <- Nat, Depth <- Self, Step <- ChainStep

LEMMA NatSteps ==
    ASSUME NEW S, 0 \in S, \A i \in Nat : i \in S => i + 1 \in S
    PROVE  \A i \in Nat : i \in S
<1>1. \A i \in Nat : Self[i] \in Nat
  BY DEF Self
<1>2. ASSUME NEW i \in Nat, \A o \in Nat : Self[o] < Self[i] => o \in S
      PROVE  i \in S
  <2>1. CASE i = 0
    BY <2>1
  <2>2. CASE i > 0
    <3>1. i - 1 \in Nat /\ Self[i - 1] < Self[i]
      BY <2>2 DEF Self
    <3>2. i - 1 \in S
      BY <1>2, <3>1
    <3>3. (i - 1) + 1 \in S
      BY <3>1, <3>2
    <3> QED BY <3>3
  <2> QED BY <2>1, <2>2
<1> QED BY <1>1, <1>2, RChain!Induction

LEMMA RestrictedChain ==
    ASSUME NEW x, NEW preds, Len(preds) \in Nat
    PROVE  \E c : /\ c[0] = x
                  /\ \A i \in 1 .. Len(preds) : c[i] = RestrictNode(c[i - 1], preds[i])
                  /\ Restricted(x, preds) = c[Len(preds)]
<1> DEFINE n == Len(preds)
           Is(c) == c = [i \in 0 .. n |-> IF i = 0 THEN x ELSE RestrictNode(c[i - 1], preds[i])]
<1>1. RChain!Local
  BY DEF RChain!Local, ChainStep, Self
<1>2. PICK f : f = [i \in Nat |-> ChainStep(<<x, preds>>, i, f)]
  BY <1>1, RChain!Defined
<1>3. \A i \in Nat : f[i] = IF i = 0 THEN x ELSE RestrictNode(f[i - 1], preds[i])
  BY <1>2 DEF ChainStep
<1>4. Is([i \in 0 .. n |-> f[i]])
  <2> DEFINE c == [i \in 0 .. n |-> f[i]]
  <2>1. \A i \in 0 .. n : c[i] = IF i = 0 THEN x ELSE RestrictNode(c[i - 1], preds[i])
    BY <1>3
  <2> QED BY <2>1
<1>5. \E c : Is(c)
  BY <1>4
<1>6. Is(CHOOSE c : Is(c))
  BY <1>5
<1>7. Restricted(x, preds) = (CHOOSE c : Is(c))[n]
  BY DEF Restricted
<1> DEFINE c == CHOOSE g : Is(g)
<1>8. \A i \in 0 .. n : c[i] = IF i = 0 THEN x ELSE RestrictNode(c[i - 1], preds[i])
  <2> HIDE DEF c
  <2>1. Is(c)
    BY <1>6 DEF c
  <2> QED BY <2>1
<1> HIDE DEF c
<1>9. c[0] = x /\ \A i \in 1 .. n : c[i] = RestrictNode(c[i - 1], preds[i])
  BY <1>8
<1> QED BY <1>7, <1>9 DEF c

\* Such a chain keeps the rows that satisfy all predicates; its leaves and its
\* heading are those of what it restricts.
LEMMA RestrictedMeans ==
    ASSUME NEW db, NEW x \in Trees, NEW preds, Len(preds) \in Nat,
           DOMAIN preds = 1 .. Len(preds), Restricted(x, preds) \in Trees
    PROVE  /\ Meaning(db)[Restricted(x, preds)] = {t \in Meaning(db)[x] : Satisfies(preds, t)}
           /\ TreeHeading[Restricted(x, preds)] = TreeHeading[x]
           /\ TreeLeaves[Restricted(x, preds)] = TreeLeaves[x]
<1> DEFINE n == Len(preds)
<1>1. PICK c : /\ c[0] = x
               /\ \A i \in 1 .. n : c[i] = RestrictNode(c[i - 1], preds[i])
               /\ Restricted(x, preds) = c[n]
  BY RestrictedChain
<1> DEFINE Good(i) ==
              /\ Meaning(db)[c[i]] = {t \in Meaning(db)[x] : \A j \in 1 .. i : Holds(preds[j], t)}
              /\ TreeHeading[c[i]] = TreeHeading[x]
              /\ TreeLeaves[c[i]] = TreeLeaves[x]
           S == {i \in Nat : i <= n => (c[i] \in Trees => Good(i))}
<1>2. Good(0)
  <2>1. {t \in Meaning(db)[x] : \A j \in 1 .. 0 : Holds(preds[j], t)} = Meaning(db)[x]
    OBVIOUS
  <2> QED BY <1>1, <2>1
<1>3. ASSUME NEW i \in Nat, i + 1 <= n, c[i + 1] \in Trees, c[i] \in Trees => Good(i)
      PROVE  Good(i + 1)
  <2>1. i + 1 \in 1 .. n /\ (i + 1) - 1 = i
    BY <1>3
  <2>2. c[i + 1] = RestrictNode(c[i], preds[i + 1])
    BY <1>1, <2>1
  <2>3. c[i + 1].op = "restrict" /\ c[i + 1].in = c[i] /\ c[i + 1].pred = preds[i + 1]
    BY <2>2 DEF RestrictNode
  <2>4. c[i] \in Trees
    BY <1>3, <2>3, TreeShapes DEF ChainOps
  <2>5. Good(i)
    BY <1>3, <2>4
  <2>6. /\ Meaning(db)[c[i + 1]] = {t \in Meaning(db)[c[i]] : Holds(preds[i + 1], t)}
        /\ TreeHeading[c[i + 1]] = TreeHeading[c[i]]
        /\ TreeLeaves[c[i + 1]] = TreeLeaves[c[i]]
    BY <1>3, <2>3, MeaningFacts, TreeHeadingFacts, TreeLeavesFacts DEF ChainOps
  <2>7. \A j \in 1 .. i + 1 : j = i + 1 \/ j \in 1 .. i
    OBVIOUS
  <2>8. 1 .. i \subseteq 1 .. i + 1 /\ i + 1 \in 1 .. i + 1
    OBVIOUS
  <2> QED BY <2>5, <2>6, <2>7, <2>8
<1>4. \A i \in Nat : i \in S
  <2> HIDE DEF Good
  <2>1. 0 \in S
    BY <1>2
  <2>2. \A i \in Nat : i \in S => i + 1 \in S
    BY <1>1, <1>3, TreeShapes DEF RestrictNode, ChainOps
  <2> HIDE DEF S
  <2> QED BY <2>1, <2>2, NatSteps
<1>5. Good(n)
  <2> HIDE DEF Good
  <2>1. n \in S /\ c[n] \in Trees
    BY <1>1, <1>4
  <2> QED BY <2>1
<1> QED BY <1>1, <1>5 DEF Satisfies

LEMMA RestrictedLeaves ==
    ASSUME NEW x \in Trees, NEW preds, Len(preds) \in Nat,
           DOMAIN preds = 1 .. Len(preds), Restricted(x, preds) \in Trees
    PROVE  TreeLeaves[Restricted(x, preds)] = TreeLeaves[x]
<1>1. \A db : TreeLeaves[Restricted(x, preds)] = TreeLeaves[x]
  BY RestrictedMeans
<1> QED BY <1>1

LEMMA BuiltTree ==
    ASSUME NEW e \in Exprs, Build[e] # None
    PROVE  Build[e] \in Trees
BY TreesAssumption

\* Of the trees in one step: what a where is built into.
LEMMA BuiltWhereCases ==
    ASSUME NEW e \in Exprs, e.op = "where", Build[e] # None
    PROVE  /\ Build[e.in] # None
           /\ \/ Build[e] = Restricted(Build[e.in], e.preds)
              \/ InProcess(e.in) /\ Build[e] = Param(e)
<1>1. Build[e] = IF Build[e.in] = None THEN None ELSE BuiltUnary(e, Build[e.in])
  BY BuildFacts DEF UnaryOps
<1>2. BuiltUnary(e, Build[e.in]) = BuiltWhere(e, Build[e.in])
  BY DEF BuiltUnary
<1> QED BY <1>1, <1>2 DEF BuiltWhere

LEMMA PredsAreSeq ==
    ASSUME NEW e \in Exprs, e.op = "where"
    PROVE  /\ Len(e.preds) \in Nat /\ DOMAIN e.preds = 1 .. Len(e.preds)
           /\ \A i \in DOMAIN e.preds : e.preds[i] \in Predicates(HeadingOf[e.in])
<1>1. e.preds \in Seq(Predicates(HeadingOf[e.in]))
  BY TypingAssumption DEF WellTyped
<1> QED BY <1>1

\* The right side of a semijoin, narrowed to the shared attributes, matches the
\* same rows.  The operand it is built from ships, or is a tree of its own.
LEMMA NarrowedMeans ==
    ASSUME NEW db, IsDb(db), NEW e \in Exprs, e.op \in {"matching", "unmatching"}, NEW r,
           Narrowed(r, e) \in Trees,
           \/ r \in Trees /\ Meaning(db)[r] = Eval(e.r, db) /\ TreeHeading[r] = HeadingOf[e.r]
           \/ r = Param(e.r),
           NEW ls \in Rows(HeadingOf[e.l])
    PROVE  Partnered(ls, Meaning(db)[Narrowed(r, e)]) = Partnered(ls, Eval(e.r, db))
<1> DEFINE rs == Eval(e.r, db)
           h == HeadingOf[e.l]
           k == HeadingOf[e.r]
           narrow == {Restrict(u, h \cap k) : u \in rs}
           y == Narrowed(r, e)
<1>0. e.r \in Exprs /\ e.l \in Exprs
  BY ExprShapes DEF BinaryOps
<1>1. rs \in Rows(k)
  BY <1>0, EvalTyped
<1>2. Partnered(ls, narrow) = Partnered(ls, rs)
  <2> HIDE DEF rs, h, k
  <2>1. ls \in Rows(h)
    BY DEF h
  <2> QED BY <1>1, <2>1, PartneredNarrow
<1>3. r.op = "param" => /\ r.ast \in Exprs /\ Eval(r.ast, db) = rs /\ HeadingOf[r.ast] = k
  <2>1. CASE r = Param(e.r)
    <3>1. r.ast = e.r
      BY <2>1 DEF Param
    <3> QED BY <1>0, <3>1
  <2>2. CASE r \in Trees /\ Meaning(db)[r] = Eval(e.r, db) /\ TreeHeading[r] = HeadingOf[e.r]
    <3> SUFFICES ASSUME r.op = "param" PROVE r.ast \in Exprs /\ Eval(r.ast, db) = rs /\ HeadingOf[r.ast] = k
      OBVIOUS
    <3>1. r.ast \in Exprs /\ Meaning(db)[r] = Eval(r.ast, db) /\ TreeHeading[r] = HeadingOf[r.ast]
      BY <2>2, FormedFacts, MeaningFacts, TreeHeadingFacts
    <3> QED BY <2>2, <3>1
  <2> QED BY <2>1, <2>2
<1>4. Shared(e) = h \cap k
  BY DEF Shared
<1>5. CASE Shared(e) = k
  <2>1. y = r
    BY <1>5 DEF Narrowed
  <2>2. Meaning(db)[y] = rs
    <3>1. CASE r = Param(e.r)
      <4>1. y.op = "param" /\ y.ast = e.r /\ y \in Trees
        BY <2>1, <3>1 DEF Param
      <4> HIDE DEF y
      <4> QED BY <4>1, MeaningFacts
    <3>2. CASE r # Param(e.r)
      BY <2>1, <3>2
    <3> QED BY <3>1, <3>2
  <2> QED BY <2>2
<1>6. CASE Shared(e) # k /\ r.op = "param"
  <2> DEFINE n == Narrow(r.ast, Shared(e))
  <2>1. y = Param(n)
    BY <1>6 DEF Narrowed
  <2>2. y.op = "param" /\ y.ast = n
    BY <2>1 DEF Param
  <2>3. n \in Exprs /\ Meaning(db)[y] = Eval(n, db)
    <3> HIDE DEF n, y
    <3>1. y \in Trees
      BY DEF y
    <3> QED BY <2>2, <3>1, FormedFacts, MeaningFacts
  <2>4. n.op = "project" /\ n.in = r.ast /\ n.keep = h \cap k
    BY <1>4 DEF Narrow
  <2> HIDE DEF n
  <2>5. Eval(n, db) = Applied(n, Eval(r.ast, db), {})
    BY <2>3, <2>4, EvalFacts DEF UnaryOps
  <2>6. Eval(n, db) = narrow
    BY <1>3, <1>6, <2>4, <2>5 DEF Applied
  <2> QED BY <1>2, <2>3, <2>6
<1>7. CASE Shared(e) # k /\ r.op # "param"
  <2>1. y = [op |-> "project", in |-> r, keep |-> Shared(e)]
    BY <1>7 DEF Narrowed
  <2>2. y.op = "project" /\ y.in = r /\ y.keep = h \cap k
    BY <1>4, <2>1
  <2>3. r \in Trees /\ Meaning(db)[r] = rs
    BY <1>7 DEF Param
  <2>4. Meaning(db)[y] = {Restrict(u, y.keep) : u \in Meaning(db)[y.in]}
    <3> HIDE DEF y
    <3>1. y \in Trees
      BY DEF y
    <3> QED BY <2>2, <3>1, MeaningFacts
  <2>5. Meaning(db)[y] = narrow
    <3> HIDE DEF y, h, k, rs
    <3> QED BY <2>2, <2>3, <2>4
  <2> QED BY <1>2, <2>5
<1> QED BY <1>5, <1>6, <1>7

\* The tree built for an expression means what the expression denotes.
THEOREM BuildMeans ==
    ASSUME NEW db, IsDb(db)
    PROVE  \A e \in Exprs : Build[e] # None =>
              Meaning(db)[Build[e]] = Eval(e, db) /\ TreeHeading[Build[e]] = HeadingOf[e]
<1> DEFINE Good(e) == Build[e] # None =>
                        /\ Meaning(db)[Build[e]] = Eval(e, db)
                        /\ TreeHeading[Build[e]] = HeadingOf[e]
           S == {e \in Exprs : Good(e)}
<1>0. ASSUME NEW e, Param(e) \in Trees
      PROVE  Meaning(db)[Param(e)] = Eval(e, db) /\ TreeHeading[Param(e)] = HeadingOf[e]
  <2>1. Param(e).op = "param" /\ Param(e).ast = e
    BY DEF Param
  <2> QED BY <1>0, <2>1, MeaningFacts, TreeHeadingFacts
<1>1. ASSUME NEW e \in Exprs, \A o \in Exprs : Height[o] < Height[e] => o \in S, Build[e] # None
      PROVE  Good(e)
  <2> DEFINE x == Build[e]
  <2>0. x \in Trees
    BY <1>1, BuiltTree
  <2>1. CASE Leaf(e)
    <3>1. Build[e] = BuiltLeaf(e)
      BY <2>1, BuildFacts
    <3>2. CASE e.op = "relvar"
      <4>1. x = Ref(e.name)
        BY <3>1, <3>2 DEF BuiltLeaf
      <4>2. x.op = "ref" /\ x.name = e.name
        BY <4>1 DEF Ref
      <4>3. Meaning(db)[x] = db[e.name] /\ TreeHeading[x] = Schema[e.name]
        BY <2>0, <4>2, MeaningFacts, TreeHeadingFacts
      <4>4. Eval(e, db) = db[e.name] /\ HeadingOf[e] = Schema[e.name]
        BY <2>1, <3>2, EvalFacts, HeadingFacts DEF LeafRows
      <4> QED BY <4>3, <4>4
    <3>3. CASE e.op = "local"
      <4>1. x = Param(e)
        BY <3>1, <3>3 DEF BuiltLeaf
      <4> QED BY <1>0, <2>0, <4>1
    <3>4. CASE e.op = "lit"
      BY <1>1, <3>1, <3>4 DEF BuiltLeaf
    <3> QED BY <2>1, <3>2, <3>3, <3>4 DEF Leaf
  <2>2. CASE e.op \in UnaryOps
    <3> DEFINE in == Build[e.in]
    <3>1. in # None /\ x = BuiltUnary(e, in)
      BY <1>1, <2>2, BuildFacts
    <3>2. e.in \in S /\ e.in \in Exprs
      BY <1>1, <2>2, ExprShapes
    <3>3. Meaning(db)[in] = Eval(e.in, db) /\ TreeHeading[in] = HeadingOf[e.in] /\ in \in Trees
      BY <3>1, <3>2, BuiltTree
    <3>4. Eval(e, db) = Applied(e, Eval(e.in, db), {})
      BY <2>2, EvalFacts
    <3>5. CASE e.op = "where"
      <4>1. CASE x = Restricted(in, e.preds)
        <5>1. Len(e.preds) \in Nat /\ DOMAIN e.preds = 1 .. Len(e.preds)
          BY <3>5, PredsAreSeq
        <5>2. /\ Meaning(db)[x] = {t \in Meaning(db)[in] : Satisfies(e.preds, t)}
              /\ TreeHeading[x] = TreeHeading[in]
          BY <2>0, <3>3, <4>1, <5>1, RestrictedMeans
        <5>3. Eval(e, db) = {t \in Eval(e.in, db) : Satisfies(e.preds, t)} /\ HeadingOf[e] = HeadingOf[e.in]
          BY <3>4, <3>5, HeadingFacts DEF Applied
        <5> QED BY <3>3, <5>2, <5>3
      <4>2. CASE x = Param(e)
        BY <1>0, <2>0, <4>2
      <4> QED BY <1>1, <3>5, <4>1, <4>2, BuiltWhereCases
    <3>6. CASE e.op = "extend"
      <4>1. x = [op |-> "extend", in |-> in, adds |-> e.adds]
        BY <3>1, <3>6 DEF BuiltUnary
      <4>2. x.op = "extend" /\ x.in = in /\ x.adds = e.adds
        BY <4>1
      <4>3. /\ Meaning(db)[x] = {Extended(e.adds, t) : t \in Meaning(db)[in]}
            /\ TreeHeading[x] = TreeHeading[in] \cup DOMAIN e.adds
        <5>1. /\ Meaning(db)[x] = {Extended(x.adds, t) : t \in Meaning(db)[x.in]}
              /\ TreeHeading[x] = TreeHeading[x.in] \cup DOMAIN x.adds
          BY <2>0, <4>2, MeaningFacts, TreeHeadingFacts
        <5> HIDE DEF x, in
        <5> QED BY <4>2, <5>1
      <4>4. /\ Eval(e, db) = {Extended(e.adds, t) : t \in Eval(e.in, db)}
            /\ HeadingOf[e] = HeadingOf[e.in] \cup DOMAIN e.adds
        BY <3>4, <3>6, HeadingFacts DEF Applied
      <4> QED BY <3>3, <4>3, <4>4
    <3>7. CASE e.op = "project"
      <4>1. x = [op |-> "project", in |-> in, keep |-> e.keep]
        BY <3>1, <3>7 DEF BuiltUnary
      <4>2. x.op = "project" /\ x.in = in /\ x.keep = e.keep
        BY <4>1
      <4>3. /\ Meaning(db)[x] = {Restrict(t, e.keep) : t \in Meaning(db)[in]}
            /\ TreeHeading[x] = e.keep
        <5>1. /\ Meaning(db)[x] = {Restrict(t, x.keep) : t \in Meaning(db)[x.in]}
              /\ TreeHeading[x] = x.keep
          BY <2>0, <4>2, MeaningFacts, TreeHeadingFacts
        <5> HIDE DEF x, in
        <5> QED BY <4>2, <5>1
      <4>4. /\ Eval(e, db) = {Restrict(t, e.keep) : t \in Eval(e.in, db)}
            /\ HeadingOf[e] = e.keep
        BY <3>4, <3>7, HeadingFacts DEF Applied
      <4> QED BY <3>3, <4>3, <4>4
    <3>8. CASE e.op = "rename"
      <4>1. x = [op |-> "rename", in |-> in, to |-> e.to]
        BY <3>1, <3>8 DEF BuiltUnary
      <4>2. x.op = "rename" /\ x.in = in /\ x.to = e.to
        BY <4>1
      <4>3. /\ Meaning(db)[x] = {Renamed(e.to, t) : t \in Meaning(db)[in]}
            /\ TreeHeading[x] = {NameOf(e.to, a) : a \in TreeHeading[in]}
        <5>1. /\ Meaning(db)[x] = {Renamed(x.to, t) : t \in Meaning(db)[x.in]}
              /\ TreeHeading[x] = {NameOf(x.to, a) : a \in TreeHeading[x.in]}
          BY <2>0, <4>2, MeaningFacts, TreeHeadingFacts
        <5> HIDE DEF x, in
        <5> QED BY <4>2, <5>1
      <4>4. /\ Eval(e, db) = {Renamed(e.to, t) : t \in Eval(e.in, db)}
            /\ HeadingOf[e] = {NameOf(e.to, a) : a \in HeadingOf[e.in]}
        BY <3>4, <3>8, HeadingFacts DEF Applied
      <4> QED BY <3>3, <4>3, <4>4
    <3> QED BY <2>2, <3>5, <3>6, <3>7, <3>8 DEF UnaryOps
  <2>3. CASE e.op \in BinaryOps
    <3> DEFINE l == Collapsed(e.l, Build[e.l])
               r == Collapsed(e.r, Build[e.r])
    <3>1. Build[e.l] # None /\ Build[e.r] # None /\ x = Combined(e, l, r)
      BY <1>1, <2>3, BuildFacts DEF BuiltBinary
    <3>2. e.l \in S /\ e.r \in S /\ e.l \in Exprs /\ e.r \in Exprs
      BY <1>1, <2>3, ExprShapes
    <3>3. ASSUME NEW o \in Exprs, o \in S, Build[o] # None, Collapsed(o, Build[o]) \in Trees
          PROVE  /\ Meaning(db)[Collapsed(o, Build[o])] = Eval(o, db)
                 /\ TreeHeading[Collapsed(o, Build[o])] = HeadingOf[o]
      BY <1>0, <3>3 DEF Collapsed
    <3>4. l \in Trees => Meaning(db)[l] = Eval(e.l, db) /\ TreeHeading[l] = HeadingOf[e.l]
      BY <3>1, <3>2, <3>3
    <3>5. r \in Trees => Meaning(db)[r] = Eval(e.r, db) /\ TreeHeading[r] = HeadingOf[e.r]
      BY <3>1, <3>2, <3>3
    <3>6. Eval(e, db) = Applied(e, Eval(e.l, db), Eval(e.r, db))
      BY <2>3, EvalFacts
    <3>7. /\ Eval(e.l, db) \in Rows(HeadingOf[e.l]) /\ Eval(e.r, db) \in Rows(HeadingOf[e.r])
          /\ WellTyped(e)
      BY <3>2, EvalTyped, TypingAssumption
    <3>8. r \in Trees \/ r = Param(e.r)
      BY <3>1, <3>2, BuiltTree DEF Collapsed
    <3>9. CASE e.op \in SetOps \cup {"join"}
      <4>1. x = [op |-> NodeOf(e.op), l |-> l, r |-> r]
        BY <3>1, <3>9 DEF Combined, SetOps
      <4>2. x.op = NodeOf(e.op) /\ x.l = l /\ x.r = r
        BY <4>1
      <4>3. x.op \in TreePairs
        BY <3>9, <4>2 DEF NodeOf, SetOps, TreePairs
      <4> HIDE DEF l, r, x
      <4>4. x \in Trees
        BY <2>0 DEF x
      <4>5. l \in Trees /\ r \in Trees
        BY <4>2, <4>3, <4>4, TreeShapes
      <4>6. CASE e.op = "minus"
        <5>1. x.op = "minus"
          BY <4>2, <4>6 DEF NodeOf
        <5>2. Meaning(db)[x] = Eval(e.l, db) \ Eval(e.r, db)
          BY <3>4, <3>5, <4>2, <4>4, <4>5, <5>1, MeaningFacts
        <5>3. TreeHeading[x] = HeadingOf[e]
          BY <3>4, <4>2, <4>4, <4>5, <4>6, <5>1, TreeHeadingFacts, HeadingFacts DEF SetOps
        <5> QED BY <3>6, <4>6, <5>2, <5>3 DEF Applied, x
      <4>7. CASE e.op = "union"
        <5>1. x.op = "or"
          BY <4>2, <4>7 DEF NodeOf
        <5>2. Meaning(db)[x] = Eval(e.l, db) \cup Eval(e.r, db)
          BY <3>4, <3>5, <4>2, <4>4, <4>5, <5>1, MeaningFacts
        <5>3. TreeHeading[x] = HeadingOf[e]
          BY <3>4, <4>2, <4>4, <4>5, <4>7, <5>1, TreeHeadingFacts, HeadingFacts DEF SetOps
        <5> QED BY <3>6, <4>7, <5>2, <5>3 DEF Applied, x
      <4>8. CASE e.op \in {"intersect", "join"}
        <5>1. x.op = "and"
          BY <4>2, <4>8 DEF NodeOf
        <5>2. Meaning(db)[x] = Joined(Eval(e.l, db), Eval(e.r, db))
          BY <3>4, <3>5, <4>2, <4>4, <4>5, <5>1, JoinMeaning
        <5>3. TreeHeading[x] = HeadingOf[e.l] \cup HeadingOf[e.r]
          BY <3>4, <3>5, <4>2, <4>4, <4>5, <5>1, TreeHeadingFacts
        <5>4. CASE e.op = "join"
          BY <3>6, <5>2, <5>3, <5>4, HeadingFacts DEF Applied, x
        <5>5. CASE e.op = "intersect"
          <6>1. HeadingOf[e.l] = HeadingOf[e.r] /\ HeadingOf[e] = HeadingOf[e.l]
            BY <3>7, <5>5, HeadingFacts DEF WellTyped, SetOps
          <6>2. Joined(Eval(e.l, db), Eval(e.r, db)) = Eval(e.l, db) \cap Eval(e.r, db)
            BY <3>7, <6>1, JoinedSame
          <6> QED BY <3>6, <5>2, <5>3, <5>5, <6>1, <6>2 DEF Applied, x
        <5> QED BY <4>8, <5>4, <5>5
      <4> QED BY <3>9, <4>6, <4>7, <4>8 DEF SetOps
    <3>10. CASE e.op = "compose"
      <4> DEFINE y == [op |-> "and", l |-> l, r |-> r]
      <4>1. x = [op |-> "project", in |-> y, keep |-> HeadingOf[e]]
        BY <3>1, <3>10 DEF Combined
      <4>2. y.op = "and" /\ y.l = l /\ y.r = r
        OBVIOUS
      <4>3. x.op = "project" /\ x.in = y /\ x.keep = HeadingOf[e]
        BY <4>1
      <4> HIDE DEF l, r, x, y
      <4>4. x \in Trees
        BY <2>0 DEF x
      <4>5. y \in Trees
        BY <4>3, <4>4, TreeShapes DEF ChainOps
      <4>6. l \in Trees /\ r \in Trees
        BY <4>2, <4>5, TreeShapes DEF TreePairs
      <4>7. Meaning(db)[y] = Joined(Eval(e.l, db), Eval(e.r, db))
        BY <3>4, <3>5, <4>2, <4>5, <4>6, JoinMeaning
      <4>8. Meaning(db)[x] = {Restrict(t, HeadingOf[e]) : t \in Joined(Eval(e.l, db), Eval(e.r, db))}
        BY <4>3, <4>4, <4>7, MeaningFacts
      <4>9. TreeHeading[x] = HeadingOf[e]
        BY <4>3, <4>4, TreeHeadingFacts
      <4> QED BY <3>6, <3>10, <4>8, <4>9 DEF Applied, x
    <3>11. CASE e.op \in {"matching", "unmatching"}
      <4> DEFINE y == Narrowed(r, e)
      <4>1. x = [op |-> "semi", l |-> l, r |-> y, negated |-> e.op = "unmatching"]
        BY <3>1, <3>11 DEF Combined
      <4>2. x.op = "semi" /\ x.l = l /\ x.r = y /\ x.negated = (e.op = "unmatching")
        BY <4>1
      <4> HIDE DEF l, r, x, y
      <4>3. x \in Trees
        BY <2>0 DEF x
      <4>4. l \in Trees /\ y \in Trees
        BY <4>2, <4>3, TreeShapes DEF TreePairs
      <4>5. Partnered(Eval(e.l, db), Meaning(db)[y]) = Partnered(Eval(e.l, db), Eval(e.r, db))
        BY <3>5, <3>7, <3>8, <3>11, <4>4, NarrowedMeans DEF y
      <4>6. TreeHeading[x] = HeadingOf[e]
        BY <3>4, <3>11, <4>2, <4>3, <4>4, TreeHeadingFacts, HeadingFacts
      <4>7. Meaning(db)[x] = IF x.negated THEN Eval(e.l, db) \ Partnered(Eval(e.l, db), Meaning(db)[y])
                             ELSE Partnered(Eval(e.l, db), Meaning(db)[y])
        BY <3>4, <4>2, <4>3, <4>4, SemiMeaning
      <4>8. Meaning(db)[x] = Eval(e, db)
        <5>1. CASE e.op = "matching"
          BY <3>6, <4>2, <4>5, <4>7, <5>1 DEF Applied
        <5>2. CASE e.op = "unmatching"
          BY <3>6, <4>2, <4>5, <4>7, <5>2 DEF Applied
        <5> QED BY <3>11, <5>1, <5>2
      <4> QED BY <4>6, <4>8 DEF x
    <3> QED BY <2>3, <3>9, <3>10, <3>11 DEF BinaryOps
  <2> QED BY <2>1, <2>2, <2>3, ExprShapes DEF Leaf
<1>2. \A e \in Exprs : e \in S
  <2>1. \A e \in Exprs : Height[e] \in Nat
    BY ExprsAssumption
  <2>2. \A e \in Exprs : (\A o \in Exprs : Height[o] < Height[e] => o \in S) => e \in S
    BY <1>1
  <2> HIDE DEF S
  <2> QED BY <2>1, <2>2, RHeading!Induction
<1> QED BY <1>2

\* A tree without the relvar was built for an expression without it.
LEMMA BuildMentions ==
    ASSUME NEW name
    PROVE  \A e \in Exprs : Build[e] # None /\ Mentions(e, name) => References(Build[e], name)
<1> DEFINE Good(e) == Build[e] # None /\ Mentions(e, name) => Ref(name) \in TreeLeaves[Build[e]]
           S == {e \in Exprs : Good(e)}
<1>1. ASSUME NEW e \in Exprs, \A o \in Exprs : Height[o] < Height[e] => o \in S,
             Build[e] # None, Mentions(e, name)
      PROVE  Ref(name) \in TreeLeaves[Build[e]]
  <2> DEFINE x == Build[e]
  <2>0. x \in Trees
    BY <1>1, BuiltTree
  <2>1. CASE Leaf(e)
    <3>1. e.op = "relvar" /\ e.name = name
      BY <1>1, <2>1, LeavesFacts DEF Mentions
    <3>2. x = Ref(name)
      BY <2>1, <3>1, BuildFacts DEF BuiltLeaf
    <3>3. x.op = "ref"
      BY <3>2 DEF Ref
    <3> QED BY <2>0, <3>2, <3>3, TreeLeavesFacts
  <2>2. CASE e.op \in UnaryOps
    <3> DEFINE in == Build[e.in]
    <3>1. in # None /\ x = BuiltUnary(e, in)
      BY <1>1, <2>2, BuildFacts
    <3>2. e.in \in S /\ e.in \in Exprs
      BY <1>1, <2>2, ExprShapes
    <3>3. Mentions(e.in, name)
      BY <1>1, <2>2, LeavesFacts DEF Mentions
    <3>4. Ref(name) \in TreeLeaves[in] /\ in \in Trees
      BY <3>1, <3>2, <3>3, BuiltTree
    <3>5. CASE e.op = "where"
      <4>1. ~InProcess(e.in)
        BY <3>3 DEF InProcess, Mentions
      <4>2. x = Restricted(in, e.preds)
        BY <1>1, <3>5, <4>1, BuiltWhereCases
      <4>3. Len(e.preds) \in Nat /\ DOMAIN e.preds = 1 .. Len(e.preds)
        BY <3>5, PredsAreSeq
      <4>4. TreeLeaves[Restricted(in, e.preds)] = TreeLeaves[in]
        <5> HIDE DEF in
        <5>1. Restricted(in, e.preds) \in Trees
          BY <2>0, <4>2
        <5> QED BY <3>4, <4>3, <5>1, RestrictedLeaves
      <4> QED BY <3>4, <4>2, <4>4
    <3>6. CASE e.op \in {"extend", "project", "rename"}
      <4>1. x.op = e.op /\ x.in = in
        BY <3>1, <3>6 DEF BuiltUnary
      <4> QED BY <2>0, <3>4, <3>6, <4>1, TreeLeavesFacts DEF ChainOps
    <3> QED BY <2>2, <3>5, <3>6 DEF UnaryOps
  <2>3. CASE e.op \in BinaryOps
    <3> DEFINE l == Collapsed(e.l, Build[e.l])
               r == Collapsed(e.r, Build[e.r])
    <3>1. Build[e.l] # None /\ Build[e.r] # None /\ x = Combined(e, l, r)
      BY <1>1, <2>3, BuildFacts DEF BuiltBinary
    <3>2. e.l \in S /\ e.r \in S /\ e.l \in Exprs /\ e.r \in Exprs
      BY <1>1, <2>3, ExprShapes
    <3>3. Mentions(e.l, name) \/ Mentions(e.r, name)
      BY <1>1, <2>3, LeavesFacts DEF Mentions
    <3>4. ASSUME NEW o \in Exprs, Mentions(o, name), o \in S, Build[o] # None
          PROVE  /\ Ref(name) \in TreeLeaves[Collapsed(o, Build[o])]
                 /\ Collapsed(o, Build[o]) \in Trees
                 /\ Collapsed(o, Build[o]).op # "param"
      <4>1. Collapsed(o, Build[o]) = Build[o] /\ Build[o] \in Trees /\ Ref(name) \in TreeLeaves[Build[o]]
        BY <3>4, BuiltTree DEF Collapsed, InProcess, Mentions
      <4>2. Build[o].op # "param"
        <5> SUFFICES ASSUME Build[o].op = "param" PROVE FALSE
          OBVIOUS
        <5>1. Ref(name) = Build[o]
          BY <4>1, TreeLeavesFacts
        <5>2. Ref(name).op = "ref"
          BY DEF Ref
        <5> QED BY <5>1, <5>2
      <4> QED BY <4>1, <4>2
    <3>5. /\ Mentions(e.l, name) => Ref(name) \in TreeLeaves[l] /\ l \in Trees
          /\ Mentions(e.r, name) => Ref(name) \in TreeLeaves[r] /\ r \in Trees /\ r.op # "param"
      BY <3>1, <3>2, <3>4
    <3>6. CASE e.op \in SetOps \cup {"join"}
      <4>1. x = [op |-> NodeOf(e.op), l |-> l, r |-> r]
        BY <3>1, <3>6 DEF Combined, SetOps
      <4>2. x.op \in TreePairs /\ x.l = l /\ x.r = r
        BY <3>6, <4>1 DEF NodeOf, SetOps, TreePairs
      <4> HIDE DEF l, r
      <4> QED BY <2>0, <3>3, <3>5, <4>2, TreeLeavesFacts
    <3>7. CASE e.op = "compose"
      <4> DEFINE y == [op |-> "and", l |-> l, r |-> r]
      <4>1. x = [op |-> "project", in |-> y, keep |-> HeadingOf[e]]
        BY <3>1, <3>7 DEF Combined
      <4>2. y.op = "and" /\ y.l = l /\ y.r = r /\ x.op = "project" /\ x.in = y
        BY <4>1
      <4> HIDE DEF l, r, y
      <4>3. y \in Trees
        BY <2>0, <4>2, TreeShapes DEF ChainOps
      <4> QED BY <2>0, <3>3, <3>5, <4>2, <4>3, TreeLeavesFacts DEF ChainOps, TreePairs
    <3>8. CASE e.op \in {"matching", "unmatching"}
      <4> DEFINE y == Narrowed(r, e)
      <4>1. x = [op |-> "semi", l |-> l, r |-> y, negated |-> e.op = "unmatching"]
        BY <3>1, <3>8 DEF Combined
      <4>2. x.op = "semi" /\ x.l = l /\ x.r = y
        BY <4>1
      <4> HIDE DEF l, y
      <4>3. y \in Trees
        BY <2>0, <4>2, TreeShapes DEF TreePairs
      <4>4. Mentions(e.r, name) => Ref(name) \in TreeLeaves[y]
        <5> SUFFICES ASSUME Mentions(e.r, name) PROVE Ref(name) \in TreeLeaves[y]
          OBVIOUS
        <5>1. y = r \/ y = [op |-> "project", in |-> r, keep |-> Shared(e)]
          BY <3>5 DEF y, Narrowed
        <5>2. CASE y = r
          BY <3>5, <5>2
        <5>3. CASE y = [op |-> "project", in |-> r, keep |-> Shared(e)]
          <6>1. y.op = "project" /\ y.in = r
            BY <5>3
          <6> HIDE DEF r
          <6> QED BY <3>5, <4>3, <6>1, TreeLeavesFacts DEF ChainOps
        <5> QED BY <5>1, <5>2, <5>3
      <4> QED BY <2>0, <3>3, <3>5, <4>2, <4>4, TreeLeavesFacts DEF TreePairs
    <3> QED BY <2>3, <3>6, <3>7, <3>8 DEF BinaryOps
  <2> QED BY <2>1, <2>2, <2>3, ExprShapes DEF Leaf
<1>2. \A e \in Exprs : e \in S
  <2>1. \A e \in Exprs : Height[e] \in Nat
    BY ExprsAssumption
  <2>2. \A e \in Exprs : (\A o \in Exprs : Height[o] < Height[e] => o \in S) => e \in S
    BY <1>1
  <2> HIDE DEF S
  <2> QED BY <2>1, <2>2, RHeading!Induction
<1> QED BY <1>2 DEF References

\* An expression denotes the same over two databases that differ in a relvar
\* it does not mention.
LEMMA EvalIndependent ==
    ASSUME NEW name, NEW d, NEW b, \A r \in Relvars : r # name => d[r] = b[r]
    PROVE  \A e \in Exprs : ~Mentions(e, name) => Eval(e, d) = Eval(e, b)
<1> DEFINE S == {e \in Exprs : ~Mentions(e, name) => Eval(e, d) = Eval(e, b)}
<1>1. ASSUME NEW e \in Exprs, \A o \in Exprs : Height[o] < Height[e] => o \in S, ~Mentions(e, name)
      PROVE  Eval(e, d) = Eval(e, b)
  <2>1. CASE Leaf(e)
    <3>1. e.op = "relvar" => e.name # name /\ e.name \in Relvars
      <4>1. WellTyped(e)
        BY TypingAssumption
      <4>2. LeavesOf[e] = {e}
        BY <2>1, LeavesFacts
      <4> QED BY <1>1, <4>1, <4>2 DEF Mentions, WellTyped
    <3>2. LeafRows(e, d) = LeafRows(e, b)
      BY <3>1 DEF LeafRows
    <3> QED BY <2>1, <3>2, EvalFacts
  <2>2. CASE e.op \in UnaryOps
    <3>1. e.in \in S /\ ~Mentions(e.in, name)
      BY <1>1, <2>2, ExprShapes, LeavesFacts DEF Mentions
    <3> QED BY <2>2, <3>1, EvalFacts
  <2>3. CASE e.op \in BinaryOps
    <3>1. e.l \in S /\ ~Mentions(e.l, name) /\ e.r \in S /\ ~Mentions(e.r, name)
      BY <1>1, <2>3, ExprShapes, LeavesFacts DEF Mentions
    <3> QED BY <2>3, <3>1, EvalFacts
  <2> QED BY <2>1, <2>2, <2>3, ExprShapes DEF Leaf
<1>2. \A e \in Exprs : e \in S
  <2>1. \A e \in Exprs : Height[e] \in Nat
    BY ExprsAssumption
  <2>2. \A e \in Exprs : (\A o \in Exprs : Height[o] < Height[e] => o \in S) => e \in S
    BY <1>1
  <2> HIDE DEF S
  <2> QED BY <2>1, <2>2, RHeading!Induction
<1> QED BY <1>2

-----------------------------------------------------------------------------
(* What a FROM clause holds.                                               *)

LEMMA ViewSame ==
    ASSUME NEW h, NEW t \in [h -> Int]
    PROVE  View([a \in h |-> a], t) = t
<1>1. t = [a \in h |-> t[a]]
  OBVIOUS
<1> QED BY <1>1 DEF View

LEMMA ViewRestrict ==
    ASSUME NEW c, NEW keep \in SUBSET DOMAIN c, NEW t
    PROVE  View(Restrict(c, keep), t) = Restrict(View(c, t), keep)
BY DEF View, Restrict

LEMMA ViewRenamed ==
    ASSUME NEW c, NEW to, Renames(to, DOMAIN c), NEW t
    PROVE  View(Renamed(to, c), t) = Renamed(to, View(c, t))
<1> DEFINE h == DOMAIN c
           names == {NameOf(to, a) : a \in h}
           cc == Renamed(to, c)
           u == Renamed(to, View(c, t))
<1>1. DOMAIN View(c, t) = h /\ \A a \in h : View(c, t)[a] = t[c[a]]
  BY DEF View
<1>2. \A f : DOMAIN f = h =>
          /\ Renamed(to, f) = [b \in names |-> Renamed(to, f)[b]]
          /\ DOMAIN Renamed(to, f) = names
          /\ \A a \in h : Renamed(to, f)[NameOf(to, a)] = f[a]
  <2>1. Renames(to, h)
    OBVIOUS
  <2> HIDE DEF h
  <2> QED BY <2>1, RenamedAt
<1>3. DOMAIN cc = names /\ \A a \in h : cc[NameOf(to, a)] = c[a]
  BY <1>2
<1>4. u = [b \in names |-> u[b]] /\ \A a \in h : u[NameOf(to, a)] = View(c, t)[a]
  BY <1>1, <1>2
<1>5. View(cc, t) = [b \in names |-> t[cc[b]]]
  BY <1>3 DEF View
<1>6. ASSUME NEW b \in names PROVE t[cc[b]] = u[b]
  <2>1. PICK a \in h : b = NameOf(to, a)
    OBVIOUS
  <2> HIDE DEF cc, u, names, h
  <2>2. cc[b] = c[a] /\ u[b] = View(c, t)[a] /\ View(c, t)[a] = t[c[a]]
    BY <1>1, <1>3, <1>4, <2>1
  <2> QED BY <2>2
<1>7. View(cc, t) = u
  <2> HIDE DEF cc, u, names
  <2> QED BY <1>4, <1>5, <1>6
<1> QED BY <1>7

\* Columns c of the attributes of a row of P's columns, injectively.
Column(c, h, P) ==
    /\ DOMAIN c = h /\ \A a \in h : c[a] \in P
    /\ \A a, b \in h : c[a] = c[b] => a = b

\* The columns of two sides that keep what they share, and nothing else, in the
\* same columns.
Aligned(c, d, h, k, P, Q) ==
    /\ Column(c, h, P) /\ Column(d, k, Q)
    /\ \A a \in h \cap k : c[a] = d[a]
    /\ P \cap Q = {c[a] : a \in h \cap k}

Either(c, d, h, k) == [a \in h \cup k |-> IF a \in h THEN c[a] ELSE d[a]]

LEMMA AlignedColumns ==
    ASSUME NEW c, NEW d, NEW h, NEW k, NEW P, NEW Q, Aligned(c, d, h, k, P, Q)
    PROVE  /\ Column(Either(c, d, h, k), h \cup k, P \cup Q)
           /\ \A a \in h : Either(c, d, h, k)[a] = c[a]
           /\ \A a \in k : Either(c, d, h, k)[a] = d[a]
           /\ \A a \in k : a \notin h => d[a] \notin P
<1> DEFINE b == Either(c, d, h, k)
<1>1. \A a \in k : a \notin h => d[a] \notin P
  BY DEF Aligned, Column
<1>2. (\A a \in h : b[a] = c[a]) /\ (\A a \in k : b[a] = d[a]) /\ DOMAIN b = h \cup k
  BY DEF Aligned, Either
<1> HIDE DEF b
<1>3. ASSUME NEW a \in h \cup k, NEW e \in h \cup k, b[a] = b[e] PROVE a = e
  <2>1. CASE a \in h /\ e \in h
    BY <1>2, <1>3, <2>1 DEF Aligned, Column
  <2>2. CASE a \in k /\ e \in k
    BY <1>2, <1>3, <2>2 DEF Aligned, Column
  <2>3. CASE a \in h /\ e \notin h
    BY <1>1, <1>2, <1>3, <2>3 DEF Aligned, Column
  <2>4. CASE e \in h /\ a \notin h
    BY <1>1, <1>2, <1>3, <2>4 DEF Aligned, Column
  <2> QED BY <2>1, <2>2, <2>3, <2>4
<1>4. \A a \in h \cup k : b[a] \in P \cup Q
  BY <1>2 DEF Aligned, Column
<1>5. Column(b, h \cup k, P \cup Q)
  BY <1>2, <1>3, <1>4 DEF Column
<1> QED BY <1>1, <1>2, <1>5 DEF b

\* Rows of the two sides have the USING columns in common exactly when the
\* tuples they show agree; and beside each other they show these tuples beside
\* each other.
LEMMA AlignedRows ==
    ASSUME NEW c, NEW d, NEW h, NEW k, NEW P, NEW Q, Aligned(c, d, h, k, P, Q),
           NEW p \in [P -> Int], NEW q \in [Q -> Int]
    PROVE  /\ (\A w \in {c[a] : a \in h \cap k} : p[w] = q[w]) <=> Agree(p, q)
           /\ Agree(p, q) <=> Agree(View(c, p), View(d, q))
           /\ Agree(p, q) => View(Either(c, d, h, k), Beside(p, q)) = Beside(View(c, p), View(d, q))
<1> DEFINE b == Either(c, d, h, k)
<1>1. DOMAIN p = P /\ DOMAIN q = Q
  OBVIOUS
<1>2. (\A w \in {c[a] : a \in h \cap k} : p[w] = q[w]) <=> Agree(p, q)
  BY <1>1 DEF Agree, Aligned
<1>3. /\ DOMAIN View(c, p) = h /\ \A a \in h : View(c, p)[a] = p[c[a]]
      /\ DOMAIN View(d, q) = k /\ \A a \in k : View(d, q)[a] = q[d[a]]
  BY DEF View, Aligned, Column
<1>4. (\A a \in h \cap k : p[c[a]] = q[c[a]]) <=> (\A w \in {c[a] : a \in h \cap k} : p[w] = q[w])
  OBVIOUS
<1>5. Agree(View(c, p), View(d, q)) <=> \A a \in h \cap k : p[c[a]] = q[c[a]]
  BY <1>3 DEF Agree, Aligned
<1>0. /\ \A a \in h : b[a] = c[a]
      /\ \A a \in k : b[a] = d[a]
      /\ \A a \in k : a \notin h => d[a] \notin P
  <2> DEFINE e == Either(c, d, h, k)
  <2>1. /\ Column(e, h \cup k, P \cup Q)
        /\ \A a \in h : e[a] = c[a]
        /\ \A a \in k : e[a] = d[a]
        /\ \A a \in k : a \notin h => d[a] \notin P
    BY AlignedColumns
  <2> QED BY <2>1
<1>6. ASSUME Agree(p, q) PROVE View(b, Beside(p, q)) = Beside(View(c, p), View(d, q))
  <2>1. DOMAIN b = h \cup k
    BY DEF Either
  <2>2. View(b, Beside(p, q)) = [a \in h \cup k |-> Beside(p, q)[b[a]]]
    BY <2>1 DEF View
  <2>3. Beside(View(c, p), View(d, q)) = [a \in h \cup k |-> IF a \in h THEN p[c[a]] ELSE q[d[a]]]
    BY <1>3 DEF Beside
  <2>4. ASSUME NEW a \in h PROVE Beside(p, q)[b[a]] = p[c[a]]
    <3>1. b[a] = c[a]
      BY <1>0
    <3>2. c[a] \in P
      BY DEF Aligned, Column
    <3> QED BY <1>1, <3>1, <3>2 DEF Beside
  <2>5. ASSUME NEW a \in k, a \notin h PROVE Beside(p, q)[b[a]] = q[d[a]]
    <3>1. b[a] = d[a] /\ d[a] \notin P
      BY <1>0, <2>5
    <3>2. d[a] \in Q
      BY DEF Aligned, Column
    <3> QED BY <1>1, <3>1, <3>2 DEF Beside
  <2> QED BY <2>2, <2>3, <2>4, <2>5
<1> QED BY <1>2, <1>4, <1>5, <1>6

\* What a resolved tree's FROM clause is: rows of its physical columns, each
\* attribute in a column of its own.
FromTyped(x, db) ==
    /\ Column(Columns[x], TreeHeading[x], Physical[x])
    /\ From(db)[x] \in Rows(Physical[x])

\* The two sides of a join in such a clause.
LEMMA JoinAligned ==
    ASSUME JoinsAlign, NEW db, NEW x \in Trees, x.op = "and", Resolves[x],
           FromTyped(x.l, db), FromTyped(x.r, db)
    PROVE  /\ Aligned(Columns[x.l], Columns[x.r], TreeHeading[x.l], TreeHeading[x.r],
                       Physical[x.l], Physical[x.r])
           /\ Columns[x] = Either(Columns[x.l], Columns[x.r], TreeHeading[x.l], TreeHeading[x.r])
           /\ From(db)[x] = Joined(From(db)[x.l], From(db)[x.r])
<1> DEFINE c == Columns[x.l]
           d == Columns[x.r]
           h == TreeHeading[x.l]
           k == TreeHeading[x.r]
           P == Physical[x.l]
           Q == Physical[x.r]
           L == From(db)[x.l]
           R == From(db)[x.r]
<1>1. /\ Column(c, h, P) /\ Column(d, k, Q) /\ L \in Rows(P) /\ R \in Rows(Q)
  BY DEF FromTyped
<1>2. /\ \A a \in h \cap k : c[a] = d[a]
      /\ P \cap Q = {c[a] : a \in h \cap k}
  BY DEF JoinsAlign
<1>3. DOMAIN c = h /\ DOMAIN d = k
  BY <1>1 DEF Column
<1>4. Columns[x] = [a \in (DOMAIN c) \cup (DOMAIN d) |-> IF a \in DOMAIN c THEN c[a] ELSE d[a]]
  BY ColumnsFacts
<1>5. From(db)[x] = {Beside(p[1], p[2]) : p \in {p \in L \X R :
          \A w \in {c[a] : a \in (DOMAIN c) \cap (DOMAIN d)} : p[1][w] = p[2][w]}}
  BY FromFacts
<1> HIDE DEF c, d, h, k, P, Q, L, R
<1>6. Aligned(c, d, h, k, P, Q)
  BY <1>1, <1>2 DEF Aligned
<1>7. ASSUME NEW p \in L, NEW q \in R
      PROVE  (\A w \in {c[a] : a \in (DOMAIN c) \cap (DOMAIN d)} : p[w] = q[w]) <=> Agree(p, q)
  <2>1. p \in [P -> Int] /\ q \in [Q -> Int]
    BY <1>1 DEF Rows
  <2>2. (\A w \in {c[a] : a \in h \cap k} : p[w] = q[w]) <=> Agree(p, q)
    BY <1>6, <2>1, AlignedRows
  <2> QED BY <1>3, <2>2
<1>8. From(db)[x] = Joined(L, R)
  <2> DEFINE Ok(pq) == \A w \in {c[a] : a \in (DOMAIN c) \cap (DOMAIN d)} : pq[1][w] = pq[2][w]
  <2>1. \A pq \in L \X R : Ok(pq) <=> Agree(pq[1], pq[2])
    BY <1>7
  <2>2. From(db)[x] = {Beside(p[1], p[2]) : p \in {p \in L \X R : Ok(p)}}
    BY <1>5
  <2> HIDE DEF Ok
  <2>3. {p \in L \X R : Ok(p)} = {p \in L \X R : Agree(p[1], p[2])}
    BY <2>1
  <2> QED BY <2>2, <2>3 DEF Joined
<1>9. Columns[x] = Either(c, d, h, k)
  BY <1>3, <1>4 DEF Either
<1> QED BY <1>6, <1>8, <1>9 DEF c, d, h, k, P, Q, L, R

\* A resolved tree's rows, seen through its columns, are what it means.
LEMMA ResolveMeans ==
    ASSUME JoinsAlign, NEW db, IsDb(db)
    PROVE  \A x \in Trees : Resolves[x] =>
              FromTyped(x, db) /\ {View(Columns[x], t) : t \in From(db)[x]} = Meaning(db)[x]
<1> DEFINE F(x) == From(db)[x]
           M(x) == Meaning(db)[x]
           Good(x) == Resolves[x] => FromTyped(x, db) /\ {View(Columns[x], t) : t \in F(x)} = M(x)
           S == {x \in Trees : Good(x)}
<1>1. ASSUME NEW x \in Trees, \A o \in Trees : TreeHeight[o] < TreeHeight[x] => o \in S,
             Resolves[x]
      PROVE  FromTyped(x, db) /\ {View(Columns[x], t) : t \in F(x)} = M(x)
  <2>1. ASSUME NEW h, Columns[x] = [a \in h |-> a], F(x) \in Rows(h),
               TreeHeading[x] = h, Physical[x] = h, M(x) = F(x)
        PROVE  FromTyped(x, db) /\ {View(Columns[x], t) : t \in F(x)} = M(x)
    <3>1. \A t \in F(x) : View(Columns[x], t) = t
      BY <2>1, ViewSame DEF Rows
    <3>2. DOMAIN Columns[x] = h /\ \A a \in h : Columns[x][a] = a
      BY <2>1
    <3>3. FromTyped(x, db)
      BY <2>1, <3>2 DEF FromTyped, Column
    <3> HIDE DEF F, M
    <3>4. {View(Columns[x], t) : t \in F(x)} = F(x)
      BY <3>1
    <3> QED BY <2>1, <3>3, <3>4
  <2>2. CASE x.op = "ref"
    <3>1. F(x) = db[x.name] /\ M(x) = db[x.name] /\ x.name \in Relvars
      BY <2>2, FromFacts, MeaningFacts, FormedFacts
    <3>2. F(x) \in Rows(Schema[x.name])
      BY <3>1 DEF IsDb
    <3>3. /\ Columns[x] = [a \in Schema[x.name] |-> a] /\ TreeHeading[x] = Schema[x.name]
          /\ Physical[x] = Schema[x.name]
      BY <2>2, ColumnsFacts, TreeHeadingFacts, PhysicalFacts
    <3> HIDE DEF F, M, Good
    <3> QED BY <2>1, <3>1, <3>2, <3>3
  <2>3. CASE x.op = "param"
    <3>1. F(x) = Eval(x.ast, db) /\ M(x) = Eval(x.ast, db) /\ x.ast \in Exprs
      BY <2>3, FromFacts, MeaningFacts, FormedFacts
    <3>2. F(x) \in Rows(HeadingOf[x.ast])
      BY <3>1, EvalTyped
    <3>3. /\ Columns[x] = [a \in HeadingOf[x.ast] |-> a] /\ TreeHeading[x] = HeadingOf[x.ast]
          /\ Physical[x] = HeadingOf[x.ast]
      BY <2>3, ColumnsFacts, TreeHeadingFacts, PhysicalFacts
    <3> HIDE DEF F, M, Good
    <3> QED BY <2>1, <3>1, <3>2, <3>3
  <2>4. CASE x.op \in {"restrict", "project", "rename"}
    <3> DEFINE c == Columns[x.in]
               h == TreeHeading[x.in]
               P == Physical[x]
    <3>1. x.in \in S /\ x.in \in Trees /\ Resolves[x.in] /\ Physical[x.in] = P
      BY <1>1, <2>4, TreeShapes, ResolvesFacts, PhysicalFacts DEF ChainOps
    <3>2. Column(c, h, P) /\ F(x.in) \in Rows(P) /\ {View(c, t) : t \in F(x.in)} = M(x.in)
      BY <3>1 DEF FromTyped
    <3>3. CASE x.op = "restrict"
      <4>1. Columns[x] = c /\ TreeHeading[x] = h
        BY <3>3, ColumnsFacts, TreeHeadingFacts
      <4>2. x.pred.attr \in DOMAIN c /\ IsLit(x.pred.arg)
        BY <3>2, <3>3, FormedFacts DEF Pushable, Predicates, Column
      <4>3. \A t : Compare(t[c[x.pred.attr]], x.pred.cmp, x.pred.arg.lit) <=> Holds(x.pred, View(c, t))
        BY <4>2 DEF Holds, Scalar, View
      <4>4. F(x) = {t \in F(x.in) : Compare(t[c[x.pred.attr]], x.pred.cmp, x.pred.arg.lit)}
        BY <3>3, FromFacts
      <4>5. M(x) = {t \in M(x.in) : Holds(x.pred, t)}
        BY <3>3, MeaningFacts
      <4> HIDE DEF M, c, h, P
      <4>6. F(x) = {t \in F(x.in) : Holds(x.pred, View(c, t))}
        <5> HIDE DEF F
        <5> QED BY <4>3, <4>4
      <4>7. {View(c, t) : t \in F(x)} = M(x)
        <5> HIDE DEF F
        <5> QED BY <3>2, <4>5, <4>6
      <4>8. FromTyped(x, db)
        BY <3>2, <4>1, <4>6 DEF FromTyped, Rows, P
      <4> QED BY <4>1, <4>7, <4>8
    <3>4. CASE x.op = "project"
      <4>1. Columns[x] = Restrict(c, x.keep) /\ TreeHeading[x] = x.keep
        BY <3>4, ColumnsFacts, TreeHeadingFacts
      <4>2. x.keep \in SUBSET DOMAIN c /\ DOMAIN c = h
        BY <3>2, <3>4, FormedFacts DEF Column
      <4>3. F(x) = F(x.in) /\ M(x) = {Restrict(t, x.keep) : t \in M(x.in)}
        BY <3>4, FromFacts, MeaningFacts
      <4>4. DOMAIN Columns[x] = x.keep /\ \A a \in x.keep : Columns[x][a] = c[a]
        BY <4>1 DEF Restrict
      <4>5. \A t : View(Columns[x], t) = Restrict(View(c, t), x.keep)
        BY <4>1, <4>2, ViewRestrict
      <4> HIDE DEF M, c, h, P
      <4>6. {View(Columns[x], t) : t \in F(x)} = M(x)
        <5> HIDE DEF F
        <5> QED BY <3>2, <4>3, <4>5
      <4>7. Column(Columns[x], TreeHeading[x], P)
        BY <3>2, <4>1, <4>2, <4>4 DEF Column
      <4> QED BY <3>2, <4>3, <4>6, <4>7 DEF FromTyped, P
    <3>5. CASE x.op = "rename"
      <4>1. Columns[x] = Renamed(x.to, c) /\ TreeHeading[x] = {NameOf(x.to, a) : a \in h}
        BY <3>5, ColumnsFacts, TreeHeadingFacts
      <4>2. Renames(x.to, DOMAIN c) /\ DOMAIN c = h
        BY <3>2, <3>5, FormedFacts DEF Column
      <4>3. F(x) = F(x.in) /\ M(x) = {Renamed(x.to, t) : t \in M(x.in)}
        BY <3>5, FromFacts, MeaningFacts
      <4>4. /\ DOMAIN Columns[x] = {NameOf(x.to, a) : a \in h}
            /\ \A a \in h : Columns[x][NameOf(x.to, a)] = c[a]
        <5> DEFINE to == x.to
        <5>1. Renames(to, DOMAIN c)
          BY <4>2
        <5> HIDE DEF c, h, to
        <5>2. /\ DOMAIN Renamed(to, c) = {NameOf(to, a) : a \in DOMAIN c}
              /\ \A a \in DOMAIN c : Renamed(to, c)[NameOf(to, a)] = c[a]
          BY <5>1, RenamedAt
        <5>3. Columns[x] = Renamed(to, c) /\ DOMAIN c = h
          BY <4>1, <4>2 DEF to
        <5> QED BY <5>2, <5>3 DEF to
      <4>5. \A t : View(Columns[x], t) = Renamed(x.to, View(c, t))
        BY <4>1, <4>2, ViewRenamed
      <4> HIDE DEF M, c, h, P
      <4>6. {View(Columns[x], t) : t \in F(x)} = M(x)
        <5> HIDE DEF F
        <5> QED BY <3>2, <4>3, <4>5
      <4>7. Column(Columns[x], TreeHeading[x], P)
        BY <3>2, <4>1, <4>4 DEF Column
      <4> QED BY <3>2, <4>3, <4>6, <4>7 DEF FromTyped, P
    <3> QED BY <2>4, <3>3, <3>4, <3>5
  <2>5. CASE x.op = "and"
    <3> DEFINE c == Columns[x.l]
               d == Columns[x.r]
               b == Columns[x]
               h == TreeHeading[x.l]
               k == TreeHeading[x.r]
               P == Physical[x.l]
               Q == Physical[x.r]
    <3>1. /\ x.l \in S /\ x.l \in Trees /\ Resolves[x.l]
          /\ x.r \in S /\ x.r \in Trees /\ Resolves[x.r]
      BY <1>1, <2>5, TreeShapes, ResolvesFacts DEF TreePairs
    <3>2. /\ FromTyped(x.l, db) /\ {View(c, t) : t \in F(x.l)} = M(x.l)
          /\ FromTyped(x.r, db) /\ {View(d, t) : t \in F(x.r)} = M(x.r)
      BY <3>1
    <3>3. /\ Aligned(c, d, h, k, P, Q)
          /\ b = Either(c, d, h, k)
          /\ F(x) = Joined(F(x.l), F(x.r))
      BY <1>1, <2>5, <3>2, JoinAligned
    <3>4. F(x.l) \in Rows(P) /\ F(x.r) \in Rows(Q)
      BY <3>2 DEF FromTyped
    <3>5. TreeHeading[x] = h \cup k /\ Physical[x] = P \cup Q
      BY <2>5, TreeHeadingFacts, PhysicalFacts DEF TreePairs
    <3>6. M(x) = Joined(M(x.l), M(x.r))
      BY <2>5, JoinMeaning
    <3> HIDE DEF F, M, b, c, d, h, k, P, Q
    <3>7. Column(b, h \cup k, P \cup Q)
      BY <3>3, AlignedColumns
    <3>8. F(x) \in Rows(P \cup Q)
      BY <3>3, <3>4, JoinedTyped
    <3>9. ASSUME NEW p \in F(x.l), NEW q \in F(x.r)
          PROVE  /\ Agree(p, q) <=> Agree(View(c, p), View(d, q))
                 /\ Agree(p, q) => View(b, Beside(p, q)) = Beside(View(c, p), View(d, q))
      <4>1. p \in [P -> Int] /\ q \in [Q -> Int]
        BY <3>4 DEF Rows
      <4> QED BY <3>3, <4>1, AlignedRows
    <3>10. {View(b, t) : t \in F(x)} = M(x)
      <4>1. ASSUME NEW u
            PROVE  u \in M(x) <=> \E p \in F(x.l), q \in F(x.r) :
                      Agree(p, q) /\ u = Beside(View(c, p), View(d, q))
        <5>1. u \in M(x) <=> \E v \in M(x.l), w \in M(x.r) : Agree(v, w) /\ u = Beside(v, w)
          BY <3>6, JoinedMember
        <5>2. ASSUME NEW v \in M(x.l), NEW w \in M(x.r), Agree(v, w), u = Beside(v, w)
              PROVE  \E p \in F(x.l), q \in F(x.r) : Agree(p, q) /\ u = Beside(View(c, p), View(d, q))
          <6>1. PICK p \in F(x.l), q \in F(x.r) : v = View(c, p) /\ w = View(d, q)
            BY <3>2
          <6> QED BY <3>9, <5>2, <6>1
        <5>3. ASSUME NEW p \in F(x.l), NEW q \in F(x.r), Agree(p, q), u = Beside(View(c, p), View(d, q))
              PROVE  \E v \in M(x.l), w \in M(x.r) : Agree(v, w) /\ u = Beside(v, w)
          <6>1. View(c, p) \in M(x.l) /\ View(d, q) \in M(x.r)
            BY <3>2
          <6> QED BY <3>9, <5>3, <6>1
        <5> QED BY <5>1, <5>2, <5>3
      <4>2. ASSUME NEW u
            PROVE  u \in {View(b, t) : t \in F(x)} <=> \E p \in F(x.l), q \in F(x.r) :
                      Agree(p, q) /\ u = Beside(View(c, p), View(d, q))
        <5>1. \A t : t \in F(x) <=> \E p \in F(x.l), q \in F(x.r) : Agree(p, q) /\ t = Beside(p, q)
          BY <3>3, JoinedMember
        <5> QED BY <3>9, <5>1
      <4> QED BY <4>1, <4>2
    <3>11. FromTyped(x, db)
      BY <3>5, <3>7, <3>8 DEF FromTyped, F, b
    <3> QED BY <3>10, <3>11 DEF b, F, M
  <2> HIDE DEF S
  <2> QED BY <1>1, <2>2, <2>3, <2>4, <2>5, TreeShapes, ResolvesFacts DEF ChainOps, TreePairs
<1>2. \A x \in Trees : x \in S
  <2>1. \A x \in Trees : TreeHeight[x] \in Nat
    BY TreesAssumption
  <2>2. \A x \in Trees : (\A o \in Trees : TreeHeight[o] < TreeHeight[x] => o \in S) => x \in S
    BY <1>1
  <2> HIDE DEF S
  <2> QED BY <2>1, <2>2, RMeaning!Induction
<1> QED BY <1>2

-----------------------------------------------------------------------------
(* What a statement is made of.                                            *)

LEMMA CoreIsTree ==
    ASSUME NEW x \in Trees, Computes(x)
    PROVE  /\ Peel(x, "rename") \in Trees /\ Core(x) \in Trees /\ Core(x).op = "extend"
           /\ Core(x).in \in Trees
           /\ Core(x) = Peel(Peel(x, "rename"), "project")
<1>1. Peel(x, "rename") \in Trees
  BY TreeShapes DEF Peel, ChainOps
<1>2. Peel(Peel(x, "rename"), "project") \in Trees
  BY <1>1, TreeShapes DEF Peel, ChainOps
<1>3. Core(x) = Peel(Peel(x, "rename"), "project") /\ Core(x).op = "extend"
  BY DEF Core, Computes
<1> QED BY <1>1, <1>2, <1>3, TreeShapes DEF ChainOps


LEMMA RootShapes ==
    ASSUME NEW x \in Trees
    PROVE  /\ Compound(x) => /\ x.l \in Trees /\ TreeHeight[x.l] < TreeHeight[x]
                            /\ x.r \in Trees /\ TreeHeight[x.r] < TreeHeight[x]
           /\ Exists(x) => /\ Semi(x) \in Trees /\ Semi(x).op = "semi"
                          /\ Semi(x).l \in Trees /\ TreeHeight[Semi(x).l] < TreeHeight[x]
                          /\ Semi(x).r \in Trees /\ TreeHeight[Semi(x).r] < TreeHeight[x]
           /\ Source(x) \in Trees
<1>1. ASSUME Compound(x)
      PROVE  /\ x.l \in Trees /\ TreeHeight[x.l] < TreeHeight[x]
             /\ x.r \in Trees /\ TreeHeight[x.r] < TreeHeight[x]
  BY <1>1, TreeShapes DEF Compound, TreePairs
<1>2. ASSUME Exists(x)
      PROVE  /\ Semi(x) \in Trees /\ Semi(x).op = "semi"
             /\ Semi(x).l \in Trees /\ TreeHeight[Semi(x).l] < TreeHeight[x]
             /\ Semi(x).r \in Trees /\ TreeHeight[Semi(x).r] < TreeHeight[x]
  <2> DEFINE s == Semi(x)
  <2>1. s \in Trees /\ (s = x \/ TreeHeight[s] < TreeHeight[x])
    BY TreeShapes DEF Semi, Peel, ChainOps
  <2>2. s.op = "semi"
    BY <1>2 DEF Exists
  <2> HIDE DEF s
  <2>3. s.l \in Trees /\ TreeHeight[s.l] < TreeHeight[s] /\ s.r \in Trees /\ TreeHeight[s.r] < TreeHeight[s]
    BY <2>1, <2>2, TreeShapes DEF TreePairs
  <2>4. TreeHeight[s] \in Nat /\ TreeHeight[x] \in Nat /\ TreeHeight[s.l] \in Nat /\ TreeHeight[s.r] \in Nat
    BY <2>1, <2>3, TreeShapes
  <2>5. TreeHeight[s.l] < TreeHeight[x] /\ TreeHeight[s.r] < TreeHeight[x]
    BY <2>1, <2>3, <2>4
  <2> QED BY <2>1, <2>2, <2>3, <2>5 DEF s
<1>3. Source(x) \in Trees
  BY CoreIsTree DEF Source
<1> QED BY <1>1, <1>2, <1>3

EmitsStep(p, x, f) ==
    IF Compound(x) THEN f[x.l] /\ f[x.r]
    ELSE IF Exists(x) THEN f[Semi(x).l] /\ f[Semi(x).r]
    ELSE Resolves[Source(x)]
REmits == INSTANCE Recursion WITH Dom <- Trees, Depth <- TreeHeight, Step <- EmitsStep

LEMMA EmitsDef == Emits = [x \in Trees |-> EmitsStep(0, x, Emits)]
<1>1. ASSUME NEW p, NEW x \in Trees, NEW f, NEW g,
             \A o \in Trees : TreeHeight[o] < TreeHeight[x] => f[o] = g[o]
      PROVE  EmitsStep(p, x, f) = EmitsStep(p, x, g)
  <2>1. CASE Compound(x)
    <3>1. f[x.l] = g[x.l] /\ f[x.r] = g[x.r]
      BY <1>1, <2>1, RootShapes
    <3> QED BY <3>1, <2>1 DEF EmitsStep
  <2>2. CASE ~Compound(x) /\ Exists(x)
    <3>1. f[Semi(x).l] = g[Semi(x).l] /\ f[Semi(x).r] = g[Semi(x).r]
      BY <1>1, <2>2, RootShapes
    <3> QED BY <3>1, <2>2 DEF EmitsStep
  <2>3. CASE ~Compound(x) /\ ~Exists(x)
    BY <2>3 DEF EmitsStep
  <2> QED BY <2>1, <2>2, <2>3
<1>2. REmits!Local
  BY <1>1, TreesAssumption DEF REmits!Local
<1>3. \E f : f = [x \in Trees |-> EmitsStep(0, x, f)]
  BY <1>2, REmits!Defined
<1> QED BY <1>3 DEF Emits, EmitsStep

LEMMA EmitsFacts ==
    ASSUME NEW x \in Trees
    PROVE  /\ Compound(x) => (Emits[x] <=> Emits[x.l] /\ Emits[x.r])
           /\ ~Compound(x) /\ Exists(x) => (Emits[x] <=> Emits[Semi(x).l] /\ Emits[Semi(x).r])
           /\ ~Compound(x) /\ ~Exists(x) => (Emits[x] <=> Resolves[Source(x)])
<1>1. Emits[x] = EmitsStep(0, x, Emits)
  BY EmitsDef
<1> QED BY <1>1 DEF EmitsStep

TermSet == [by : {"UNION", "EXCEPT"}, select : Trees]

LEMMA ByFacts ==
    ASSUME NEW set \in {"UNION", "EXCEPT"}, NEW terms \in Seq(TermSet), Len(terms) >= 1
    PROVE  /\ By(set, terms) \in Seq(TermSet) /\ Len(By(set, terms)) = Len(terms)
           /\ By(set, terms)[1].by = set
           /\ \A i \in 1 .. Len(terms) : By(set, terms)[i].select = terms[i].select
           /\ \A i \in 2 .. Len(terms) : By(set, terms)[i] = terms[i]
<1> DEFINE b == [by |-> set, select |-> terms[1].select]
<1>1. 1 \in DOMAIN terms /\ terms[1] \in TermSet
  OBVIOUS
<1>2. b \in TermSet /\ b.by = set /\ b.select = terms[1].select
  BY <1>1 DEF TermSet
<1>3. By(set, terms) = [terms EXCEPT ![1] = b]
  BY DEF By
<1> HIDE DEF b
<1>4. By(set, terms)[1] = b /\ \A i \in 2 .. Len(terms) : By(set, terms)[i] = terms[i]
  BY <1>1, <1>3
<1>5. By(set, terms) \in Seq(TermSet) /\ Len(By(set, terms)) = Len(terms)
  BY <1>1, <1>2, <1>3
<1>6. \A i \in 1 .. Len(terms) : i = 1 \/ i \in 2 .. Len(terms)
  OBVIOUS
<1> QED BY <1>2, <1>4, <1>5, <1>6


LEMMA TermsTyped ==
    \A x \in Trees : Terms[x] \in Seq(TermSet) /\ Len(Terms[x]) >= 1 /\ Terms[x][1].by = "UNION"
<1> DEFINE Good(x) == Terms[x] \in Seq(TermSet) /\ Len(Terms[x]) >= 1 /\ Terms[x][1].by = "UNION"
           S == {x \in Trees : Good(x)}
<1>1. ASSUME NEW x \in Trees, \A o \in Trees : TreeHeight[o] < TreeHeight[x] => o \in S
      PROVE  Good(x)
  <2>1. CASE x.op \in {"or", "minus"}
    <3> DEFINE set == IF x.op = "or" THEN "UNION" ELSE "EXCEPT"
               L == Terms[x.l]
               R == By(set, Terms[x.r])
    <3>1. x.l \in S /\ x.r \in S
      BY <1>1, <2>1, TreeShapes DEF TreePairs
    <3>2. Terms[x] = L \o R
      BY <2>1, TermsFacts
    <3>3. R \in Seq(TermSet) /\ Len(R) = Len(Terms[x.r])
      BY <3>1, ByFacts
    <3>4. L \in Seq(TermSet) /\ Len(L) >= 1 /\ L[1].by = "UNION" /\ Len(R) >= 1
      BY <3>1, <3>3
    <3> HIDE DEF L, R
    <3>5. L \o R \in Seq(TermSet) /\ Len(L \o R) = Len(L) + Len(R) /\ (L \o R)[1] = L[1]
      BY <3>3, <3>4
    <3> QED BY <3>2, <3>4, <3>5
  <2>2. CASE x.op \notin {"or", "minus"}
    <3>1. Terms[x] = << [by |-> "UNION", select |-> x] >>
      BY <2>2, TermsFacts
    <3>2. [by |-> "UNION", select |-> x] \in TermSet
      BY DEF TermSet
    <3> QED BY <3>1, <3>2
  <2> QED BY <2>1, <2>2
<1>2. \A x \in Trees : x \in S
  <2>1. \A x \in Trees : TreeHeight[x] \in Nat
    BY TreesAssumption
  <2>2. \A x \in Trees : (\A o \in Trees : TreeHeight[o] < TreeHeight[x] => o \in S) => x \in S
    BY <1>1
  <2> HIDE DEF S
  <2> QED BY <2>1, <2>2, RMeaning!Induction
<1> QED BY <1>2


LEMMA TermsAt ==
    ASSUME NEW x \in Trees, x.op \in {"or", "minus"}
    PROVE  /\ Len(Terms[x.l]) \in Nat /\ Len(Terms[x.l]) >= 1
           /\ Len(Terms[x.r]) \in Nat /\ Len(Terms[x.r]) >= 1
           /\ Len(Terms[x]) = Len(Terms[x.l]) + Len(Terms[x.r])
           /\ \A i \in 1 .. Len(Terms[x.l]) : Terms[x][i] = Terms[x.l][i]
           /\ \A k \in 1 .. Len(Terms[x.r]) :
                /\ Terms[x][Len(Terms[x.l]) + k].select = Terms[x.r][k].select
                /\ k > 1 => Terms[x][Len(Terms[x.l]) + k].by = Terms[x.r][k].by
                /\ k = 1 => Terms[x][Len(Terms[x.l]) + k].by = IF x.op = "or" THEN "UNION" ELSE "EXCEPT"
<1> DEFINE set == IF x.op = "or" THEN "UNION" ELSE "EXCEPT"
           L == Terms[x.l]
           rt == Terms[x.r]
           R == By(set, rt)
<1>1. x.l \in Trees /\ x.r \in Trees
  BY TreeShapes DEF TreePairs
<1>2. L \in Seq(TermSet) /\ Len(L) >= 1 /\ rt \in Seq(TermSet) /\ Len(rt) >= 1
  BY <1>1, TermsTyped
<1>3. Terms[x] = L \o R
  BY TermsFacts
<1>4. set \in {"UNION", "EXCEPT"}
  OBVIOUS
<1> HIDE DEF L, rt, set
<1>5. /\ R \in Seq(TermSet) /\ Len(R) = Len(rt) /\ R[1].by = set
      /\ \A i \in 1 .. Len(rt) : R[i].select = rt[i].select
      /\ \A i \in 2 .. Len(rt) : R[i] = rt[i]
  BY <1>2, <1>4, ByFacts
<1> HIDE DEF R
<1>6. /\ Len(L \o R) = Len(L) + Len(rt)
      /\ \A i \in 1 .. Len(L) : (L \o R)[i] = L[i]
      /\ \A k \in 1 .. Len(rt) : (L \o R)[Len(L) + k] = R[k]
  <2>0. L \in Seq(TermSet) /\ R \in Seq(TermSet) /\ Len(L) \in Nat /\ Len(R) \in Nat
    BY <1>2, <1>5
  <2>1. Len(L \o R) = Len(L) + Len(R)
    BY <2>0
  <2>2. ASSUME NEW i \in 1 .. Len(L) PROVE (L \o R)[i] = L[i]
    BY <2>0, <2>2
  <2>3. ASSUME NEW k \in 1 .. Len(R) PROVE (L \o R)[Len(L) + k] = R[k]
    <3>1. Len(L) + k \in 1 .. Len(L) + Len(R) /\ (Len(L) + k) - Len(L) = k /\ ~(Len(L) + k <= Len(L))
      BY <2>0
    <3> QED BY <2>0, <3>1
  <2> QED BY <1>5, <2>1, <2>2, <2>3
<1>7. \A k \in 1 .. Len(rt) : k > 1 => k \in 2 .. Len(rt)
  OBVIOUS
<1>8. Len(L) \in Nat /\ Len(rt) \in Nat
  BY <1>2
<1> QED BY <1>2, <1>3, <1>5, <1>6, <1>7, <1>8 DEF L, rt, set


\* The SELECTs of a compound are none themselves, lie below it, and are emitted with it.
LEMMA TermsBelow ==
    \A x \in Trees : \A i \in 1 .. Len(Terms[x]) :
        /\ Terms[x][i].select \in Trees /\ ~Compound(Terms[x][i].select)
        /\ TreeHeight[Terms[x][i].select] <= TreeHeight[x]
        /\ Compound(x) => TreeHeight[Terms[x][i].select] < TreeHeight[x]
        /\ Emits[x] => Emits[Terms[x][i].select]
<1> DEFINE Sel(x, i) == Terms[x][i].select
           Good(x) == \A i \in 1 .. Len(Terms[x]) :
                        /\ ~Compound(Sel(x, i))
                        /\ TreeHeight[Sel(x, i)] <= TreeHeight[x]
                        /\ Compound(x) => TreeHeight[Sel(x, i)] < TreeHeight[x]
                        /\ Emits[x] => Emits[Sel(x, i)]
           S == {x \in Trees : Good(x)}
<1>0. ASSUME NEW x \in Trees, NEW i \in 1 .. Len(Terms[x]) PROVE Sel(x, i) \in Trees
  <2>1. Terms[x] \in Seq(TermSet)
    BY TermsTyped
  <2>2. Terms[x][i] \in TermSet
    BY <2>1
  <2> QED BY <2>2 DEF TermSet
<1>1. ASSUME NEW x \in Trees, \A o \in Trees : TreeHeight[o] < TreeHeight[x] => o \in S
      PROVE  Good(x)
  <2>1. CASE Compound(x)
    <3> DEFINE n == Len(Terms[x.l])
               m == Len(Terms[x.r])
    <3>1. /\ x.l \in Trees /\ TreeHeight[x.l] < TreeHeight[x] /\ Good(x.l)
          /\ x.r \in Trees /\ TreeHeight[x.r] < TreeHeight[x] /\ Good(x.r)
          /\ TreeHeight[x] \in Nat /\ TreeHeight[x.l] \in Nat /\ TreeHeight[x.r] \in Nat
      BY <1>1, <2>1, RootShapes, TreesAssumption
    <3>2. /\ n \in Nat /\ m \in Nat /\ Len(Terms[x]) = n + m
          /\ \A i \in 1 .. n : Sel(x, i) = Sel(x.l, i)
          /\ \A k \in 1 .. m : Sel(x, n + k) = Sel(x.r, k)
      BY <2>1, TermsAt DEF Compound
    <3>3. Emits[x] => Emits[x.l] /\ Emits[x.r]
      BY <2>1, EmitsFacts
    <3> SUFFICES ASSUME NEW i \in 1 .. Len(Terms[x])
                 PROVE  /\ ~Compound(Sel(x, i))
                        /\ TreeHeight[Sel(x, i)] < TreeHeight[x]
                        /\ Emits[x] => Emits[Sel(x, i)]
      BY <1>0, <3>1, TreesAssumption
    <3>4. TreeHeight[Sel(x, i)] \in Nat
      BY <1>0, TreesAssumption
    <3> HIDE DEF Sel, n, m
    <3>5. CASE i \in 1 .. n
      <4>1. Sel(x, i) = Sel(x.l, i)
        BY <3>2, <3>5
      <4>2. /\ ~Compound(Sel(x.l, i)) /\ TreeHeight[Sel(x.l, i)] <= TreeHeight[x.l]
            /\ Emits[x.l] => Emits[Sel(x.l, i)]
        BY <3>1, <3>5 DEF n
      <4> QED BY <3>1, <3>3, <3>4, <4>1, <4>2
    <3>6. CASE i \notin 1 .. n
      <4> DEFINE k == i - n
      <4>1. k \in 1 .. m /\ i = n + k
        BY <3>2, <3>6
      <4> HIDE DEF k
      <4>2. Sel(x, i) = Sel(x.r, k)
        BY <3>2, <4>1
      <4>3. /\ ~Compound(Sel(x.r, k)) /\ TreeHeight[Sel(x.r, k)] <= TreeHeight[x.r]
            /\ Emits[x.r] => Emits[Sel(x.r, k)]
        BY <3>1, <4>1 DEF m
      <4> QED BY <3>1, <3>3, <3>4, <4>2, <4>3
    <3> QED BY <3>5, <3>6
  <2>2. CASE ~Compound(x)
    <3>1. Terms[x] = << [by |-> "UNION", select |-> x] >>
      BY <2>2, TermsFacts DEF Compound
    <3>2. Len(Terms[x]) = 1 /\ Sel(x, 1) = x
      BY <3>1
    <3>3. TreeHeight[x] \in Nat /\ \A i \in 1 .. Len(Terms[x]) : i = 1
      BY <3>2, TreesAssumption
    <3> HIDE DEF Sel
    <3> QED BY <2>2, <3>2, <3>3
  <2> QED BY <2>1, <2>2
<1>2. \A x \in Trees : x \in S
  <2>1. \A x \in Trees : TreeHeight[x] \in Nat
    BY TreesAssumption
  <2>2. \A x \in Trees : (\A o \in Trees : TreeHeight[o] < TreeHeight[x] => o \in S) => x \in S
    BY <1>1
  <2> HIDE DEF S
  <2> QED BY <2>1, <2>2, RMeaning!Induction
<1> QED BY <1>0, <1>2

ReturnedStep(db, x, f) ==
    IF Compound(x)
    THEN Answer(Terms[x], [i \in DOMAIN Terms[x] |-> f[Terms[x][i].select]])
    ELSE IF Exists(x)
    THEN {Shown(x, t) : t \in Correlated(Semi(x), f[Semi(x).l], f[Semi(x).r])}
    ELSE {Shown(x, t) : t \in From(db)[Source(x)]}
RReturned == INSTANCE Recursion WITH Dom <- Trees, Depth <- TreeHeight, Step <- ReturnedStep

LEMMA ReturnedDef ==
    ASSUME NEW db
    PROVE  Returned(db) = [x \in Trees |-> ReturnedStep(db, x, Returned(db))]
<1>1. ASSUME NEW p, NEW x \in Trees, NEW f, NEW g,
             \A o \in Trees : TreeHeight[o] < TreeHeight[x] => f[o] = g[o]
      PROVE  ReturnedStep(p, x, f) = ReturnedStep(p, x, g)
  <2>1. CASE Compound(x)
    <3>0. DOMAIN Terms[x] = 1 .. Len(Terms[x])
      <4>1. Terms[x] \in Seq(TermSet)
        BY TermsTyped
      <4> QED BY <4>1
    <3>1. \A i \in DOMAIN Terms[x] : f[Terms[x][i].select] = g[Terms[x][i].select]
      BY <1>1, <2>1, <3>0, TermsBelow
    <3>2. [i \in DOMAIN Terms[x] |-> f[Terms[x][i].select]]
          = [i \in DOMAIN Terms[x] |-> g[Terms[x][i].select]]
      BY <3>1
    <3> QED BY <2>1, <3>2 DEF ReturnedStep
  <2>2. CASE ~Compound(x) /\ Exists(x)
    <3>1. f[Semi(x).l] = g[Semi(x).l] /\ f[Semi(x).r] = g[Semi(x).r]
      BY <1>1, <2>2, RootShapes
    <3> QED BY <3>1, <2>2 DEF ReturnedStep
  <2>3. CASE ~Compound(x) /\ ~Exists(x)
    BY <2>3 DEF ReturnedStep
  <2> QED BY <2>1, <2>2, <2>3
<1>2. RReturned!Local
  BY <1>1, TreesAssumption DEF RReturned!Local
<1>3. \E f : f = [x \in Trees |-> ReturnedStep(db, x, f)]
  BY <1>2, RReturned!Defined
<1> QED BY <1>3 DEF Returned, ReturnedStep

LEMMA SqlFacts ==
    ASSUME NEW x \in Trees, NEW db
    PROVE  /\ Compound(x) =>
                Sql(x, db) = Answer(Terms[x], [i \in DOMAIN Terms[x] |-> Sql(Terms[x][i].select, db)])
           /\ ~Compound(x) /\ Exists(x) =>
                Sql(x, db) = {Shown(x, t) : t \in
                    Correlated(Semi(x), Sql(Semi(x).l, db), Sql(Semi(x).r, db))}
           /\ ~Compound(x) /\ ~Exists(x) =>
                Sql(x, db) = {Shown(x, t) : t \in From(db)[Source(x)]}
<1>1. Returned(db)[x] = ReturnedStep(db, x, Returned(db))
  BY ReturnedDef
<1> HIDE DEF Returned
<1> QED BY <1>1 DEF ReturnedStep, Sql

RepeatsStep(db, x, f) ==
    IF Compound(x) \/ Distinct(x) THEN {}
    ELSE {Shown(x, t) : t \in {t \in Listed(x, db) :
            \/ Exists(x) /\ t \in f[Semi(x).l]
            \/ \E u \in Listed(x, db) : u # t /\ Shown(x, u) = Shown(x, t)}}
RRepeats == INSTANCE Recursion WITH Dom <- Trees, Depth <- TreeHeight, Step <- RepeatsStep

LEMMA RepeatsDef ==
    ASSUME NEW db
    PROVE  Repeats(db) = [x \in Trees |-> RepeatsStep(db, x, Repeats(db))]
<1>1. ASSUME NEW p, NEW x \in Trees, NEW f, NEW g,
             \A o \in Trees : TreeHeight[o] < TreeHeight[x] => f[o] = g[o]
      PROVE  RepeatsStep(p, x, f) = RepeatsStep(p, x, g)
  <2>1. CASE Exists(x)
    <3>1. f[Semi(x).l] = g[Semi(x).l]
      BY <1>1, <2>1, RootShapes
    <3> QED BY <3>1 DEF RepeatsStep
  <2>2. CASE ~Exists(x)
    BY <2>2 DEF RepeatsStep
  <2> QED BY <2>1, <2>2
<1>2. RRepeats!Local
  BY <1>1, TreesAssumption DEF RRepeats!Local
<1>3. \E f : f = [x \in Trees |-> RepeatsStep(db, x, f)]
  BY <1>2, RRepeats!Defined
<1> QED BY <1>3 DEF Repeats, RepeatsStep

LEMMA RepeatedFacts ==
    ASSUME NEW x \in Trees, NEW db
    PROVE  /\ Compound(x) \/ Distinct(x) => Repeated(x, db) = {}
           /\ ~Compound(x) /\ ~Distinct(x) =>
                Repeated(x, db) = {Shown(x, t) : t \in {t \in Listed(x, db) :
                    \/ Exists(x) /\ t \in Repeated(Semi(x).l, db)
                    \/ \E u \in Listed(x, db) : u # t /\ Shown(x, u) = Shown(x, t)}}
<1>1. Repeats(db)[x] = RepeatsStep(db, x, Repeats(db))
  BY RepeatsDef
<1> HIDE DEF Repeats
<1> QED BY <1>1 DEF RepeatsStep, Repeated

-----------------------------------------------------------------------------
(* One SELECT, and the compound.                                           *)

\* Whether a compound over what its SELECTs mean holds tuple t.
Answers(x, db, t) ==
    \E i \in 1 .. Len(Terms[x]) :
        /\ Terms[x][i].by = "UNION" /\ t \in Meaning(db)[Terms[x][i].select]
        /\ \A j \in i + 1 .. Len(Terms[x]) :
              Terms[x][j].by = "EXCEPT" => t \notin Meaning(db)[Terms[x][j].select]

LEMMA AnswerMember ==
    ASSUME NEW x \in Trees, NEW db, NEW rows,
           \A i \in 1 .. Len(Terms[x]) : rows[i] = Meaning(db)[Terms[x][i].select], NEW t
    PROVE  t \in Answer(Terms[x], rows) <=> Answers(x, db, t)
<1> DEFINE ts == Terms[x]
           n == Len(ts)
           M(i) == Meaning(db)[ts[i].select]
<1>1. DOMAIN ts = 1 .. n /\ n \in Nat
  <2>1. ts \in Seq(TermSet)
    BY TermsTyped
  <2> HIDE DEF ts
  <2> QED BY <2>1
<1>2. t \in Answer(ts, rows) <=> \E i \in 1 .. n : ts[i].by = "UNION" /\ t \in rows[i]
                   /\ \A j \in i + 1 .. n : ts[j].by = "EXCEPT" => t \notin rows[j]
  BY <1>1 DEF Answer
<1>3. \A i \in 1 .. n : rows[i] = M(i)
  OBVIOUS
<1>4. \A i \in 1 .. n : \A j \in i + 1 .. n : j \in 1 .. n
  BY <1>1
<1> HIDE DEF M
<1>5. t \in Answer(ts, rows) <=> \E i \in 1 .. n : ts[i].by = "UNION" /\ t \in M(i)
                   /\ \A j \in i + 1 .. n : ts[j].by = "EXCEPT" => t \notin M(j)
  BY <1>2, <1>3, <1>4
<1> QED BY <1>5 DEF Answers, M

LEMMA CompoundMeans ==
    ASSUME SetOpsNestLeft, NEW db
    PROVE  \A x \in Trees : \A t : Answers(x, db, t) <=> t \in Meaning(db)[x]
<1> DEFINE M(x) == Meaning(db)[x]
           Row(x, i) == Meaning(db)[Terms[x][i].select]
           Good(x) == \A t : Answers(x, db, t) <=> t \in M(x)
           S == {x \in Trees : Good(x)}
<1>0. ASSUME NEW x \in Trees, NEW t
      PROVE  Answers(x, db, t) <=> \E i \in 1 .. Len(Terms[x]) :
                /\ Terms[x][i].by = "UNION" /\ t \in Row(x, i)
                /\ \A j \in i + 1 .. Len(Terms[x]) : Terms[x][j].by = "EXCEPT" => t \notin Row(x, j)
  BY DEF Answers
<1>1. ASSUME NEW x \in Trees, \A o \in Trees : TreeHeight[o] < TreeHeight[x] => o \in S
      PROVE  \A t : Answers(x, db, t) <=> t \in M(x)
  <2>1. CASE x.op \in {"or", "minus"}
    <3> DEFINE n == Len(Terms[x.l])
               m == Len(Terms[x.r])
    <3>1. x.l \in S /\ x.r \in S /\ x.l \in Trees /\ x.r \in Trees
      BY <1>1, <2>1, TreeShapes DEF TreePairs
    <3>2. /\ n \in Nat /\ n >= 1 /\ m \in Nat /\ m >= 1 /\ Len(Terms[x]) = n + m
          /\ \A i \in 1 .. n : Terms[x][i] = Terms[x.l][i]
          /\ \A k \in 1 .. m :
                /\ Terms[x][n + k].select = Terms[x.r][k].select
                /\ k > 1 => Terms[x][n + k].by = Terms[x.r][k].by
                /\ k = 1 => Terms[x][n + k].by = IF x.op = "or" THEN "UNION" ELSE "EXCEPT"
      BY <2>1, TermsAt
    <3>3. /\ \A y \in Trees : DOMAIN Terms[y] = 1 .. Len(Terms[y])
          /\ \A k \in 1 .. m : n + k \in 1 .. n + m
          /\ \A i \in 1 .. n : i \in 1 .. n + m
          /\ \A i \in 1 .. n + m : i \in 1 .. n \/ \E k \in 1 .. m : i = n + k
      <4>1. \A y \in Trees : DOMAIN Terms[y] = 1 .. Len(Terms[y])
        <5> SUFFICES ASSUME NEW y \in Trees PROVE DOMAIN Terms[y] = 1 .. Len(Terms[y])
          OBVIOUS
        <5>1. Terms[y] \in Seq(TermSet)
          BY TermsTyped
        <5> QED BY <5>1
      <4>2. ASSUME NEW i \in 1 .. n + m, i \notin 1 .. n PROVE \E k \in 1 .. m : i = n + k
        <5> HIDE DEF n, m
        <5>1. i - n \in 1 .. m /\ i = n + (i - n)
          BY <3>2, <4>2
        <5> QED BY <5>1
      <4>3. (\A k \in 1 .. m : n + k \in 1 .. n + m) /\ (\A i \in 1 .. n : i \in 1 .. n + m)
        <5> HIDE DEF n, m
        <5> QED BY <3>2
      <4> QED BY <4>1, <4>2, <4>3
    <3>5. \A t : (Answers(x.l, db, t) <=> t \in M(x.l)) /\ (Answers(x.r, db, t) <=> t \in M(x.r))
      BY <3>1
    <3>6. (\A i \in 1 .. n : Row(x, i) = Row(x.l, i)) /\ (\A k \in 1 .. m : Row(x, n + k) = Row(x.r, k))
      <4> HIDE DEF n, m
      <4> QED BY <3>2
    <3> DEFINE U(y, i) == Terms[y][i].by = "UNION"
               X(y, i) == Terms[y][i].by = "EXCEPT"
    <3> SUFFICES ASSUME NEW t PROVE Answers(x, db, t) <=> t \in M(x)
      OBVIOUS
    <3> DEFINE In(y, i) == t \in Row(y, i)
    <3>7. /\ Answers(x, db, t) <=> \E i \in 1 .. n + m :
                  U(x, i) /\ In(x, i) /\ \A j \in i + 1 .. n + m : X(x, j) => ~In(x, j)
          /\ Answers(x.l, db, t) <=> \E i \in 1 .. n :
                  U(x.l, i) /\ In(x.l, i) /\ \A j \in i + 1 .. n : X(x.l, j) => ~In(x.l, j)
          /\ Answers(x.r, db, t) <=> \E i \in 1 .. m :
                  U(x.r, i) /\ In(x.r, i) /\ \A j \in i + 1 .. m : X(x.r, j) => ~In(x.r, j)
      BY <1>0, <3>1, <3>2
    <3>8. \A i \in 1 .. n : (U(x, i) <=> U(x.l, i)) /\ (X(x, i) <=> X(x.l, i)) /\ (In(x, i) <=> In(x.l, i))
      BY <3>2, <3>6
    <3>9. \A k \in 1 .. m : In(x, n + k) <=> In(x.r, k)
      BY <3>6
    <3> HIDE DEF M, Good, S, Row
    <3>10. CASE x.op = "or"
      <4>1. \A k \in 1 .. m : U(x, n + k) /\ U(x.r, k)
        <5>1. \A k \in 1 .. m : Terms[x.r][k].by = "UNION"
          BY <3>1, <3>3, <3>10 DEF SetOpsNestLeft
        <5> HIDE DEF n, m
        <5> QED BY <3>2, <3>10, <5>1
      <4>2. \A k \in 1 .. m : ~X(x, n + k) /\ ~X(x.r, k)
        BY <4>1
      <4>3. M(x) = M(x.l) \cup M(x.r)
        BY <3>10, MeaningFacts DEF M
      <4> HIDE DEF U, X, In, n, m
      <4>4. ASSUME Answers(x, db, t) PROVE Answers(x.l, db, t) \/ Answers(x.r, db, t)
        <5>1. PICK i \in 1 .. n + m : U(x, i) /\ In(x, i) /\ \A j \in i + 1 .. n + m : X(x, j) => ~In(x, j)
          BY <3>7, <4>4
        <5>2. CASE i \in 1 .. n
          <6>1. \A j \in i + 1 .. n : j \in 1 .. n /\ j \in i + 1 .. n + m
            BY <3>2, <5>2
          <6> QED BY <3>7, <3>8, <5>1, <5>2, <6>1
        <5>3. CASE i \notin 1 .. n
          <6>1. PICK k \in 1 .. m : i = n + k
            BY <3>3, <5>3
          <6>2. \A j \in k + 1 .. m : j \in 1 .. m
            BY <3>2
          <6> QED BY <3>7, <3>9, <4>1, <4>2, <5>1, <6>1, <6>2
        <5> QED BY <5>2, <5>3
      <4>5. ASSUME Answers(x.l, db, t) PROVE Answers(x, db, t)
        <5>1. PICK i \in 1 .. n : U(x.l, i) /\ In(x.l, i) /\ \A j \in i + 1 .. n : X(x.l, j) => ~In(x.l, j)
          BY <3>7, <4>5
        <5>2. ASSUME NEW j \in i + 1 .. n + m, X(x, j) PROVE ~In(x, j)
          <6>1. j \in 1 .. n + m
            BY <3>2
          <6>2. j \in 1 .. n
            BY <3>3, <4>2, <5>2, <6>1
          <6>3. j \in i + 1 .. n
            BY <3>2, <6>2
          <6> QED BY <3>8, <5>1, <5>2, <6>2, <6>3
        <5> QED BY <3>3, <3>7, <3>8, <5>1, <5>2
      <4>6. ASSUME Answers(x.r, db, t) PROVE Answers(x, db, t)
        <5>1. PICK k \in 1 .. m : U(x.r, k) /\ In(x.r, k)
          BY <3>7, <4>6
        <5>2. ASSUME NEW j \in n + k + 1 .. n + m PROVE ~X(x, j)
          <6>1. j - n \in 1 .. m /\ n + (j - n) = j
            BY <3>2
          <6> QED BY <4>2, <6>1
        <5>3. n + k \in 1 .. n + m
          BY <3>3
        <5> QED BY <3>7, <3>9, <4>1, <5>1, <5>2, <5>3
      <4> QED BY <3>5, <4>3, <4>4, <4>5, <4>6
    <3>11. CASE x.op = "minus"
      <4>1. m = 1
        BY <3>11 DEF SetOpsNestLeft
      <4>2. X(x, n + 1) /\ ~U(x, n + 1)
        <5> HIDE DEF n, m
        <5>1. 1 \in 1 .. m
          BY <4>1
        <5>2. Terms[x][n + 1].by = "EXCEPT"
          BY <3>2, <3>11, <5>1
        <5> QED BY <5>2
      <4>3. M(x) = M(x.l) \ M(x.r)
        BY <3>11, MeaningFacts DEF M
      <4>4. U(x.r, 1)
        BY <3>1, TermsTyped
      <4> HIDE DEF U, X, In, n, m
      <4>5. Answers(x.r, db, t) <=> In(x, n + 1)
        <5>1. \A i \in 1 .. m : i = 1
          BY <4>1
        <5>2. 1 \in 1 .. m /\ \A j \in 1 + 1 .. m : FALSE
          BY <4>1
        <5> QED BY <3>7, <3>9, <4>4, <5>1, <5>2
      <4>6. ASSUME Answers(x, db, t) PROVE Answers(x.l, db, t) /\ ~In(x, n + 1)
        <5>1. PICK i \in 1 .. n + m : U(x, i) /\ In(x, i) /\ \A j \in i + 1 .. n + m : X(x, j) => ~In(x, j)
          BY <3>7, <4>6
        <5>2. i \in 1 .. n
          BY <3>2, <4>1, <4>2, <5>1
        <5>3. n + 1 \in i + 1 .. n + m
          BY <3>2, <4>1, <5>2
        <5>4. \A j \in i + 1 .. n : j \in 1 .. n /\ j \in i + 1 .. n + m
          BY <3>2, <5>2
        <5> QED BY <3>7, <3>8, <4>2, <5>1, <5>2, <5>3, <5>4
      <4>7. ASSUME Answers(x.l, db, t), ~In(x, n + 1) PROVE Answers(x, db, t)
        <5>1. PICK i \in 1 .. n : U(x.l, i) /\ In(x.l, i) /\ \A j \in i + 1 .. n : X(x.l, j) => ~In(x.l, j)
          BY <3>7, <4>7
        <5>2. ASSUME NEW j \in i + 1 .. n + m, X(x, j) PROVE ~In(x, j)
          <6>1. j = n + 1 \/ (j \in i + 1 .. n /\ j \in 1 .. n)
            BY <3>2, <4>1
          <6> QED BY <3>8, <4>7, <5>1, <5>2, <6>1
        <5> QED BY <3>3, <3>7, <3>8, <5>1, <5>2
      <4> QED BY <3>5, <4>3, <4>5, <4>6, <4>7
    <3> QED BY <2>1, <3>10, <3>11
  <2>2. CASE x.op \notin {"or", "minus"}
    <3>1. Terms[x] = << [by |-> "UNION", select |-> x] >>
      BY <2>2, TermsFacts
    <3>2. /\ Len(Terms[x]) = 1 /\ DOMAIN Terms[x] = 1 .. 1
          /\ Terms[x][1].by = "UNION" /\ Terms[x][1].select = x
      BY <3>1
    <3>4. \A i \in 1 .. Len(Terms[x]) : i = 1
      BY <3>2
    <3>5. \A j \in 1 + 1 .. Len(Terms[x]) : FALSE
      BY <3>2
    <3>6. 1 \in 1 .. Len(Terms[x]) /\ Row(x, 1) = M(x)
      BY <3>2
    <3> HIDE DEF Row, M
    <3> QED BY <1>0, <3>2, <3>4, <3>5, <3>6
  <2> QED BY <2>1, <2>2
<1>2. \A x \in Trees : x \in S
  <2>1. \A x \in Trees : TreeHeight[x] \in Nat
    BY TreesAssumption
  <2>2. \A x \in Trees : (\A o \in Trees : TreeHeight[o] < TreeHeight[x] => o \in S) => x \in S
    BY <1>1
  <2> HIDE DEF S
  <2> QED BY <2>1, <2>2, RMeaning!Induction
<1> QED BY <1>2


\* A plain SELECT yields what its tree means.
LEMMA SelectMeans ==
    ASSUME JoinsAlign, NEW db, IsDb(db), NEW x \in Trees, ~Exists(x), Resolves[Source(x)]
    PROVE  {Shown(x, t) : t \in From(db)[Source(x)]} = Meaning(db)[x]
<1> DEFINE M(y) == Meaning(db)[y]
           F == From(db)[Source(x)]
           Tuple(t) == View(Columns[Source(x)], t)
<1>0. {Tuple(t) : t \in F} = M(Source(x))
  BY RootShapes, ResolveMeans
<1>1. CASE ~Computes(x)
  <2>1. Source(x) = x /\ \A t : Shown(x, t) = Tuple(t)
    BY <1>1 DEF Source, Shown
  <2> HIDE DEF F, Tuple, M
  <2>2. {Shown(x, t) : t \in F} = {Tuple(t) : t \in F}
    BY <2>1
  <2> QED BY <1>0, <2>1, <2>2 DEF F, M
<1>2. CASE Computes(x)
  <2> DEFINE y == Peel(x, "rename")
             z == Core(x)
             Wide(t) == Extended(z.adds, t)
  <2>1. y \in Trees /\ z \in Trees /\ z.op = "extend" /\ z.in \in Trees /\ z = Peel(y, "project")
    BY <1>2, CoreIsTree
  <2>2. Source(x) = z.in /\ \A t : Shown(x, t) = NamedAnew(x, Kept(y, Wide(Tuple(t))))
    BY <1>2 DEF Source, Shown
  <2>3. {Wide(t) : t \in M(z.in)} = M(z)
    BY <2>1, MeaningFacts
  <2>4. {Kept(y, t) : t \in M(z)} = M(y)
    <3>1. CASE y.op = "project"
      <4>1. z = y.in
        BY <2>1, <3>1 DEF Peel
      <4>2. M(y) = {Restrict(t, y.keep) : t \in M(z)}
        BY <2>1, <3>1, <4>1, MeaningFacts
      <4>3. \A t : Kept(y, t) = Restrict(t, y.keep)
        BY <3>1 DEF Kept
      <4> HIDE DEF M, y, z
      <4> QED BY <4>2, <4>3
    <3>2. CASE y.op # "project"
      <4>1. z = y
        BY <2>1, <3>2 DEF Peel
      <4>2. \A t : Kept(y, t) = t
        BY <3>2 DEF Kept
      <4> HIDE DEF M, y, z
      <4> QED BY <4>1, <4>2
    <3> QED BY <3>1, <3>2
  <2>5. {NamedAnew(x, t) : t \in M(y)} = M(x)
    <3>1. CASE x.op = "rename"
      <4>1. y = x.in
        BY <3>1 DEF Peel
      <4>2. M(x) = {Renamed(x.to, t) : t \in M(y)}
        BY <3>1, <4>1, MeaningFacts
      <4>3. \A t : NamedAnew(x, t) = Renamed(x.to, t)
        BY <3>1 DEF NamedAnew
      <4> HIDE DEF M, y
      <4> QED BY <4>2, <4>3
    <3>2. CASE x.op # "rename"
      <4>1. y = x
        BY <3>2 DEF Peel
      <4>2. \A t : NamedAnew(x, t) = t
        BY <3>2 DEF NamedAnew
      <4> HIDE DEF M, y
      <4> QED BY <4>1, <4>2
    <3> QED BY <3>1, <3>2
  <2> HIDE DEF M, y, z, F, Tuple, Wide
  <2>6. {Tuple(t) : t \in F} = M(z.in)
    BY <1>0, <2>2
  <2>7. {Shown(x, t) : t \in F} = {NamedAnew(x, Kept(y, Wide(t))) : t \in M(z.in)}
    BY <2>2, <2>6
  <2>8. {Kept(y, Wide(t)) : t \in M(z.in)} = M(y)
    BY <2>3, <2>4
  <2>9. {NamedAnew(x, Kept(y, Wide(t))) : t \in M(z.in)} = {NamedAnew(x, t) : t \in M(y)}
    BY <2>8
  <2> QED BY <2>5, <2>7, <2>9 DEF M, F
<1> QED BY <1>1, <1>2

\* Two derived tables correlated on what they share are a semijoin.
LEMMA CorrelatedMeans ==
    ASSUME NEW db, IsDb(db), NEW s \in Trees, s.op = "semi"
    PROVE  Correlated(s, Meaning(db)[s.l], Meaning(db)[s.r]) = Meaning(db)[s]
<1> DEFINE L == Meaning(db)[s.l]
           R == Meaning(db)[s.r]
           h == TreeHeading[s.l]
           k == TreeHeading[s.r]
           Meets(t) == \E u \in R : \A a \in h \cap k : t[a] = u[a]
<1>1. s.l \in Trees /\ s.r \in Trees
  BY TreeShapes DEF TreePairs
<1>2. L \in Rows(h) /\ R \in Rows(k)
  BY <1>1, MeaningTyped
<1>3. Meaning(db)[s] = IF s.negated THEN L \ Partnered(L, R) ELSE Partnered(L, R)
  BY SemiMeaning
<1>4. Correlated(s, L, R) = {t \in L : IF s.negated THEN ~Meets(t) ELSE Meets(t)}
  BY DEF Correlated
<1> HIDE DEF L, R, h, k
<1>5. ASSUME NEW t \in L PROVE Meets(t) <=> t \in Partnered(L, R)
  <2>1. DOMAIN t = h /\ \A u \in R : DOMAIN u = k
    BY <1>2 DEF Rows
  <2>2. \A u \in R : Agree(t, u) <=> \A a \in h \cap k : t[a] = u[a]
    BY <2>1 DEF Agree
  <2> QED BY <2>2 DEF Partnered
<1>6. Partnered(L, R) \subseteq L
  BY DEF Partnered
<1> HIDE DEF Meets
<1>7. ASSUME s.negated PROVE Correlated(s, L, R) = Meaning(db)[s]
  <2>1. Correlated(s, L, R) = {t \in L : ~Meets(t)} /\ Meaning(db)[s] = L \ Partnered(L, R)
    BY <1>3, <1>4, <1>7
  <2> QED BY <1>5, <1>6, <2>1
<1>8. ASSUME ~s.negated PROVE Correlated(s, L, R) = Meaning(db)[s]
  <2>1. Correlated(s, L, R) = {t \in L : Meets(t)} /\ Meaning(db)[s] = Partnered(L, R)
    BY <1>3, <1>4, <1>8
  <2> QED BY <1>5, <1>6, <2>1
<1>9. Correlated(s, L, R) = Meaning(db)[s]
  BY <1>7, <1>8
<1> QED BY <1>9 DEF L, R

\* What stands in the list of WHERE EXISTS: the left table, projected or not.
LEMMA ExistsMeans ==
    ASSUME NEW db, NEW x \in Trees, Exists(x)
    PROVE  {Shown(x, t) : t \in Meaning(db)[Semi(x)]} = Meaning(db)[x]
<1> DEFINE s == Semi(x)
           M(y) == Meaning(db)[y]
<1>1. \A t : Shown(x, t) = Kept(x, t)
  BY DEF Shown
<1>2. CASE x.op = "project"
  <2>1. s = x.in
    BY <1>2 DEF Semi, Peel
  <2>2. M(x) = {Restrict(t, x.keep) : t \in M(s)}
    BY <1>2, <2>1, MeaningFacts
  <2>3. \A t : Shown(x, t) = Restrict(t, x.keep)
    BY <1>1, <1>2 DEF Kept
  <2> HIDE DEF s, M
  <2>4. {Shown(x, t) : t \in M(s)} = M(x)
    BY <2>2, <2>3
  <2> QED BY <2>4 DEF s, M
<1>3. CASE x.op # "project"
  <2>1. s = x
    BY <1>3 DEF Semi, Peel
  <2>2. \A t : Shown(x, t) = t
    BY <1>1, <1>3 DEF Kept
  <2> HIDE DEF s, M
  <2>3. {Shown(x, t) : t \in M(s)} = M(x)
    BY <2>1, <2>2
  <2> QED BY <2>3 DEF s, M
<1> QED BY <1>2, <1>3

\* The SQL of a tree that emits returns what the tree means.
THEOREM SqlMeans ==
    ASSUME SetOpsNestLeft, JoinsAlign, NEW db, IsDb(db)
    PROVE  \A x \in Trees : Emits[x] => Sql(x, db) = Meaning(db)[x]
<1> DEFINE M(x) == Meaning(db)[x]
           S == {x \in Trees : Emits[x] => Sql(x, db) = M(x)}
<1>1. ASSUME NEW x \in Trees, \A o \in Trees : TreeHeight[o] < TreeHeight[x] => o \in S, Emits[x]
      PROVE  Sql(x, db) = M(x)
  <2>1. CASE Compound(x)
    <3> DEFINE rows == [i \in DOMAIN Terms[x] |-> Sql(Terms[x][i].select, db)]
    <3>1. Sql(x, db) = Answer(Terms[x], rows)
      BY <2>1, SqlFacts
    <3>2. DOMAIN Terms[x] = 1 .. Len(Terms[x])
      <4>1. Terms[x] \in Seq(TermSet)
        BY TermsTyped
      <4> QED BY <4>1
    <3>3. \A i \in 1 .. Len(Terms[x]) : Sql(Terms[x][i].select, db) = M(Terms[x][i].select)
      BY <1>1, <2>1, TermsBelow
    <3>4. \A i \in 1 .. Len(Terms[x]) : rows[i] = Meaning(db)[Terms[x][i].select]
      BY <3>2, <3>3
    <3> HIDE DEF rows
    <3>5. \A t : t \in Answer(Terms[x], rows) <=> t \in Meaning(db)[x]
      BY <3>4, AnswerMember, CompoundMeans
    <3>6. \E T : Answer(Terms[x], rows) = UNION T
      BY DEF Answer
    <3>7. Meaning(db)[x] \in Rows(TreeHeading[x])
      BY MeaningTyped
    <3> QED BY <3>1, <3>5, <3>6, <3>7 DEF Rows
  <2>2. CASE ~Compound(x) /\ Exists(x)
    <3> DEFINE s == Semi(x)
    <3>1. s \in Trees /\ s.op = "semi" /\ Sql(s.l, db) = M(s.l) /\ Sql(s.r, db) = M(s.r)
      BY <1>1, <2>2, RootShapes, EmitsFacts
    <3>2. Sql(x, db) = {Shown(x, t) : t \in Correlated(s, Sql(s.l, db), Sql(s.r, db))}
      BY <2>2, SqlFacts
    <3>3. Correlated(s, M(s.l), M(s.r)) = M(s)
      BY <3>1, CorrelatedMeans
    <3> QED BY <2>2, <3>1, <3>2, <3>3, ExistsMeans
  <2>3. CASE ~Compound(x) /\ ~Exists(x)
    BY <1>1, <2>3, SqlFacts, EmitsFacts, SelectMeans
  <2> QED BY <2>1, <2>2, <2>3
<1>2. \A x \in Trees : x \in S
  <2>1. \A x \in Trees : TreeHeight[x] \in Nat
    BY TreesAssumption
  <2>2. \A x \in Trees : (\A o \in Trees : TreeHeight[o] < TreeHeight[x] => o \in S) => x \in S
    BY <1>1
  <2> HIDE DEF S
  <2> QED BY <2>1, <2>2, RMeaning!Induction
<1> QED BY <1>2

\* A semijoin run in the process: the join projected onto the left heading.
LEMMA OperateMeans ==
    ASSUME NEW e \in Exprs, e.op \in BinaryOps,
           NEW ls \in Rows(HeadingOf[e.l]), NEW rs \in Rows(HeadingOf[e.r])
    PROVE  Operated(e, ls, rs) = Applied(e, ls, rs)
<1> DEFINE h == HeadingOf[e.l]
           k == HeadingOf[e.r]
<1>1. {Restrict(t, h) : t \in Joined(ls, rs)} = Partnered(ls, rs)
  <2> HIDE DEF h, k
  <2>1. ls \in Rows(h) /\ rs \in Rows(k)
    BY DEF h, k
  <2>2. \A p \in ls, q \in rs : Agree(p, q) => Restrict(Beside(p, q), h) = p
    <3> SUFFICES ASSUME NEW p \in ls, NEW q \in rs, Agree(p, q)
                 PROVE  Restrict(Beside(p, q), h) = p
      OBVIOUS
    <3>1. p \in [h -> Int] /\ q \in [k -> Int] /\ DOMAIN p = h /\ p = [a \in h |-> p[a]]
      BY <2>1 DEF Rows
    <3>2. \A a \in h : Beside(p, q)[a] = p[a]
      BY <3>1 DEF Beside
    <3> QED BY <3>1, <3>2 DEF Restrict
  <2>3. \A t : t \in Joined(ls, rs) <=> \E p \in ls, q \in rs : Agree(p, q) /\ t = Beside(p, q)
    BY JoinedMember
  <2>4. ASSUME NEW p \in Partnered(ls, rs) PROVE p \in {Restrict(t, h) : t \in Joined(ls, rs)}
    <3>1. PICK q \in rs : p \in ls /\ Agree(p, q)
      BY DEF Partnered
    <3> QED BY <2>2, <2>3, <3>1
  <2>5. ASSUME NEW t \in Joined(ls, rs) PROVE Restrict(t, h) \in Partnered(ls, rs)
    <3>1. PICK p \in ls, q \in rs : Agree(p, q) /\ t = Beside(p, q)
      BY <2>3
    <3> QED BY <2>2, <3>1 DEF Partnered
  <2> QED BY <2>4, <2>5
<1>2. CASE e.op = "matching"
  BY <1>1, <1>2 DEF Operated, Applied
<1>3. CASE e.op = "unmatching"
  BY <1>1, <1>3 DEF Operated, Applied
<1>4. CASE e.op \notin {"matching", "unmatching"}
  BY <1>4 DEF Operated
<1> QED BY <1>2, <1>3, <1>4

\* Whatever is pushed, in one query or in parts, a relation computed for an
\* expression is the one the expression denotes.
THEOREM ValueMeans ==
    ASSUME SetOpsNestLeft, JoinsAlign, NEW db, IsDb(db)
    PROVE  \A e \in Exprs : Value(e, db) = Eval(e, db)
<1> DEFINE S == {e \in Exprs : Value(e, db) = Eval(e, db)}
<1>1. ASSUME NEW e \in Exprs, \A o \in Exprs : Height[o] < Height[e] => o \in S
      PROVE  e \in S
  <2>1. CASE Pushed(e)
    <3>1. Build[e] # None /\ Emits[Build[e]]
      BY <2>1 DEF Pushed
    <3>2. Sql(Build[e], db) = Meaning(db)[Build[e]]
      BY <3>1, BuiltTree, SqlMeans
    <3> QED BY <2>1, <3>1, <3>2, BuildMeans, ComputedFacts
  <2>2. CASE ~Pushed(e) /\ Leaf(e)
    BY <2>2, ComputedFacts, EvalFacts
  <2>3. CASE ~Pushed(e) /\ e.op \in UnaryOps
    <3>1. e.in \in S
      BY <1>1, <2>3, ExprShapes
    <3> QED BY <2>3, <3>1, ComputedFacts, EvalFacts
  <2>4. CASE ~Pushed(e) /\ e.op \in BinaryOps
    <3>1. e.l \in S /\ e.r \in S
      BY <1>1, <2>4, ExprShapes
    <3>2. Eval(e.l, db) \in Rows(HeadingOf[e.l]) /\ Eval(e.r, db) \in Rows(HeadingOf[e.r])
      BY <3>1, EvalTyped
    <3>3. Operated(e, Eval(e.l, db), Eval(e.r, db)) = Applied(e, Eval(e.l, db), Eval(e.r, db))
      BY <2>4, <3>2, OperateMeans
    <3> QED BY <2>4, <3>1, <3>3, ComputedFacts, EvalFacts
  <2> QED BY <2>1, <2>2, <2>3, <2>4, ExprShapes DEF Leaf
<1>2. \A e \in Exprs : e \in S
  <2>1. \A e \in Exprs : Height[e] \in Nat
    BY ExprsAssumption
  <2>2. \A e \in Exprs : (\A o \in Exprs : Height[o] < Height[e] => o \in S) => e \in S
    BY <1>1
  <2> HIDE DEF S
  <2> QED BY <2>1, <2>2, RHeading!Induction
<1> QED BY <1>2

-----------------------------------------------------------------------------
(* Keys: what the emitter infers of a tree holds of the rows it lists, so a *)
(* SELECT without DISTINCT repeats no row.                                 *)

\* The keys declared hold of the tables.
KeysHold(db) == \A r \in Relvars : \A k \in Keys[r] : Identifies(k, db[r])

LEMMA KeysWithin == \A x \in Trees : \A k \in SurvivingKeys[x] : k \subseteq TreeHeading[x]
<1> DEFINE S == {x \in Trees : \A k \in SurvivingKeys[x] : k \subseteq TreeHeading[x]}
<1>1. ASSUME NEW x \in Trees, \A o \in Trees : TreeHeight[o] < TreeHeight[x] => o \in S,
             NEW k \in SurvivingKeys[x]
      PROVE  k \subseteq TreeHeading[x]
  <2>1. CASE x.op = "ref"
    BY <2>1, KeysFacts, TreeHeadingFacts, FormedFacts, KeysAssumption
  <2>2. CASE x.op = "param"
    <3>1. SurvivingKeys[x] = {HeadingOf[x.ast]}
      BY <2>2, KeysFacts
    <3>2. TreeHeading[x] = HeadingOf[x.ast]
      BY <2>2, TreeHeadingFacts
    <3> QED BY <1>1, <3>1, <3>2
  <2>3. CASE x.op \in ChainOps
    <3>1. \A j \in SurvivingKeys[x.in] : j \subseteq TreeHeading[x.in]
      BY <1>1, <2>3, TreeShapes
    <3>2. CASE x.op \in {"restrict", "extend"}
      BY <3>1, <3>2, KeysFacts, TreeHeadingFacts
    <3>3. CASE x.op = "project"
      <4>1. SurvivingKeys[x] = {j \in SurvivingKeys[x.in] : j \subseteq x.keep}
        BY <3>3, KeysFacts DEF KeptKeys
      <4>2. TreeHeading[x] = x.keep
        BY <3>3, TreeHeadingFacts
      <4> QED BY <1>1, <4>1, <4>2
    <3>4. CASE x.op = "rename"
      <4>1. SurvivingKeys[x] = {{NameOf(x.to, a) : a \in j} : j \in SurvivingKeys[x.in]}
        BY <3>4, KeysFacts DEF RenamedKeys
      <4>2. TreeHeading[x] = {NameOf(x.to, a) : a \in TreeHeading[x.in]}
        BY <3>4, TreeHeadingFacts
      <4>3. PICK j \in SurvivingKeys[x.in] : k = {NameOf(x.to, a) : a \in j}
        BY <4>1
      <4> QED BY <3>1, <4>2, <4>3
    <3> QED BY <2>3, <3>2, <3>3, <3>4 DEF ChainOps
  <2>4. CASE x.op \in TreePairs
    <3>1. /\ \A j \in SurvivingKeys[x.l] : j \subseteq TreeHeading[x.l]
          /\ \A j \in SurvivingKeys[x.r] : j \subseteq TreeHeading[x.r]
      BY <1>1, <2>4, TreeShapes
    <3>2. CASE x.op = "and"
      <4>1. TreeHeading[x] = TreeHeading[x.l] \cup TreeHeading[x.r]
        BY <3>2, TreeHeadingFacts
      <4>2. \/ k \in SurvivingKeys[x.l] \/ k \in SurvivingKeys[x.r]
            \/ \E i \in SurvivingKeys[x.l], j \in SurvivingKeys[x.r] : k = i \cup j
        BY <3>2, KeysFacts DEF JoinKeys
      <4> QED BY <3>1, <4>1, <4>2
    <3>3. CASE x.op # "and"
      BY <2>4, <3>1, <3>3, KeysFacts, TreeHeadingFacts DEF TreePairs
    <3> QED BY <3>2, <3>3
  <2> QED BY <2>1, <2>2, <2>3, <2>4, TreeShapes
<1>2. \A x \in Trees : x \in S
  <2>1. \A x \in Trees : TreeHeight[x] \in Nat
    BY TreesAssumption
  <2>2. \A x \in Trees : (\A o \in Trees : TreeHeight[o] < TreeHeight[x] => o \in S) => x \in S
    BY <1>1
  <2> HIDE DEF S
  <2> QED BY <2>1, <2>2, RMeaning!Induction
<1> QED BY <1>2

\* A listing f gives each of its rows the tuple it shows.  A key identifies the
\* row by the tuple.
Identified(k, f) ==
    \A p, q \in DOMAIN f : (\A a \in k : f[p][a] = f[q][a]) => p = q

\* A listing is as the emitter infers of tree x.
Known(x, f) ==
    /\ \A p \in DOMAIN f : DOMAIN f[p] = TreeHeading[x]
    /\ \A k \in SurvivingKeys[x] : Identified(k, f)
    /\ CardLeOne[x] => \A p, q \in DOMAIN f : p = q

LEMMA IdentifiesSame ==
    ASSUME NEW k, NEW rows
    PROVE  Identifies(k, rows) <=> \A t, u \in rows : (\A a \in k : t[a] = u[a]) => t = u
<1>1. \A t, u : Restrict(t, k) = Restrict(u, k) <=> \A a \in k : t[a] = u[a]
  <2> SUFFICES ASSUME NEW t, NEW u
               PROVE  Restrict(t, k) = Restrict(u, k) <=> \A a \in k : t[a] = u[a]
    OBVIOUS
  <2>1. Restrict(t, k) = [a \in k |-> t[a]] /\ Restrict(u, k) = [a \in k |-> u[a]]
    BY DEF Restrict
  <2> QED BY <2>1
<1> QED BY <1>1 DEF Identifies

OneStep(x, t) ==
    CASE x.op = "extend" -> Extended(x.adds, t)
      [] x.op = "project" -> Restrict(t, x.keep)
      [] x.op = "rename" -> Renamed(x.to, t)

\* The keys of an operand that survive an operator still tell its rows apart.
LEMMA ChainKnown ==
    ASSUME NEW x \in Trees, x.op \in {"extend", "project", "rename"}, NEW f, Known(x.in, f),
           NEW g, DOMAIN g = DOMAIN f, \A p \in DOMAIN f : g[p] = OneStep(x, f[p])
    PROVE  Known(x, g)
<1> DEFINE h == TreeHeading[x.in]
<1>1. \A p \in DOMAIN f : DOMAIN f[p] = h
  BY DEF Known
<1>2. CardLeOne[x] => \A p, q \in DOMAIN g : p = q
  BY CardFacts DEF Known
<1>3. CASE x.op = "extend"
  <2>1. \A p \in DOMAIN f : g[p] = Extended(x.adds, f[p])
    BY <1>3 DEF OneStep
  <2>2. TreeHeading[x] = h \cup DOMAIN x.adds /\ SurvivingKeys[x] = SurvivingKeys[x.in]
    BY <1>3, TreeHeadingFacts, KeysFacts
  <2>3. \A k \in SurvivingKeys[x.in] : k \subseteq h
    BY <1>3, TreeShapes, KeysWithin DEF ChainOps
  <2> HIDE DEF h
  <2>4. \A p \in DOMAIN f : DOMAIN g[p] = h \cup DOMAIN x.adds /\ \A a \in h : g[p][a] = f[p][a]
    BY <1>1, <2>1 DEF Extended
  <2>5. ASSUME NEW k \in SurvivingKeys[x] PROVE Identified(k, g)
    <3>1. Identified(k, f) /\ k \subseteq h
      BY <2>2, <2>3 DEF Known
    <3> QED BY <2>4, <3>1 DEF Identified
  <2> QED BY <1>2, <2>2, <2>4, <2>5 DEF Known
<1>4. CASE x.op = "project"
  <2>1. \A p \in DOMAIN f : g[p] = Restrict(f[p], x.keep)
    BY <1>4 DEF OneStep
  <2>2. TreeHeading[x] = x.keep /\ SurvivingKeys[x] = {k \in SurvivingKeys[x.in] : k \subseteq x.keep}
    BY <1>4, TreeHeadingFacts, KeysFacts DEF KeptKeys
  <2>3. \A p \in DOMAIN f : DOMAIN g[p] = x.keep /\ \A a \in x.keep : g[p][a] = f[p][a]
    BY <2>1 DEF Restrict
  <2>4. ASSUME NEW k \in SurvivingKeys[x] PROVE Identified(k, g)
    <3>1. Identified(k, f) /\ k \subseteq x.keep
      BY <2>2 DEF Known
    <3> QED BY <2>3, <3>1 DEF Identified
  <2> QED BY <1>2, <2>2, <2>3, <2>4 DEF Known
<1>5. CASE x.op = "rename"
  <2>1. \A p \in DOMAIN f : g[p] = Renamed(x.to, f[p])
    BY <1>5 DEF OneStep
  <2>2. SurvivingKeys[x] = {{NameOf(x.to, a) : a \in k} : k \in SurvivingKeys[x.in]}
    BY <1>5, KeysFacts DEF RenamedKeys
  <2>3. TreeHeading[x] = {NameOf(x.to, a) : a \in h}
    BY <1>5, TreeHeadingFacts
  <2>4. \A k \in SurvivingKeys[x.in] : k \subseteq h
    BY <1>5, TreeShapes, KeysWithin DEF ChainOps
  <2>5. Renames(x.to, h)
    BY <1>5, FormedFacts
  <2> HIDE DEF h
  <2>6. ASSUME NEW p \in DOMAIN f
        PROVE  DOMAIN g[p] = {NameOf(x.to, a) : a \in h} /\ \A a \in h : g[p][NameOf(x.to, a)] = f[p][a]
    <3>1. DOMAIN f[p] = h
      BY <1>1
    <3>2. \A a \in h : Renamed(x.to, f[p])[NameOf(x.to, a)] = f[p][a]
      BY <2>5, <3>1, RenamedValue
    <3> QED BY <2>1, <3>1, <3>2 DEF Renamed
  <2>7. ASSUME NEW j \in SurvivingKeys[x] PROVE Identified(j, g)
    <3>1. PICK k \in SurvivingKeys[x.in] : j = {NameOf(x.to, a) : a \in k}
      BY <2>2
    <3>2. Identified(k, f) /\ k \subseteq h
      BY <2>4 DEF Known
    <3>3. ASSUME NEW p \in DOMAIN g, NEW q \in DOMAIN g, \A b \in j : g[p][b] = g[q][b]
          PROVE  p = q
      <4>1. \A a \in k : g[p][NameOf(x.to, a)] = g[q][NameOf(x.to, a)]
        BY <3>1, <3>3
      <4>2. \A a \in k : f[p][a] = f[q][a]
        BY <2>6, <3>2, <4>1
      <4> QED BY <3>2, <4>2 DEF Identified
    <3> QED BY <3>3 DEF Identified
  <2> QED BY <1>2, <2>3, <2>6, <2>7 DEF Known
<1> QED BY <1>3, <1>4, <1>5

\* Fewer rows are told apart as well; and an equality with a key leaves one.
LEMMA RestrictKnown ==
    ASSUME NEW x \in Trees, x.op = "restrict", NEW f, Known(x.in, f),
           NEW g, DOMAIN g \subseteq DOMAIN f,
           \A p \in DOMAIN g : g[p] = f[p] /\ Holds(x.pred, f[p])
    PROVE  Known(x, g)
<1>1. TreeHeading[x] = TreeHeading[x.in] /\ SurvivingKeys[x] = SurvivingKeys[x.in]
  BY TreeHeadingFacts, KeysFacts
<1>2. \A k \in SurvivingKeys[x] : Identified(k, g)
  BY <1>1 DEF Known, Identified
<1>3. ASSUME CardLeOne[x], NEW p \in DOMAIN g, NEW q \in DOMAIN g PROVE p = q
  <2>1. CASE CardLeOne[x.in]
    BY <2>1 DEF Known
  <2>2. CASE Pins(x.pred, SurvivingKeys[x.in])
    <3>1. Identified({x.pred.attr}, f) /\ x.pred.cmp = "="
      BY <2>2 DEF Pins, Known
    <3>2. IsLit(x.pred.arg)
      BY FormedFacts DEF Pushable
    <3>3. f[p][x.pred.attr] = x.pred.arg.lit /\ f[q][x.pred.attr] = x.pred.arg.lit
      BY <3>1, <3>2 DEF Holds, Compare, Scalar
    <3> QED BY <3>1, <3>3 DEF Identified
  <2> QED BY <1>3, <2>1, <2>2, CardFacts
<1> QED BY <1>1, <1>2, <1>3 DEF Known

LEMMA LessKnown ==
    ASSUME NEW x \in Trees, x.op \in {"minus", "semi"}, NEW f, Known(x.l, f),
           NEW g, DOMAIN g \subseteq DOMAIN f, \A p \in DOMAIN g : g[p] = f[p]
    PROVE  Known(x, g)
<1>1. TreeHeading[x] = TreeHeading[x.l] /\ SurvivingKeys[x] = SurvivingKeys[x.l]
  BY TreeHeadingFacts, KeysFacts
<1>2. CardLeOne[x] => CardLeOne[x.l]
  BY CardFacts
<1>3. \A k \in SurvivingKeys[x] : Identified(k, g)
  BY <1>1 DEF Known, Identified
<1> QED BY <1>1, <1>2, <1>3 DEF Known

\* A row of a join is told apart by a key of each side, or by one side's when
\* the shared attributes hold a key of the other.
LEMMA JoinKnown ==
    ASSUME NEW x \in Trees, x.op = "and", NEW f, Known(x.l, f), NEW g, Known(x.r, g),
           NEW w, \A t \in DOMAIN w : \E p \in DOMAIN f, q \in DOMAIN g :
              /\ t = Beside(p, q) /\ Agree(f[p], g[q]) /\ w[t] = Beside(f[p], g[q])
    PROVE  Known(x, w)
<1> DEFINE h == TreeHeading[x.l]
           k == TreeHeading[x.r]
           ls == SurvivingKeys[x.l]
           rs == SurvivingKeys[x.r]
           Of(t, p, q) == t = Beside(p, q) /\ Agree(f[p], g[q]) /\ w[t] = Beside(f[p], g[q])
<1>1. /\ \A p \in DOMAIN f : DOMAIN f[p] = h
      /\ \A q \in DOMAIN g : DOMAIN g[q] = k
  BY DEF Known
<1>2. TreeHeading[x] = h \cup k /\ SurvivingKeys[x] = JoinKeys(ls, rs, h \cap k)
  BY TreeHeadingFacts, KeysFacts
<1>3. (\A i \in ls : i \subseteq h) /\ (\A j \in rs : j \subseteq k)
  BY TreeShapes, KeysWithin DEF TreePairs
<1>4. /\ \A i \in ls : Identified(i, f)
      /\ \A j \in rs : Identified(j, g)
  BY DEF Known
<1>5. \A t \in DOMAIN w : \E p \in DOMAIN f, q \in DOMAIN g : Of(t, p, q)
  OBVIOUS
<1> HIDE DEF h, k, ls, rs
<1>6. ASSUME NEW t, NEW p \in DOMAIN f, NEW q \in DOMAIN g, Of(t, p, q)
      PROVE  /\ DOMAIN w[t] = h \cup k
             /\ \A a \in h : w[t][a] = f[p][a]
             /\ \A a \in k : w[t][a] = g[q][a]
  <2>1. DOMAIN f[p] = h /\ DOMAIN g[q] = k /\ w[t] = Beside(f[p], g[q]) /\ Agree(f[p], g[q])
    BY <1>1, <1>6
  <2>2. \A a \in h \cap k : f[p][a] = g[q][a]
    BY <2>1 DEF Agree
  <2> QED BY <2>1, <2>2 DEF Beside
<1> HIDE DEF Of
<1>7. ASSUME NEW key \in SurvivingKeys[x], NEW t \in DOMAIN w, NEW u \in DOMAIN w,
             \A a \in key : w[t][a] = w[u][a]
      PROVE  t = u
  <2>1. PICK p \in DOMAIN f, q \in DOMAIN g : Of(t, p, q)
    BY <1>5
  <2>2. PICK v \in DOMAIN f, z \in DOMAIN g : Of(u, v, z)
    BY <1>5
  <2>3. /\ \A a \in h : w[t][a] = f[p][a] /\ w[u][a] = f[v][a]
        /\ \A a \in k : w[t][a] = g[q][a] /\ w[u][a] = g[z][a]
    BY <1>6, <2>1, <2>2
  <2>4. ASSUME NEW i \in ls, i \subseteq key \/ (q = z /\ i \subseteq h \cap k) PROVE p = v
    <3>1. i \subseteq h /\ Identified(i, f)
      BY <1>3, <1>4
    <3>2. \A a \in i : f[p][a] = f[v][a]
      <4>1. CASE i \subseteq key
        BY <1>7, <2>3, <3>1, <4>1
      <4>2. CASE q = z /\ i \subseteq h \cap k
        BY <2>3, <4>2
      <4> QED BY <2>4, <4>1, <4>2
    <3> QED BY <3>1, <3>2 DEF Identified
  <2>5. ASSUME NEW j \in rs, j \subseteq key \/ (p = v /\ j \subseteq h \cap k) PROVE q = z
    <3>1. j \subseteq k /\ Identified(j, g)
      BY <1>3, <1>4
    <3>2. \A a \in j : g[q][a] = g[z][a]
      <4>1. CASE j \subseteq key
        BY <1>7, <2>3, <3>1, <4>1
      <4>2. CASE p = v /\ j \subseteq h \cap k
        BY <2>3, <4>2
      <4> QED BY <2>5, <4>1, <4>2
    <3> QED BY <3>1, <3>2 DEF Identified
  <2>6. \/ key \in ls /\ \E j \in rs : j \subseteq h \cap k
        \/ key \in rs /\ \E i \in ls : i \subseteq h \cap k
        \/ \E i \in ls, j \in rs : key = i \cup j
    BY <1>2 DEF JoinKeys
  <2>7. p = v /\ q = z
    <3>1. CASE key \in ls /\ \E j \in rs : j \subseteq h \cap k
      BY <2>4, <2>5, <3>1
    <3>2. CASE key \in rs /\ \E i \in ls : i \subseteq h \cap k
      BY <2>4, <2>5, <3>2
    <3>3. CASE \E i \in ls, j \in rs : key = i \cup j
      BY <2>4, <2>5, <3>3
    <3> QED BY <2>6, <3>1, <3>2, <3>3
  <2> QED BY <2>1, <2>2, <2>7 DEF Of
<1>8. ASSUME CardLeOne[x], NEW t \in DOMAIN w, NEW u \in DOMAIN w PROVE t = u
  <2>1. /\ \A p, v \in DOMAIN f : p = v
        /\ \A q, z \in DOMAIN g : q = z
    BY <1>8, CardFacts DEF Known
  <2>2. PICK p \in DOMAIN f, q \in DOMAIN g : Of(t, p, q)
    BY <1>5
  <2>3. PICK v \in DOMAIN f, z \in DOMAIN g : Of(u, v, z)
    BY <1>5
  <2>4. p = v /\ q = z
    BY <2>1
  <2> QED BY <2>2, <2>3, <2>4 DEF Of
<1>9. \A t \in DOMAIN w : DOMAIN w[t] = TreeHeading[x]
  BY <1>2, <1>5, <1>6
<1>10. \A key \in SurvivingKeys[x] : Identified(key, w)
  BY <1>7 DEF Identified
<1> QED BY <1>8, <1>9, <1>10 DEF Known

\* Every tuple of the listing a row of the other shows: keys go over to it.
LEMMA RangeKnown ==
    ASSUME NEW x \in Trees, NEW f, Known(x, f),
           NEW g, \A t \in DOMAIN g : g[t] = t /\ \E p \in DOMAIN f : t = f[p]
    PROVE  Known(x, g)
<1>1. \A t \in DOMAIN g : DOMAIN g[t] = TreeHeading[x]
  BY DEF Known
<1>2. ASSUME NEW k \in SurvivingKeys[x], NEW t \in DOMAIN g, NEW u \in DOMAIN g,
             \A a \in k : g[t][a] = g[u][a]
      PROVE  t = u
  <2>1. PICK p \in DOMAIN f : t = f[p]
    OBVIOUS
  <2>2. PICK q \in DOMAIN f : u = f[q]
    OBVIOUS
  <2>3. Identified(k, f) /\ \A a \in k : f[p][a] = f[q][a]
    BY <1>2, <2>1, <2>2 DEF Known
  <2> QED BY <2>1, <2>2, <2>3 DEF Identified
<1>3. CardLeOne[x] => \A t, u \in DOMAIN g : t = u
  BY DEF Known
<1>4. \A k \in SurvivingKeys[x] : Identified(k, g)
  BY <1>2 DEF Identified
<1> QED BY <1>1, <1>3, <1>4 DEF Known

Itself(rows) == [t \in rows |-> t]

\* The keys inferred for a tree are keys of what it means.
LEMMA MeaningKnown ==
    ASSUME NEW db, IsDb(db), KeysHold(db)
    PROVE  \A x \in Trees : Known(x, Itself(Meaning(db)[x]))
<1> DEFINE M(x) == Meaning(db)[x]
           S == {x \in Trees : Known(x, Itself(M(x)))}
<1>0. ASSUME NEW x \in Trees
      PROVE  /\ DOMAIN Itself(M(x)) = M(x)
             /\ \A t \in M(x) : Itself(M(x))[t] = t /\ DOMAIN t = TreeHeading[x]
  <2>1. M(x) \in Rows(TreeHeading[x])
    BY MeaningTyped
  <2> QED BY <2>1 DEF Itself, Rows
<1>1. ASSUME NEW x \in Trees, \A o \in Trees : TreeHeight[o] < TreeHeight[x] => o \in S
      PROVE  Known(x, Itself(M(x)))
  <2> DEFINE g == Itself(M(x))
  <2>0. DOMAIN g = M(x) /\ \A t \in M(x) : g[t] = t /\ DOMAIN t = TreeHeading[x]
    BY <1>0
  <2>1. CASE x.op = "ref"
    <3>1. M(x) = db[x.name] /\ SurvivingKeys[x] = Keys[x.name] /\ x.name \in Relvars /\ ~CardLeOne[x]
      BY <2>1, MeaningFacts, KeysFacts, FormedFacts, CardFacts
    <3>2. \A k \in SurvivingKeys[x] : Identifies(k, M(x))
      BY <3>1 DEF KeysHold
    <3> HIDE DEF M, g
    <3>3. \A k \in SurvivingKeys[x] : Identified(k, g)
      BY <2>0, <3>2, IdentifiesSame DEF Identified
    <3> QED BY <2>0, <3>1, <3>3 DEF Known, g
  <2>2. CASE x.op = "param"
    <3>1. SurvivingKeys[x] = {HeadingOf[x.ast]}
      BY <2>2, KeysFacts
    <3>2. TreeHeading[x] = HeadingOf[x.ast] /\ ~CardLeOne[x]
      BY <2>2, TreeHeadingFacts, CardFacts
    <3>3. M(x) \in Rows(TreeHeading[x])
      BY MeaningTyped
    <3> HIDE DEF M, g
    <3>4. Identified(TreeHeading[x], g)
      <4>1. \A t \in M(x) : t = [a \in TreeHeading[x] |-> t[a]]
        BY <3>3 DEF Rows
      <4> QED BY <2>0, <4>1 DEF Identified
    <3> QED BY <2>0, <3>1, <3>2, <3>4 DEF Known, g
  <2>3. CASE x.op \in ChainOps
    <3> DEFINE f == Itself(M(x.in))
    <3>1. x.in \in Trees /\ Known(x.in, f)
      BY <1>1, <2>3, TreeShapes
    <3>2. DOMAIN f = M(x.in) /\ \A t \in M(x.in) : f[t] = t
      BY <1>0, <3>1
    <3>3. CASE x.op = "restrict"
      <4>1. M(x) = {t \in M(x.in) : Holds(x.pred, t)}
        BY <3>3, MeaningFacts
      <4> HIDE DEF M, f, g
      <4>2. DOMAIN g \subseteq DOMAIN f /\ \A t \in DOMAIN g : g[t] = f[t] /\ Holds(x.pred, f[t])
        BY <2>0, <3>2, <4>1
      <4>3. Known(x, g)
        BY <3>1, <3>3, <4>2, RestrictKnown
      <4> QED BY <4>3 DEF g
    <3>4. CASE x.op \in {"extend", "project", "rename"}
      <4> DEFINE w == [t \in M(x.in) |-> OneStep(x, t)]
      <4>1. M(x) = {OneStep(x, t) : t \in M(x.in)}
        <5>1. CASE x.op = "extend"
          <6>1. M(x) = {Extended(x.adds, t) : t \in M(x.in)}
            BY <5>1, MeaningFacts
          <6> HIDE DEF M
          <6> QED BY <5>1, <6>1 DEF OneStep
        <5>2. CASE x.op = "project"
          <6>1. M(x) = {Restrict(t, x.keep) : t \in M(x.in)}
            BY <5>2, MeaningFacts
          <6> HIDE DEF M
          <6> QED BY <5>2, <6>1 DEF OneStep
        <5>3. CASE x.op = "rename"
          <6>1. M(x) = {Renamed(x.to, t) : t \in M(x.in)}
            BY <5>3, MeaningFacts
          <6> HIDE DEF M
          <6> QED BY <5>3, <6>1 DEF OneStep
        <5> QED BY <3>4, <5>1, <5>2, <5>3
      <4>2. DOMAIN w = DOMAIN f /\ \A t \in DOMAIN f : w[t] = OneStep(x, f[t])
        BY <3>2
      <4>3. \A t \in M(x.in) : w[t] = OneStep(x, t)
        OBVIOUS
      <4> HIDE DEF M, f, g, w
      <4>4. Known(x, w)
        BY <3>1, <3>4, <4>2, ChainKnown
      <4>5. \A t \in DOMAIN g : g[t] = t /\ \E p \in DOMAIN w : t = w[p]
        BY <2>0, <3>2, <4>1, <4>2, <4>3
      <4>6. Known(x, g)
        BY <4>4, <4>5, RangeKnown
      <4> QED BY <4>6 DEF g
    <3> QED BY <2>3, <3>3, <3>4 DEF ChainOps
  <2>4. CASE x.op \in TreePairs
    <3> DEFINE f == Itself(M(x.l))
               w == Itself(M(x.r))
    <3>1. x.l \in Trees /\ Known(x.l, f) /\ x.r \in Trees /\ Known(x.r, w)
      BY <1>1, <2>4, TreeShapes
    <3>2. /\ DOMAIN f = M(x.l) /\ \A t \in M(x.l) : f[t] = t
          /\ DOMAIN w = M(x.r) /\ \A t \in M(x.r) : w[t] = t
      BY <1>0, <3>1
    <3>3. CASE x.op = "and"
      <4>1. M(x) = Joined(M(x.l), M(x.r))
        BY <3>3, JoinMeaning
      <4> HIDE DEF M, f, g, w
      <4>2. \A t \in M(x) : \E p \in M(x.l), q \in M(x.r) : Agree(p, q) /\ t = Beside(p, q)
        BY <4>1, JoinedMember
      <4>3. \A t \in DOMAIN g : \E p \in DOMAIN f, q \in DOMAIN w :
               t = Beside(p, q) /\ Agree(f[p], w[q]) /\ g[t] = Beside(f[p], w[q])
        BY <2>0, <3>2, <4>2
      <4>4. Known(x, g)
        BY <3>1, <3>3, <4>3, JoinKnown
      <4> QED BY <4>4 DEF g
    <3>4. CASE x.op = "or"
      <4>1. SurvivingKeys[x] = {} /\ ~CardLeOne[x]
        BY <3>4, KeysFacts, CardFacts
      <4> HIDE DEF M, g
      <4>2. Known(x, g)
        BY <2>0, <4>1 DEF Known
      <4> QED BY <4>2 DEF g
    <3>5. CASE x.op \in {"minus", "semi"}
      <4>1. M(x) \subseteq M(x.l)
        <5>1. Partnered(M(x.l), M(x.r)) \subseteq M(x.l)
          <6> HIDE DEF M
          <6> QED BY DEF Partnered
        <5>2. CASE x.op = "minus"
          <6>1. M(x) = M(x.l) \ M(x.r)
            BY <5>2, MeaningFacts
          <6> HIDE DEF M
          <6> QED BY <6>1
        <5>3. CASE x.op = "semi"
          <6>1. M(x) = IF x.negated THEN M(x.l) \ Partnered(M(x.l), M(x.r)) ELSE Partnered(M(x.l), M(x.r))
            BY <5>3, SemiMeaning
          <6> HIDE DEF M
          <6> QED BY <5>1, <6>1
        <5> QED BY <3>5, <5>2, <5>3
      <4> HIDE DEF M, f, g
      <4>2. DOMAIN g \subseteq DOMAIN f /\ \A t \in DOMAIN g : g[t] = f[t]
        BY <2>0, <3>2, <4>1
      <4>3. Known(x, g)
        BY <3>1, <3>5, <4>2, LessKnown
      <4> QED BY <4>3 DEF g
    <3> QED BY <2>4, <3>3, <3>4, <3>5 DEF TreePairs
  <2> HIDE DEF M, g
  <2> QED BY <2>1, <2>2, <2>3, <2>4, TreeShapes
<1>2. \A x \in Trees : x \in S
  <2>1. \A x \in Trees : TreeHeight[x] \in Nat
    BY TreesAssumption
  <2>2. \A x \in Trees : (\A o \in Trees : TreeHeight[o] < TreeHeight[x] => o \in S) => x \in S
    BY <1>1
  <2> HIDE DEF S
  <2> QED BY <2>1, <2>2, RMeaning!Induction
<1> QED BY <1>2

\* The rows of a FROM clause and the tuples its columns show.
Shows(x, db) == [t \in From(db)[x] |-> View(Columns[x], t)]

LEMMA FromKnown ==
    ASSUME JoinsAlign, NEW db, IsDb(db), KeysHold(db)
    PROVE  \A x \in Trees : Resolves[x] => Known(x, Shows(x, db))
<1> DEFINE F(x) == From(db)[x]
           V(x, t) == View(Columns[x], t)
           S == {x \in Trees : Resolves[x] => Known(x, Shows(x, db))}
<1>0. ASSUME NEW x \in Trees, Resolves[x]
      PROVE  /\ FromTyped(x, db) /\ DOMAIN Columns[x] = TreeHeading[x]
             /\ DOMAIN Shows(x, db) = F(x)
             /\ \A t \in F(x) : Shows(x, db)[t] = V(x, t) /\ DOMAIN V(x, t) = TreeHeading[x]
  <2>1. FromTyped(x, db)
    BY <1>0, ResolveMeans
  <2>2. DOMAIN Columns[x] = TreeHeading[x]
    BY <2>1 DEF FromTyped, Column
  <2> QED BY <2>1, <2>2 DEF Shows, View
<1>1. ASSUME NEW x \in Trees, \A o \in Trees : TreeHeight[o] < TreeHeight[x] => o \in S, Resolves[x]
      PROVE  Known(x, Shows(x, db))
  <2> DEFINE g == Shows(x, db)
  <2>0. DOMAIN g = F(x) /\ \A t \in F(x) : g[t] = V(x, t) /\ DOMAIN V(x, t) = TreeHeading[x]
    BY <1>0, <1>1
  <2>1. CASE x.op \in {"ref", "param"}
    <3>1. Columns[x] = [a \in TreeHeading[x] |-> a] /\ F(x) = Meaning(db)[x]
      <4>1. CASE x.op = "ref"
        <5>1. Columns[x] = [a \in Schema[x.name] |-> a]
          BY <4>1, ColumnsFacts
        <5>2. TreeHeading[x] = Schema[x.name]
          BY <4>1, TreeHeadingFacts
        <5>3. F(x) = db[x.name] /\ Meaning(db)[x] = db[x.name]
          BY <4>1, FromFacts, MeaningFacts
        <5> QED BY <5>1, <5>2, <5>3
      <4>2. CASE x.op = "param"
        <5>1. Columns[x] = [a \in HeadingOf[x.ast] |-> a]
          BY <4>2, ColumnsFacts
        <5>2. TreeHeading[x] = HeadingOf[x.ast]
          BY <4>2, TreeHeadingFacts
        <5>3. F(x) = Eval(x.ast, db) /\ Meaning(db)[x] = Eval(x.ast, db)
          BY <4>2, FromFacts, MeaningFacts
        <5> QED BY <5>1, <5>2, <5>3
      <4> QED BY <2>1, <4>1, <4>2
    <3>2. F(x) \in Rows(TreeHeading[x])
      BY <3>1, MeaningTyped
    <3>3. \A t \in F(x) : V(x, t) = t
      BY <3>1, <3>2, ViewSame DEF Rows
    <3>4. Known(x, Itself(Meaning(db)[x]))
      BY MeaningKnown
    <3> HIDE DEF F, V, g
    <3>5. g = Itself(Meaning(db)[x])
      <4>1. g = [t \in F(x) |-> V(x, t)]
        BY DEF g, Shows, F, V
      <4> QED BY <3>1, <3>3, <4>1 DEF Itself
    <3> QED BY <3>4, <3>5 DEF g
  <2>2. CASE x.op \in {"restrict", "project", "rename"}
    <3> DEFINE f == Shows(x.in, db)
               c == Columns[x.in]
    <3>1. x.in \in Trees /\ Resolves[x.in] /\ Known(x.in, f)
      BY <1>1, <2>2, TreeShapes, ResolvesFacts DEF ChainOps
    <3>2. DOMAIN f = F(x.in) /\ (\A t \in F(x.in) : f[t] = View(c, t)) /\ DOMAIN c = TreeHeading[x.in]
      BY <1>0, <3>1
    <3>3. CASE x.op = "restrict"
      <4>1. Columns[x] = c
        BY <3>3, ColumnsFacts
      <4>2. x.pred.attr \in DOMAIN c /\ IsLit(x.pred.arg)
        BY <3>2, <3>3, FormedFacts DEF Pushable, Predicates
      <4>3. \A t : Compare(t[c[x.pred.attr]], x.pred.cmp, x.pred.arg.lit) <=> Holds(x.pred, View(c, t))
        BY <4>2 DEF Holds, Scalar, View
      <4>4. F(x) = {t \in F(x.in) : Compare(t[c[x.pred.attr]], x.pred.cmp, x.pred.arg.lit)}
        BY <3>3, FromFacts
      <4> HIDE DEF F, f, g, c
      <4>5. DOMAIN g \subseteq DOMAIN f /\ \A t \in DOMAIN g : g[t] = f[t] /\ Holds(x.pred, f[t])
        BY <2>0, <3>2, <4>1, <4>3, <4>4
      <4>6. Known(x, g)
        BY <3>1, <3>3, <4>5, RestrictKnown
      <4> QED BY <4>6 DEF g
    <3>4. CASE x.op \in {"project", "rename"}
      <4>1. F(x) = F(x.in)
        BY <3>4, FromFacts
      <4>2. \A t : V(x, t) = OneStep(x, View(c, t))
        <5>1. CASE x.op = "project"
          <6>1. Columns[x] = Restrict(c, x.keep) /\ x.keep \in SUBSET DOMAIN c
            BY <3>2, <5>1, ColumnsFacts, FormedFacts
          <6>2. \A t : View(Restrict(c, x.keep), t) = Restrict(View(c, t), x.keep)
            <7> HIDE DEF c
            <7> QED BY <6>1, ViewRestrict
          <6> QED BY <5>1, <6>1, <6>2 DEF OneStep
        <5>2. CASE x.op = "rename"
          <6>1. Columns[x] = Renamed(x.to, c) /\ Renames(x.to, DOMAIN c)
            BY <3>2, <5>2, ColumnsFacts, FormedFacts
          <6>2. \A t : View(Renamed(x.to, c), t) = Renamed(x.to, View(c, t))
            <7> HIDE DEF c
            <7> QED BY <6>1, ViewRenamed
          <6> QED BY <5>2, <6>1, <6>2 DEF OneStep
        <5> QED BY <3>4, <5>1, <5>2
      <4> HIDE DEF F, f, g, c, V
      <4>3. DOMAIN g = DOMAIN f /\ \A t \in DOMAIN f : g[t] = OneStep(x, f[t])
        BY <2>0, <3>2, <4>1, <4>2
      <4>4. Known(x, g)
        BY <3>1, <3>4, <4>3, ChainKnown
      <4> QED BY <4>4 DEF g
    <3> QED BY <2>2, <3>3, <3>4
  <2>3. CASE x.op = "and"
    <3> DEFINE f == Shows(x.l, db)
               w == Shows(x.r, db)
               c == Columns[x.l]
               d == Columns[x.r]
               b == Columns[x]
               h == TreeHeading[x.l]
               k == TreeHeading[x.r]
               P == Physical[x.l]
               Q == Physical[x.r]
    <3>1. /\ x.l \in Trees /\ Resolves[x.l] /\ Known(x.l, f)
          /\ x.r \in Trees /\ Resolves[x.r] /\ Known(x.r, w)
      BY <1>1, <2>3, TreeShapes, ResolvesFacts DEF TreePairs
    <3>2. /\ DOMAIN f = F(x.l) /\ \A t \in F(x.l) : f[t] = View(c, t)
          /\ DOMAIN w = F(x.r) /\ \A t \in F(x.r) : w[t] = View(d, t)
          /\ FromTyped(x.l, db) /\ FromTyped(x.r, db)
      BY <1>0, <3>1
    <3>3. Aligned(c, d, h, k, P, Q) /\ b = Either(c, d, h, k) /\ F(x) = Joined(F(x.l), F(x.r))
      BY <1>1, <2>3, <3>2, JoinAligned
    <3>4. F(x.l) \in Rows(P) /\ F(x.r) \in Rows(Q)
      BY <3>2 DEF FromTyped
    <3> HIDE DEF F, f, w, b, c, d, h, k, P, Q
    <3>5. ASSUME NEW p \in F(x.l), NEW q \in F(x.r)
          PROVE  /\ Agree(p, q) <=> Agree(View(c, p), View(d, q))
                 /\ Agree(p, q) => View(b, Beside(p, q)) = Beside(View(c, p), View(d, q))
      <4>1. p \in [P -> Int] /\ q \in [Q -> Int]
        BY <3>4 DEF Rows
      <4> QED BY <3>3, <4>1, AlignedRows
    <3>6. ASSUME NEW t \in F(x)
          PROVE  \E p \in DOMAIN f, q \in DOMAIN w :
                    t = Beside(p, q) /\ Agree(f[p], w[q]) /\ View(b, t) = Beside(f[p], w[q])
      <4>1. PICK p \in F(x.l), q \in F(x.r) : Agree(p, q) /\ t = Beside(p, q)
        BY <3>3, JoinedMember
      <4>2. p \in DOMAIN f /\ q \in DOMAIN w /\ f[p] = View(c, p) /\ w[q] = View(d, q)
        BY <3>2
      <4> QED BY <3>5, <4>1, <4>2
    <3>7. DOMAIN g = F(x) /\ \A t \in F(x) : g[t] = View(b, t)
      BY <2>0 DEF b
    <3> HIDE DEF g
    <3>8. \A t \in DOMAIN g : \E p \in DOMAIN f, q \in DOMAIN w :
             t = Beside(p, q) /\ Agree(f[p], w[q]) /\ g[t] = Beside(f[p], w[q])
      BY <3>6, <3>7
    <3>9. Known(x, g)
      BY <2>3, <3>1, <3>8, JoinKnown
    <3> QED BY <3>9 DEF g
  <2> QED BY <1>1, <2>1, <2>2, <2>3, TreeShapes, ResolvesFacts DEF ChainOps, TreePairs
<1>2. \A x \in Trees : x \in S
  <2>1. \A x \in Trees : TreeHeight[x] \in Nat
    BY TreesAssumption
  <2>2. \A x \in Trees : (\A o \in Trees : TreeHeight[o] < TreeHeight[x] => o \in S) => x \in S
    BY <1>1
  <2> HIDE DEF S
  <2> QED BY <2>1, <2>2, RMeaning!Induction
<1> QED BY <1>2

\* What the SELECT of a tree lists, and the tuples it shows.
LEMMA ListedKnown ==
    ASSUME SetOpsNestLeft, JoinsAlign, NEW db, IsDb(db), KeysHold(db),
           NEW x \in Trees, Emits[x], ~Compound(x), x.op # "semi"
    PROVE  Known(x, [t \in Listed(x, db) |-> Shown(x, t)])
<1> DEFINE D == Listed(x, db)
           g == [t \in D |-> Shown(x, t)]
<1>0. DOMAIN g = D /\ \A t \in D : g[t] = Shown(x, t)
  OBVIOUS
<1>1. CASE Exists(x)
  <2> DEFINE s == Semi(x)
             f == Itself(Meaning(db)[s])
  <2>1. s \in Trees /\ s.op = "semi" /\ s.l \in Trees /\ s.r \in Trees /\ Emits[s.l] /\ Emits[s.r]
    BY <1>1, RootShapes, EmitsFacts
  <2>2. x.op = "project" /\ s = x.in
    BY <1>1 DEF Exists, Semi, Peel
  <2>3. D = Correlated(s, Meaning(db)[s.l], Meaning(db)[s.r])
    BY <1>1, <2>1, SqlMeans DEF Listed
  <2>4. D = Meaning(db)[s]
    BY <2>1, <2>3, CorrelatedMeans
  <2>5. Known(s, f)
    BY <2>1, MeaningKnown
  <2>6. \A t : Shown(x, t) = OneStep(x, t)
    BY <1>1, <2>2 DEF Shown, Kept, OneStep
  <2>7. DOMAIN f = D /\ \A t \in D : f[t] = t
    BY <2>4 DEF Itself
  <2> HIDE DEF D, f, g
  <2>8. DOMAIN g = DOMAIN f /\ \A t \in DOMAIN f : g[t] = OneStep(x, f[t])
    BY <1>0, <2>6, <2>7
  <2>9. Known(x.in, f)
    BY <2>2, <2>5
  <2>10. Known(x, g)
    BY <2>2, <2>8, <2>9, ChainKnown
  <2> QED BY <2>10 DEF g, D
<1>2. CASE ~Exists(x) /\ ~Computes(x)
  <2>1. Source(x) = x /\ Resolves[x] /\ D = From(db)[x]
    BY <1>2, EmitsFacts DEF Source, Listed
  <2>2. \A t : Shown(x, t) = View(Columns[x], t)
    BY <1>2, <2>1 DEF Shown
  <2>3. Known(x, Shows(x, db))
    BY <2>1, FromKnown
  <2> HIDE DEF D
  <2>4. [t \in D |-> Shown(x, t)] = Shows(x, db)
    BY <2>1, <2>2 DEF Shows
  <2> QED BY <2>3, <2>4 DEF D
<1>3. CASE ~Exists(x) /\ Computes(x)
  <2> DEFINE y == Peel(x, "rename")
             z == Core(x)
             f == Shows(z.in, db)
             wide == [t \in D |-> OneStep(z, f[t])]
             kept == [t \in D |-> Kept(y, wide[t])]
  <2>1. y \in Trees /\ z \in Trees /\ z.op = "extend" /\ z.in \in Trees /\ z = Peel(y, "project")
    BY <1>3, CoreIsTree
  <2>2. Source(x) = z.in /\ Resolves[z.in] /\ D = From(db)[z.in]
    BY <1>3, EmitsFacts DEF Source, Listed
  <2>3. \A t : Shown(x, t) = NamedAnew(x, Kept(y, Extended(z.adds, View(Columns[z.in], t))))
    BY <1>3, <2>2 DEF Shown
  <2>4. Known(z.in, f)
    BY <2>1, <2>2, FromKnown
  <2>5. DOMAIN f = D /\ \A t \in D : f[t] = View(Columns[z.in], t)
    BY <2>2 DEF Shows
  <2>6. DOMAIN wide = D /\ \A t \in D : wide[t] = OneStep(z, f[t])
    OBVIOUS
  <2>7. DOMAIN kept = D /\ \A t \in D : kept[t] = Kept(y, wide[t])
    OBVIOUS
  <2> HIDE DEF D, f, g, wide, kept, y, z
  <2>8. Known(z, wide)
    BY <2>1, <2>4, <2>5, <2>6, ChainKnown
  <2>9. Known(y, kept)
    <3>1. CASE y.op = "project"
      <4>1. z = y.in
        BY <2>1, <3>1 DEF Peel
      <4>2. \A t \in DOMAIN wide : kept[t] = OneStep(y, wide[t])
        BY <2>6, <2>7, <3>1 DEF Kept, OneStep
      <4>3. Known(y.in, wide)
        BY <2>8, <4>1
      <4> QED BY <2>1, <2>6, <2>7, <3>1, <4>2, <4>3, ChainKnown
    <3>2. CASE y.op # "project"
      <4>1. z = y
        BY <2>1, <3>2 DEF Peel
      <4>2. kept = wide
        <5>1. \A t \in D : kept[t] = wide[t]
          BY <2>7, <3>2 DEF Kept
        <5>2. kept = [t \in D |-> kept[t]] /\ wide = [t \in D |-> wide[t]]
          BY DEF kept, wide
        <5> QED BY <5>1, <5>2
      <4> QED BY <2>8, <4>1, <4>2
    <3> QED BY <3>1, <3>2
  <2>10. \A t \in D : g[t] = NamedAnew(x, kept[t])
    BY <1>0, <2>1, <2>3, <2>5, <2>6, <2>7 DEF OneStep
  <2>11. Known(x, g)
    <3>1. CASE x.op = "rename"
      <4>1. y = x.in
        BY <3>1 DEF Peel, y
      <4>2. \A t \in DOMAIN kept : g[t] = OneStep(x, kept[t])
        BY <2>7, <2>10, <3>1 DEF NamedAnew, OneStep
      <4>3. Known(x.in, kept)
        BY <2>9, <4>1
      <4> QED BY <1>0, <2>7, <3>1, <4>2, <4>3, ChainKnown
    <3>2. CASE x.op # "rename"
      <4>1. y = x
        BY <3>2 DEF Peel, y
      <4>2. g = kept
        <5>1. \A t \in D : g[t] = kept[t]
          BY <2>10, <3>2 DEF NamedAnew
        <5>2. kept = [t \in D |-> kept[t]] /\ g = [t \in D |-> g[t]]
          BY DEF kept, g
        <5> QED BY <5>1, <5>2
      <4> QED BY <2>9, <4>1, <4>2
    <3> QED BY <3>1, <3>2
  <2> QED BY <2>11 DEF g, D
<1> QED BY <1>1, <1>2, <1>3

\* Where the emitter leaves DISTINCT out, none is needed.
THEOREM DistinctIsRedundant ==
    ASSUME SetOpsNestLeft, JoinsAlign, NEW db, IsDb(db), KeysHold(db)
    PROVE  \A x \in Trees : Emits[x] => Repeated(x, db) = {}
<1> DEFINE S == {x \in Trees : Emits[x] => Repeated(x, db) = {}}
<1>1. ASSUME NEW x \in Trees, \A o \in Trees : TreeHeight[o] < TreeHeight[x] => o \in S, Emits[x]
      PROVE  Repeated(x, db) = {}
  <2>1. CASE Compound(x) \/ Distinct(x)
    BY <2>1, RepeatedFacts
  <2>2. CASE ~Compound(x) /\ ~Distinct(x)
    <3>1. ASSUME NEW t \in Listed(x, db), NEW u \in Listed(x, db), Shown(x, u) = Shown(x, t)
          PROVE  u = t
      <4>1. CASE x.op = "semi"
        <5>1. \A v : Shown(x, v) = v
          BY <4>1 DEF Shown, Exists, Semi, Peel, Kept
        <5> QED BY <3>1, <5>1
      <4>2. CASE x.op # "semi"
        <5> DEFINE g == [v \in Listed(x, db) |-> Shown(x, v)]
        <5>1. Known(x, g)
          BY <1>1, <2>2, <4>2, ListedKnown
        <5>2. CardLeOne[x] \/ SurvivingKeys[x] # {}
          BY <2>2, <4>2 DEF Distinct, NeedsDistinct
        <5>3. t \in DOMAIN g /\ u \in DOMAIN g /\ g[t] = g[u]
          BY <3>1
        <5> HIDE DEF g
        <5> QED BY <5>1, <5>2, <5>3 DEF Known, Identified
      <4> QED BY <4>1, <4>2
    <3>2. Exists(x) => Repeated(Semi(x).l, db) = {}
      BY <1>1, <2>2, RootShapes, EmitsFacts
    <3>3. Repeated(x, db) = {Shown(x, t) : t \in {t \in Listed(x, db) :
                \/ Exists(x) /\ t \in Repeated(Semi(x).l, db)
                \/ \E u \in Listed(x, db) : u # t /\ Shown(x, u) = Shown(x, t)}}
      BY <2>2, RepeatedFacts
    <3>4. {t \in Listed(x, db) :
                \/ Exists(x) /\ t \in Repeated(Semi(x).l, db)
                \/ \E u \in Listed(x, db) : u # t /\ Shown(x, u) = Shown(x, t)} = {}
      BY <3>1, <3>2
    <3> QED BY <3>3, <3>4
  <2> QED BY <2>1, <2>2
<1>2. \A x \in Trees : x \in S
  <2>1. \A x \in Trees : TreeHeight[x] \in Nat
    BY TreesAssumption
  <2>2. \A x \in Trees : (\A o \in Trees : TreeHeight[o] < TreeHeight[x] => o \in S) => x \in S
    BY <1>1
  <2> HIDE DEF S
  <2> QED BY <2>1, <2>2, RMeaning!Induction
<1> QED BY <1>2
=============================================================================
