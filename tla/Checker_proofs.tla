--------------------------- MODULE Checker_proofs ---------------------------
(***************************************************************************)
(* Theorems about Checker for every choice of names, relvars, literals and *)
(* bounds. First, what the checker counts in transaction_depth is what     *)
(* every execution of the program so far has open, through whatever        *)
(* blocks, so its transaction rules speak of executions. Then what its     *)
(* scopes and those executions are, and how the ones follow the other.     *)
(* Last, that the scope the checker keeps and the frames of every          *)
(* execution are the same stack, so that what the checker says of a        *)
(* binding (which one a name means, its type, whether it has a value) is   *)
(* true of the cell behind it.                                             *)
(***************************************************************************)
EXTENDS Checker, TLAPS, FiniteSetTheorems, WellFoundedInduction

-----------------------------------------------------------------------------
(* The inductive invariant.  It says nothing of a program already refused:  *)
(* the checker's walk ends there.                                           *)

At(w, depth) == "depth" \in DOMAIN w /\ w.depth = depth
AllAt(ws, depth) == \A w \in ws : At(w, depth)

\* The events the transaction rules rule out.
Clean(happened) ==
    /\ "impure" \notin happened /\ "open bracket" \notin happened
    /\ "BareReplace" \in Excluded => "bare access" \notin happened

\* A sequence, of whatever its elements are.
IsSeq(s) == s \in Seq({s[i] : i \in DOMAIN s})

BlockFields == {"form", "use", "id", "diverges", "snap", "thenTy", "thenInit", "cond", "before", "after"}

\* A block and the worlds put aside in it; only the operator's own is "oper".
BlockAt(b, depth, outermost) ==
    /\ DOMAIN b = BlockFields
    /\ b.form = "oper" <=> outermost
    /\ b.cond \in Conditions
    /\ AllAt(b.before, depth) /\ AllAt(b.after, depth)

\* d[i] transactions are open within the first i blocks.
Levels(bs, depth, d) ==
    /\ d[0] = 0 /\ d[Len(bs)] = depth
    /\ \A i \in 1 .. Len(bs) :
          /\ d[i] = IF bs[i].form = "transaction" THEN d[i - 1] + 1 ELSE d[i - 1]
          /\ BlockAt(bs[i], d[i], i = 1)

Nested(bs, depth) ==
    /\ IsSeq(bs)
    /\ bs # << >> => \E d \in [0 .. Len(bs) -> Int] : Levels(bs, depth, d)

DepthsAgree == txDepth \in Int /\ AllAt(worlds, txDepth)

IndInv == errors = {} => DepthsAgree /\ Clean(events) /\ Nested(blocks, txDepth)

-----------------------------------------------------------------------------
(* Sequences whose elements have no common type.                            *)

LEMMA AnySeq ==
    ASSUME NEW S, NEW s \in Seq(S)
    PROVE  IsSeq(s)
<1>1. DOMAIN s = 1 .. Len(s) /\ Len(s) \in Nat /\ s \in [1 .. Len(s) -> S]
  OBVIOUS
<1>2. s \in [1 .. Len(s) -> {s[i] : i \in DOMAIN s}]
  BY <1>1
<1> QED BY <1>1, <1>2 DEF IsSeq

LEMMA AppendSeq ==
    ASSUME NEW s, IsSeq(s), NEW x
    PROVE  /\ IsSeq(Append(s, x))
           /\ Len(s) \in Nat /\ Len(Append(s, x)) = Len(s) + 1
           /\ \A i \in 1 .. Len(s) : Append(s, x)[i] = s[i]
           /\ Append(s, x)[Len(s) + 1] = x
           /\ Append(s, x) # << >>
<1>1. PICK S : S = {s[i] : i \in DOMAIN s} \cup {x}
  OBVIOUS
<1>2. s \in Seq(S) /\ x \in S
  BY <1>1 DEF IsSeq
<1>3. Append(s, x) \in Seq(S)
  BY <1>2
<1>4. IsSeq(Append(s, x))
  BY <1>3, AnySeq
<1> QED BY <1>2, <1>4

LEMMA TopSeq ==
    ASSUME NEW s, IsSeq(s), s # << >>, NEW x
    PROVE  /\ Len(s) \in Nat \ {0}
           /\ IsSeq([s EXCEPT ![Len(s)] = x])
           /\ Len([s EXCEPT ![Len(s)] = x]) = Len(s)
           /\ \A i \in 1 .. Len(s) - 1 : [s EXCEPT ![Len(s)] = x][i] = s[i]
           /\ [s EXCEPT ![Len(s)] = x][Len(s)] = x
           /\ [s EXCEPT ![Len(s)] = x] # << >>
<1>1. PICK S : S = {s[i] : i \in DOMAIN s} \cup {x}
  OBVIOUS
<1>2. s \in Seq(S) /\ x \in S
  BY <1>1 DEF IsSeq
<1>3. Len(s) \in Nat \ {0} /\ DOMAIN s = 1 .. Len(s)
  BY <1>2
<1>4. [s EXCEPT ![Len(s)] = x] \in Seq(S) /\ Len([s EXCEPT ![Len(s)] = x]) = Len(s)
  BY <1>2, <1>3
<1>5. IsSeq([s EXCEPT ![Len(s)] = x])
  BY <1>4, AnySeq
<1> QED BY <1>3, <1>4, <1>5

LEMMA PopSeq ==
    ASSUME NEW s, IsSeq(s), s # << >>
    PROVE  /\ Len(s) \in Nat \ {0}
           /\ IsSeq(SubSeq(s, 1, Len(s) - 1))
           /\ Len(SubSeq(s, 1, Len(s) - 1)) = Len(s) - 1
           /\ \A i \in 1 .. Len(s) - 1 : SubSeq(s, 1, Len(s) - 1)[i] = s[i]
<1>1. PICK S : S = {s[i] : i \in DOMAIN s}
  OBVIOUS
<1>2. s \in Seq(S)
  BY <1>1 DEF IsSeq
<1>3. Len(s) \in Nat \ {0} /\ DOMAIN s = 1 .. Len(s)
  BY <1>2
<1>4. SubSeq(s, 1, Len(s) - 1) \in Seq(S) /\ Len(SubSeq(s, 1, Len(s) - 1)) = Len(s) - 1
      /\ \A i \in 1 .. Len(s) - 1 : SubSeq(s, 1, Len(s) - 1)[i] = s[i]
  BY <1>2, <1>3
<1> QED BY <1>3, <1>4, AnySeq

-----------------------------------------------------------------------------
(* The stack of blocks.                                                     *)

\* Opening a block inside the innermost one.
LEMMA PushBlock ==
    ASSUME NEW bs, NEW depth \in Int, Nested(bs, depth), bs # << >>,
           NEW b, NEW inner \in Int, b.form # "oper", BlockAt(b, inner, FALSE),
           inner = IF b.form = "transaction" THEN depth + 1 ELSE depth
    PROVE  Nested(Append(bs, b), inner)
<1> DEFINE c == Append(bs, b)
           n == Len(bs)
<1>1. PICK d \in [0 .. n -> Int] : Levels(bs, depth, d)
  BY DEF Nested
<1>2. /\ IsSeq(c) /\ n \in Nat /\ Len(c) = n + 1
      /\ \A i \in 1 .. n : c[i] = bs[i]
      /\ c[n + 1] = b
  BY AppendSeq DEF Nested
<1>3. n # 0
  BY <1>2 DEF Nested, IsSeq
<1> HIDE DEF c, n
<1> DEFINE e == [i \in 0 .. n + 1 |-> IF i = n + 1 THEN inner ELSE d[i]]
<1>4. e \in [0 .. Len(c) -> Int]
  BY <1>2
<1>5. \A i \in 0 .. n : e[i] = d[i]
  BY <1>2
<1>6. e[n + 1] = inner
  BY <1>2
<1> HIDE DEF e
<1>7. d[0] = 0 /\ d[n] = depth
  BY <1>1 DEF Levels, n
<1>8. ASSUME NEW i \in 1 .. n + 1
      PROVE  /\ e[i] = IF c[i].form = "transaction" THEN e[i - 1] + 1 ELSE e[i - 1]
             /\ BlockAt(c[i], e[i], i = 1)
  <2>1. CASE i = n + 1
    <3>1. c[i] = b /\ e[i] = inner /\ e[i - 1] = depth /\ i # 1
      BY <1>2, <1>3, <1>5, <1>6, <1>7, <2>1
    <3> QED BY <3>1
  <2>2. CASE i # n + 1
    <3>1. i \in 1 .. n /\ i - 1 \in 0 .. n
      BY <1>2, <2>2
    <3>2. c[i] = bs[i] /\ e[i] = d[i] /\ e[i - 1] = d[i - 1]
      BY <1>2, <1>5, <3>1
    <3>3. /\ d[i] = IF bs[i].form = "transaction" THEN d[i - 1] + 1 ELSE d[i - 1]
          /\ BlockAt(bs[i], d[i], i = 1)
      BY <1>1, <3>1 DEF Levels, n
    <3> QED BY <3>2, <3>3
  <2> QED BY <2>1, <2>2
<1>9. Levels(c, inner, e)
  BY <1>2, <1>3, <1>5, <1>6, <1>7, <1>8 DEF Levels
<1> QED BY <1>2, <1>4, <1>9 DEF Nested, c

\* The innermost block changes, but not into or out of a transaction.
LEMMA ChangeBlock ==
    ASSUME NEW bs, NEW depth \in Int, Nested(bs, depth), bs # << >>,
           NEW b, (b.form = "transaction") <=> (bs[Len(bs)].form = "transaction"),
           \A outermost \in BOOLEAN : BlockAt(bs[Len(bs)], depth, outermost) => BlockAt(b, depth, outermost)
    PROVE  Nested([bs EXCEPT ![Len(bs)] = b], depth) /\ [bs EXCEPT ![Len(bs)] = b] # << >>
<1> DEFINE c == [bs EXCEPT ![Len(bs)] = b]
           n == Len(bs)
<1>1. PICK d \in [0 .. n -> Int] : Levels(bs, depth, d)
  BY DEF Nested
<1>2. /\ IsSeq(c) /\ n \in Nat \ {0} /\ Len(c) = n /\ c # << >>
      /\ \A i \in 1 .. n - 1 : c[i] = bs[i]
      /\ c[n] = b
  BY TopSeq DEF Nested
<1>3. (b.form = "transaction") <=> (bs[n].form = "transaction")
  OBVIOUS
<1>4. \A outermost \in BOOLEAN : BlockAt(bs[n], depth, outermost) => BlockAt(b, depth, outermost)
  OBVIOUS
<1>5. d[n] = depth
  BY <1>1 DEF Levels
<1>6. \A i \in 1 .. n : /\ d[i] = IF bs[i].form = "transaction" THEN d[i - 1] + 1 ELSE d[i - 1]
                        /\ BlockAt(bs[i], d[i], i = 1)
  BY <1>1 DEF Levels
<1>7. d[0] = 0 /\ d[Len(c)] = depth
  BY <1>1, <1>2, <1>5 DEF Levels
<1> HIDE DEF c, n
<1>8. ASSUME NEW i \in 1 .. n
      PROVE  /\ d[i] = IF c[i].form = "transaction" THEN d[i - 1] + 1 ELSE d[i - 1]
             /\ BlockAt(c[i], d[i], i = 1)
  <2>1. CASE i = n
    <3>1. BlockAt(b, depth, i = 1)
      BY <1>4, <1>5, <1>6, <2>1
    <3> QED BY <1>2, <1>3, <1>5, <1>6, <2>1, <3>1
  <2>2. CASE i # n
    <3>1. c[i] = bs[i]
      BY <1>2, <2>2
    <3>2. /\ d[i] = IF bs[i].form = "transaction" THEN d[i - 1] + 1 ELSE d[i - 1]
          /\ BlockAt(bs[i], d[i], i = 1)
      BY <1>6
    <3> QED BY <3>1, <3>2
  <2> QED BY <2>1, <2>2
<1>9. Levels(c, depth, d)
  BY <1>2, <1>7, <1>8 DEF Levels
<1>10. d \in [0 .. Len(c) -> Int]
  BY <1>1, <1>2 DEF n
<1> QED BY <1>2, <1>9, <1>10 DEF Nested, c

\* What the innermost block is, and what is left without it.
LEMMA PopBlock ==
    ASSUME NEW bs, NEW depth \in Int, Nested(bs, depth), bs # << >>
    PROVE  /\ BlockAt(bs[Len(bs)], depth, bs[Len(bs)].form = "oper")
           /\ bs[Len(bs)].form = "oper" => depth = 0
           /\ bs[Len(bs)].form # "oper" =>
                 LET left == SubSeq(bs, 1, Len(bs) - 1)
                     outer == IF bs[Len(bs)].form = "transaction" THEN depth - 1 ELSE depth
                 IN  left # << >> /\ Nested(left, outer)
<1> DEFINE n == Len(bs)
           c == SubSeq(bs, 1, n - 1)
           outer == IF bs[n].form = "transaction" THEN depth - 1 ELSE depth
<1>1. PICK d \in [0 .. n -> Int] : Levels(bs, depth, d)
  BY DEF Nested
<1>2. /\ n \in Nat \ {0} /\ IsSeq(c) /\ Len(c) = n - 1
      /\ \A i \in 1 .. n - 1 : c[i] = bs[i]
  BY PopSeq DEF Nested
<1>3. d[0] = 0 /\ d[n] = depth
  BY <1>1 DEF Levels
<1>4. \A i \in 1 .. n : /\ d[i] = IF bs[i].form = "transaction" THEN d[i - 1] + 1 ELSE d[i - 1]
                        /\ BlockAt(bs[i], d[i], i = 1)
  BY <1>1 DEF Levels
<1> HIDE DEF c, n
<1>5. BlockAt(bs[n], depth, n = 1)
  BY <1>2, <1>3, <1>4
<1>6. (n = 1) <=> (bs[n].form = "oper")
  BY <1>5 DEF BlockAt
<1>7. BlockAt(bs[n], depth, bs[n].form = "oper")
  BY <1>5, <1>6 DEF BlockAt
<1>8. ASSUME bs[n].form = "oper" PROVE depth = 0
  BY <1>2, <1>3, <1>4, <1>6, <1>8
<1>9. ASSUME bs[n].form # "oper"
      PROVE  c # << >> /\ Nested(c, outer)
  <2>1. n > 1
    BY <1>2, <1>6, <1>9
  <2>2. c # << >>
    BY <1>2, <2>1
  <2> DEFINE e == [i \in 0 .. n - 1 |-> d[i]]
  <2>3. e \in [0 .. Len(c) -> Int] /\ \A i \in 0 .. n - 1 : e[i] = d[i]
    BY <1>1, <1>2, <2>1 DEF n
  <2> HIDE DEF e
  <2>4. d[n - 1] \in Int
    BY <1>1, <1>2 DEF n
  <2>5. e[0] = 0 /\ e[n - 1] = outer
    BY <1>2, <1>3, <1>4, <2>1, <2>3, <2>4
  <2>6. ASSUME NEW i \in 1 .. n - 1
        PROVE  /\ e[i] = IF c[i].form = "transaction" THEN e[i - 1] + 1 ELSE e[i - 1]
               /\ BlockAt(c[i], e[i], i = 1)
    <3>1. i \in 1 .. n /\ i \in 0 .. n - 1 /\ i - 1 \in 0 .. n - 1
      BY <1>2
    <3>2. c[i] = bs[i] /\ e[i] = d[i] /\ e[i - 1] = d[i - 1]
      BY <1>2, <2>3, <3>1
    <3>3. /\ d[i] = IF bs[i].form = "transaction" THEN d[i - 1] + 1 ELSE d[i - 1]
          /\ BlockAt(bs[i], d[i], i = 1)
      BY <1>4, <3>1
    <3> QED BY <3>2, <3>3
  <2>7. Levels(c, outer, e)
    BY <1>2, <2>5, <2>6 DEF Levels
  <2> QED BY <1>2, <2>2, <2>3, <2>7 DEF Nested
<1> QED BY <1>7, <1>8, <1>9 DEF c, n

-----------------------------------------------------------------------------
(* Worlds: only transactions change how deep one is in them.                *)

LEMMA SameDepth ==
    ASSUME NEW w, NEW depth \in Int, At(w, depth)
    PROVE  /\ \A n, c : At(Declare(w, n, c), depth)
           /\ \A n, ty : At(Write(w, n, ty), depth)
           /\ \A v : At([w EXCEPT !.val = v], depth)
           /\ At(Enter(w), depth) /\ At(Leave(w), depth)
           /\ At([Enter(w) EXCEPT !.depth = @ + 1], depth + 1)
           /\ At([Leave(w) EXCEPT !.depth = @ - 1], depth - 1)
BY DEF At, Declare, Write, Enter, Leave

LEMMA LeftDepth ==
    ASSUME DepthsAgree
    PROVE  AllAt(Left, txDepth)
BY SameDepth DEF DepthsAgree, AllAt, Left

\* None of the events the transaction rules are about.
Harmless(happened) == {"impure", "open bracket", "bare access"} \cap happened = {}

LEMMA HarmlessIsClean ==
    ASSUME NEW happened, Harmless(happened)
    PROVE  Clean(happened)
BY DEF Harmless, Clean

LEMMA CleanUnion ==
    ASSUME NEW a, NEW b, Clean(a), Clean(b)
    PROVE  Clean(a \cup b)
BY DEF Clean

-----------------------------------------------------------------------------
(* What is accepted, does no harm.                                          *)

\* A public relvar read outside every transaction is refused, bound or not.
LEMMA NameHarmless ==
    ASSUME NEW s, NEW n, CheckName(s, n).errors = {},
           NEW w, txDepth \in Int, At(w, txDepth)
    PROVE  Harmless(ReadFaults(w, n)) /\ Harmless(Touch(w, n))
<1>1. ~(n \in PublicRelvars /\ txDepth = 0)
  BY DEF CheckName, Checked
<1>2. Touch(w, n) = {}
  BY <1>1 DEF Touch, At
<1> QED BY <1>2 DEF Harmless, ReadFaults

LEMMA EffectHarmless ==
    ASSUME CheckCallPurity = {}, NEW w, txDepth \in Int, At(w, txDepth)
    PROVE  Effect(w) = {}
BY DEF CheckCallPurity, Effect, At

Expressions == Operands \cup Calls \cup Conditions \cup {Lit("Unit"), Lit("Relation")}

LEMMA EvalHarmless ==
    ASSUME NEW s, NEW e \in Expressions, CheckExpr(s, e).errors = {},
           NEW w, txDepth \in Int, At(w, txDepth)
    PROVE  Harmless(EvalFaults(w, e))
<1>1. CASE e.k = "lit"
  BY <1>1 DEF EvalFaults, OperandFaults, Harmless
<1>2. CASE e.k = "name"
  <2>1. CheckName(s, e.n).errors = {}
    BY <1>2 DEF CheckExpr
  <2>2. EvalFaults(w, e) = ReadFaults(w, e.n)
    BY <1>2 DEF EvalFaults, OperandFaults
  <2> QED BY <2>1, <2>2, NameHarmless
<1>3. CASE e.k = "oper"
  <2>1. CheckCallPurity = {}
    BY <1>3 DEF CheckExpr, CheckCall, Checked
  <2>2. EvalFaults(w, e) = {}
    BY <1>3, <2>1, EffectHarmless DEF EvalFaults
  <2> QED BY <2>2 DEF Harmless
<1>4. CASE e.k = "write_line"
  <2>1. CheckNamedArg(s, e.arg, "Text").errors \cup CheckCallPurity = {}
    BY <1>4 DEF CheckExpr, CheckCall, Checked
  <2>2. Effect(w) = {}
    BY <2>1, EffectHarmless
  <2>3. Harmless(OperandFaults(w, e.arg))
    <3>1. CASE e.arg.k = "lit"
      BY <3>1 DEF OperandFaults, Harmless
    <3>2. CASE e.arg.k # "lit"
      <4>1. CheckName(s, e.arg.n).errors = {}
        BY <2>1, <3>2 DEF CheckNamedArg, CheckName, Checked
      <4>2. OperandFaults(w, e.arg) = ReadFaults(w, e.arg.n)
        BY <3>2 DEF OperandFaults
      <4> QED BY <4>1, <4>2, NameHarmless
    <3> QED BY <3>1, <3>2
  <2>4. EvalFaults(w, e) =
           Effect(w) \cup OperandFaults(w, e.arg)
           \cup (IF Operand(w, e.arg) \in {"Text", "nothing"} THEN {} ELSE {"mistyped"})
    BY <1>4 DEF EvalFaults
  <2> QED BY <2>2, <2>3, <2>4 DEF Harmless
<1>5. e.k \in {"lit", "name", "oper", "write_line"}
  BY DEF Expressions, Operands, Calls, Conditions, Lit, Name, CallOper, WriteLine
<1> QED BY <1>1, <1>2, <1>3, <1>4, <1>5

\* A loop's condition is evaluated again after each round, without another
\* look by the checker; it names no relvar and calls nothing.
LEMMA ConditionHarmless ==
    ASSUME NEW e \in Conditions, NEW w
    PROVE  Harmless(EvalFaults(w, e))
<1>1. CASE e.k = "lit"
  BY <1>1 DEF EvalFaults, OperandFaults, Harmless
<1>2. CASE e.k = "name"
  <2>1. e.n \in Names
    BY <1>2 DEF Conditions, Lit, Name
  <2>2. e.n \notin Relvars
    BY <2>1, RelvarsAreNotBound DEF Relvars
  <2>3. EvalFaults(w, e) = ReadFaults(w, e.n)
    BY <1>2 DEF EvalFaults, OperandFaults
  <2> QED BY <2>2, <2>3 DEF ReadFaults, Harmless
<1>3. e.k \in {"lit", "name"}
  BY DEF Conditions, Lit, Name
<1> QED BY <1>1, <1>2, <1>3

LEMMA HappensHarmless ==
    ASSUME DepthsAgree, NEW s, NEW e \in Expressions, CheckExpr(s, e).errors = {}
    PROVE  Harmless(Happens(e))
<1>1. \A w \in worlds : Harmless(EvalFaults(w, e))
  BY EvalHarmless DEF DepthsAgree, AllAt
<1> QED BY <1>1 DEF Happens, Harmless

LEMMA TouchHarmless ==
    ASSUME DepthsAgree, NEW r, ~(r \in PublicRelvars /\ txDepth = 0)
    PROVE  Harmless(TouchedBy(r))
<1>1. \A w \in worlds : Touch(w, r) = {}
  BY DEF DepthsAgree, AllAt, At, Touch
<1> QED BY <1>1 DEF TouchedBy, Harmless

-----------------------------------------------------------------------------
(* Statements.                                                              *)

\* What every step that does not open or close a transaction has to show, and
\* only when the checker found nothing.
LEMMA Keeps ==
    ASSUME IndInv, errors = {},
           NEW found, errors' = errors \cup found, txDepth' = txDepth,
           found = {} => /\ AllAt(worlds', txDepth)
                         /\ Nested(blocks', txDepth)
                         /\ Clean(events')
    PROVE  IndInv'
BY DEF IndInv, DepthsAgree, AllAt, At, Nested, IsSeq, Levels, BlockAt, Clean

LEMMA StatementKeeps ==
    ASSUME IndInv, errors = {}, NEW check, NEW ws, NEW happens, NEW reads,
           Statement(check, ws, happens, reads), UNCHANGED blocks,
           check.errors = {} => AllAt(ws, txDepth) /\ Clean(happens)
    PROVE  IndInv'
<1>1. /\ errors' = errors \cup check.errors /\ txDepth' = txDepth
      /\ worlds' = ws /\ events' = events \cup happens /\ blocks' = blocks
  BY DEF Statement, Step
<1>2. Clean(events) /\ Nested(blocks, txDepth)
  BY DEF IndInv
<1>3. check.errors = {} =>
         AllAt(worlds', txDepth) /\ Nested(blocks', txDepth) /\ Clean(events')
  BY <1>1, <1>2, CleanUnion
<1> QED BY <1>1, <1>3, Keeps

LEMMA ErrorsField ==
    ASSUME NEW s, NEW e
    PROVE  \A more : [CheckExpr(s, e) EXCEPT !.errors = @ \cup more].errors
                        = CheckExpr(s, e).errors \cup more
<1>1. "errors" \in DOMAIN CheckExpr(s, e)
  BY DEF CheckExpr, CheckName, CheckCall, Checked
<1> QED BY <1>1

LEMMA BindKeeps ==
    ASSUME IndInv, errors = {}, NEW n, NEW e \in Expressions, NEW origin, NEW ann,
           Bind(n, e, origin, ann), UNCHANGED blocks
    PROVE  IndInv'
<1> DEFINE ty == IF ann = "none" THEN CheckExpr(scope, e).ty ELSE ann
           found == IF ann = "none" THEN {} ELSE Mismatch("T0010", CheckExpr(scope, e).ty, ann)
           check == Checked(Insert(CheckExpr(scope, e).scope, Binding(n, ty, origin, Fresh)), ty,
                            CheckExpr(scope, e).errors \cup found)
           ws == {Declare(w, n, Cell(Fresh, origin, Value(w, e))) : w \in worlds}
<1>1. Statement(check, ws, Happens(e), Reads(e))
  BY DEF Bind
<1>2. DepthsAgree
  BY DEF IndInv
<1>3. AllAt(ws, txDepth)
  <2>1. \A w \in worlds : At(Declare(w, n, Cell(Fresh, origin, Value(w, e))), txDepth)
    BY <1>2, SameDepth DEF DepthsAgree, AllAt
  <2> QED BY <2>1 DEF AllAt
<1>4. ASSUME check.errors = {} PROVE Clean(Happens(e))
  <2>1. CheckExpr(scope, e).errors = {}
    BY <1>4 DEF Checked
  <2> QED BY <1>2, <2>1, HappensHarmless, HarmlessIsClean
<1> QED BY <1>1, <1>3, <1>4, StatementKeeps

LEMMA BindingsKeep ==
    ASSUME IndInv, LetStmt \/ VarStmt
    PROVE  IndInv'
<1>1. CASE LetStmt
  <2>1. PICK n \in Names, e \in Operands \cup {CallOper}, ann \in Annotations :
           CanWrite /\ Bind(n, e, "let", ann) /\ UNCHANGED blocks
    BY <1>1 DEF LetStmt
  <2>2. e \in Expressions /\ errors = {}
    BY <2>1 DEF Expressions, Calls, CanWrite, CanGoOn, Checking
  <2> QED BY <2>1, <2>2, BindKeeps
<1>2. CASE VarStmt
  <2>1. PICK n \in Names, e \in Operands, ann \in Annotations :
           CanWrite /\ Bind(n, e, "var", ann) /\ UNCHANGED blocks
    BY <1>2 DEF VarStmt
  <2>2. e \in Expressions /\ errors = {}
    BY <2>1 DEF Expressions, CanWrite, CanGoOn, Checking
  <2> QED BY <2>1, <2>2, BindKeeps
<1> QED BY <1>1, <1>2

LEMMA DeclareKeeps ==
    ASSUME IndInv, DeclareUnassigned
    PROVE  IndInv'
<1>0. PICK n \in Names, origin \in {"let", "var"}, ann \in Annotations :
         /\ CanWrite /\ UNCHANGED blocks
         /\ \E check : Statement(check, {Declare(w, n, Cell(Fresh, origin, "nothing")) : w \in worlds},
                                {}, {})
  BY DEF DeclareUnassigned
<1>1. PICK check :
         /\ CanWrite /\ UNCHANGED blocks
         /\ Statement(check, {Declare(w, n, Cell(Fresh, origin, "nothing")) : w \in worlds}, {}, {})
  BY <1>0
<1>2. AllAt({Declare(w, n, Cell(Fresh, origin, "nothing")) : w \in worlds}, txDepth)
  <2>1. DepthsAgree
    BY <1>1 DEF IndInv, CanWrite, CanGoOn, Checking
  <2>2. \A w \in worlds : At(Declare(w, n, Cell(Fresh, origin, "nothing")), txDepth)
    BY <2>1, SameDepth DEF DepthsAgree, AllAt
  <2> QED BY <2>2 DEF AllAt
<1>3. Clean({})
  BY DEF Clean
<1> QED BY <1>1, <1>2, <1>3, StatementKeeps DEF CanWrite, CanGoOn, Checking

LEMMA CanWriteNow ==
    ASSUME IndInv, CanWrite
    PROVE  errors = {} /\ DepthsAgree /\ blocks # << >> /\ Nested(blocks, txDepth)
BY DEF IndInv, CanWrite, CanGoOn, Checking

LEMMA AssignLocalKeeps ==
    ASSUME IndInv, AssignLocal
    PROVE  IndInv'
<1>1. PICK n, e, check, ws :
         /\ n \in Names /\ e \in Operands
         /\ CanWrite /\ UNCHANGED blocks
         /\ check.errors = {} => CheckExpr(scope, e).errors = {}
         /\ ws = {IF FramesOf(w, n) = {} THEN w ELSE Write(w, n, Value(w, e)) : w \in worlds}
         /\ Statement(check, ws, Happens(e) \cup UNION {WriteFaults(w, n) : w \in worlds},
                      Reads(e) \cup Writes(n))
  BY DEF AssignLocal, WriteLocal, Checked
<1>2. errors = {} /\ DepthsAgree /\ e \in Expressions
  BY <1>1, CanWriteNow DEF Expressions
<1>3. AllAt(ws, txDepth)
  <2>1. \A w \in worlds : At(w, txDepth) /\ At(Write(w, n, Value(w, e)), txDepth)
    BY <1>2, SameDepth DEF DepthsAgree, AllAt
  <2> QED BY <1>1, <2>1 DEF AllAt
<1>4. Clean(UNION {WriteFaults(w, n) : w \in worlds})
  BY DEF WriteFaults, Clean
<1>5. check.errors = {} => Clean(Happens(e) \cup UNION {WriteFaults(w, n) : w \in worlds})
  BY <1>1, <1>2, <1>4, HappensHarmless, HarmlessIsClean, CleanUnion
<1> QED BY <1>1, <1>2, <1>3, <1>5, StatementKeeps

LEMMA LoadKeeps ==
    ASSUME IndInv, LoadStmt
    PROVE  IndInv'
<1>1. PICK n, e, check, ws :
         /\ n \in Names /\ e \in Operands
         /\ CanWrite /\ UNCHANGED blocks
         /\ check.errors = {} => CheckExpr(scope, e).errors = {}
         /\ ws = {IF FramesOf(w, n) = {} THEN w ELSE Write(w, n, "Sequence") : w \in worlds}
         /\ Statement(check, ws, Happens(e) \cup UNION {WriteFaults(w, n) : w \in worlds},
                      Reads(e) \cup Writes(n))
  BY DEF LoadStmt, WriteLocal, Checked
<1>2. errors = {} /\ DepthsAgree /\ e \in Expressions
  BY <1>1, CanWriteNow DEF Expressions
<1>3. AllAt(ws, txDepth)
  <2>1. \A w \in worlds : At(w, txDepth) /\ At(Write(w, n, "Sequence"), txDepth)
    BY <1>2, SameDepth DEF DepthsAgree, AllAt
  <2> QED BY <1>1, <2>1 DEF AllAt
<1>4. Clean(UNION {WriteFaults(w, n) : w \in worlds})
  BY DEF WriteFaults, Clean
<1>5. check.errors = {} => Clean(Happens(e) \cup UNION {WriteFaults(w, n) : w \in worlds})
  BY <1>1, <1>2, <1>4, HappensHarmless, HarmlessIsClean, CleanUnion
<1> QED BY <1>1, <1>2, <1>3, <1>5, StatementKeeps

\* A statement that touches relvar n and evaluates e, in no other world.
LEMMA RelvarKeeps ==
    ASSUME IndInv, CanWrite, NEW check, NEW n, NEW e \in Expressions, NEW reads, UNCHANGED blocks,
           Statement(check, worlds, Happens(e) \cup TouchedBy(n), reads),
           check.errors = {} =>
               /\ \E s : CheckExpr(s, e).errors = {}
               /\ "BareReplace" \in Excluded => ~(n \in PublicRelvars /\ txDepth = 0)
    PROVE  IndInv'
<1>1. errors = {} /\ DepthsAgree
  BY CanWriteNow
<1>2. ASSUME check.errors = {}
      PROVE  Clean(Happens(e) \cup TouchedBy(n))
  <2>1. Clean(Happens(e))
    BY <1>1, <1>2, HappensHarmless, HarmlessIsClean
  <2>2. Clean(TouchedBy(n))
    <3>1. CASE "BareReplace" \in Excluded
      BY <1>1, <1>2, <3>1, TouchHarmless, HarmlessIsClean
    <3>2. CASE "BareReplace" \notin Excluded
      <4>1. \A w \in worlds : Touch(w, n) \subseteq {"bare access"}
        BY DEF Touch
      <4>2. TouchedBy(n) \subseteq {"bare access"}
        BY <4>1 DEF TouchedBy
      <4> QED BY <3>2, <4>2 DEF Clean
    <3> QED BY <3>1, <3>2
  <2> QED BY <2>1, <2>2, CleanUnion
<1> QED BY <1>1, <1>2, StatementKeeps DEF DepthsAgree

\* A name the checker lets pass is not a public relvar outside a transaction.
LEMMA NameBracketed ==
    ASSUME NEW s, NEW n, CheckName(s, n).errors = {}
    PROVE  ~(n \in PublicRelvars /\ txDepth = 0)
BY DEF CheckName, Checked

LEMMA AssignRelvarKeeps ==
    ASSUME IndInv, AssignRelvar
    PROVE  IndInv'
<1>1. PICK r, e, check :
         /\ r \in Relvars /\ e \in Operands
         /\ CanWrite /\ UNCHANGED blocks
         /\ Allows("BareReplace") \/ r \in PrivateRelvars \/ txDepth > 0
         /\ check.errors = {} => CheckExpr(scope, e).errors = {}
         /\ Statement(check, worlds, Happens(e) \cup TouchedBy(r), Reads(e))
  BY DEF AssignRelvar, Checked
<1>2. DepthsAgree /\ e \in Expressions
  BY <1>1, CanWriteNow DEF Expressions
<1>3. "BareReplace" \in Excluded => ~(r \in PublicRelvars /\ txDepth = 0)
  BY <1>1, <1>2, RelvarsAreNotBound DEF Allows, DepthsAgree
<1> QED BY <1>1, <1>2, <1>3, RelvarKeeps

LEMMA TruncateKeeps ==
    ASSUME IndInv, TruncateStmt \/ DeleteStmt
    PROVE  IndInv'
<1>1. ASSUME NEW n, NEW check, CanWrite, UNCHANGED blocks,
             check.errors = {} => ~(n \in PublicRelvars /\ txDepth = 0),
             Statement(check, worlds, TouchedBy(n), {})
      PROVE  IndInv'
  <2>1. errors = {} /\ DepthsAgree
    BY <1>1, CanWriteNow
  <2> QED BY <1>1, <2>1, TouchHarmless, HarmlessIsClean, StatementKeeps DEF DepthsAgree
<1>2. CASE TruncateStmt
  <2>1. PICK n, check :
           /\ n \in Names \cup Relvars
           /\ CanWrite /\ UNCHANGED blocks
           /\ check = IF n \in Relvars
                      THEN Checked(MarkUsed(scope, n), "Unit", TransactionNeeded(n))
                      ELSE Checked(scope, "Unit", {"T0033"})
           /\ Statement(check, worlds, TouchedBy(n), {})
    BY <1>2 DEF TruncateStmt
  <2>2. check.errors = {} => ~(n \in PublicRelvars /\ txDepth = 0)
    BY <2>1 DEF Checked, TransactionNeeded
  <2> QED BY <1>1, <2>1, <2>2
<1>3. CASE DeleteStmt
  <2>1. PICK n, check :
           /\ n \in Names \cup Relvars
           /\ CanWrite /\ UNCHANGED blocks
           /\ check = IF n \in Relvars THEN CheckName(scope, n) ELSE Checked(scope, "Unit", {"T0033"})
           /\ Statement(check, worlds, TouchedBy(n), {})
    BY <1>3 DEF DeleteStmt
  <2>2. check.errors = {} => ~(n \in PublicRelvars /\ txDepth = 0)
    BY <2>1, NameBracketed DEF Checked
  <2> QED BY <1>1, <2>1, <2>2
<1> QED BY <1>2, <1>3

LEMMA SourcesAreExpressions ==
    ASSUME NEW n, NEW e \in Sources(n)
    PROVE  e \in Expressions
BY DEF Sources, Expressions

LEMMA InsertKeeps ==
    ASSUME IndInv, InsertStmt
    PROVE  IndInv'
<1>1. PICK n \in Names \cup Relvars : \E e \in Sources(n) : \E check :
         /\ CanWrite /\ UNCHANGED blocks
         /\ check = IF n \in Relvars
                    THEN Checked(MarkUsed(CheckExpr(scope, e).scope, n), "Unit",
                                 CheckExpr(scope, e).errors \cup TransactionNeeded(n)
                                 \cup Mismatch("T0034", CheckExpr(scope, e).ty, "Relation"))
                    ELSE [CheckExpr(scope, e) EXCEPT !.errors = @ \cup {"T0033"}]
         /\ Statement(check, worlds, Happens(e) \cup TouchedBy(n), Reads(e))
  BY DEF InsertStmt
<1>2. PICK e, check :
         /\ e \in Sources(n)
         /\ CanWrite /\ UNCHANGED blocks
         /\ check = IF n \in Relvars
                    THEN Checked(MarkUsed(CheckExpr(scope, e).scope, n), "Unit",
                                 CheckExpr(scope, e).errors \cup TransactionNeeded(n)
                                 \cup Mismatch("T0034", CheckExpr(scope, e).ty, "Relation"))
                    ELSE [CheckExpr(scope, e) EXCEPT !.errors = @ \cup {"T0033"}]
         /\ Statement(check, worlds, Happens(e) \cup TouchedBy(n), Reads(e))
  BY <1>1
<1>3. check.errors = {} =>
         CheckExpr(scope, e).errors = {} /\ ~(n \in PublicRelvars /\ txDepth = 0)
  <2>1. CASE n \in Relvars
    BY <1>2, <2>1 DEF Checked, TransactionNeeded
  <2>2. CASE n \notin Relvars
    BY <1>2, <2>2, ErrorsField
  <2> QED BY <2>1, <2>2
<1>4. e \in Expressions
  BY <1>2, SourcesAreExpressions
<1> QED BY <1>2, <1>3, <1>4, RelvarKeeps

LEMMA UpdateKeeps ==
    ASSUME IndInv, UpdateStmt
    PROVE  IndInv'
<1>1. PICK n \in Names \cup Relvars : \E e \in Sources(n) : \E check :
         /\ CanWrite /\ UNCHANGED blocks
         /\ check = IF n \in Relvars
                    THEN Checked(CheckExpr(CheckName(scope, n).scope, e).scope, "Unit",
                                 CheckName(scope, n).errors
                                 \cup CheckExpr(CheckName(scope, n).scope, e).errors
                                 \cup Mismatch("T0034", CheckExpr(CheckName(scope, n).scope, e).ty, "Integer"))
                    ELSE Checked(scope, "Unit", {"T0033"})
         /\ Statement(check, worlds, Happens(e) \cup TouchedBy(n), Reads(e))
  BY DEF UpdateStmt
<1>2. PICK e, check :
         /\ e \in Sources(n)
         /\ CanWrite /\ UNCHANGED blocks
         /\ check.errors = {} => /\ CheckName(scope, n).errors = {}
                                 /\ CheckExpr(CheckName(scope, n).scope, e).errors = {}
         /\ Statement(check, worlds, Happens(e) \cup TouchedBy(n), Reads(e))
  BY <1>1 DEF Checked
<1>3. check.errors = {} =>
         /\ \E s : CheckExpr(s, e).errors = {}
         /\ ~(n \in PublicRelvars /\ txDepth = 0)
  BY <1>2, NameBracketed
<1>4. e \in Expressions
  BY <1>2, SourcesAreExpressions
<1> QED BY <1>2, <1>3, <1>4, RelvarKeeps

LEMMA LoadReverseKeeps ==
    ASSUME IndInv, LoadReverse
    PROVE  IndInv'
<1>1. PICK n, e, check :
         /\ n \in Names \cup Relvars /\ e \in {Name(m) : m \in Names}
         /\ CanWrite /\ UNCHANGED blocks
         /\ check.errors = {} => CheckExpr(scope, e).errors = {} /\ n \notin PublicRelvars
         /\ Statement(check, worlds, Happens(e) \cup TouchedBy(n), Reads(e))
  BY DEF LoadReverse, Checked
<1>2. e \in Expressions
  BY <1>1 DEF Expressions, Operands
<1> QED BY <1>1, <1>2, RelvarKeeps

LEMMA ExprKeeps ==
    ASSUME IndInv, ExprStmt
    PROVE  IndInv'
<1>1. PICK e \in Calls :
         CanWrite /\ Statement(CheckExpr(scope, e), worlds, Happens(e), Reads(e)) /\ UNCHANGED blocks
  BY DEF ExprStmt
<1>2. e \in Expressions
  BY DEF Expressions
<1>3. errors = {} /\ DepthsAgree
  BY <1>1, CanWriteNow
<1>4. CheckExpr(scope, e).errors = {} => Clean(Happens(e))
  BY <1>2, <1>3, HappensHarmless, HarmlessIsClean
<1> QED BY <1>1, <1>3, <1>4, StatementKeeps DEF DepthsAgree

LEMMA TailKeeps ==
    ASSUME IndInv, TailExpr
    PROVE  IndInv'
<1>1. PICK e \in Operands \cup Calls :
         /\ CanWrite /\ errors' = errors \cup CheckExpr(scope, e).errors
         /\ worlds' = {[w EXCEPT !.val = Value(w, e)] : w \in worlds}
         /\ events' = events \cup Happens(e)
         /\ UNCHANGED <<txDepth, blocks>>
  BY DEF TailExpr
<1>2. e \in Expressions
  BY DEF Expressions
<1>3. errors = {} /\ DepthsAgree /\ Nested(blocks, txDepth) /\ Clean(events)
  BY <1>1, CanWriteNow DEF IndInv
<1>4. AllAt(worlds', txDepth)
  <2>1. \A w \in worlds : At([w EXCEPT !.val = Value(w, e)], txDepth)
    BY <1>3, SameDepth DEF DepthsAgree, AllAt
  <2> QED BY <1>1, <2>1 DEF AllAt
<1>5. CheckExpr(scope, e).errors = {} => Clean(events')
  BY <1>1, <1>2, <1>3, HappensHarmless, HarmlessIsClean, CleanUnion
<1> QED BY <1>1, <1>3, <1>4, <1>5, Keeps

-----------------------------------------------------------------------------
(* Blocks.                                                                  *)

LEMMA ReturnKeeps ==
    ASSUME IndInv, ReturnStmt
    PROVE  IndInv'
<1> DEFINE found(e) == CheckExpr(scope, e).errors \cup Mismatch("T0018", CheckExpr(scope, e).ty, returns)
                       \cup (IF txDepth > 0 THEN {"T0093"} ELSE {})
           exits(e) == UNION {ExitFaults(w.depth, Value(w, e)) : w \in worlds}
<1>1. PICK e, left :
         /\ e \in Operands \cup {Lit("Unit")}
         /\ CanWrite /\ left \subseteq {"left early"}
         /\ errors' = errors \cup found(e)
         /\ worlds' = {} /\ events' = events \cup (Happens(e) \cup left \cup exits(e))
         /\ blocks' = WithTop([Top EXCEPT !.diverges = TRUE])
         /\ UNCHANGED txDepth
  BY DEF ReturnStmt, Statement, Step, Checked
<1>2. e \in Expressions
  BY <1>1 DEF Expressions
<1>3. errors = {} /\ DepthsAgree /\ blocks # << >> /\ Nested(blocks, txDepth) /\ Clean(events)
  BY <1>1, CanWriteNow DEF IndInv
<1>4. Nested(blocks', txDepth)
  <2>1. BlockAt(Top, txDepth, Top.form = "oper")
    BY <1>3, PopBlock DEF DepthsAgree, Top
  <2>2. \A outermost \in BOOLEAN :
          BlockAt(Top, txDepth, outermost) => BlockAt([Top EXCEPT !.diverges = TRUE], txDepth, outermost)
    BY DEF BlockAt, BlockFields
  <2>3. [Top EXCEPT !.diverges = TRUE].form = Top.form
    BY <2>1 DEF BlockAt, BlockFields
  <2> QED BY <1>1, <1>3, <2>2, <2>3, ChangeBlock DEF DepthsAgree, WithTop, Top
<1>5. ASSUME found(e) = {} PROVE Clean(events')
  <2>0. CheckExpr(scope, e).errors = {} /\ ~(txDepth > 0)
    BY <1>5
  <2>1. \A w \in worlds : ExitFaults(w.depth, Value(w, e)) \subseteq {"mistyped result"}
    BY <1>3, <2>0 DEF DepthsAgree, AllAt, At, ExitFaults
  <2>2. exits(e) \subseteq {"mistyped result"}
    BY <2>1
  <2>3. Clean(exits(e)) /\ Clean(left)
    BY <1>1, <2>2 DEF Clean
  <2>4. Clean(Happens(e))
    BY <1>2, <1>3, <2>0, HappensHarmless, HarmlessIsClean
  <2> QED BY <1>1, <1>3, <2>3, <2>4 DEF Clean
<1>6. AllAt(worlds', txDepth)
  BY <1>1 DEF AllAt
<1> QED BY <1>1, <1>3, <1>4, <1>5, <1>6, Keeps

\* Opening a block that is no transaction.
LEMMA OpenKeeps ==
    ASSUME IndInv, errors = {}, blocks # << >>,
           NEW check, NEW ws, NEW happens, NEW reads, Step(check, ws, happens, reads),
           NEW block, blocks' = Append(blocks, block),
           block.form \notin {"oper", "transaction"}, BlockAt(block, txDepth, FALSE),
           AllAt(ws, txDepth), check.errors = {} => Clean(happens)
    PROVE  IndInv'
<1>1. /\ errors' = errors \cup check.errors /\ txDepth' = txDepth
      /\ worlds' = ws /\ events' = events \cup happens
  BY DEF Step
<1>2. DepthsAgree /\ Clean(events) /\ Nested(blocks, txDepth)
  BY DEF IndInv
<1>3. Nested(blocks', txDepth)
  BY <1>2, PushBlock DEF DepthsAgree
<1>4. check.errors = {} => Clean(events')
  BY <1>1, <1>2, CleanUnion
<1> QED BY <1>1, <1>3, <1>4, Keeps

LEMMA CanOpenNow ==
    ASSUME IndInv, CanOpen
    PROVE  errors = {} /\ DepthsAgree /\ blocks # << >> /\ Nested(blocks, txDepth) /\ Clean(events)
BY DEF IndInv, CanOpen, CanGoOn, Checking

LEMMA EnteredDepth ==
    ASSUME DepthsAgree
    PROVE  AllAt({Enter(w) : w \in worlds}, txDepth)
BY SameDepth DEF DepthsAgree, AllAt

\* A new block is well formed.
LEMMA FreshBlock ==
    ASSUME NEW form \in {"then", "while", "for", "do", "transaction"}, NEW use, NEW depth \in Int
    PROVE  BlockAt(Block(form, use), depth, FALSE) /\ Block(form, use).form = form
<1>1. Lit("Boolean") \in Conditions
  BY DEF Conditions
<1> QED BY <1>1 DEF BlockAt, BlockFields, Block, AllAt

LEMMA IfOpens ==
    ASSUME IndInv, BeginIf
    PROVE  IndInv'
<1>1. PICK e, use, check, block :
         /\ e \in Conditions /\ use \in Uses
         /\ CanOpen
         /\ check.errors = {} => CheckExpr(scope, e).errors = {}
         /\ \E snap : block = [Block("then", use) EXCEPT !.snap = snap, !.before = worlds]
         /\ Step(check, {Enter(w) : w \in worlds}, Happens(e), Reads(e))
         /\ blocks' = Append(blocks, block)
  <2>1. \A e \in Conditions : \A check :
          check = Checked(Push(Condition(e, "T0067").scope), "Unit", Condition(e, "T0067").errors)
          => (check.errors = {} => CheckExpr(scope, e).errors = {})
    BY ErrorsField DEF Condition, Checked
  <2> QED BY <2>1 DEF BeginIf, OpenBlock
<1>2. errors = {} /\ DepthsAgree /\ blocks # << >> /\ e \in Expressions
  BY <1>1, CanOpenNow DEF Expressions
<1>3. BlockAt(block, txDepth, FALSE) /\ block.form = "then"
  <2>1. PICK snap : block = [Block("then", use) EXCEPT !.snap = snap, !.before = worlds]
    BY <1>1
  <2>2. Lit("Boolean") \in Conditions
    BY DEF Conditions
  <2>3. /\ BlockAt([Block("then", use) EXCEPT !.snap = snap, !.before = worlds], txDepth, FALSE)
        /\ [Block("then", use) EXCEPT !.snap = snap, !.before = worlds].form = "then"
    BY <1>2, <2>2 DEF DepthsAgree, BlockAt, BlockFields, Block, AllAt
  <2> QED BY <2>1, <2>3
<1>4. check.errors = {} => Clean(Happens(e))
  BY <1>1, <1>2, HappensHarmless, HarmlessIsClean
<1> QED BY <1>1, <1>2, <1>3, <1>4, EnteredDepth, OpenKeeps

LEMMA WhileOpens ==
    ASSUME IndInv, BeginWhile
    PROVE  IndInv'
<1>1. PICK e, check, block :
         /\ e \in Conditions
         /\ CanOpen
         /\ check.errors = {} => CheckExpr(scope, e).errors = {}
         /\ \E snap : block = [Block("while", "stmt") EXCEPT !.snap = snap, !.cond = e, !.before = worlds]
         /\ Step(check, {Enter(w) : w \in worlds}, Happens(e), Reads(e))
         /\ blocks' = Append(blocks, block)
  <2>1. \A e \in Conditions : \A check :
          check = Checked(Push(Condition(e, "T0080").scope), "Unit", Condition(e, "T0080").errors)
          => (check.errors = {} => CheckExpr(scope, e).errors = {})
    BY ErrorsField DEF Condition, Checked
  <2> QED BY <2>1 DEF BeginWhile, OpenBlock
<1>2. errors = {} /\ DepthsAgree /\ blocks # << >> /\ e \in Expressions
  BY <1>1, CanOpenNow DEF Expressions
<1>3. BlockAt(block, txDepth, FALSE) /\ block.form = "while"
  <2>1. PICK snap : block = [Block("while", "stmt") EXCEPT !.snap = snap, !.cond = e, !.before = worlds]
    BY <1>1
  <2>2. e \in Conditions
    BY <1>1
  <2>3. /\ BlockAt([Block("while", "stmt") EXCEPT !.snap = snap, !.cond = e, !.before = worlds], txDepth, FALSE)
        /\ [Block("while", "stmt") EXCEPT !.snap = snap, !.cond = e, !.before = worlds].form = "while"
    BY <1>2, <2>2 DEF DepthsAgree, BlockAt, BlockFields, Block, AllAt
  <2> QED BY <2>1, <2>3
<1>4. check.errors = {} => Clean(Happens(e))
  BY <1>1, <1>2, HappensHarmless, HarmlessIsClean
<1> QED BY <1>1, <1>2, <1>3, <1>4, EnteredDepth, OpenKeeps

LEMMA ForOpens ==
    ASSUME IndInv, BeginFor
    PROVE  IndInv'
<1>0. PICK n \in Names, e \in Operands : \E ty, check, block :
         /\ CanOpen
         /\ check.errors = {} => CheckExpr(scope, e).errors = {}
         /\ \E snap : block = [Block("for", "stmt") EXCEPT !.snap = snap, !.before = worlds]
         /\ Step(check, {Declare(Enter(w), n, Cell(Fresh, "counter", ty)) : w \in worlds},
                 Happens(e), Reads(e))
         /\ blocks' = Append(blocks, block)
  BY DEF BeginFor, Checked
<1>1. PICK ty, check, block :
         /\ CanOpen
         /\ check.errors = {} => CheckExpr(scope, e).errors = {}
         /\ \E snap : block = [Block("for", "stmt") EXCEPT !.snap = snap, !.before = worlds]
         /\ Step(check, {Declare(Enter(w), n, Cell(Fresh, "counter", ty)) : w \in worlds},
                 Happens(e), Reads(e))
         /\ blocks' = Append(blocks, block)
  BY <1>0
<1>2. errors = {} /\ DepthsAgree /\ blocks # << >> /\ e \in Expressions
  BY <1>1, CanOpenNow DEF Expressions
<1>3. BlockAt(block, txDepth, FALSE) /\ block.form = "for"
  <2>1. PICK snap : block = [Block("for", "stmt") EXCEPT !.snap = snap, !.before = worlds]
    BY <1>1
  <2>2. Lit("Boolean") \in Conditions
    BY DEF Conditions
  <2> QED BY <1>2, <2>1, <2>2 DEF DepthsAgree, BlockAt, BlockFields, Block, AllAt
<1>4. check.errors = {} => Clean(Happens(e))
  BY <1>1, <1>2, HappensHarmless, HarmlessIsClean
<1>5. AllAt({Declare(Enter(w), n, Cell(Fresh, "counter", ty)) : w \in worlds}, txDepth)
  <2>1. \A w \in worlds : At(Declare(Enter(w), n, Cell(Fresh, "counter", ty)), txDepth)
    BY <1>2, SameDepth DEF DepthsAgree, AllAt
  <2> QED BY <2>1 DEF AllAt
<1> QED BY <1>1, <1>2, <1>3, <1>4, <1>5, OpenKeeps

LEMMA DoOpens ==
    ASSUME IndInv, BeginDo
    PROVE  IndInv'
<1>1. PICK check :
         /\ CanOpen
         /\ Step(check, {Enter(w) : w \in worlds}, {}, {})
         /\ blocks' = Append(blocks, Block("do", "stmt"))
  BY DEF BeginDo, OpenBlock
<1>2. errors = {} /\ DepthsAgree /\ blocks # << >>
  BY <1>1, CanOpenNow
<1>3. BlockAt(Block("do", "stmt"), txDepth, FALSE) /\ Block("do", "stmt").form = "do"
  BY <1>2, FreshBlock DEF DepthsAgree
<1>4. Clean({})
  BY DEF Clean
<1> QED BY <1>1, <1>2, <1>3, <1>4, EnteredDepth, OpenKeeps

\* A transaction takes the counter and every world one deeper.
LEMMA TransactionOpens ==
    ASSUME IndInv, BeginTransaction
    PROVE  IndInv'
<1>1. PICK use \in Uses :
         /\ CanOpen /\ txDepth' = txDepth + 1
         /\ blocks' = Append(blocks, Block("transaction", use))
         /\ worlds' = {[Enter(w) EXCEPT !.depth = @ + 1] : w \in worlds}
         /\ UNCHANGED <<errors, events>>
  BY DEF BeginTransaction
<1>2. errors = {} /\ DepthsAgree /\ blocks # << >> /\ Nested(blocks, txDepth) /\ Clean(events)
  BY <1>1, CanOpenNow
<1>3. /\ BlockAt(Block("transaction", use), txDepth + 1, FALSE)
      /\ Block("transaction", use).form = "transaction" /\ txDepth \in Int
  <2>1. txDepth + 1 \in Int /\ txDepth \in Int
    BY <1>2 DEF DepthsAgree
  <2> QED BY <2>1, FreshBlock
<1>4. Nested(blocks', txDepth')
  <2>1. Nested(Append(blocks, Block("transaction", use)), txDepth + 1)
    <3>1. PICK b : b = Block("transaction", use)
      OBVIOUS
    <3>2. PICK inner \in Int : inner = txDepth + 1
      BY <1>3
    <3>3. b.form = "transaction" /\ BlockAt(b, inner, FALSE)
      BY <1>3, <3>1, <3>2
    <3>4. Nested(Append(blocks, b), inner)
      BY <1>2, <1>3, <3>2, <3>3, PushBlock
    <3> QED BY <3>1, <3>2, <3>4
  <2> QED BY <1>1, <2>1
<1>5. AllAt(worlds', txDepth')
  <2>1. \A w \in worlds : At([Enter(w) EXCEPT !.depth = @ + 1], txDepth + 1)
    BY <1>2, SameDepth DEF DepthsAgree, AllAt
  <2> QED BY <1>1, <2>1 DEF AllAt
<1>6. Clean(events')
  BY <1>1, <1>2
<1> QED BY <1>1, <1>2, <1>4, <1>5, <1>6 DEF IndInv, DepthsAgree

LEMMA ClosingNow ==
    ASSUME IndInv, Checking
    PROVE  /\ errors = {} /\ DepthsAgree /\ Clean(events) /\ blocks # << >> /\ Nested(blocks, txDepth)
           /\ txDepth \in Int /\ AllAt(Left, txDepth)
           /\ BlockAt(Top, txDepth, Top.form = "oper")
           /\ Top.form = "oper" => txDepth = 0
           /\ Top.form # "oper" => Outer # << >>
           /\ Top.form \notin {"oper", "transaction"} => Nested(Outer, txDepth)
           /\ Top.form = "transaction" => Nested(Outer, txDepth - 1)
<1>1. errors = {} /\ DepthsAgree /\ Clean(events) /\ blocks # << >> /\ Nested(blocks, txDepth)
  BY DEF IndInv, Checking
<1>2. txDepth \in Int /\ AllAt(Left, txDepth)
  BY <1>1, LeftDepth DEF DepthsAgree
<1>3. /\ BlockAt(Top, txDepth, Top.form = "oper")
      /\ Top.form = "oper" => txDepth = 0
      /\ Top.form # "oper" =>
            LET outer == IF Top.form = "transaction" THEN txDepth - 1 ELSE txDepth
            IN  Outer # << >> /\ Nested(Outer, outer)
  BY <1>1, <1>2, PopBlock DEF Top, Outer
<1> QED BY <1>1, <1>2, <1>3

\* The block below may learn that it diverges; the worlds may bind a name.
LEMMA DeliveredKeeps ==
    ASSUME NEW depth \in Int, NEW outer, outer # << >>, Nested(outer, depth),
           NEW popped, NEW ty, NEW ws, AllAt(ws, depth), Delivered(outer, popped, ty, ws)
    PROVE  Nested(blocks', depth) /\ AllAt(worlds', depth)
<1> DEFINE use == Top.use
           top == outer[Len(outer)]
<1>1. Nested(blocks', depth)
  <2>1. BlockAt(top, depth, top.form = "oper")
    BY PopBlock
  <2>2. \A outermost \in BOOLEAN :
          BlockAt(top, depth, outermost) => BlockAt([top EXCEPT !.diverges = TRUE], depth, outermost)
    BY DEF BlockAt, BlockFields
  <2>3. [top EXCEPT !.diverges = TRUE].form = top.form
    BY <2>1 DEF BlockAt, BlockFields
  <2>4. Nested([outer EXCEPT ![Len(outer)] = [top EXCEPT !.diverges = TRUE]], depth)
    BY <2>2, <2>3, ChangeBlock
  <2>5. \/ blocks' = outer
        \/ blocks' = [outer EXCEPT ![Len(outer)] = [top EXCEPT !.diverges = TRUE]]
    BY DEF Delivered
  <2> QED BY <2>4, <2>5
<1>2. AllAt(worlds', depth)
  <2>1. worlds' = {IF use \in Names THEN Declare([w EXCEPT !.val = "Unit"], use, Cell(Top.id, "let", w.val))
                   ELSE IF use = "tail" THEN w ELSE [w EXCEPT !.val = "Unit"] : w \in ws}
    BY DEF Delivered
  <2>2. ASSUME NEW w \in ws
        PROVE  /\ At(w, depth) /\ At([w EXCEPT !.val = "Unit"], depth)
               /\ At(Declare([w EXCEPT !.val = "Unit"], use, Cell(Top.id, "let", w.val)), depth)
    <3>1. At(w, depth)
      BY DEF AllAt
    <3>2. At([w EXCEPT !.val = "Unit"], depth)
      BY <3>1, SameDepth
    <3> QED BY <3>1, <3>2, SameDepth
  <2> QED BY <2>1, <2>2 DEF AllAt
<1> QED BY <1>1, <1>2

LEMMA ElseKeeps ==
    ASSUME IndInv, Else
    PROVE  IndInv'
<1>1. PICK thenTy, thenInit :
         /\ Checking /\ Top.form = "then"
         /\ blocks' = WithTop([Top EXCEPT !.form = "else", !.thenTy = thenTy, !.diverges = FALSE,
                                          !.thenInit = thenInit, !.after = Left])
         /\ worlds' = {Enter(w) : w \in Top.before}
         /\ UNCHANGED <<txDepth, errors, events>>
  BY DEF Else
<1>2. /\ errors = {} /\ DepthsAgree /\ Clean(events) /\ blocks # << >> /\ Nested(blocks, txDepth)
      /\ txDepth \in Int /\ AllAt(Left, txDepth) /\ BlockAt(Top, txDepth, FALSE)
  BY <1>1, ClosingNow
<1> DEFINE b == [Top EXCEPT !.form = "else", !.thenTy = thenTy, !.diverges = FALSE,
                            !.thenInit = thenInit, !.after = Left]
<1>3. b.form = "else" /\ BlockAt(b, txDepth, FALSE)
  BY <1>2 DEF BlockAt, BlockFields
<1>4. ~BlockAt(Top, txDepth, TRUE)
  BY <1>2 DEF BlockAt
<1>5. \A outermost \in BOOLEAN : BlockAt(Top, txDepth, outermost) => BlockAt(b, txDepth, outermost)
  BY <1>3, <1>4
<1> HIDE DEF b
<1>6. Nested(blocks', txDepth)
  <2>1. (b.form = "transaction") <=> (blocks[Len(blocks)].form = "transaction")
    BY <1>1, <1>3 DEF Top
  <2>2. \A outermost \in BOOLEAN :
           BlockAt(blocks[Len(blocks)], txDepth, outermost) => BlockAt(b, txDepth, outermost)
    BY <1>5 DEF Top
  <2>3. Nested([blocks EXCEPT ![Len(blocks)] = b], txDepth)
    BY <1>2, <2>1, <2>2, ChangeBlock
  <2> QED BY <1>1, <2>3 DEF WithTop, b
<1>7. AllAt(worlds', txDepth)
  <2>1. \A w \in Top.before : At(Enter(w), txDepth)
    BY <1>2, SameDepth DEF BlockAt, AllAt
  <2> QED BY <1>1, <2>1 DEF AllAt
<1> QED BY <1>1, <1>2, <1>6, <1>7, Keeps

\* A block other than a transaction's is closed with worlds at its own depth.
LEMMA CloseKeeps ==
    ASSUME IndInv, Checking, Top.form \notin {"oper", "transaction"},
           NEW found, errors' = errors \cup found, UNCHANGED txDepth,
           NEW happens, events' = events \cup happens, found = {} => Clean(happens),
           NEW popped, NEW ty, NEW ws, AllAt(ws, txDepth), Delivered(Outer, popped, ty, ws)
    PROVE  IndInv'
<1>1. /\ errors = {} /\ txDepth \in Int /\ Clean(events)
      /\ Outer # << >> /\ Nested(Outer, txDepth)
  BY ClosingNow
<1>2. Nested(blocks', txDepth) /\ AllAt(worlds', txDepth)
  BY <1>1, DeliveredKeeps
<1>3. found = {} => Clean(events')
  BY <1>1, CleanUnion
<1> QED BY <1>1, <1>2, <1>3, Keeps

LEMMA IfCloses ==
    ASSUME IndInv, EndIf
    PROVE  IndInv'
<1>1. Checking /\ Top.form \in {"then", "else"} /\ UNCHANGED <<txDepth, events>>
  BY DEF EndIf
<1>2. /\ txDepth \in Int /\ AllAt(Left, txDepth)
      /\ AllAt(Top.before, txDepth) /\ AllAt(Top.after, txDepth)
  BY <1>1, ClosingNow DEF BlockAt
<1>3. Clean({}) /\ events' = events \cup {}
  BY <1>1 DEF Clean
<1>4. CASE Top.form = "then"
  <2>1. PICK found, popped :
           /\ errors' = errors \cup found
           /\ Delivered(Outer, popped, "Unit", {[w EXCEPT !.val = "Unit"] : w \in Top.before \cup Left})
    <3>1. errors' = errors \cup (IF BlockType \in {"Unit", "Unknown", "Never"} THEN {} ELSE {"T0069"})
      BY <1>4 DEF EndIf
    <3>2. Delivered(Outer, RestoreUninit(Pop(scope), Top.snap), "Unit",
                    {[w EXCEPT !.val = "Unit"] : w \in Top.before \cup Left})
      BY <1>4 DEF EndIf
    <3> QED BY <3>1, <3>2
  <2>2. AllAt({[w EXCEPT !.val = "Unit"] : w \in Top.before \cup Left}, txDepth)
    <3>1. \A w \in Top.before \cup Left : At([w EXCEPT !.val = "Unit"], txDepth)
      BY <1>2, SameDepth DEF AllAt
    <3> QED BY <3>1 DEF AllAt
  <2> QED BY <1>1, <1>3, <1>4, <2>1, <2>2, CloseKeeps
<1>5. CASE Top.form = "else"
  <2>1. PICK found, popped, ty :
           /\ errors' = errors \cup found
           /\ Delivered(Outer, popped, ty, Top.after \cup Left)
    <3>1. \E found : errors' = errors \cup found
      <4>1. errors' = errors \cup (IF JoinedType(Top.thenTy, BlockType) = "clash" THEN {"T0068"} ELSE {})
        BY <1>5 DEF EndIf
      <4> QED BY <4>1
    <3>2. \E popped, ty : Delivered(Outer, popped, ty, Top.after \cup Left)
      BY <1>5 DEF EndIf
    <3> QED BY <3>1, <3>2
  <2>2. AllAt(Top.after \cup Left, txDepth)
    BY <1>2 DEF AllAt
  <2> QED BY <1>1, <1>3, <1>5, <2>1, <2>2, CloseKeeps
<1> QED BY <1>1, <1>4, <1>5

LEMMA TransactionCloses ==
    ASSUME IndInv, EndTransaction
    PROVE  IndInv'
<1>1. /\ Checking /\ Top.form = "transaction" /\ txDepth' = txDepth - 1 /\ UNCHANGED <<errors, events>>
      /\ Delivered(Outer, Pop(scope), BlockType, {[w EXCEPT !.depth = @ - 1] : w \in Left})
  BY DEF EndTransaction
<1>2. /\ errors = {} /\ txDepth \in Int /\ Clean(events) /\ DepthsAgree
      /\ Outer # << >> /\ Nested(Outer, txDepth - 1)
  BY <1>1, ClosingNow
<1>3. AllAt({[w EXCEPT !.depth = @ - 1] : w \in Left}, txDepth - 1)
  <2>1. \A w \in worlds : At([Leave(w) EXCEPT !.depth = @ - 1], txDepth - 1)
    BY <1>2, SameDepth DEF DepthsAgree, AllAt
  <2> QED BY <2>1 DEF AllAt, Left
<1>4. PICK depth \in Int : depth = txDepth - 1
  BY <1>2
<1>5. Nested(blocks', depth) /\ AllAt(worlds', depth)
  <2>1. Nested(Outer, depth) /\ AllAt({[w EXCEPT !.depth = @ - 1] : w \in Left}, depth)
    BY <1>2, <1>3, <1>4
  <2> QED BY <1>1, <1>2, <2>1, DeliveredKeeps
<1>6. txDepth' = depth /\ events' = events
  BY <1>1, <1>4
<1> QED BY <1>2, <1>5, <1>6 DEF IndInv, DepthsAgree

LEMMA LoopCloses ==
    ASSUME IndInv, EndLoop
    PROVE  IndInv'
<1>1. /\ Checking /\ Top.form \in {"while", "for"} /\ UNCHANGED <<txDepth, errors>>
      /\ events' = events \cup UNION {EvalFaults(w, Top.cond) : w \in Left}
      /\ Delivered(Outer, Pop(RestoreUninit(scope, Top.snap)), "Unit", Top.before \cup Left)
  BY DEF EndLoop
<1>2. AllAt(Top.before \cup Left, txDepth) /\ Top.cond \in Conditions
  BY <1>1, ClosingNow DEF BlockAt, AllAt
<1>3. Clean(UNION {EvalFaults(w, Top.cond) : w \in Left})
  <2>1. \A w \in Left : Harmless(EvalFaults(w, Top.cond))
    BY <1>2, ConditionHarmless
  <2>2. Harmless(UNION {EvalFaults(w, Top.cond) : w \in Left})
    BY <2>1 DEF Harmless
  <2> QED BY <2>2, HarmlessIsClean
<1>4. errors' = errors \cup {}
  BY <1>1
<1> QED BY <1>1, <1>2, <1>3, <1>4, CloseKeeps

LEMMA DoCloses ==
    ASSUME IndInv, EndDo
    PROVE  IndInv'
<1>1. PICK e \in Conditions :
         /\ Checking /\ Top.form = "do" /\ UNCHANGED txDepth
         /\ events' = events \cup UNION {EvalFaults(w, e) : w \in Left}
         /\ Delivered(Outer, CheckExpr(Pop(scope), e).scope, "Unit", Left)
         /\ \E found : errors' = errors \cup found
  <2>1. \A e \in Conditions : \A more :
          errors \cup CheckExpr(Pop(scope), e).errors \cup more
             = errors \cup (CheckExpr(Pop(scope), e).errors \cup more)
    OBVIOUS
  <2> QED BY <2>1 DEF EndDo
<1>2. AllAt(Left, txDepth)
  BY <1>1, ClosingNow
<1>3. Clean(UNION {EvalFaults(w, e) : w \in Left})
  <2>1. \A w \in Left : Harmless(EvalFaults(w, e))
    BY ConditionHarmless
  <2>2. Harmless(UNION {EvalFaults(w, e) : w \in Left})
    BY <2>1 DEF Harmless
  <2> QED BY <2>2, HarmlessIsClean
<1> QED BY <1>1, <1>2, <1>3, CloseKeeps

\* The operator ends at depth zero, in every world.
LEMMA OperCloses ==
    ASSUME IndInv, EndOper
    PROVE  IndInv'
<1>1. /\ Checking /\ Top.form = "oper" /\ UNCHANGED txDepth /\ blocks' = << >> /\ worlds' = {}
      /\ errors' = errors \cup Mismatch("T0009", BlockType, returns)
      /\ events' = events \cup UNION {ExitFaults(w.depth, w.val) : w \in worlds}
  BY DEF EndOper
<1>2. errors = {} /\ DepthsAgree /\ Clean(events) /\ txDepth = 0
  BY <1>1, ClosingNow
<1>3. Clean(events')
  <2>1. ASSUME NEW w \in worlds PROVE ExitFaults(w.depth, w.val) \subseteq {"mistyped result"}
    <3>1. w.depth = 0
      BY <1>2 DEF DepthsAgree, AllAt, At
    <3>2. ~ (w.depth > 0)
      BY <3>1
    <3> QED BY <3>2 DEF ExitFaults
  <2>2. UNION {ExitFaults(w.depth, w.val) : w \in worlds} \subseteq {"mistyped result"}
    BY <2>1
  <2>3. Clean(UNION {ExitFaults(w.depth, w.val) : w \in worlds})
    BY <2>2 DEF Clean
  <2> QED BY <1>1, <1>2, <2>3, CleanUnion
<1>4. Nested(blocks', txDepth)
  BY <1>1 DEF Nested, IsSeq
<1>5. AllAt(worlds', txDepth)
  BY <1>1 DEF AllAt
<1> QED BY <1>1, <1>2, <1>3, <1>4, <1>5, Keeps

-----------------------------------------------------------------------------
(* The theorems.                                                            *)

LEMMA InitInv == Init => IndInv
<1> SUFFICES ASSUME Init PROVE DepthsAgree /\ Clean(events) /\ Nested(blocks, txDepth)
  BY DEF IndInv
<1>1. DepthsAgree /\ Clean(events)
  BY DEF Init, DepthsAgree, AllAt, At, Clean
<1>2. PICK b : /\ blocks = <<b>> /\ b.form = "oper" /\ BlockAt(b, 0, TRUE)
  BY DEF Init, BlockAt, BlockFields, AllAt, Conditions
<1>3. IsSeq(blocks)
  BY <1>2, AnySeq, <<b>> \in Seq({b})
<1>4. Levels(<<b>>, 0, [i \in 0 .. 1 |-> 0])
  <2> DEFINE d == [i \in 0 .. 1 |-> 0]
  <2>1. Len(<<b>>) = 1 /\ <<b>>[1] = b /\ d[0] = 0 /\ d[1] = 0
    OBVIOUS
  <2>2. b.form # "transaction"
    BY <1>2
  <2>3. \A i \in 1 .. 1 : i = 1
    OBVIOUS
  <2> HIDE DEF d
  <2> QED BY <1>2, <2>1, <2>2, <2>3 DEF Levels, BlockAt
<1>5. [i \in 0 .. 1 |-> 0] \in [0 .. Len(<<b>>) -> Int]
  OBVIOUS
<1> QED BY <1>1, <1>2, <1>3, <1>4, <1>5 DEF Nested, Init

LEMMA StepInv == IndInv /\ [Next]_vars => IndInv'
<1> SUFFICES ASSUME IndInv, [Next]_vars PROVE IndInv'
  OBVIOUS
<1>1. CASE LetStmt \/ VarStmt
  BY <1>1, BindingsKeep
<1>2. CASE DeclareUnassigned
  BY <1>2, DeclareKeeps
<1>3. CASE AssignLocal
  BY <1>3, AssignLocalKeeps
<1>4. CASE AssignRelvar
  BY <1>4, AssignRelvarKeeps
<1>5. CASE TruncateStmt \/ DeleteStmt
  BY <1>5, TruncateKeeps
<1>6. CASE InsertStmt
  BY <1>6, InsertKeeps
<1>7. CASE UpdateStmt
  BY <1>7, UpdateKeeps
<1>8. CASE LoadStmt
  BY <1>8, LoadKeeps
<1>9. CASE LoadReverse
  BY <1>9, LoadReverseKeeps
<1>10. CASE ExprStmt
  BY <1>10, ExprKeeps
<1>11. CASE TailExpr
  BY <1>11, TailKeeps
<1>12. CASE ReturnStmt
  BY <1>12, ReturnKeeps
<1>13. CASE BeginIf
  BY <1>13, IfOpens
<1>14. CASE Else
  BY <1>14, ElseKeeps
<1>15. CASE EndIf
  BY <1>15, IfCloses
<1>16. CASE BeginTransaction
  BY <1>16, TransactionOpens
<1>17. CASE EndTransaction
  BY <1>17, TransactionCloses
<1>18. CASE BeginWhile
  BY <1>18, WhileOpens
<1>19. CASE BeginFor
  BY <1>19, ForOpens
<1>20. CASE EndLoop
  BY <1>20, LoopCloses
<1>21. CASE BeginDo
  BY <1>21, DoOpens
<1>22. CASE EndDo
  BY <1>22, DoCloses
<1>23. CASE EndOper
  BY <1>23, OperCloses
<1>24. CASE UNCHANGED vars
  <2>1. /\ errors' = errors /\ txDepth' = txDepth /\ worlds' = worlds
        /\ events' = events /\ blocks' = blocks
    BY <1>24 DEF vars
  <2>2. DepthsAgree' = DepthsAgree
    BY <2>1 DEF DepthsAgree
  <2> QED BY <2>1, <2>2 DEF IndInv
<1> QED BY <1>1, <1>2, <1>3, <1>4, <1>5, <1>6, <1>7, <1>8, <1>9, <1>10, <1>11, <1>12, <1>13, <1>14,
           <1>15, <1>16, <1>17, <1>18, <1>19, <1>20, <1>21, <1>22, <1>23, <1>24 DEF Next

\* Through whatever blocks a body goes, transaction_depth is the number of
\* brackets open in every execution that gets there.
THEOREM DepthIsReal == Spec => []IndInv
BY InitInv, StepInv, PTL DEF Spec

\* An accepted program touches a public relvar only inside a bracket, if it
\* makes no bare replacement of one (T0025).
THEOREM AccessBracketed ==
    ASSUME "BareReplace" \in Excluded
    PROVE  Spec => []PublicAccessIsBracketed
<1>1. IndInv => PublicAccessIsBracketed
  BY DEF IndInv, Clean, PublicAccessIsBracketed, Accepted
<1> QED BY <1>1, DepthIsReal, PTL

\* Nothing with an effect runs inside a bracket of an accepted program, and
\* none of its executions leaves the operator with one open (T0026, T0093).
THEOREM Replayable == Spec => []TransactionsAreReplayable
<1>1. IndInv => TransactionsAreReplayable
  BY DEF IndInv, Clean, TransactionsAreReplayable, Accepted
<1> QED BY <1>1, DepthIsReal, PTL

-----------------------------------------------------------------------------
(* Types of what the checker and the executions keep.                       *)

Solid == Literals \cup {"Boolean", "Text", "Relation", "Integer", "Unit", "Sequence", "Tuple"}
Types == Solid \cup {"Never", "Unknown"}
Origins == {"let", "var", "param", "counter", "relvar"}
Marks == [name: Names \cup Relvars, ty: Types, origin: Origins, id: Nat,
          used: BOOLEAN, reassigned: BOOLEAN, initialized: BOOLEAN]

\* Only relvars are bound under a relvar's name; only a var may wait for its
\* value, and only until it has one may its type be unknown.
Proper(b) ==
    /\ b.name \in Relvars <=> b.origin = "relvar"
    /\ b.origin = "relvar" => b.ty = "Relation"
    /\ IF b.initialized THEN b.ty # "Unknown" ELSE b.origin = "var"

Bindings == {b \in Marks : Proper(b)}
Scopes == Seq(Seq(Bindings))

Cells == [id: Nat, decl: Origins, holds: Solid \cup {"nothing"}]
Frames == UNION {[D -> Cells] : D \in SUBSET Names}
Worlds == [frames: Seq(Frames), depth: Int, val: Solid]

-----------------------------------------------------------------------------
(* How a scope and a world agree.  A place is <<layer, position>>.          *)

\* No later binding of the layer hides this one.
Latest(layer, i) == \A j \in i + 1 .. Len(layer) : layer[j].name # layer[i].name

\* n, looked up in the first m layers, is the binding at <<l, i>>.
Visible(s, m, n, l, i) ==
    /\ l \in 1 .. m /\ i \in 1 .. Len(s[l])
    /\ s[l][i].name = n /\ Latest(s[l], i)
    /\ \A k \in l + 1 .. m : \A j \in 1 .. Len(s[k]) : s[k][j].name # n

\* A cell is what its binding says it is; it may only be empty where allowed.
Fits(b, c, unset) ==
    /\ c.id = b.id /\ c.decl = b.origin
    /\ IF c.holds = "nothing" THEN unset ELSE c.holds = b.ty

\* The world has m frames, one for each of the first m layers, and no cell is
\* empty outside the places U.
Agrees(s, m, w, U) ==
    /\ w \in Worlds /\ Len(w.frames) = m
    /\ \A l \in 1 .. m : \A n \in Names :
          n \in DOMAIN w.frames[l] <=> \E i \in 1 .. Len(s[l]) : s[l][i].name = n
    /\ \A l \in 1 .. m : \A i \in 1 .. Len(s[l]) :
          s[l][i].name \in Names /\ Latest(s[l], i) =>
             Fits(s[l][i], w.frames[l][s[l][i].name], <<l, i>> \in U)

-----------------------------------------------------------------------------
(* Looking up.                                                              *)

\* A set of positions has a last one.
LEMMA LastExists ==
    ASSUME NEW n \in Nat, NEW T \in SUBSET (1 .. n), T # {}
    PROVE  \E x \in T : \A y \in T : y <= x
<1> DEFINE above(x) == {y \in 1 .. n : y > x}
           S == FiniteSubsetsOf(1 .. n)
           R == StrictSubsetOrdering(1 .. n)
           tails == {above(x) : x \in T}
<1>1. IsWellFoundedOn(R, S)
  BY FS_StrictSubsetOrderingWellFounded
<1>2. \A x \in T : above(x) \in S
  <2>1. IsFiniteSet(1 .. n)
    BY FS_Interval
  <2>2. \A x \in T : above(x) \in SUBSET (1 .. n)
    OBVIOUS
  <2> QED BY <2>1, <2>2, FS_Subset DEF FiniteSubsetsOf
<1>3. tails \subseteq S /\ tails # {}
  BY <1>2
<1>4. PICK X \in tails : \A Y \in tails : ~(<<Y, X>> \in R)
  <2> HIDE DEF tails, R, S
  <2> QED BY <1>1, <1>3, WFMin
<1>5. PICK x \in T : X = above(x)
  BY <1>4
<1>6. ASSUME NEW y \in T, y > x
      PROVE  FALSE
  <2>1. above(y) \in tails /\ above(y) \subseteq above(x) /\ y \in above(x) /\ y \notin above(y)
    BY <1>6
  <2>2. <<above(y), above(x)>> \in R
    BY <2>1 DEF StrictSubsetOrdering
  <2> QED BY <1>4, <1>5, <2>1, <2>2
<1> QED BY <1>6

LEMMA MaxIsLast ==
    ASSUME NEW n \in Nat, NEW T \in SUBSET (1 .. n), NEW x \in T, \A y \in T : y <= x
    PROVE  Max(T) = x
<1>1. \A y \in T : x >= y
  OBVIOUS
<1>2. ASSUME NEW z \in T, \A y \in T : z >= y PROVE z = x
  BY <1>2
<1> QED BY <1>1, <1>2 DEF Max

\* A name bound somewhere in the first m layers is visible somewhere in them.
LEMMA VisibleExists ==
    ASSUME NEW s \in Scopes, NEW m \in 0 .. Len(s), NEW n, NEW l0 \in 1 .. m,
           NEW i0 \in 1 .. Len(s[l0]), s[l0][i0].name = n
    PROVE  \E l, i : Visible(s, m, n, l, i)
<1> DEFINE L == {l \in 1 .. m : \E i \in 1 .. Len(s[l]) : s[l][i].name = n}
<1>1. m \in Nat /\ Len(s) \in Nat
  BY DEF Scopes
<1>2. PICK l \in L : \A k \in L : k <= l
  BY <1>1, LastExists
<1> DEFINE I == {i \in 1 .. Len(s[l]) : s[l][i].name = n}
<1>3. Len(s[l]) \in Nat
  BY <1>1 DEF Scopes
<1>4. PICK i \in I : \A j \in I : j <= i
  BY <1>3, LastExists
<1>5. Latest(s[l], i)
  BY <1>3, <1>4 DEF Latest
<1>6. \A k \in l + 1 .. m : \A j \in 1 .. Len(s[k]) : s[k][j].name # n
  BY <1>1, <1>2
<1> QED BY <1>4, <1>5, <1>6 DEF Visible

LEMMA VisibleUnique ==
    ASSUME NEW s \in Scopes, NEW m \in 0 .. Len(s), NEW n, NEW l, NEW i, NEW k, NEW j,
           Visible(s, m, n, l, i), Visible(s, m, n, k, j)
    PROVE  l = k /\ i = j
<1>1. m \in Nat /\ Len(s) \in Nat /\ \A x \in 1 .. m : Len(s[x]) \in Nat
  BY DEF Scopes
<1>2. l = k
  BY <1>1 DEF Visible
<1> QED BY <1>1, <1>2 DEF Visible, Latest

\* The checker resolves a name to what is visible.
LEMMA LocateVisible ==
    ASSUME NEW s \in Scopes, NEW n
    PROVE  /\ Bound(s, n) => \E l, i : Visible(s, Len(s), n, l, i)
           /\ \A l, i : Visible(s, Len(s), n, l, i) =>
                 Bound(s, n) /\ Locate(s, n) = <<l, i>> /\ Found(s, n) = s[l][i]
<1>1. /\ Len(s) \in Nat /\ DOMAIN s = 1 .. Len(s)
      /\ \A l \in 1 .. Len(s) : Len(s[l]) \in Nat /\ DOMAIN s[l] = 1 .. Len(s[l])
  BY DEF Scopes
<1>2. ASSUME Bound(s, n) PROVE \E l, i : Visible(s, Len(s), n, l, i)
  <2>1. PICK l \in 1 .. Len(s) : \E i \in 1 .. Len(s[l]) : s[l][i].name = n
    BY <1>1, <1>2 DEF Bound, Layers
  <2>2. PICK i \in 1 .. Len(s[l]) : s[l][i].name = n
    BY <2>1
  <2>3. Len(s) \in 0 .. Len(s)
    BY <1>1
  <2> QED BY <2>2, <2>3, VisibleExists
<1>3. ASSUME NEW l, NEW i, Visible(s, Len(s), n, l, i)
      PROVE  Bound(s, n) /\ Locate(s, n) = <<l, i>> /\ Found(s, n) = s[l][i]
  <2> DEFINE I == {j \in DOMAIN s[l] : s[l][j].name = n}
  <2>1. l \in 1 .. Len(s) /\ i \in 1 .. Len(s[l]) /\ s[l][i].name = n
    BY <1>3 DEF Visible
  <2>2. l \in Layers(s, n) /\ Layers(s, n) \in SUBSET (1 .. Len(s))
    BY <1>1, <2>1 DEF Layers
  <2>3. \A k \in Layers(s, n) : k <= l
    BY <1>1, <1>3 DEF Layers, Visible
  <2>4. Max(Layers(s, n)) = l
    BY <1>1, <2>2, <2>3, MaxIsLast
  <2>5. i \in I /\ I \in SUBSET (1 .. Len(s[l])) /\ \A j \in I : j <= i
    BY <1>1, <1>3, <2>1 DEF Visible, Latest
  <2>6. Max(I) = i
    BY <1>1, <2>1, <2>5, MaxIsLast
  <2>7. Locate(s, n) = <<l, i>>
    BY <2>4, <2>6 DEF Locate
  <2> QED BY <2>2, <2>7 DEF Bound, Found
<1> QED BY <1>2, <1>3

LEMMA WorldTypes ==
    ASSUME NEW w \in Worlds
    PROVE  /\ DOMAIN w = {"frames", "depth", "val"} /\ w.val \in Solid /\ w.depth \in Int
           /\ Len(w.frames) \in Nat /\ DOMAIN w.frames = 1 .. Len(w.frames)
           /\ \A l \in 1 .. Len(w.frames) :
                 /\ w.frames[l] \in Frames
                 /\ DOMAIN w.frames[l] \subseteq Names
                 /\ \A n \in DOMAIN w.frames[l] : w.frames[l][n] \in Cells
<1>1. w.frames \in Seq(Frames) /\ w.val \in Solid /\ w.depth \in Int /\ DOMAIN w = {"frames", "depth", "val"}
  BY DEF Worlds
<1>2. \A f \in Frames : DOMAIN f \subseteq Names /\ \A n \in DOMAIN f : f[n] \in Cells
  BY DEF Frames
<1> QED BY <1>1, <1>2

\* What an execution finds under a name is the cell of what is visible.
LEMMA FrameVisible ==
    ASSUME NEW s \in Scopes, NEW m \in 0 .. Len(s), NEW w, NEW U, Agrees(s, m, w, U),
           NEW n \in Names
    PROVE  /\ FramesOf(w, n) # {} => \E l, i : Visible(s, m, n, l, i)
           /\ \A l, i : Visible(s, m, n, l, i) =>
                 /\ FramesOf(w, n) # {} /\ FrameOf(w, n) = l /\ CellOf(w, n) = w.frames[l][n]
                 /\ l \in 1 .. Len(w.frames) /\ n \in DOMAIN w.frames[l]
                 /\ Fits(s[l][i], CellOf(w, n), <<l, i>> \in U)
<1>1. m \in Nat /\ Len(s) \in Nat
  BY DEF Scopes
<1>2. /\ w \in Worlds /\ Len(w.frames) = m /\ DOMAIN w.frames = 1 .. m
      /\ \A l \in 1 .. m : n \in DOMAIN w.frames[l] <=> \E i \in 1 .. Len(s[l]) : s[l][i].name = n
  BY WorldTypes DEF Agrees
<1>3. ASSUME FramesOf(w, n) # {} PROVE \E l, i : Visible(s, m, n, l, i)
  <2>1. PICK l \in 1 .. m : \E i \in 1 .. Len(s[l]) : s[l][i].name = n
    BY <1>2, <1>3 DEF FramesOf
  <2>2. PICK i \in 1 .. Len(s[l]) : s[l][i].name = n
    BY <2>1
  <2> QED BY <2>2, VisibleExists
<1>4. ASSUME NEW l, NEW i, Visible(s, m, n, l, i)
      PROVE  /\ FramesOf(w, n) # {} /\ FrameOf(w, n) = l /\ CellOf(w, n) = w.frames[l][n]
             /\ l \in 1 .. Len(w.frames) /\ n \in DOMAIN w.frames[l]
             /\ Fits(s[l][i], CellOf(w, n), <<l, i>> \in U)
  <2>1. /\ l \in 1 .. m /\ i \in 1 .. Len(s[l]) /\ s[l][i].name = n /\ Latest(s[l], i)
        /\ \A k \in l + 1 .. m : \A j \in 1 .. Len(s[k]) : s[k][j].name # n
    BY <1>4 DEF Visible
  <2>2. l \in FramesOf(w, n) /\ n \in DOMAIN w.frames[l]
    BY <1>2, <2>1 DEF FramesOf
  <2>3. \A g \in FramesOf(w, n) : g \in 1 .. m /\ g <= l
    BY <1>1, <1>2, <2>1 DEF FramesOf
  <2>4. FrameOf(w, n) = l
    <3>1. \A f \in FramesOf(w, n) : (\A g \in FramesOf(w, n) : g <= f) => f = l
      BY <2>1, <2>2, <2>3
    <3> QED BY <2>2, <2>3, <3>1 DEF FrameOf
  <2>5. Fits(s[l][i], w.frames[l][n], <<l, i>> \in U)
    BY <2>1 DEF Agrees
  <2> QED BY <1>2, <2>1, <2>2, <2>4, <2>5 DEF CellOf
<1> QED BY <1>3, <1>4

-----------------------------------------------------------------------------
(* How a scope may go on.                                                   *)

\* A binding stays itself: its marks only grow, and only an unknown type
\* becomes another one.
Evolves(b, c) ==
    /\ c.name = b.name /\ c.origin = b.origin /\ c.id = b.id
    /\ c.ty = b.ty \/ b.ty = "Unknown"
    /\ b.used => c.used
    /\ b.reassigned => c.reassigned

\* The first m layers have the same bindings.
Kept(s, t, m) ==
    /\ m \in 0 .. Len(s) /\ m \in 0 .. Len(t)
    /\ \A l \in 1 .. m : /\ Len(t[l]) = Len(s[l])
                         /\ \A i \in 1 .. Len(s[l]) : Evolves(s[l][i], t[l][i])

LEMMA ScopeTypes ==
    ASSUME NEW s \in Scopes
    PROVE  /\ Len(s) \in Nat /\ DOMAIN s = 1 .. Len(s)
           /\ \A l \in 1 .. Len(s) :
                 /\ s[l] \in Seq(Bindings) /\ Len(s[l]) \in Nat /\ DOMAIN s[l] = 1 .. Len(s[l])
                 /\ \A i \in 1 .. Len(s[l]) : s[l][i] \in Bindings
BY DEF Scopes

LEMMA SolidTypes ==
    /\ Solid \cap {"Unknown", "Never", "none", "nothing", "clash"} = {}
    /\ Types \cap {"none", "nothing", "clash"} = {}
BY TypesAreWritten DEF Solid, Types

LEMMA KeptReflexive ==
    ASSUME NEW s \in Scopes, NEW m \in 0 .. Len(s)
    PROVE  Kept(s, s, m)
BY DEF Kept, Evolves

LEMMA KeptTransitive ==
    ASSUME NEW s \in Scopes, NEW t \in Scopes, NEW u \in Scopes, NEW m, Kept(s, t, m), Kept(t, u, m)
    PROVE  Kept(s, u, m)
<1>1. m \in Nat /\ Len(s) \in Nat /\ Len(t) \in Nat
  BY ScopeTypes DEF Kept
<1>2. ASSUME NEW l \in 1 .. m
      PROVE  Len(u[l]) = Len(s[l]) /\ \A i \in 1 .. Len(s[l]) : Evolves(s[l][i], u[l][i])
  <2>1. Len(t[l]) = Len(s[l]) /\ Len(u[l]) = Len(t[l])
    BY DEF Kept
  <2>2. ASSUME NEW i \in 1 .. Len(s[l]) PROVE Evolves(s[l][i], u[l][i])
    <3>1. Evolves(s[l][i], t[l][i]) /\ Evolves(t[l][i], u[l][i])
      BY <2>1 DEF Kept
    <3> QED BY <3>1 DEF Evolves
  <2> QED BY <2>1, <2>2
<1> QED BY <1>2 DEF Kept

LEMMA KeptLess ==
    ASSUME NEW s \in Scopes, NEW t \in Scopes, NEW m, Kept(s, t, m), NEW k \in 0 .. m
    PROVE  Kept(s, t, k)
<1>1. m \in Nat /\ Len(s) \in Nat /\ Len(t) \in Nat
  BY ScopeTypes DEF Kept
<1> QED BY <1>1 DEF Kept

LEMMA LatestKept ==
    ASSUME NEW s \in Scopes, NEW t \in Scopes, NEW m, Kept(s, t, m),
           NEW l \in 1 .. m, NEW i \in 1 .. Len(s[l])
    PROVE  Latest(s[l], i) <=> Latest(t[l], i)
<1>1. m \in Nat /\ Len(s) \in Nat /\ Len(t) \in Nat /\ l \in 1 .. Len(s) /\ Len(s[l]) \in Nat
  BY ScopeTypes DEF Kept
<1>2. Len(t[l]) = Len(s[l]) /\ \A j \in 1 .. Len(s[l]) : t[l][j].name = s[l][j].name
  BY DEF Kept, Evolves
<1>3. \A j \in i + 1 .. Len(s[l]) : t[l][j].name # t[l][i].name <=> s[l][j].name # s[l][i].name
  BY <1>1, <1>2
<1> QED BY <1>2, <1>3 DEF Latest

LEMMA VisibleKept ==
    ASSUME NEW s \in Scopes, NEW t \in Scopes, NEW m, Kept(s, t, m), NEW n, NEW l, NEW i
    PROVE  Visible(s, m, n, l, i) <=> Visible(t, m, n, l, i)
<1>1. \A k \in 1 .. m : /\ Len(t[k]) = Len(s[k])
                        /\ \A j \in 1 .. Len(s[k]) : t[k][j].name = s[k][j].name
  BY DEF Kept, Evolves
<1>2. \A k \in 1 .. m : \A j \in 1 .. Len(s[k]) : Latest(s[k], j) <=> Latest(t[k], j)
  BY LatestKept
<1>3. m \in Nat
  BY ScopeTypes DEF Kept
<1>4. CASE l \in 1 .. m /\ i \in 1 .. Len(s[l])
  <2>1. \A k \in l + 1 .. m : k \in 1 .. m
    BY <1>3, <1>4
  <2>2. (\A k \in l + 1 .. m : \A j \in 1 .. Len(s[k]) : s[k][j].name # n)
        <=> (\A k \in l + 1 .. m : \A j \in 1 .. Len(t[k]) : t[k][j].name # n)
    BY <1>1, <2>1
  <2>3. Len(t[l]) = Len(s[l]) /\ t[l][i].name = s[l][i].name
    BY <1>1, <1>4
  <2>4. Latest(s[l], i) <=> Latest(t[l], i)
    BY <1>2, <1>4
  <2> QED BY <2>2, <2>3, <2>4 DEF Visible
<1>5. CASE ~(l \in 1 .. m /\ i \in 1 .. Len(s[l]))
  BY <1>1, <1>5 DEF Visible
<1> QED BY <1>4, <1>5

\* An execution that agreed still does: its cells hold what they held.
LEMMA AgreesKept ==
    ASSUME NEW s \in Scopes, NEW t \in Scopes, NEW m, Kept(s, t, m),
           NEW w, NEW U, Agrees(s, m, w, U),
           NEW V, \A p \in U : p[1] \in 1 .. m => p \in V
    PROVE  Agrees(t, m, w, V)
<1>1. /\ m \in Nat /\ w \in Worlds /\ Len(w.frames) = m
      /\ \A l \in 1 .. m : l \in 1 .. Len(s) /\ l \in 1 .. Len(t)
  BY ScopeTypes DEF Kept, Agrees
<1>2. \A l \in 1 .. m : /\ Len(t[l]) = Len(s[l])
                        /\ \A i \in 1 .. Len(s[l]) : Evolves(s[l][i], t[l][i])
  BY DEF Kept
<1>3. \A l \in 1 .. m : \A n \in Names :
         n \in DOMAIN w.frames[l] <=> \E i \in 1 .. Len(t[l]) : t[l][i].name = n
  <2>1. \A l \in 1 .. m : Len(t[l]) = Len(s[l]) /\ \A i \in 1 .. Len(s[l]) : t[l][i].name = s[l][i].name
    BY <1>2 DEF Evolves
  <2>2. \A l \in 1 .. m : \A n \in Names :
         n \in DOMAIN w.frames[l] <=> \E i \in 1 .. Len(s[l]) : s[l][i].name = n
    BY DEF Agrees
  <2> QED BY <2>1, <2>2
<1>4. ASSUME NEW l \in 1 .. m, NEW i \in 1 .. Len(t[l]), t[l][i].name \in Names, Latest(t[l], i)
      PROVE  Fits(t[l][i], w.frames[l][t[l][i].name], <<l, i>> \in V)
  <2> DEFINE n == s[l][i].name
             c == w.frames[l][n]
  <2>1. i \in 1 .. Len(s[l]) /\ Evolves(s[l][i], t[l][i])
    BY <1>2
  <2>2. t[l][i].name = n /\ n \in Names /\ Latest(s[l], i)
    BY <1>4, <2>1, LatestKept DEF Evolves
  <2>3. Fits(s[l][i], c, <<l, i>> \in U)
    BY <2>1, <2>2 DEF Agrees
  <2>4. n \in DOMAIN w.frames[l]
    BY <2>1, <2>2 DEF Agrees
  <2>5. c \in Cells
    BY <1>1, <2>4, WorldTypes
  <2>6. c.holds = "nothing" \/ c.holds \in Solid
    BY <2>5 DEF Cells
  <2>7. <<l, i>> \in U => <<l, i>> \in V
    OBVIOUS
  <2>8. c.holds # "nothing" => t[l][i].ty = s[l][i].ty
    BY <2>1, <2>3, <2>6, SolidTypes DEF Fits, Evolves
  <2> QED BY <2>1, <2>2, <2>3, <2>7, <2>8 DEF Fits, Evolves
<1> QED BY <1>1, <1>3, <1>4 DEF Agrees

-----------------------------------------------------------------------------
(* What the checker's operators make of a scope.                            *)

LEMMA PairsEqual ==
    ASSUME NEW U \in SUBSET (Nat \X Nat), NEW V \in SUBSET (Nat \X Nat),
           \A l, i : <<l, i>> \in U <=> <<l, i>> \in V
    PROVE  U = V
<1>1. \A p \in Nat \X Nat : p = <<p[1], p[2]>>
  OBVIOUS
<1>2. \A p \in Nat \X Nat : p \in U <=> p \in V
  BY <1>1
<1> QED BY <1>2

LEMMA UninitPlaces ==
    ASSUME NEW s \in Scopes
    PROVE  /\ \A l, i : <<l, i>> \in UninitSnapshot(s) <=>
                 l \in 1 .. Len(s) /\ i \in 1 .. Len(s[l]) /\ ~s[l][i].initialized
           /\ \A p \in UninitSnapshot(s) :
                 /\ p = <<p[1], p[2]>> /\ p[1] \in 1 .. Len(s) /\ p[2] \in 1 .. Len(s[p[1]])
                 /\ ~s[p[1]][p[2]].initialized /\ s[p[1]][p[2]].origin = "var"
           /\ UninitSnapshot(s) \in SUBSET (Nat \X Nat)
<1>1. /\ Len(s) \in Nat /\ DOMAIN s = 1 .. Len(s)
      /\ \A l \in 1 .. Len(s) : Len(s[l]) \in Nat /\ DOMAIN s[l] = 1 .. Len(s[l])
      /\ \A l \in 1 .. Len(s) : \A i \in 1 .. Len(s[l]) : s[l][i] \in Bindings
  BY ScopeTypes
<1> DEFINE at(l) == {l} \X {i \in DOMAIN s[l] : ~s[l][i].initialized}
<1>2. UninitSnapshot(s) = UNION {at(l) : l \in DOMAIN s}
  BY DEF UninitSnapshot
<1>3. \A p : p \in UninitSnapshot(s) <=> \E l \in 1 .. Len(s) : p \in at(l)
  BY <1>1, <1>2
<1>4. \A l \in 1 .. Len(s) : \A p : p \in at(l) <=>
         p = <<p[1], p[2]>> /\ p[1] = l /\ p[2] \in 1 .. Len(s[l]) /\ ~s[l][p[2]].initialized
  BY <1>1
<1> HIDE DEF at
<1>5. ASSUME NEW l, NEW i
      PROVE  <<l, i>> \in UninitSnapshot(s) <=>
                 l \in 1 .. Len(s) /\ i \in 1 .. Len(s[l]) /\ ~s[l][i].initialized
  BY <1>3, <1>4
<1>6. ASSUME NEW p \in UninitSnapshot(s)
      PROVE  /\ p = <<p[1], p[2]>> /\ p[1] \in 1 .. Len(s) /\ p[2] \in 1 .. Len(s[p[1]])
             /\ ~s[p[1]][p[2]].initialized /\ s[p[1]][p[2]].origin = "var" /\ p \in Nat \X Nat
  <2>1. /\ p = <<p[1], p[2]>> /\ p[1] \in 1 .. Len(s) /\ p[2] \in 1 .. Len(s[p[1]])
        /\ ~s[p[1]][p[2]].initialized
    BY <1>3, <1>4
  <2>2. s[p[1]][p[2]].origin = "var"
    BY <1>1, <2>1 DEF Bindings, Proper
  <2>3. p \in Nat \X Nat
    BY <1>1, <2>1
  <2> QED BY <2>1, <2>2, <2>3
<1> QED BY <1>5, <1>6

LEMMA FunctionIsSeq ==
    ASSUME NEW S, NEW n \in Nat, NEW f \in [1 .. n -> S]
    PROVE  f \in Seq(S) /\ Len(f) = n
OBVIOUS

LEMMA ExceptIsSeq ==
    ASSUME NEW S, NEW f \in Seq(S), NEW i \in 1 .. Len(f), NEW x \in S,
           NEW g, g = [f EXCEPT ![i] = x]
    PROVE  g \in Seq(S) /\ Len(g) = Len(f) /\ \A j \in 1 .. Len(f) : g[j] = IF j = i THEN x ELSE f[j]
<1>1. Len(f) \in Nat /\ DOMAIN f = 1 .. Len(f) /\ \A j \in 1 .. Len(f) : f[j] \in S
  OBVIOUS
<1>2. g \in [1 .. Len(f) -> S]
  BY <1>1
<1> QED BY <1>1, <1>2, FunctionIsSeq

LEMMA FrontIsSeq ==
    ASSUME NEW S, NEW f \in Seq(S), Len(f) # 0
    PROVE  /\ SubSeq(f, 1, Len(f) - 1) \in Seq(S) /\ Len(SubSeq(f, 1, Len(f) - 1)) = Len(f) - 1
           /\ \A j \in 1 .. Len(f) - 1 : SubSeq(f, 1, Len(f) - 1)[j] = f[j]
<1>1. Len(f) \in Nat \ {0} /\ DOMAIN f = 1 .. Len(f)
  OBVIOUS
<1> QED BY <1>1

LEMMA EvolvesReflexive ==
    \A b : Evolves(b, b)
BY DEF Evolves

\* A scope of the same shape, changed binding by binding.
LEMMA Reshaped ==
    ASSUME NEW s \in Scopes, NEW t \in Scopes, Len(t) = Len(s),
           \A l \in 1 .. Len(s) : Len(t[l]) = Len(s[l]),
           \A l \in 1 .. Len(s) : \A i \in 1 .. Len(s[l]) : Evolves(s[l][i], t[l][i])
    PROVE  Kept(s, t, Len(s))
BY ScopeTypes DEF Kept

\* One binding changes.
Patch(s, l, i, b) == [s EXCEPT ![l] = [@ EXCEPT ![i] = b]]

LEMMA Patched ==
    ASSUME NEW s \in Scopes, NEW l \in 1 .. Len(s), NEW i \in 1 .. Len(s[l]),
           NEW b \in Bindings, Evolves(s[l][i], b)
    PROVE  LET t == Patch(s, l, i, b)
           IN  /\ t \in Scopes /\ Len(t) = Len(s) /\ Kept(s, t, Len(s))
               /\ \A k \in 1 .. Len(s) : /\ Len(t[k]) = Len(s[k])
                                         /\ \A j \in 1 .. Len(s[k]) :
                                               t[k][j] = IF k = l /\ j = i THEN b ELSE s[k][j]
<1> DEFINE t == Patch(s, l, i, b)
           r == [s[l] EXCEPT ![i] = b]
<1>1. \A k \in 1 .. Len(s) : s[k] \in Seq(Bindings)
  BY ScopeTypes
<1>2. r \in Seq(Bindings) /\ Len(r) = Len(s[l]) /\ \A j \in 1 .. Len(s[l]) : r[j] = IF j = i THEN b ELSE s[l][j]
  BY <1>1, ExceptIsSeq
<1> HIDE DEF r
<1>3. t = [s EXCEPT ![l] = r]
  BY DEF Patch, r
<1> HIDE DEF t
<1>4. s \in Seq(Seq(Bindings))
  BY DEF Scopes
<1>5. t \in Seq(Seq(Bindings)) /\ Len(t) = Len(s) /\ \A k \in 1 .. Len(s) : t[k] = IF k = l THEN r ELSE s[k]
  BY <1>2, <1>3, <1>4, ExceptIsSeq
<1>6. \A k \in 1 .. Len(s) : /\ Len(t[k]) = Len(s[k])
                             /\ \A j \in 1 .. Len(s[k]) :
                                   t[k][j] = IF k = l /\ j = i THEN b ELSE s[k][j]
  BY <1>2, <1>5
<1>7. t \in Scopes
  BY <1>5 DEF Scopes
<1>8. \A k \in 1 .. Len(s) : \A j \in 1 .. Len(s[k]) : Evolves(s[k][j], t[k][j])
  BY <1>6, EvolvesReflexive
<1>9. Kept(s, t, Len(s))
  BY <1>5, <1>6, <1>7, <1>8, Reshaped
<1> QED BY <1>5, <1>6, <1>7, <1>9 DEF t

-----------------------------------------------------------------------------
(* Uses: an expression changes nothing but marks of use.                    *)

\* b, read perhaps.
Reread(b, c) ==
    /\ c.name = b.name /\ c.origin = b.origin /\ c.id = b.id /\ c.ty = b.ty
    /\ c.reassigned = b.reassigned /\ c.initialized = b.initialized
    /\ b.used => c.used

OnlyMarks(s, t) ==
    /\ Len(t) = Len(s)
    /\ \A l \in 1 .. Len(s) : /\ Len(t[l]) = Len(s[l])
                              /\ \A i \in 1 .. Len(s[l]) : Reread(s[l][i], t[l][i])

LEMMA MarksReflexive ==
    ASSUME NEW s
    PROVE  OnlyMarks(s, s)
BY DEF OnlyMarks, Reread

LEMMA MarksTransitive ==
    ASSUME NEW s \in Scopes, NEW t \in Scopes, NEW u \in Scopes, OnlyMarks(s, t), OnlyMarks(t, u)
    PROVE  OnlyMarks(s, u)
<1>1. ASSUME NEW l \in 1 .. Len(s)
      PROVE  Len(u[l]) = Len(s[l]) /\ \A i \in 1 .. Len(s[l]) : Reread(s[l][i], u[l][i])
  <2>1. Len(t[l]) = Len(s[l]) /\ Len(u[l]) = Len(t[l])
    BY DEF OnlyMarks
  <2>2. ASSUME NEW i \in 1 .. Len(s[l]) PROVE Reread(s[l][i], u[l][i])
    <3>1. Reread(s[l][i], t[l][i]) /\ Reread(t[l][i], u[l][i])
      BY <2>1 DEF OnlyMarks
    <3> QED BY <3>1 DEF Reread
  <2> QED BY <2>1, <2>2
<1>2. Len(u) = Len(s)
  BY DEF OnlyMarks
<1> QED BY <1>1, <1>2 DEF OnlyMarks

LEMMA MarksKeep ==
    ASSUME NEW s \in Scopes, NEW t \in Scopes, OnlyMarks(s, t)
    PROVE  Kept(s, t, Len(s)) /\ UninitSnapshot(t) = UninitSnapshot(s)
<1>1. /\ Len(t) = Len(s) /\ Len(s) \in Nat
      /\ \A l \in 1 .. Len(s) : Len(t[l]) = Len(s[l])
      /\ \A l \in 1 .. Len(s) : \A i \in 1 .. Len(s[l]) : Reread(s[l][i], t[l][i])
  BY ScopeTypes DEF OnlyMarks
<1>2. \A l \in 1 .. Len(s) : \A i \in 1 .. Len(s[l]) :
         Evolves(s[l][i], t[l][i]) /\ t[l][i].initialized = s[l][i].initialized
  <2>1. ASSUME NEW l \in 1 .. Len(s), NEW i \in 1 .. Len(s[l])
        PROVE  Evolves(s[l][i], t[l][i]) /\ t[l][i].initialized = s[l][i].initialized
    <3>1. /\ Reread(s[l][i], t[l][i])
          /\ s[l][i] \in Bindings /\ t[l][i] \in Bindings
      BY <1>1, ScopeTypes
    <3> QED BY <3>1 DEF Reread, Evolves, Bindings, Marks
  <2> QED BY <2>1
<1>3. Kept(s, t, Len(s))
  BY <1>1, <1>2 DEF Kept
<1>4. \A l, i : <<l, i>> \in UninitSnapshot(s) <=> <<l, i>> \in UninitSnapshot(t)
  <2>1. \A l, i : <<l, i>> \in UninitSnapshot(s) <=>
           l \in 1 .. Len(s) /\ i \in 1 .. Len(s[l]) /\ ~s[l][i].initialized
    BY UninitPlaces
  <2>2. \A l, i : <<l, i>> \in UninitSnapshot(t) <=>
           l \in 1 .. Len(t) /\ i \in 1 .. Len(t[l]) /\ ~t[l][i].initialized
    BY UninitPlaces
  <2> SUFFICES ASSUME NEW l, NEW i
               PROVE  <<l, i>> \in UninitSnapshot(s) <=> <<l, i>> \in UninitSnapshot(t)
    OBVIOUS
  <2>3. l \in 1 .. Len(s) => (i \in 1 .. Len(s[l]) <=> i \in 1 .. Len(t[l]))
    BY <1>1
  <2>4. l \in 1 .. Len(s) <=> l \in 1 .. Len(t)
    BY <1>1
  <2>5. l \in 1 .. Len(s) /\ i \in 1 .. Len(s[l]) => t[l][i].initialized = s[l][i].initialized
    BY <1>2
  <2> HIDE DEF OnlyMarks
  <2> QED BY <2>1, <2>2, <2>3, <2>4, <2>5
<1>5. /\ UninitSnapshot(s) \in SUBSET (Nat \X Nat)
      /\ UninitSnapshot(t) \in SUBSET (Nat \X Nat)
  BY UninitPlaces
<1>6. UninitSnapshot(t) = UninitSnapshot(s)
  BY <1>4, <1>5, PairsEqual
<1> QED BY <1>3, <1>6

LEMMA MarkUsedMarks ==
    ASSUME NEW s \in Scopes, NEW n
    PROVE  LET t == MarkUsed(s, n)
           IN  /\ t \in Scopes /\ OnlyMarks(s, t)
               /\ \A l, i : Visible(s, Len(s), n, l, i) => t[l][i].used
<1> DEFINE t == MarkUsed(s, n)
<1>1. CASE ~Bound(s, n)
  <2>1. t = s
    BY <1>1 DEF MarkUsed
  <2>2. \A l, i : ~Visible(s, Len(s), n, l, i)
    BY <1>1, LocateVisible
  <2> QED BY <2>1, <2>2, MarksReflexive
<1>2. CASE Bound(s, n)
  <2>1. PICK l, i : Visible(s, Len(s), n, l, i)
    BY <1>2, LocateVisible
  <2>2. Locate(s, n) = <<l, i>> /\ l \in 1 .. Len(s) /\ i \in 1 .. Len(s[l])
    BY <2>1, LocateVisible DEF Visible
  <2> DEFINE b == [s[l][i] EXCEPT !.used = TRUE]
  <2>3. s[l][i] \in Bindings
    BY <2>2, ScopeTypes
  <2>4. b \in Bindings /\ Reread(s[l][i], b) /\ Evolves(s[l][i], b) /\ b.used
    BY <2>3 DEF Bindings, Marks, Proper, Reread, Evolves
  <2>5. t = Patch(s, l, i, b)
    BY <1>2, <2>2 DEF MarkUsed, Patch
  <2> HIDE DEF b, t
  <2>6. /\ t \in Scopes /\ Len(t) = Len(s)
        /\ \A k \in 1 .. Len(s) : /\ Len(t[k]) = Len(s[k])
                                  /\ \A j \in 1 .. Len(s[k]) :
                                        t[k][j] = IF k = l /\ j = i THEN b ELSE s[k][j]
    BY <2>2, <2>4, <2>5, Patched, SMTT(30)
  <2>7. OnlyMarks(s, t)
    <3>1. ASSUME NEW k \in 1 .. Len(s), NEW j \in 1 .. Len(s[k]) PROVE Reread(s[k][j], t[k][j])
      BY <2>4, <2>6 DEF Reread
    <3> QED BY <2>6, <3>1 DEF OnlyMarks
  <2>8. ASSUME NEW k, NEW j, Visible(s, Len(s), n, k, j) PROVE t[k][j].used
    <3>1. Len(s) \in 0 .. Len(s)
      BY ScopeTypes
    <3>2. k = l /\ j = i
      BY <2>1, <2>8, <3>1, VisibleUnique
    <3> QED BY <2>2, <2>4, <2>6, <3>2
  <2> QED BY <2>6, <2>7, <2>8 DEF t
<1> QED BY <1>1, <1>2

-----------------------------------------------------------------------------
(* What waits for a value, as scopes change.                                *)

LEMMA UninitWithin ==
    ASSUME NEW s \in Scopes
    PROVE  /\ UninitSnapshot(s) \in SUBSET (Nat \X Nat)
           /\ \A p \in UninitSnapshot(s) : p[1] \in 1 .. Len(s) /\ p[2] \in 1 .. Len(s[p[1]])
           /\ \A l \in 1 .. Len(s) : \A i \in 1 .. Len(s[l]) :
                 <<l, i>> \in UninitSnapshot(s) <=> ~s[l][i].initialized
BY UninitPlaces

LEMMA UninitIs ==
    ASSUME NEW s \in Scopes, NEW V \in SUBSET (Nat \X Nat),
           \A p \in V : p[1] \in 1 .. Len(s) /\ p[2] \in 1 .. Len(s[p[1]]),
           \A l \in 1 .. Len(s) : \A i \in 1 .. Len(s[l]) : <<l, i>> \in V <=> ~s[l][i].initialized
    PROVE  UninitSnapshot(s) = V
<1> DEFINE U == UninitSnapshot(s)
<1>1. /\ U \in SUBSET (Nat \X Nat)
      /\ \A p \in U : p[1] \in 1 .. Len(s) /\ p[2] \in 1 .. Len(s[p[1]])
      /\ \A l \in 1 .. Len(s) : \A i \in 1 .. Len(s[l]) : <<l, i>> \in U <=> ~s[l][i].initialized
  BY UninitWithin
<1> HIDE DEF U
<1>2. \A p \in Nat \X Nat : p = <<p[1], p[2]>>
  OBVIOUS
<1>3. ASSUME NEW p \in Nat \X Nat
      PROVE  p \in U <=> p \in V
  <2>1. CASE p[1] \in 1 .. Len(s) /\ p[2] \in 1 .. Len(s[p[1]])
    BY <1>1, <1>2, <2>1
  <2>2. CASE ~(p[1] \in 1 .. Len(s) /\ p[2] \in 1 .. Len(s[p[1]]))
    BY <1>1, <2>2
  <2> QED BY <2>1, <2>2
<1> QED BY <1>1, <1>3 DEF U

\* An assignment: one var has a value, and perhaps its type, from here on.
LEMMA AssignedPlace ==
    ASSUME NEW s \in Scopes, NEW n, NEW l, NEW i, Visible(s, Len(s), n, l, i),
           s[l][i].origin = "var", NEW ty \in Types \ {"Unknown"}
    PROVE  LET t == Assigned(s, n, ty)
           IN  /\ t \in Scopes /\ Len(t) = Len(s) /\ Kept(s, t, Len(s))
               /\ UninitSnapshot(t) = UninitSnapshot(s) \ {<<l, i>>}
               /\ \A k \in 1 .. Len(s) : /\ Len(t[k]) = Len(s[k])
                                         /\ \A j \in 1 .. Len(s[k]) : k # l \/ j # i => t[k][j] = s[k][j]
               /\ t[l][i].reassigned /\ t[l][i].initialized /\ t[l][i].used = s[l][i].used
               /\ t[l][i].ty = IF s[l][i].ty = "Unknown" THEN ty ELSE s[l][i].ty
<1> DEFINE t == Assigned(s, n, ty)
           b == [s[l][i] EXCEPT !.reassigned = TRUE, !.initialized = TRUE,
                                !.ty = IF s[l][i].ty = "Unknown" THEN ty ELSE s[l][i].ty]
<1>1. Locate(s, n) = <<l, i>> /\ l \in 1 .. Len(s) /\ i \in 1 .. Len(s[l])
  BY LocateVisible DEF Visible
<1>2. s[l][i] \in Bindings
  BY <1>1, ScopeTypes
<1>3. /\ b \in Bindings /\ Evolves(s[l][i], b) /\ b.initialized
      /\ b.reassigned /\ b.used = s[l][i].used
      /\ b.ty = IF s[l][i].ty = "Unknown" THEN ty ELSE s[l][i].ty
  BY <1>2 DEF Bindings, Marks, Proper, Evolves
<1>4. t = Patch(s, l, i, b)
  BY <1>1 DEF Assigned, Patch
<1> HIDE DEF b, t
<1>5. /\ t \in Scopes /\ Len(t) = Len(s) /\ Kept(s, t, Len(s))
      /\ \A k \in 1 .. Len(s) : /\ Len(t[k]) = Len(s[k])
                                /\ \A j \in 1 .. Len(s[k]) :
                                      t[k][j] = IF k = l /\ j = i THEN b ELSE s[k][j]
  BY <1>1, <1>3, <1>4, Patched
<1>6. UninitSnapshot(t) = UninitSnapshot(s) \ {<<l, i>>}
  <2> DEFINE U == UninitSnapshot(s)
  <2>1. /\ U \in SUBSET (Nat \X Nat)
        /\ \A p \in U : p[1] \in 1 .. Len(s) /\ p[2] \in 1 .. Len(s[p[1]])
        /\ \A k \in 1 .. Len(s) : \A j \in 1 .. Len(s[k]) : <<k, j>> \in U <=> ~s[k][j].initialized
    BY UninitWithin
  <2> HIDE DEF U
  <2>2. \A p \in U \ {<<l, i>>} : p[1] \in 1 .. Len(t) /\ p[2] \in 1 .. Len(t[p[1]])
    BY <1>5, <2>1
  <2>3. \A k \in 1 .. Len(t) : \A j \in 1 .. Len(t[k]) :
           <<k, j>> \in U \ {<<l, i>>} <=> ~t[k][j].initialized
    <3>1. b.initialized
      BY <1>3
    <3> QED BY <1>5, <2>1, <3>1
  <2>4. U \ {<<l, i>>} \in SUBSET (Nat \X Nat)
    BY <2>1
  <2> QED BY <1>5, <2>2, <2>3, <2>4, UninitIs DEF U
<1>7. /\ \A k \in 1 .. Len(s) : /\ Len(t[k]) = Len(s[k])
                                /\ \A j \in 1 .. Len(s[k]) : k # l \/ j # i => t[k][j] = s[k][j]
      /\ t[l][i] = b
  BY <1>1, <1>5
<1> QED BY <1>3, <1>5, <1>6, <1>7 DEF t

\* Some vars have a value again, or wait for one again.
CanBecome(s, places, value) ==
    \A p \in places :
        /\ p[1] \in 1 .. Len(s) /\ p[2] \in 1 .. Len(s[p[1]])
        /\ IF value THEN s[p[1]][p[2]].ty # "Unknown" ELSE s[p[1]][p[2]].origin = "var"

Became(s, places, value, t) ==
    /\ t \in Scopes /\ Len(t) = Len(s) /\ Kept(s, t, Len(s))
    /\ UninitSnapshot(t) = IF value THEN UninitSnapshot(s) \ places
                                    ELSE UninitSnapshot(s) \cup places
    /\ \A k \in 1 .. Len(s) :
          /\ Len(t[k]) = Len(s[k])
          /\ \A j \in 1 .. Len(s[k]) :
                t[k][j] = IF <<k, j>> \in places THEN [s[k][j] EXCEPT !.initialized = value]
                                                 ELSE s[k][j]

LEMMA InitializedPlaces ==
    ASSUME NEW s \in Scopes, NEW places \in SUBSET (Nat \X Nat), NEW value \in BOOLEAN,
           CanBecome(s, places, value)
    PROVE  Became(s, places, value, WithInitialized(s, places, value))
<1> SUFFICES ASSUME \A p \in places : p[1] \in 1 .. Len(s) /\ p[2] \in 1 .. Len(s[p[1]]),
                    \A p \in places : IF value THEN s[p[1]][p[2]].ty # "Unknown"
                                               ELSE s[p[1]][p[2]].origin = "var"
             PROVE  LET t == WithInitialized(s, places, value)
                    IN  /\ t \in Scopes /\ Len(t) = Len(s) /\ Kept(s, t, Len(s))
                        /\ UninitSnapshot(t) = IF value THEN UninitSnapshot(s) \ places
                                                        ELSE UninitSnapshot(s) \cup places
                        /\ \A k \in 1 .. Len(s) :
                              /\ Len(t[k]) = Len(s[k])
                              /\ \A j \in 1 .. Len(s[k]) :
                                    t[k][j] = IF <<k, j>> \in places THEN [s[k][j] EXCEPT !.initialized = value]
                                                                     ELSE s[k][j]
  BY DEF CanBecome, Became
<1> DEFINE t == WithInitialized(s, places, value)
           row(l) == [i \in DOMAIN s[l] |->
                        IF <<l, i>> \in places THEN [s[l][i] EXCEPT !.initialized = value] ELSE s[l][i]]
<1>1. /\ Len(s) \in Nat /\ DOMAIN s = 1 .. Len(s)
      /\ \A l \in 1 .. Len(s) : Len(s[l]) \in Nat /\ DOMAIN s[l] = 1 .. Len(s[l])
      /\ \A l \in 1 .. Len(s) : \A i \in 1 .. Len(s[l]) : s[l][i] \in Bindings
  BY ScopeTypes
<1>2. t = [l \in DOMAIN s |-> row(l)]
  BY DEF WithInitialized
<1>3. \A k \in 1 .. Len(s) : \A j \in 1 .. Len(s[k]) :
         t[k][j] = IF <<k, j>> \in places THEN [s[k][j] EXCEPT !.initialized = value] ELSE s[k][j]
  BY <1>1, <1>2
<1>4. ASSUME NEW k \in 1 .. Len(s), NEW j \in 1 .. Len(s[k])
      PROVE  t[k][j] \in Bindings /\ Evolves(s[k][j], t[k][j])
  <2>1. CASE <<k, j>> \in places
    <3> DEFINE b == s[k][j]
    <3>1. b \in Bindings /\ t[k][j] = [b EXCEPT !.initialized = value]
      BY <1>1, <1>3, <2>1
    <3>2. IF value THEN b.ty # "Unknown" ELSE b.origin = "var"
      BY <2>1
    <3> HIDE DEF b
    <3>3. t[k][j] \in Bindings /\ Evolves(b, t[k][j])
      BY <3>1, <3>2 DEF Bindings, Marks, Proper, Evolves
    <3> QED BY <3>3 DEF b
  <2>2. CASE <<k, j>> \notin places
    BY <1>1, <1>3, <2>2 DEF Evolves
  <2> QED BY <2>1, <2>2
<1>5. \A k \in 1 .. Len(s) : t[k] \in [1 .. Len(s[k]) -> Bindings]
  BY <1>1, <1>2, <1>4
<1>6. \A k \in 1 .. Len(s) : t[k] \in Seq(Bindings) /\ Len(t[k]) = Len(s[k])
  BY <1>1, <1>5, FunctionIsSeq
<1>7. /\ t \in Scopes /\ Len(t) = Len(s) /\ Kept(s, t, Len(s))
      /\ \A k \in 1 .. Len(s) : Len(t[k]) = Len(s[k])
  <2>1. t \in [1 .. Len(s) -> Seq(Bindings)]
    BY <1>1, <1>2, <1>6
  <2>2. t \in Scopes /\ Len(t) = Len(s)
    BY <1>1, <2>1, FunctionIsSeq DEF Scopes
  <2>3. \A l \in 1 .. Len(s) : \A i \in 1 .. Len(s[l]) : Evolves(s[l][i], t[l][i])
    BY <1>4
  <2> QED BY <1>6, <2>2, <2>3, Reshaped
<1> DEFINE U == UninitSnapshot(s)
           V == IF value THEN U \ places ELSE U \cup places
<1>8. UninitSnapshot(t) = V
  <2>1. /\ U \in SUBSET (Nat \X Nat)
        /\ \A p \in U : p[1] \in 1 .. Len(s) /\ p[2] \in 1 .. Len(s[p[1]])
        /\ \A k \in 1 .. Len(s) : \A j \in 1 .. Len(s[k]) : <<k, j>> \in U <=> ~s[k][j].initialized
    BY UninitWithin
  <2> HIDE DEF U
  <2>2. \A p \in V : p[1] \in 1 .. Len(t) /\ p[2] \in 1 .. Len(t[p[1]])
    BY <1>7, <2>1
  <2>3. \A k \in 1 .. Len(s) : \A j \in 1 .. Len(s[k]) :
           t[k][j].initialized = IF <<k, j>> \in places THEN value ELSE s[k][j].initialized
    <3>1. ASSUME NEW k \in 1 .. Len(s), NEW j \in 1 .. Len(s[k])
          PROVE  t[k][j].initialized = IF <<k, j>> \in places THEN value ELSE s[k][j].initialized
      <4>1. s[k][j] \in Marks
        BY <1>1 DEF Bindings
      <4> QED BY <1>3, <4>1 DEF Marks
    <3> QED BY <3>1
  <2>4. \A k \in 1 .. Len(t) : \A j \in 1 .. Len(t[k]) : <<k, j>> \in V <=> ~t[k][j].initialized
    BY <1>7, <2>1, <2>3
  <2>5. V \in SUBSET (Nat \X Nat)
    BY <2>1
  <2> HIDE DEF V
  <2> QED BY <1>7, <2>2, <2>4, <2>5, UninitIs
<1> QED BY <1>3, <1>7, <1>8 DEF t

LEMMA InsertPlaces ==
    ASSUME NEW s \in Scopes, Len(s) # 0, NEW b \in Bindings
    PROVE  LET t == Insert(s, b)
               m == Len(s)
               i == Len(s[m]) + 1
           IN  /\ t \in Scopes /\ Len(t) = m /\ Kept(s, t, m - 1)
               /\ m \in 1 .. Len(s) /\ Len(t[m]) = i /\ t[m][i] = b
               /\ \A j \in 1 .. i - 1 : t[m][j] = s[m][j]
               /\ \A l \in 1 .. m - 1 : t[l] = s[l]
               /\ UninitSnapshot(t) = UninitSnapshot(s) \cup (IF b.initialized THEN {} ELSE {<<m, i>>})
<1> DEFINE t == Insert(s, b)
           m == Len(s)
           i == Len(s[m]) + 1
<1>1. /\ m \in 1 .. m /\ m \in Nat /\ DOMAIN s = 1 .. m
      /\ \A l \in 1 .. m : Len(s[l]) \in Nat /\ s[l] \in Seq(Bindings)
  BY ScopeTypes
<1>2. /\ Append(s[m], b) \in Seq(Bindings) /\ Len(Append(s[m], b)) = i /\ Append(s[m], b)[i] = b
      /\ \A j \in 1 .. i - 1 : Append(s[m], b)[j] = s[m][j]
  BY <1>1
<1>3. t \in Seq(Seq(Bindings)) /\ Len(t) = m /\ t[m] = Append(s[m], b) /\ \A l \in 1 .. m - 1 : t[l] = s[l]
  <2>1. s \in Seq(Seq(Bindings)) /\ t = [s EXCEPT ![m] = Append(s[m], b)]
    BY DEF Insert, Scopes
  <2> HIDE DEF t
  <2>2. /\ t \in Seq(Seq(Bindings)) /\ Len(t) = m
        /\ \A l \in 1 .. m : t[l] = IF l = m THEN Append(s[m], b) ELSE s[l]
    BY <1>1, <1>2, <2>1, ExceptIsSeq
  <2> HIDE DEF m, i
  <2>3. \A l \in 1 .. m - 1 : l \in 1 .. m /\ l # m
    BY <1>1
  <2> QED BY <1>1, <2>2, <2>3
<1>4. t \in Scopes
  BY <1>3 DEF Scopes
<1> HIDE DEF t
<1>5. Kept(s, t, m - 1)
  BY <1>1, <1>3, EvolvesReflexive DEF Kept
<1> DEFINE U == UninitSnapshot(s)
           V == U \cup (IF b.initialized THEN {} ELSE {<<m, i>>})
<1>6. UninitSnapshot(t) = V
  <2>1. /\ U \in SUBSET (Nat \X Nat)
        /\ \A p \in U : p[1] \in 1 .. m /\ p[2] \in 1 .. Len(s[p[1]])
        /\ \A k \in 1 .. m : \A j \in 1 .. Len(s[k]) : <<k, j>> \in U <=> ~s[k][j].initialized
    BY UninitWithin
  <2>0. /\ i = Len(s[m]) + 1 /\ m \in Nat \ {0} /\ i \in Nat \ {0}
        /\ \A l \in 1 .. m : Len(s[l]) \in Nat
        /\ Len(t) = m /\ Len(t[m]) = i /\ t[m][i] = b
        /\ \A j \in 1 .. i - 1 : t[m][j] = s[m][j]
        /\ \A l \in 1 .. m - 1 : t[l] = s[l]
    BY <1>1, <1>2, <1>3
  <2> HIDE DEF U, m, i
  <2>2. \A k \in 1 .. m : Len(t[k]) = IF k = m THEN i ELSE Len(s[k])
    BY <2>0
  <2>3. \A p \in V : p[1] \in 1 .. Len(t) /\ p[2] \in 1 .. Len(t[p[1]])
    <3>1. \A p \in U : p[1] \in 1 .. Len(t) /\ p[2] \in 1 .. Len(t[p[1]])
      BY <2>0, <2>1, <2>2
    <3>2. m \in 1 .. Len(t) /\ i \in 1 .. Len(t[m])
      BY <2>0, <2>2
    <3> QED BY <3>1, <3>2
  <2>4. ASSUME NEW k \in 1 .. Len(t), NEW j \in 1 .. Len(t[k])
        PROVE  <<k, j>> \in V <=> ~t[k][j].initialized
    <3>1. CASE k = m /\ j = i
      <4>1. t[k][j] = b
        BY <2>0, <3>1
      <4>2. <<k, j>> \notin U
        BY <2>0, <2>1, <3>1
      <4> QED BY <3>1, <4>1, <4>2
    <3>2. CASE ~(k = m /\ j = i)
      <4>1. k \in 1 .. m /\ j \in 1 .. Len(s[k]) /\ t[k][j] = s[k][j]
        <5>1. CASE k = m
          BY <2>0, <2>2, <3>2, <5>1
        <5>2. CASE k # m
          BY <2>0, <2>2, <5>2
        <5> QED BY <5>1, <5>2
      <4>2. <<k, j>> # <<m, i>>
        BY <3>2
      <4> QED BY <2>1, <4>1, <4>2
    <3> QED BY <3>1, <3>2
  <2>5. V \in SUBSET (Nat \X Nat)
    BY <2>0, <2>1
  <2> HIDE DEF V
  <2> QED BY <1>4, <2>3, <2>4, <2>5, UninitIs
<1> QED BY <1>1, <1>2, <1>3, <1>4, <1>5, <1>6 DEF t

LEMMA PushPlaces ==
    ASSUME NEW s \in Scopes
    PROVE  LET t == Push(s)
           IN  /\ t \in Scopes /\ Len(t) = Len(s) + 1 /\ Kept(s, t, Len(s))
               /\ t[Len(s) + 1] = << >> /\ \A l \in 1 .. Len(s) : t[l] = s[l]
               /\ UninitSnapshot(t) = UninitSnapshot(s)
<1> DEFINE t == Push(s)
<1>1. Len(s) \in Nat /\ << >> \in Seq(Bindings)
  BY ScopeTypes
<1>2. /\ t \in Scopes /\ Len(t) = Len(s) + 1 /\ t[Len(s) + 1] = << >>
      /\ \A l \in 1 .. Len(s) : t[l] = s[l]
  BY <1>1 DEF Push, Scopes
<1> HIDE DEF t
<1>3. Kept(s, t, Len(s))
  BY <1>1, <1>2 DEF Kept, Evolves
<1>4. UninitSnapshot(t) = UninitSnapshot(s)
  <2> DEFINE U == UninitSnapshot(s)
  <2>1. /\ U \in SUBSET (Nat \X Nat)
        /\ \A p \in U : p[1] \in 1 .. Len(s) /\ p[2] \in 1 .. Len(s[p[1]])
        /\ \A k \in 1 .. Len(s) : \A j \in 1 .. Len(s[k]) : <<k, j>> \in U <=> ~s[k][j].initialized
    BY UninitWithin
  <2> HIDE DEF U
  <2>2. \A p \in U : p[1] \in 1 .. Len(t) /\ p[2] \in 1 .. Len(t[p[1]])
    BY <1>1, <1>2, <2>1
  <2>3. \A k \in 1 .. Len(t) : \A j \in 1 .. Len(t[k]) : k \in 1 .. Len(s)
    <3>1. Len(t[Len(s) + 1]) = 0
      BY <1>2
    <3> QED BY <1>1, <1>2, <3>1
  <2>4. \A k \in 1 .. Len(t) : \A j \in 1 .. Len(t[k]) : <<k, j>> \in U <=> ~t[k][j].initialized
    BY <1>2, <2>1, <2>3
  <2> QED BY <1>2, <2>1, <2>2, <2>4, UninitIs DEF U
<1> QED BY <1>2, <1>3, <1>4 DEF t

LEMMA PopPlaces ==
    ASSUME NEW s \in Scopes, Len(s) # 0
    PROVE  LET t == Pop(s)
           IN  /\ t \in Scopes /\ Len(t) = Len(s) - 1 /\ Kept(s, t, Len(s) - 1)
               /\ \A l \in 1 .. Len(s) - 1 : t[l] = s[l]
               /\ UninitSnapshot(t) = {p \in UninitSnapshot(s) : p[1] < Len(s)}
<1> DEFINE t == Pop(s)
<1>1. Len(s) \in Nat \ {0}
  BY ScopeTypes
<1>2. t \in Scopes /\ Len(t) = Len(s) - 1 /\ \A l \in 1 .. Len(s) - 1 : t[l] = s[l]
  <2>1. s \in Seq(Seq(Bindings)) /\ t = SubSeq(s, 1, Len(s) - 1)
    BY DEF Pop, Scopes
  <2>2. /\ t \in Seq(Seq(Bindings)) /\ Len(t) = Len(s) - 1
        /\ \A l \in 1 .. Len(s) - 1 : t[l] = s[l]
    <3> DEFINE S == Seq(Bindings)
    <3> HIDE DEF t, S
    <3>1. s \in Seq(S) /\ t = SubSeq(s, 1, Len(s) - 1)
      BY <2>1 DEF S
    <3>2. t \in Seq(S) /\ Len(t) = Len(s) - 1 /\ \A l \in 1 .. Len(s) - 1 : t[l] = s[l]
      BY <1>1, <3>1, FrontIsSeq
    <3> QED BY <3>2 DEF S
  <2> QED BY <2>2 DEF Scopes
<1> HIDE DEF t
<1>3. Kept(s, t, Len(s) - 1)
  BY <1>1, <1>2 DEF Kept, Evolves
<1> DEFINE U == UninitSnapshot(s)
           V == {p \in U : p[1] < Len(s)}
<1>4. UninitSnapshot(t) = V
  <2>1. /\ U \in SUBSET (Nat \X Nat)
        /\ \A p \in U : p[1] \in 1 .. Len(s) /\ p[2] \in 1 .. Len(s[p[1]])
        /\ \A k \in 1 .. Len(s) : \A j \in 1 .. Len(s[k]) : <<k, j>> \in U <=> ~s[k][j].initialized
    BY UninitWithin
  <2> HIDE DEF U
  <2>2. \A p \in V : p[1] \in 1 .. Len(t) /\ p[2] \in 1 .. Len(t[p[1]])
    BY <1>1, <1>2, <2>1
  <2>3. \A k \in 1 .. Len(t) : k \in 1 .. Len(s) /\ k < Len(s) /\ t[k] = s[k]
    BY <1>1, <1>2
  <2>4. \A k \in 1 .. Len(t) : \A j \in 1 .. Len(t[k]) : <<k, j>> \in V <=> ~t[k][j].initialized
    BY <2>1, <2>3
  <2>5. V \in SUBSET (Nat \X Nat)
    BY <2>1
  <2> HIDE DEF V
  <2> QED BY <1>2, <2>2, <2>4, <2>5, UninitIs
<1> QED BY <1>2, <1>3, <1>4 DEF t

-----------------------------------------------------------------------------
(* What executions do to their frames.                                      *)

LEMMA WorldWith ==
    ASSUME NEW w \in Worlds, NEW fs \in Seq(Frames)
    PROVE  LET v == [w EXCEPT !.frames = fs]
           IN  v \in Worlds /\ v.frames = fs /\ v.val = w.val /\ v.depth = w.depth
BY DEF Worlds

LEMMA WithCell ==
    ASSUME NEW f \in Frames, NEW n \in Names, NEW c \in Cells
    PROVE  LET g == With(f, n, c)
           IN  /\ g \in Frames /\ DOMAIN g = DOMAIN f \cup {n} /\ g[n] = c
               /\ \A x \in DOMAIN f : x # n => g[x] = f[x]
<1>1. PICK D \in SUBSET Names : f \in [D -> Cells]
  BY DEF Frames
<1>2. With(f, n, c) \in [D \cup {n} -> Cells]
  BY <1>1 DEF With
<1>3. D \cup {n} \in SUBSET Names
  OBVIOUS
<1>4. With(f, n, c) \in Frames
  BY <1>2, <1>3 DEF Frames
<1> QED BY <1>1, <1>4 DEF With

\* A binding is written down, and every execution makes its cell.
LEMMA AgreesDeclare ==
    ASSUME NEW s \in Scopes, Len(s) # 0, NEW b \in Bindings, b.name \in Names,
           NEW w, NEW U, Agrees(s, Len(s), w, U),
           NEW c \in Cells, NEW V, U \subseteq V,
           Fits(b, c, <<Len(s), Len(s[Len(s)]) + 1>> \in V)
    PROVE  LET v == Declare(w, b.name, c)
           IN  Agrees(Insert(s, b), Len(s), v, V) /\ v.val = w.val /\ v.depth = w.depth
<1> DEFINE m == Len(s)
           i0 == Len(s[m]) + 1
           t == Insert(s, b)
           n == b.name
           v == Declare(w, n, c)
           f == With(w.frames[m], n, c)
           fs == [w.frames EXCEPT ![m] = f]
<1>1. /\ m \in 1 .. m /\ m \in Nat /\ \A l \in 1 .. m : Len(s[l]) \in Nat
      /\ i0 \in Nat \ {0}
  BY ScopeTypes
<1>2. /\ w \in Worlds /\ Len(w.frames) = m /\ w.frames \in Seq(Frames) /\ w.frames[m] \in Frames
  <2>1. w \in Worlds /\ Len(w.frames) = m
    BY DEF Agrees
  <2>2. w.frames \in Seq(Frames)
    BY <2>1 DEF Worlds
  <2> QED BY <1>1, <2>1, <2>2, WorldTypes
<1>3. /\ f \in Frames /\ DOMAIN f = DOMAIN w.frames[m] \cup {n} /\ f[n] = c
      /\ \A x \in DOMAIN w.frames[m] : x # n => f[x] = w.frames[m][x]
  BY <1>2, WithCell
<1>4. /\ t \in Scopes /\ Len(t) = m /\ Len(t[m]) = i0 /\ t[m][i0] = b
      /\ \A j \in 1 .. i0 - 1 : t[m][j] = s[m][j]
      /\ \A l \in 1 .. m - 1 : t[l] = s[l]
  BY InsertPlaces
<1> HIDE DEF f
<1>5. fs \in Seq(Frames) /\ Len(fs) = m /\ \A l \in 1 .. m : fs[l] = IF l = m THEN f ELSE w.frames[l]
  BY <1>1, <1>2, <1>3, ExceptIsSeq
<1>6. v = [w EXCEPT !.frames = fs]
  BY <1>2 DEF Declare, f
<1> HIDE DEF fs, v
<1>7. v \in Worlds /\ v.frames = fs /\ v.val = w.val /\ v.depth = w.depth
  BY <1>2, <1>5, <1>6, WorldWith
<1>8. i0 = Len(s[m]) + 1
  OBVIOUS
<1> HIDE DEF m, i0, t, n
<1>9. \A l \in 1 .. m : \A x \in Names :
         x \in DOMAIN fs[l] <=> \E i \in 1 .. Len(t[l]) : t[l][i].name = x
  <2> TAKE l \in 1 .. m
  <2> TAKE x \in Names
  <2>1. x \in DOMAIN w.frames[l] <=> \E i \in 1 .. Len(s[l]) : s[l][i].name = x
    BY DEF Agrees, m
  <2>2. CASE l # m
    BY <1>1, <1>4, <1>5, <2>1, <2>2
  <2>3. CASE l = m
    <3>1. x \in DOMAIN fs[l] <=> x \in DOMAIN w.frames[l] \/ x = n
      BY <1>3, <1>5, <2>3
    <3>2. (\E i \in 1 .. Len(t[l]) : t[l][i].name = x) <=>
             (\E i \in 1 .. Len(s[l]) : s[l][i].name = x) \/ x = n
      <4>1. /\ Len(t[l]) = i0 /\ i0 \in 1 .. i0 /\ t[l][i0].name = n /\ 1 .. Len(s[l]) = 1 .. i0 - 1
            /\ Len(s[l]) \in Nat
        BY <1>1, <1>4, <1>8, <2>3 DEF n
      <4>2. \A i \in 1 .. i0 : i = i0 \/ i \in 1 .. i0 - 1
        BY <1>1
      <4>3. \A i \in 1 .. i0 - 1 : i \in 1 .. i0 /\ t[l][i] = s[l][i]
        BY <1>1, <1>4, <2>3
      <4> QED BY <4>1, <4>2, <4>3
    <3> QED BY <2>1, <3>1, <3>2
  <2> QED BY <2>2, <2>3
<1>10. ASSUME NEW l \in 1 .. m, NEW i \in 1 .. Len(t[l]), t[l][i].name \in Names, Latest(t[l], i)
       PROVE  Fits(t[l][i], fs[l][t[l][i].name], <<l, i>> \in V)
  <2>1. CASE l # m
    <3>1. l \in 1 .. m - 1 /\ t[l] = s[l] /\ fs[l] = w.frames[l]
      BY <1>1, <1>4, <1>5, <2>1
    <3>2. Fits(s[l][i], w.frames[l][s[l][i].name], <<l, i>> \in U)
      BY <1>10, <3>1 DEF Agrees, m
    <3> QED BY <3>1, <3>2 DEF Fits
  <2>2. CASE l = m /\ i = i0
    <3>1. t[l][i] = b /\ fs[l][n] = c /\ b.name = n
      BY <1>3, <1>4, <1>5, <2>2 DEF n
    <3>2. Fits(b, c, <<m, i0>> \in V)
      BY DEF m, i0
    <3> QED BY <2>2, <3>1, <3>2
  <2>3. CASE l = m /\ i # i0
    <3>1. i \in 1 .. i0 - 1 /\ i \in 1 .. Len(s[l]) /\ t[l][i] = s[l][i] /\ i0 \in i + 1 .. i0
      BY <1>1, <1>4, <1>8, <2>3
    <3>2. \A j \in i + 1 .. i0 : t[l][j].name # t[l][i].name
      BY <1>4, <1>10, <2>3 DEF Latest
    <3>3. t[l][i].name # n
      BY <1>4, <2>3, <3>1, <3>2 DEF n
    <3>4. Latest(s[l], i)
      <4>1. \A j \in i + 1 .. Len(s[l]) : j \in i + 1 .. i0 /\ j \in 1 .. i0 - 1
        BY <1>1, <1>8, <2>3, <3>1
      <4>2. \A j \in i + 1 .. Len(s[l]) : s[l][j] = t[l][j]
        BY <1>4, <2>3, <4>1
      <4> QED BY <3>1, <3>2, <4>1, <4>2 DEF Latest
    <3>5. Fits(s[l][i], w.frames[l][s[l][i].name], <<l, i>> \in U)
      BY <1>10, <3>1, <3>4 DEF Agrees, m
    <3>6. s[l][i].name \in DOMAIN w.frames[l]
      BY <1>10, <3>1 DEF Agrees, m
    <3>7. fs[l][t[l][i].name] = w.frames[l][s[l][i].name]
      BY <1>3, <1>5, <2>3, <3>1, <3>3, <3>6
    <3> QED BY <3>1, <3>5, <3>7 DEF Fits
  <2> QED BY <2>1, <2>2, <2>3
<1>11. Agrees(t, m, v, V)
  BY <1>5, <1>7, <1>9, <1>10 DEF Agrees
<1> QED BY <1>7, <1>11 DEF m, t, n, v

\* An execution writes what is visible.
LEMMA AgreesWrite ==
    ASSUME NEW s \in Scopes, NEW m \in 0 .. Len(s), NEW w, NEW U, Agrees(s, m, w, U),
           NEW n \in Names, NEW l, NEW i, Visible(s, m, n, l, i),
           NEW ty \in Solid, ty = s[l][i].ty, NEW V, U \ {<<l, i>>} \subseteq V
    PROVE  LET v == Write(w, n, ty)
           IN  Agrees(s, m, v, V) /\ v.val = w.val /\ v.depth = w.depth
<1> DEFINE v == Write(w, n, ty)
           f == w.frames[l]
           c == [f[n] EXCEPT !.holds = ty]
           g == [f EXCEPT ![n] = c]
           fs == [w.frames EXCEPT ![l] = g]
<1>1. /\ l \in 1 .. m /\ i \in 1 .. Len(s[l]) /\ s[l][i].name = n /\ Latest(s[l], i)
      /\ m \in Nat /\ \A k \in 1 .. m : k \in 1 .. Len(s)
  BY ScopeTypes DEF Visible
<1>2. /\ w \in Worlds /\ Len(w.frames) = m /\ w.frames \in Seq(Frames) /\ f \in Frames
  <2>1. w \in Worlds /\ Len(w.frames) = m
    BY DEF Agrees
  <2>2. w.frames \in Seq(Frames)
    BY <2>1 DEF Worlds
  <2> QED BY <1>1, <2>1, <2>2, WorldTypes
<1>3. /\ FrameOf(w, n) = l /\ n \in DOMAIN f
      /\ Fits(s[l][i], f[n], <<l, i>> \in U)
  <2>1. /\ FrameOf(w, n) = l /\ CellOf(w, n) = f[n] /\ n \in DOMAIN f
        /\ Fits(s[l][i], CellOf(w, n), <<l, i>> \in U)
    BY FrameVisible
  <2> QED BY <2>1
<1>4. f[n] \in Cells
  BY <1>1, <1>2, <1>3, WorldTypes
<1>5. c \in Cells /\ c.id = f[n].id /\ c.decl = f[n].decl /\ c.holds = ty
  BY <1>4 DEF Cells
<1>6. v = [w EXCEPT !.frames = fs]
  BY <1>3 DEF Write
<1> HIDE DEF v, c
<1>7. /\ g \in Frames /\ DOMAIN g = DOMAIN f /\ g[n] = c
      /\ \A x \in DOMAIN f : x # n => g[x] = f[x]
  <2>1. PICK D \in SUBSET Names : f \in [D -> Cells]
    BY <1>2 DEF Frames
  <2>2. g \in [D -> Cells]
    BY <1>5, <2>1
  <2> QED BY <1>3, <2>1, <2>2 DEF Frames
<1> HIDE DEF g
<1>8. fs \in Seq(Frames) /\ Len(fs) = m /\ \A k \in 1 .. m : fs[k] = IF k = l THEN g ELSE w.frames[k]
  BY <1>1, <1>2, <1>7, ExceptIsSeq
<1> HIDE DEF fs
<1>9. v \in Worlds /\ v.frames = fs /\ v.val = w.val /\ v.depth = w.depth
  BY <1>2, <1>6, <1>8, WorldWith
<1>10. \A k \in 1 .. m : \A x \in Names :
         x \in DOMAIN fs[k] <=> \E j \in 1 .. Len(s[k]) : s[k][j].name = x
  <2>1. \A k \in 1 .. m : DOMAIN fs[k] = DOMAIN w.frames[k]
    BY <1>7, <1>8
  <2> QED BY <2>1 DEF Agrees
<1>11. ASSUME NEW k \in 1 .. m, NEW j \in 1 .. Len(s[k]), s[k][j].name \in Names, Latest(s[k], j)
       PROVE  Fits(s[k][j], fs[k][s[k][j].name], <<k, j>> \in V)
  <2>1. Fits(s[k][j], w.frames[k][s[k][j].name], <<k, j>> \in U)
    BY <1>11 DEF Agrees
  <2>2. CASE k = l /\ j = i
    <3>1. fs[k][s[k][j].name] = c
      BY <1>1, <1>7, <1>8, <2>2
    <3>2. ty # "nothing"
      BY SolidTypes
    <3> QED BY <1>3, <1>5, <2>2, <3>1, <3>2 DEF Fits
  <2>3. CASE ~(k = l /\ j = i)
    <3>1. fs[k][s[k][j].name] = w.frames[k][s[k][j].name]
      <4>1. CASE k # l
        BY <1>8, <4>1
      <4>2. CASE k = l
        <5>1. s[k][j].name # n
          <6>1. Len(s[l]) \in Nat
            BY <1>1, ScopeTypes
          <6>2. j < i \/ i < j
            BY <2>3, <4>2, <6>1, <1>1
          <6>3. j < i => i \in j + 1 .. Len(s[l])
            BY <1>1, <4>2, <6>1
          <6>4. i < j => j \in i + 1 .. Len(s[l])
            BY <1>1, <4>2, <6>1
          <6> QED BY <1>1, <1>11, <4>2, <6>2, <6>3, <6>4 DEF Latest
        <5>2. s[k][j].name \in DOMAIN w.frames[k]
          BY <1>11 DEF Agrees
        <5> QED BY <1>7, <1>8, <4>2, <5>1, <5>2
      <4> QED BY <4>1, <4>2
    <3>2. <<k, j>> \in U => <<k, j>> \in V
      BY <2>3
    <3> QED BY <2>1, <3>1, <3>2 DEF Fits
  <2> QED BY <2>2, <2>3
<1>12. Agrees(s, m, v, V)
  BY <1>8, <1>9, <1>10, <1>11 DEF Agrees
<1> QED BY <1>9, <1>12 DEF v

LEMMA AgreesEnter ==
    ASSUME NEW s \in Scopes, NEW w, NEW U, Agrees(s, Len(s), w, U)
    PROVE  /\ Agrees(Push(s), Len(s) + 1, Enter(w), U)
           /\ Enter(w).val = w.val /\ Enter(w).depth = w.depth
<1> DEFINE t == Push(s)
           v == Enter(w)
           m == Len(s)
           fs == Append(w.frames, << >>)
<1>1. /\ w \in Worlds /\ Len(w.frames) = m /\ w.frames \in Seq(Frames) /\ m \in Nat
  BY ScopeTypes DEF Agrees, Worlds
<1>2. << >> \in Frames /\ DOMAIN << >> = {}
  <2>1. << >> \in [{} -> Cells]
    OBVIOUS
  <2>2. {} \in SUBSET Names
    OBVIOUS
  <2> QED BY <2>1, <2>2 DEF Frames
<1>3. /\ fs \in Seq(Frames) /\ Len(fs) = m + 1 /\ fs[m + 1] = << >>
      /\ \A l \in 1 .. m : fs[l] = w.frames[l]
  BY <1>1, <1>2
<1>4. v = [w EXCEPT !.frames = fs]
  BY DEF Enter
<1>5. t \in Scopes /\ Len(t) = m + 1 /\ t[m + 1] = << >> /\ \A l \in 1 .. m : t[l] = s[l]
  BY PushPlaces
<1> HIDE DEF v, fs, t, m
<1>6. v \in Worlds /\ v.frames = fs /\ v.val = w.val /\ v.depth = w.depth
  BY <1>1, <1>3, <1>4, WorldWith
<1>7. Len(t[m + 1]) = 0 /\ DOMAIN fs[m + 1] = {}
  BY <1>2, <1>3, <1>5
<1>8. ASSUME NEW l \in 1 .. m + 1, NEW n \in Names
      PROVE  n \in DOMAIN fs[l] <=> \E i \in 1 .. Len(t[l]) : t[l][i].name = n
  <2>1. CASE l = m + 1
    BY <1>7, <2>1
  <2>2. CASE l # m + 1
    <3>1. l \in 1 .. m
      BY <1>1, <2>2
    <3> QED BY <1>3, <1>5, <3>1 DEF Agrees, m
  <2> QED BY <2>1, <2>2
<1>9. ASSUME NEW l \in 1 .. m + 1, NEW i \in 1 .. Len(t[l]), t[l][i].name \in Names, Latest(t[l], i)
      PROVE  Fits(t[l][i], fs[l][t[l][i].name], <<l, i>> \in U)
  <2>1. l \in 1 .. m
    BY <1>1, <1>7
  <2>2. t[l] = s[l] /\ fs[l] = w.frames[l]
    BY <1>3, <1>5, <2>1
  <2> QED BY <1>9, <2>1, <2>2 DEF Agrees, m
<1>10. Agrees(t, m + 1, v, U)
  BY <1>3, <1>6, <1>8, <1>9 DEF Agrees
<1> QED BY <1>6, <1>10 DEF t, v, m

LEMMA AgreesLeave ==
    ASSUME NEW s \in Scopes, NEW m \in Nat, m + 1 <= Len(s), NEW w, NEW U, Agrees(s, m + 1, w, U),
           NEW V, \A p \in U : p[1] \in 1 .. m => p \in V
    PROVE  /\ Agrees(s, m, Leave(w), V)
           /\ Leave(w).val = w.val /\ Leave(w).depth = w.depth
<1> DEFINE v == Leave(w)
           fs == SubSeq(w.frames, 1, Len(w.frames) - 1)
<1>1. /\ w \in Worlds /\ Len(w.frames) = m + 1 /\ w.frames \in Seq(Frames)
  BY DEF Agrees, Worlds
<1>2. fs \in Seq(Frames) /\ Len(fs) = m /\ \A l \in 1 .. m : fs[l] = w.frames[l]
  <2>1. Len(w.frames) # 0 /\ Len(w.frames) - 1 = m
    BY <1>1
  <2> QED BY <1>1, <2>1, FrontIsSeq
<1>3. v = [w EXCEPT !.frames = fs]
  BY DEF Leave
<1> HIDE DEF v, fs
<1>4. v \in Worlds /\ v.frames = fs /\ v.val = w.val /\ v.depth = w.depth
  BY <1>1, <1>2, <1>3, WorldWith
<1>5. \A l \in 1 .. m : l \in 1 .. m + 1
  OBVIOUS
<1>6. \A l \in 1 .. m : \A n \in Names :
         n \in DOMAIN fs[l] <=> \E i \in 1 .. Len(s[l]) : s[l][i].name = n
  BY <1>2, <1>5 DEF Agrees
<1>7. ASSUME NEW l \in 1 .. m, NEW i \in 1 .. Len(s[l]), s[l][i].name \in Names, Latest(s[l], i)
      PROVE  Fits(s[l][i], fs[l][s[l][i].name], <<l, i>> \in V)
  <2>1. Fits(s[l][i], w.frames[l][s[l][i].name], <<l, i>> \in U)
    BY <1>5, <1>7 DEF Agrees
  <2>2. <<l, i>> \in U => <<l, i>> \in V
    OBVIOUS
  <2> QED BY <1>2, <2>1, <2>2 DEF Fits
<1>8. Agrees(s, m, v, V)
  BY <1>2, <1>4, <1>6, <1>7 DEF Agrees
<1> QED BY <1>4, <1>8 DEF v

\* A world's value and its depth are no matter of frames.
LEMMA AgreesValue ==
    ASSUME NEW s, NEW m, NEW w, NEW U, Agrees(s, m, w, U), NEW ty \in Solid
    PROVE  LET v == [w EXCEPT !.val = ty]
           IN  Agrees(s, m, v, U) /\ v.val = ty /\ v.depth = w.depth
<1> DEFINE v == [w EXCEPT !.val = ty]
<1>1. w \in Worlds
  BY DEF Agrees
<1>2. v \in Worlds /\ v.frames = w.frames /\ v.val = ty /\ v.depth = w.depth
  BY <1>1 DEF Worlds
<1> HIDE DEF v
<1> QED BY <1>2 DEF Agrees, v

LEMMA AgreesDepth ==
    ASSUME NEW s, NEW m, NEW w, NEW U, Agrees(s, m, w, U), NEW depth \in Int
    PROVE  LET v == [w EXCEPT !.depth = depth]
           IN  Agrees(s, m, v, U) /\ v.val = w.val
<1> DEFINE v == [w EXCEPT !.depth = depth]
<1>1. w \in Worlds
  BY DEF Agrees
<1>2. v \in Worlds /\ v.frames = w.frames /\ v.val = w.val
  BY <1>1 DEF Worlds
<1> HIDE DEF v
<1> QED BY <1>2 DEF Agrees, v

(***************************************************************************)
(* What scopes know of executions.                                         *)
(***************************************************************************)
-----------------------------------------------------------------------------
(* What an accepted expression does.                                        *)

\* What no execution of an accepted program does.
Faults == {"unassigned read", "mistyped", "mistyped result", "frozen write"}

LEMMA ExpressionCases ==
    ASSUME NEW e \in Expressions
    PROVE  \/ \E ty \in Solid : e = Lit(ty)
           \/ \E n \in Names \cup Relvars : e = Name(n)
           \/ e = CallOper
           \/ \E ty \in Solid : e = WriteLine(Lit(ty)) /\ ty = "Text"
           \/ \E n \in Names \cup Relvars : e = WriteLine(Name(n))
<1>1. Literals \subseteq Solid /\ {"Unit", "Relation", "Text", "Boolean"} \subseteq Solid
  BY DEF Solid
<1>2. CASE e \in Operands
  BY <1>1, <1>2 DEF Operands
<1>3. CASE e \in Calls
  BY <1>1, <1>3 DEF Calls
<1>4. CASE e \in Conditions \cup {Lit("Unit"), Lit("Relation")}
  BY <1>1, <1>4 DEF Conditions
<1> QED BY <1>2, <1>3, <1>4 DEF Expressions

LEMMA NameChecked ==
    ASSUME NEW s \in Scopes, NEW n, CheckName(s, n).errors = {}
    PROVE  /\ CheckName(s, n).scope = MarkUsed(s, n)
           /\ \E l, i : /\ Visible(s, Len(s), n, l, i) /\ s[l][i].initialized
                        /\ CheckName(s, n).ty = s[l][i].ty
<1>1. Bound(s, n)
  BY DEF CheckName, Checked
<1>2. PICK l, i : Visible(s, Len(s), n, l, i)
  BY <1>1, LocateVisible
<1>3. Found(s, n) = s[l][i]
  BY <1>2, LocateVisible
<1>4. /\ CheckName(s, n).scope = MarkUsed(s, n) /\ CheckName(s, n).ty = Found(s, n).ty
      /\ CheckName(s, n).errors = (IF Found(s, n).initialized THEN {} ELSE {"T0079"}) \cup
                     (IF n \in PublicRelvars /\ txDepth = 0 THEN {"T0025"} ELSE {})
  BY <1>1 DEF CheckName, Checked
<1>5. Found(s, n).initialized
  BY <1>4
<1> QED BY <1>2, <1>3, <1>4, <1>5

\* Reading what is visible and may not be empty.
LEMMA NameMeans ==
    ASSUME NEW s \in Scopes, NEW m \in 0 .. Len(s), NEW n \in Names \cup Relvars,
           NEW l, NEW i, Visible(s, m, n, l, i),
           NEW w, NEW U, Agrees(s, m, w, U), <<l, i>> \notin U
    PROVE  /\ ReadValue(w, n) = s[l][i].ty /\ s[l][i].ty \in Solid
           /\ ReadFaults(w, n) \cap Faults = {}
<1>1. l \in 1 .. Len(s) /\ i \in 1 .. Len(s[l]) /\ s[l][i].name = n
  BY ScopeTypes DEF Visible
<1>2. s[l][i] \in Bindings
  BY <1>1, ScopeTypes
<1>3. CASE n \in Relvars
  <2>1. s[l][i].ty = "Relation"
    BY <1>1, <1>2, <1>3 DEF Bindings, Proper
  <2>2. ReadValue(w, n) = "Relation"
    BY <1>3 DEF ReadValue
  <2>3. ReadFaults(w, n) = Touch(w, n)
    BY <1>3 DEF ReadFaults
  <2>4. Touch(w, n) \cap Faults = {}
    BY DEF Touch, Faults
  <2>5. "Relation" \in Solid
    BY DEF Solid
  <2> QED BY <2>1, <2>2, <2>3, <2>4, <2>5
<1>4. CASE n \notin Relvars
  <2>1. n \in Names
    BY <1>4
  <2>2. /\ FramesOf(w, n) # {} /\ CellOf(w, n) = w.frames[l][n]
        /\ l \in 1 .. Len(w.frames) /\ n \in DOMAIN w.frames[l]
        /\ Fits(s[l][i], CellOf(w, n), <<l, i>> \in U)
    BY <2>1, FrameVisible
  <2>3. CellOf(w, n) \in Cells
    BY <2>2, WorldTypes DEF Agrees
  <2>4. CellOf(w, n).holds # "nothing" /\ CellOf(w, n).holds = s[l][i].ty
    BY <2>2 DEF Fits
  <2>5. ReadValue(w, n) = s[l][i].ty /\ ReadFaults(w, n) = {}
    BY <1>4, <2>2, <2>4 DEF ReadValue, ReadFaults
  <2> QED BY <2>3, <2>4, <2>5 DEF Cells
<1> QED BY <1>3, <1>4

\* An operand or an expression that is a name.
LEMMA NameOK ==
    ASSUME NEW s \in Scopes, NEW n \in Names \cup Relvars, CheckName(s, n).errors = {}
    PROVE  LET c == CheckName(s, n)
           IN  /\ c.scope \in Scopes /\ OnlyMarks(s, c.scope) /\ c.ty \in Types \ {"Unknown"}
               /\ \A w : Agrees(s, Len(s), w, UninitSnapshot(s)) =>
                     /\ ReadValue(w, n) = c.ty /\ c.ty \in Solid
                     /\ ReadFaults(w, n) \cap Faults = {}
               /\ \E l, i : /\ Visible(s, Len(s), n, l, i) /\ c.scope[l][i].used
                            /\ <<l, i>> \notin UninitSnapshot(s)
<1> DEFINE c == CheckName(s, n)
<1>1. c.scope = MarkUsed(s, n)
  BY NameChecked
<1>2. PICK l, i : /\ Visible(s, Len(s), n, l, i) /\ s[l][i].initialized /\ c.ty = s[l][i].ty
  BY NameChecked
<1> HIDE DEF c
<1>3. c.scope \in Scopes /\ OnlyMarks(s, c.scope) /\ c.scope[l][i].used
  BY <1>1, <1>2, MarkUsedMarks
<1>4. l \in 1 .. Len(s) /\ i \in 1 .. Len(s[l]) /\ Len(s) \in 0 .. Len(s)
  BY <1>2, ScopeTypes DEF Visible
<1>5. s[l][i] \in Bindings
  BY <1>4, ScopeTypes
<1>6. c.ty \in Types \ {"Unknown"}
  BY <1>2, <1>5 DEF Bindings, Proper, Marks
<1>7. <<l, i>> \notin UninitSnapshot(s)
  BY <1>2, <1>4, UninitWithin
<1>8. ASSUME NEW w, Agrees(s, Len(s), w, UninitSnapshot(s))
      PROVE  ReadValue(w, n) = c.ty /\ c.ty \in Solid /\ ReadFaults(w, n) \cap Faults = {}
  BY <1>2, <1>4, <1>7, <1>8, NameMeans
<1> QED BY <1>2, <1>3, <1>6, <1>7, <1>8 DEF c

\* The main fact about an expression: it evaluates in every execution that is
\* here, to a value of its type.
Evaluates(s, e, c) ==
    /\ c.scope \in Scopes /\ OnlyMarks(s, c.scope) /\ c.ty \in Types \ {"Unknown"}
    /\ \A w : Agrees(s, Len(s), w, UninitSnapshot(s)) =>
          /\ Value(w, e) = c.ty /\ c.ty \in Solid
          /\ EvalFaults(w, e) \cap Faults = {}
    /\ \A n \in NamesIn(e) : \E l, i : /\ Visible(s, Len(s), n, l, i) /\ c.scope[l][i].used
                                       /\ <<l, i>> \notin UninitSnapshot(s)

LEMMA ExprOK ==
    ASSUME NEW s \in Scopes, NEW e \in Expressions, CheckExpr(s, e).errors = {}
    PROVE  Evaluates(s, e, CheckExpr(s, e))
<1> DEFINE c == CheckExpr(s, e)
<1>1. CASE \E ty \in Solid : e = Lit(ty)
  <2>1. PICK ty \in Solid : e = Lit(ty)
    BY <1>1
  <2>2. c = Checked(s, ty, {}) /\ NamesIn(e) = {}
    BY <2>1 DEF CheckExpr, Lit, NamesIn
  <2>3. \A w : Value(w, e) = ty /\ EvalFaults(w, e) = {}
    BY <2>1 DEF Value, EvalFaults, Lit, Operand, OperandFaults
  <2>4. c.scope = s /\ c.ty = ty
    BY <2>2 DEF Checked
  <2>5. ty \in Types \ {"Unknown"}
    BY SolidTypes DEF Types
  <2> QED BY <2>2, <2>3, <2>4, <2>5, MarksReflexive DEF Evaluates
<1>2. CASE \E n \in Names \cup Relvars : e = Name(n)
  <2>1. PICK n \in Names \cup Relvars : e = Name(n)
    BY <1>2
  <2>2. c = CheckName(s, n) /\ NamesIn(e) = {n}
    BY <2>1 DEF CheckExpr, Name, NamesIn
  <2>3. \A w : Value(w, e) = ReadValue(w, n) /\ EvalFaults(w, e) = ReadFaults(w, n)
    BY <2>1 DEF Value, EvalFaults, Name, Operand, OperandFaults
  <2> HIDE DEF c
  <2>4. CheckName(s, n).errors = {}
    BY <2>2 DEF c
  <2> DEFINE a == CheckName(s, n)
  <2> HIDE DEF a
  <2>5. /\ a.scope \in Scopes /\ OnlyMarks(s, a.scope) /\ a.ty \in Types \ {"Unknown"}
        /\ \A w : Agrees(s, Len(s), w, UninitSnapshot(s)) =>
              ReadValue(w, n) = a.ty /\ a.ty \in Solid /\ ReadFaults(w, n) \cap Faults = {}
        /\ \E l, i : /\ Visible(s, Len(s), n, l, i) /\ a.scope[l][i].used
                     /\ <<l, i>> \notin UninitSnapshot(s)
    BY <2>4, NameOK DEF a
  <2>6. c = a
    BY <2>2 DEF a
  <2>7. Evaluates(s, e, c)
    BY <2>2, <2>3, <2>5, <2>6 DEF Evaluates
  <2> QED BY <2>7 DEF c
<1>3. CASE e = CallOper
  <2>1. c.scope = s /\ c.ty = "Integer" /\ NamesIn(e) = {}
    BY <1>3 DEF CheckExpr, CheckCall, CallOper, NamesIn, Checked
  <2>2. \A w : Value(w, e) = "Integer" /\ EvalFaults(w, e) \subseteq {"impure"}
    BY <1>3 DEF Value, EvalFaults, CallOper, Effect
  <2>3. "Integer" \in Solid /\ "Integer" \in Types \ {"Unknown"}
    BY SolidTypes DEF Solid, Types
  <2> QED BY <2>1, <2>2, <2>3, MarksReflexive DEF Evaluates, Faults
<1>4. CASE \E ty \in Solid : e = WriteLine(Lit(ty)) /\ ty = "Text"
  <2>1. c.scope = s /\ c.ty = "Unit" /\ NamesIn(e) = {}
    BY <1>4 DEF CheckExpr, CheckCall, CheckNamedArg, WriteLine, Lit, NamesIn, Checked
  <2>2. \A w : Value(w, e) = "Unit" /\ EvalFaults(w, e) \subseteq {"impure"}
    BY <1>4 DEF Value, EvalFaults, WriteLine, Lit, Effect, Operand, OperandFaults
  <2>3. "Unit" \in Solid /\ "Unit" \in Types \ {"Unknown"}
    BY SolidTypes DEF Solid, Types
  <2> QED BY <2>1, <2>2, <2>3, MarksReflexive DEF Evaluates, Faults
<1>5. CASE \E n \in Names \cup Relvars : e = WriteLine(Name(n))
  <2>1. PICK n \in Names \cup Relvars : e = WriteLine(Name(n))
    BY <1>5
  <2> DEFINE a == CheckName(s, n)
  <2>2. /\ c.scope = a.scope /\ c.ty = "Unit" /\ NamesIn(e) = {n}
        /\ c.errors = (a.errors \cup (IF AssignableTo(a.ty, "Text") THEN {} ELSE {"T0004"}))
                      \cup CheckCallPurity
    <3>1. DOMAIN a = {"scope", "ty", "errors"}
      BY DEF CheckName, Checked
    <3>2. CheckNamedArg(s, Name(n), "Text") =
             [a EXCEPT !.errors = @ \cup (IF AssignableTo(a.ty, "Text") THEN {} ELSE {"T0004"})]
      BY DEF CheckNamedArg, Name
    <3>3. NamesIn(e) = {n}
      BY <2>1 DEF NamesIn, WriteLine, Name
    <3>4. c = CheckCall(s, e)
      BY <2>1 DEF CheckExpr, WriteLine
    <3>5. c = Checked(CheckNamedArg(s, Name(n), "Text").scope, "Unit",
                      CheckNamedArg(s, Name(n), "Text").errors \cup CheckCallPurity)
      BY <2>1, <3>4 DEF CheckCall, WriteLine
    <3> HIDE DEF a, c
    <3> QED BY <3>1, <3>2, <3>3, <3>5 DEF Checked
  <2> HIDE DEF a
  <2>3. a.errors = {} /\ AssignableTo(a.ty, "Text")
    BY <2>2
  <2>4. /\ a.scope \in Scopes /\ OnlyMarks(s, a.scope) /\ a.ty \in Types \ {"Unknown"}
        /\ \A w : Agrees(s, Len(s), w, UninitSnapshot(s)) =>
              ReadValue(w, n) = a.ty /\ a.ty \in Solid /\ ReadFaults(w, n) \cap Faults = {}
        /\ \E l, i : /\ Visible(s, Len(s), n, l, i) /\ a.scope[l][i].used
                     /\ <<l, i>> \notin UninitSnapshot(s)
    BY <2>3, NameOK DEF a
  <2>5. ASSUME NEW w, Agrees(s, Len(s), w, UninitSnapshot(s))
        PROVE  Value(w, e) = "Unit" /\ EvalFaults(w, e) \cap Faults = {}
    <3>1. ReadValue(w, n) = a.ty /\ a.ty \in Solid /\ ReadFaults(w, n) \cap Faults = {}
      BY <2>4, <2>5
    <3>2. a.ty = "Text"
      BY <2>3, <3>1, SolidTypes DEF AssignableTo
    <3>3. Value(w, e) = "Unit"
      BY <2>1 DEF Value, WriteLine
    <3>4. EvalFaults(w, e) = Effect(w) \cup ReadFaults(w, n)
            \cup (IF ReadValue(w, n) \in {"Text", "nothing"} THEN {} ELSE {"mistyped"})
      BY <2>1 DEF EvalFaults, WriteLine, Name, Operand, OperandFaults
    <3>5. Effect(w) \cap Faults = {}
      BY DEF Effect, Faults
    <3> QED BY <3>1, <3>2, <3>3, <3>4, <3>5
  <2>6. "Unit" \in Solid /\ "Unit" \in Types \ {"Unknown"}
    BY SolidTypes DEF Solid, Types
  <2> HIDE DEF c
  <2>7. Evaluates(s, e, c)
    BY <2>2, <2>4, <2>5, <2>6 DEF Evaluates
  <2> QED BY <2>7 DEF c
<1> QED BY <1>1, <1>2, <1>3, <1>4, <1>5, ExpressionCases

-----------------------------------------------------------------------------
(* The blocks being checked.                                                *)

Forms == {"oper", "then", "else", "while", "for", "do", "transaction"}
Branches == {"then", "else", "while", "for"}
Places == Nat \X Nat
BlockRecs ==
    [form: Forms, use: Uses, id: Nat, diverges: BOOLEAN, snap: SUBSET Places,
     thenTy: (Types \ {"Unknown"}) \cup {"none"}, thenInit: SUBSET Places, cond: Conditions,
     before: SUBSET Worlds, after: SUBSET Worlds]

\* What is put aside in block k: where the executions were when it was opened,
\* and where its first arm left them.
SetAside(s, k, b) ==
    /\ \A p \in b.snap : /\ p[1] \in 1 .. k - 1 /\ p[2] \in 1 .. Len(s[p[1]])
                         /\ s[p[1]][p[2]].origin = "var"
    /\ \A w \in b.before : Agrees(s, k - 1, w, b.snap) /\ w.val = "Unit"
    /\ \A w \in b.after : Agrees(s, k - 1, w, b.snap \ b.thenInit) /\ w.val = b.thenTy
    /\ b.form = "else" => b.thenTy # "none"
    /\ b.form \in {"while", "for", "do"} => b.use = "stmt"
    /\ b.form = "while" => \A n \in NamesIn(b.cond) :
          \E l, i : Visible(s, k - 1, n, l, i) /\ <<l, i>> \notin b.snap
    /\ b.form = "for" => b.cond = Lit("Boolean")

\* Places a block's arms may differ about, k's own being the outermost: what
\* waits for a value now, or did when an inner block was opened, did so then.
Waiting(bs, k, U) ==
    bs[k].form \in Branches => \A p \in U : p[1] < k => p \in bs[k].snap

Nest(bs, s) ==
    \A k \in 1 .. Len(bs) :
        /\ Waiting(bs, k, UninitSnapshot(s))
        /\ \A j \in k + 1 .. Len(bs) : Waiting(bs, k, bs[j].snap)

\* Nothing runs behind a return.
Quiet(bs, ws) ==
    \A k \in 1 .. Len(bs) : bs[k].diverges =>
        /\ ws = {}
        /\ \A j \in k + 1 .. Len(bs) : bs[j].before = {} /\ bs[j].after = {}

\* What a block's value is, its divergence apart.
Yield(t) == IF t = "none" THEN "Unit" ELSE t

Walk(s, bs, t, ws) ==
    /\ s \in Scopes /\ bs \in Seq(BlockRecs) /\ t \in (Types \ {"Unknown"}) \cup {"none"}
    /\ Len(s) = Len(bs) /\ Len(bs) # 0 /\ bs[1].form = "oper"
    /\ \A k \in 1 .. Len(bs) : SetAside(s, k, bs[k])
    /\ Nest(bs, s)
    /\ Quiet(bs, ws)
    /\ \A w \in ws : Agrees(s, Len(s), w, UninitSnapshot(s)) /\ w.val = Yield(t)

\* What no step changes, or only counts.
Ground == returns \in Returns /\ size \in [stmts: Nat, blocks: Nat]

\* Of a program accepted so far.
Flowing ==
    /\ events \cap Faults = {}
    /\ IF blocks = << >> THEN worlds = {} ELSE Walk(scope, blocks, tail, worlds)

FlowInv == errors = {} => Flowing

-----------------------------------------------------------------------------
(* How a walk goes on.                                                      *)

LEMMA SetAsideKept ==
    ASSUME NEW s \in Scopes, NEW t \in Scopes, NEW k \in Nat \ {0}, Kept(s, t, k - 1),
           NEW b, SetAside(s, k, b)
    PROVE  SetAside(t, k, b)
<1>1. \A l \in 1 .. k - 1 : /\ Len(t[l]) = Len(s[l])
                            /\ \A i \in 1 .. Len(s[l]) : t[l][i].origin = s[l][i].origin
  BY DEF Kept, Evolves
<1>2. \A p \in b.snap : /\ p[1] \in 1 .. k - 1 /\ p[2] \in 1 .. Len(t[p[1]])
                        /\ t[p[1]][p[2]].origin = "var"
  BY <1>1 DEF SetAside
<1>3. \A w \in b.before : Agrees(t, k - 1, w, b.snap) /\ w.val = "Unit"
  BY AgreesKept DEF SetAside
<1>4. \A w \in b.after : Agrees(t, k - 1, w, b.snap \ b.thenInit) /\ w.val = b.thenTy
  BY AgreesKept DEF SetAside
<1>5. b.form = "while" => \A n \in NamesIn(b.cond) :
          \E l, i : Visible(t, k - 1, n, l, i) /\ <<l, i>> \notin b.snap
  <2>1. \A n, l, i : Visible(s, k - 1, n, l, i) => Visible(t, k - 1, n, l, i)
    BY VisibleKept
  <2> QED BY <2>1 DEF SetAside
<1> QED BY <1>2, <1>3, <1>4, <1>5 DEF SetAside

\* The blocks below q stay as they are, the one at q is b, what was above is
\* left: every step of the walk is one of these.
LEMMA WalkTo ==
    ASSUME NEW s, NEW bs, NEW tl0, NEW ws0, Walk(s, bs, tl0, ws0),
           NEW q \in 1 .. Len(bs) + 1, NEW cs \in Seq(BlockRecs), Len(cs) = q,
           \A k \in 1 .. q - 1 : cs[k] = bs[k], cs[1].form = "oper",
           NEW t \in Scopes, Len(t) = q, Kept(s, t, q - 1), SetAside(t, q, cs[q]),
           \A k \in 1 .. q : Waiting(cs, k, UninitSnapshot(t)),
           \A k \in 1 .. q - 1 : Waiting(cs, k, cs[q].snap),
           NEW tl \in (Types \ {"Unknown"}) \cup {"none"}, NEW ws, Quiet(cs, ws),
           \A w \in ws : Agrees(t, q, w, UninitSnapshot(t)) /\ w.val = Yield(tl)
    PROVE  Walk(t, cs, tl, ws)
<1>1. s \in Scopes /\ Len(s) = Len(bs) /\ Len(bs) \in Nat
  BY DEF Walk
<1>2. \A k \in 1 .. q : SetAside(t, k, cs[k])
  <2> SUFFICES ASSUME NEW k \in 1 .. q - 1 PROVE SetAside(t, k, cs[k])
    BY <1>1
  <2>1. Kept(s, t, k - 1)
    BY <1>1, KeptLess
  <2>2. SetAside(s, k, bs[k])
    BY <1>1 DEF Walk
  <2> QED BY <1>1, <2>1, <2>2, SetAsideKept
<1>3. Nest(cs, t)
  <2> SUFFICES ASSUME NEW k \in 1 .. q, NEW j \in k + 1 .. q PROVE Waiting(cs, k, cs[j].snap)
    BY DEF Nest
  <2>1. CASE j = q
    BY <2>1
  <2>2. CASE j # q
    <3>1. /\ k \in 1 .. Len(bs) /\ j \in k + 1 .. Len(bs)
          /\ k \in 1 .. q - 1 /\ j \in 1 .. q - 1
      BY <1>1, <2>2
    <3>2. Waiting(bs, k, bs[j].snap)
      BY <3>1 DEF Walk, Nest
    <3> QED BY <3>1, <3>2 DEF Waiting
  <2> QED BY <2>1, <2>2
<1> QED BY <1>2, <1>3 DEF Walk

LEMMA BlockTypes ==
    ASSUME NEW bs \in Seq(BlockRecs), NEW k \in 1 .. Len(bs)
    PROVE  bs[k] \in BlockRecs
OBVIOUS

\* No block is opened or left.
LEMMA WalkOn ==
    ASSUME NEW s, NEW bs, NEW tl0, NEW ws0, Walk(s, bs, tl0, ws0),
           NEW t \in Scopes, Len(t) = Len(s), Kept(s, t, Len(s) - 1),
           \A p \in UninitSnapshot(t) : p[1] < Len(s) => p \in UninitSnapshot(s),
           NEW tl \in (Types \ {"Unknown"}) \cup {"none"}, NEW ws, ws0 = {} => ws = {},
           \A w \in ws : Agrees(t, Len(t), w, UninitSnapshot(t)) /\ w.val = Yield(tl)
    PROVE  Walk(t, bs, tl, ws)
<1> DEFINE q == Len(bs)
<1>1. /\ s \in Scopes /\ Len(s) = q /\ q \in 1 .. q + 1 /\ q \in Nat \ {0} /\ bs \in Seq(BlockRecs)
      /\ bs[1].form = "oper" /\ Nest(bs, s) /\ Quiet(bs, ws0) /\ \A k \in 1 .. q : SetAside(s, k, bs[k])
  BY DEF Walk
<1> HIDE DEF q
<1>2. SetAside(t, q, bs[q])
  BY <1>1, SetAsideKept
<1>3. \A k \in 1 .. q : Waiting(bs, k, UninitSnapshot(t))
  <2> SUFFICES ASSUME NEW k \in 1 .. q, bs[k].form \in Branches, NEW p \in UninitSnapshot(t), p[1] < k
               PROVE  p \in bs[k].snap
    BY DEF Waiting
  <2>1. p[1] \in Nat
    BY UninitWithin
  <2>2. p \in UninitSnapshot(s)
    BY <1>1, <2>1
  <2> QED BY <1>1, <2>2 DEF Nest, Waiting, q
<1>4. \A k \in 1 .. q - 1 : Waiting(bs, k, bs[q].snap)
  BY <1>1 DEF Nest, q
<1>5. Quiet(bs, ws)
  BY <1>1 DEF Quiet
<1> QED BY <1>1, <1>2, <1>3, <1>4, <1>5, WalkTo DEF q

-----------------------------------------------------------------------------
(* Statements that open no block.                                           *)

LEMMA Flows ==
    ASSUME Walk(scope', blocks', tail', worlds'), events' \cap Faults = {}
    PROVE  Flowing'
<1>1. blocks' # << >>
  BY DEF Walk
<1> QED BY <1>1 DEF Flowing

\* Where a program accepted so far can be written on.
LEMMA Here ==
    ASSUME Flowing, CanGoOn
    PROVE  /\ Walk(scope, blocks, tail, worlds) /\ events \cap Faults = {}
           /\ scope \in Scopes /\ Len(scope) \in Nat \ {0} /\ Len(scope) = Len(blocks)
           /\ \A w \in worlds : Agrees(scope, Len(scope), w, UninitSnapshot(scope)) /\ w.val = "Unit"
<1>1. Walk(scope, blocks, tail, worlds) /\ events \cap Faults = {} /\ tail = "none"
  BY DEF Flowing, CanGoOn, Checking
<1> QED BY <1>1, ScopeTypes DEF Walk, Yield

LEMMA StatementFlows ==
    ASSUME Flowing, CanGoOn, NEW c, NEW ws, NEW happens, NEW reads,
           Statement(c, ws, happens, reads), UNCHANGED blocks,
           c.scope \in Scopes, Len(c.scope) = Len(scope), Kept(scope, c.scope, Len(scope) - 1),
           \A p \in UninitSnapshot(c.scope) : p[1] < Len(scope) => p \in UninitSnapshot(scope),
           worlds = {} => ws = {}, happens \cap Faults = {},
           \A w \in ws : Agrees(c.scope, Len(c.scope), w, UninitSnapshot(c.scope)) /\ w.val = "Unit"
    PROVE  Flowing'
<1>1. /\ scope' = c.scope /\ worlds' = ws /\ events' = events \cup happens /\ tail' = tail /\ tail = "none"
      /\ blocks' = blocks
  BY DEF Statement, Step, CanGoOn
<1>2. Walk(scope, blocks, tail, worlds) /\ events \cap Faults = {}
  BY Here
<1>3. Walk(c.scope, blocks, "none", ws)
  BY <1>2, WalkOn DEF Yield
<1> QED BY <1>1, <1>2, <1>3, Flows

\* A statement that only evaluates.
LEMMA MarkingFlows ==
    ASSUME Flowing, CanGoOn, NEW c, NEW happens, NEW reads,
           Statement(c, worlds, happens, reads), UNCHANGED blocks,
           c.scope \in Scopes, OnlyMarks(scope, c.scope), happens \cap Faults = {}
    PROVE  Flowing'
<1>1. /\ scope \in Scopes /\ Len(scope) \in Nat \ {0}
      /\ \A w \in worlds : Agrees(scope, Len(scope), w, UninitSnapshot(scope)) /\ w.val = "Unit"
  BY Here
<1>2. Kept(scope, c.scope, Len(scope)) /\ UninitSnapshot(c.scope) = UninitSnapshot(scope)
  BY <1>1, MarksKeep
<1>3. Len(c.scope) = Len(scope) /\ Kept(scope, c.scope, Len(scope) - 1)
  BY <1>1, <1>2, KeptLess DEF OnlyMarks
<1>4. \A w \in worlds : Agrees(c.scope, Len(c.scope), w, UninitSnapshot(c.scope)) /\ w.val = "Unit"
  <2>1. \A w \in worlds : Agrees(c.scope, Len(scope), w, UninitSnapshot(scope))
    BY <1>1, <1>2, AgreesKept
  <2> QED BY <1>1, <1>2, <1>3, <2>1
<1> QED BY <1>2, <1>3, <1>4, StatementFlows

LEMMA ExprHere ==
    ASSUME Flowing, CanGoOn, NEW e \in Expressions, CheckExpr(scope, e).errors = {}
    PROVE  LET c == CheckExpr(scope, e)
           IN  /\ Evaluates(scope, e, c) /\ Happens(e) \cap Faults = {}
               /\ c.scope \in Scopes /\ OnlyMarks(scope, c.scope) /\ c.ty \in Types \ {"Unknown"}
               /\ \A w \in worlds : Value(w, e) = c.ty /\ c.ty \in Solid
<1> DEFINE c == CheckExpr(scope, e)
<1>1. /\ scope \in Scopes
      /\ \A w \in worlds : Agrees(scope, Len(scope), w, UninitSnapshot(scope))
  BY Here
<1>2. Evaluates(scope, e, c)
  BY <1>1, ExprOK
<1> HIDE DEF c
<1>3. /\ c.scope \in Scopes /\ OnlyMarks(scope, c.scope) /\ c.ty \in Types \ {"Unknown"}
      /\ \A w \in worlds : /\ Value(w, e) = c.ty /\ c.ty \in Solid
                           /\ EvalFaults(w, e) \cap Faults = {}
  BY <1>1, <1>2 DEF Evaluates
<1>4. Happens(e) \cap Faults = {}
  BY <1>3 DEF Happens
<1> QED BY <1>2, <1>3, <1>4 DEF c

LEMMA TouchedFaultless ==
    ASSUME NEW r
    PROVE  TouchedBy(r) \cap Faults = {}
BY DEF TouchedBy, Touch, Faults

\* An expression is evaluated and a relvar touched.
LEMMA VerbFlows ==
    ASSUME Flowing, CanGoOn, NEW e \in Expressions, CheckExpr(scope, e).errors = {},
           NEW r, NEW c, NEW reads, Statement(c, worlds, Happens(e) \cup TouchedBy(r), reads), UNCHANGED blocks,
           c.scope = MarkUsed(CheckExpr(scope, e).scope, r) \/ c.scope = CheckExpr(scope, e).scope
    PROVE  Flowing'
<1> DEFINE x == CheckExpr(scope, e).scope
<1>1. x \in Scopes /\ OnlyMarks(scope, x) /\ Happens(e) \cap Faults = {}
  BY ExprHere
<1>2. scope \in Scopes
  BY Here
<1> HIDE DEF x
<1>3. c.scope \in Scopes /\ OnlyMarks(x, c.scope)
  <2>1. CASE c.scope = x
    BY <1>1, <2>1, MarksReflexive
  <2>2. CASE c.scope # x
    <3>1. c.scope = MarkUsed(x, r)
      BY <2>2 DEF x
    <3> QED BY <1>1, <3>1, MarkUsedMarks
  <2> QED BY <2>1, <2>2
<1>4. OnlyMarks(scope, c.scope)
  BY <1>1, <1>2, <1>3, MarksTransitive
<1>5. (Happens(e) \cup TouchedBy(r)) \cap Faults = {}
  BY <1>1, TouchedFaultless
<1> QED BY <1>3, <1>4, <1>5, MarkingFlows

LEMMA ExpressionSets ==
    /\ Operands \subseteq Expressions /\ Calls \subseteq Expressions /\ Conditions \subseteq Expressions
    /\ {Lit("Unit"), Lit("Relation"), CallOper} \subseteq Expressions
    /\ \A n \in Names \cup Relvars : Name(n) \in Expressions
    /\ \A n : Sources(n) \subseteq Expressions
BY DEF Expressions, Operands, Calls, Sources

LEMMA AssignRelvarFlows ==
    ASSUME Flowing, errors' = {}, AssignRelvar
    PROVE  Flowing'
<1>1. PICK r \in Relvars, e \in Operands :
         /\ CanWrite /\ UNCHANGED blocks
         /\ Statement(Checked(MarkUsed(CheckExpr(scope, e).scope, r), "Unit",
                              CheckExpr(scope, e).errors
                              \cup Mismatch("T0034", CheckExpr(scope, e).ty, "Relation")),
                      worlds, Happens(e) \cup TouchedBy(r), Reads(e))
  BY DEF AssignRelvar
<1>2. CheckExpr(scope, e).errors = {}
  BY <1>1 DEF Statement, Step, Checked
<1>3. Checked(MarkUsed(CheckExpr(scope, e).scope, r), "Unit",
              CheckExpr(scope, e).errors
              \cup Mismatch("T0034", CheckExpr(scope, e).ty, "Relation")).scope
         = MarkUsed(CheckExpr(scope, e).scope, r)
  BY DEF Checked
<1>4. e \in Expressions /\ CanGoOn
  BY <1>1, ExpressionSets DEF CanWrite
<1> QED BY <1>1, <1>2, <1>3, <1>4, VerbFlows

LEMMA TruncateFlows ==
    ASSUME Flowing, errors' = {}, TruncateStmt
    PROVE  Flowing'
<1>1. PICK n \in Names \cup Relvars :
         /\ CanWrite /\ UNCHANGED blocks
         /\ Statement(IF n \in Relvars THEN Checked(MarkUsed(scope, n), "Unit", TransactionNeeded(n))
                                       ELSE Checked(scope, "Unit", {"T0033"}),
                      worlds, TouchedBy(n), {})
  BY DEF TruncateStmt
<1> DEFINE c == IF n \in Relvars THEN Checked(MarkUsed(scope, n), "Unit", TransactionNeeded(n))
                                 ELSE Checked(scope, "Unit", {"T0033"})
<1>2. c.scope = MarkUsed(scope, n)
  <2>1. n \notin Relvars => c.errors = {"T0033"}
    BY DEF Checked
  <2>2. c.errors = {}
    BY <1>1 DEF Statement, Step
  <2> QED BY <2>1, <2>2 DEF Checked
<1>3. CanGoOn /\ scope \in Scopes
  BY <1>1, Here DEF CanWrite
<1>4. c.scope \in Scopes /\ OnlyMarks(scope, c.scope)
  BY <1>2, <1>3, MarkUsedMarks
<1> HIDE DEF c
<1>5. Statement(c, worlds, TouchedBy(n), {})
  BY <1>1 DEF c
<1> QED BY <1>1, <1>3, <1>4, <1>5, TouchedFaultless, MarkingFlows

LEMMA DeleteFlows ==
    ASSUME Flowing, errors' = {}, DeleteStmt
    PROVE  Flowing'
<1>1. PICK n \in Names \cup Relvars :
         /\ CanWrite /\ UNCHANGED blocks
         /\ Statement(IF n \in Relvars THEN CheckName(scope, n) ELSE Checked(scope, "Unit", {"T0033"}),
                      worlds, TouchedBy(n), {})
  BY DEF DeleteStmt
<1> DEFINE c == IF n \in Relvars THEN CheckName(scope, n) ELSE Checked(scope, "Unit", {"T0033"})
<1>2. c = CheckName(scope, n) /\ c.errors = {}
  <2>1. n \notin Relvars => c.errors = {"T0033"}
    BY DEF Checked
  <2>2. c.errors = {}
    BY <1>1 DEF Statement, Step
  <2> QED BY <2>1, <2>2
<1>3. CanGoOn /\ scope \in Scopes
  BY <1>1, Here DEF CanWrite
<1>4. c.scope = MarkUsed(scope, n)
  BY <1>2, <1>3, NameChecked
<1>5. c.scope \in Scopes /\ OnlyMarks(scope, c.scope)
  BY <1>3, <1>4, MarkUsedMarks
<1> HIDE DEF c
<1>6. Statement(c, worlds, TouchedBy(n), {})
  BY <1>1 DEF c
<1> QED BY <1>1, <1>3, <1>5, <1>6, TouchedFaultless, MarkingFlows

LEMMA InsertFlows ==
    ASSUME Flowing, errors' = {}, InsertStmt
    PROVE  Flowing'
<1>0. PICK n \in Names \cup Relvars : \E e \in Sources(n) :
         /\ CanWrite /\ UNCHANGED blocks
         /\ Statement(IF n \in Relvars
                      THEN Checked(MarkUsed(CheckExpr(scope, e).scope, n), "Unit",
                                   CheckExpr(scope, e).errors \cup TransactionNeeded(n)
                                   \cup Mismatch("T0034", CheckExpr(scope, e).ty, "Relation"))
                      ELSE [CheckExpr(scope, e) EXCEPT !.errors = @ \cup {"T0033"}],
                      worlds, Happens(e) \cup TouchedBy(n), Reads(e))
  BY DEF InsertStmt
<1>1. PICK e \in Sources(n) :
         /\ CanWrite /\ UNCHANGED blocks
         /\ Statement(IF n \in Relvars
                      THEN Checked(MarkUsed(CheckExpr(scope, e).scope, n), "Unit",
                                   CheckExpr(scope, e).errors \cup TransactionNeeded(n)
                                   \cup Mismatch("T0034", CheckExpr(scope, e).ty, "Relation"))
                      ELSE [CheckExpr(scope, e) EXCEPT !.errors = @ \cup {"T0033"}],
                      worlds, Happens(e) \cup TouchedBy(n), Reads(e))
  BY <1>0
<1> DEFINE c == IF n \in Relvars
                THEN Checked(MarkUsed(CheckExpr(scope, e).scope, n), "Unit",
                             CheckExpr(scope, e).errors \cup TransactionNeeded(n)
                             \cup Mismatch("T0034", CheckExpr(scope, e).ty, "Relation"))
                ELSE [CheckExpr(scope, e) EXCEPT !.errors = @ \cup {"T0033"}]
<1>2. c.errors = {}
  BY <1>1 DEF Statement, Step
<1>3. n \in Relvars
  <2>1. n \notin Relvars => c.errors = CheckExpr(scope, e).errors \cup {"T0033"}
    BY ErrorsField
  <2> QED BY <1>2, <2>1
<1>4. c.scope = MarkUsed(CheckExpr(scope, e).scope, n) /\ CheckExpr(scope, e).errors = {}
  BY <1>2, <1>3 DEF Checked
<1>5. e \in Expressions /\ CanGoOn
  BY <1>1, ExpressionSets DEF CanWrite
<1> HIDE DEF c
<1>6. Statement(c, worlds, Happens(e) \cup TouchedBy(n), Reads(e))
  BY <1>1 DEF c
<1> QED BY <1>1, <1>4, <1>5, <1>6, VerbFlows

LEMMA ExprFlows ==
    ASSUME Flowing, errors' = {}, ExprStmt
    PROVE  Flowing'
<1>1. PICK e \in Calls :
         CanWrite /\ UNCHANGED blocks /\ Statement(CheckExpr(scope, e), worlds, Happens(e), Reads(e))
  BY DEF ExprStmt
<1>2. CheckExpr(scope, e).errors = {}
  BY <1>1 DEF Statement, Step
<1>3. e \in Expressions /\ CanGoOn
  BY <1>1, ExpressionSets DEF CanWrite
<1>4. /\ CheckExpr(scope, e).scope \in Scopes /\ OnlyMarks(scope, CheckExpr(scope, e).scope)
      /\ Happens(e) \cap Faults = {}
  BY <1>2, <1>3, ExprHere
<1> QED BY <1>1, <1>3, <1>4, MarkingFlows

LEMMA LoadReverseFlows ==
    ASSUME Flowing, errors' = {}, LoadReverse
    PROVE  Flowing'
<1>1. PICK n, e, found :
         /\ n \in Names \cup Relvars /\ e \in {Name(m) : m \in Names}
         /\ CanWrite /\ UNCHANGED blocks
         /\ Statement(Checked(MarkUsed(CheckExpr(scope, e).scope, n), "Unit",
                              CheckExpr(scope, e).errors \cup found),
                      worlds, Happens(e) \cup TouchedBy(n), Reads(e))
  BY DEF LoadReverse
<1>2. CheckExpr(scope, e).errors = {}
  BY <1>1 DEF Statement, Step, Checked
<1>3. Checked(MarkUsed(CheckExpr(scope, e).scope, n), "Unit", CheckExpr(scope, e).errors \cup found).scope
         = MarkUsed(CheckExpr(scope, e).scope, n)
  BY DEF Checked
<1>4. e \in Expressions /\ CanGoOn
  BY <1>1, ExpressionSets DEF CanWrite
<1> QED BY <1>1, <1>2, <1>3, <1>4, VerbFlows

\* update: the relvar is looked up before the values are.
LEMMA UpdateFlows ==
    ASSUME Flowing, errors' = {}, UpdateStmt
    PROVE  Flowing'
<1>0. PICK n \in Names \cup Relvars : \E e \in Sources(n) :
         /\ CanWrite /\ UNCHANGED blocks
         /\ Statement(IF n \in Relvars
                      THEN Checked(CheckExpr(CheckName(scope, n).scope, e).scope, "Unit",
                                   CheckName(scope, n).errors
                                   \cup CheckExpr(CheckName(scope, n).scope, e).errors
                                   \cup Mismatch("T0034", CheckExpr(CheckName(scope, n).scope, e).ty, "Integer"))
                      ELSE Checked(scope, "Unit", {"T0033"}),
                      worlds, Happens(e) \cup TouchedBy(n), Reads(e))
  BY DEF UpdateStmt
<1>1. PICK e \in Sources(n) :
         /\ CanWrite /\ UNCHANGED blocks
         /\ Statement(IF n \in Relvars
                      THEN Checked(CheckExpr(CheckName(scope, n).scope, e).scope, "Unit",
                                   CheckName(scope, n).errors
                                   \cup CheckExpr(CheckName(scope, n).scope, e).errors
                                   \cup Mismatch("T0034", CheckExpr(CheckName(scope, n).scope, e).ty, "Integer"))
                      ELSE Checked(scope, "Unit", {"T0033"}),
                      worlds, Happens(e) \cup TouchedBy(n), Reads(e))
  BY <1>0
<1> DEFINE x == CheckName(scope, n).scope
           y == CheckExpr(x, e)
           c == IF n \in Relvars
                THEN Checked(y.scope, "Unit", CheckName(scope, n).errors \cup y.errors
                                              \cup Mismatch("T0034", y.ty, "Integer"))
                ELSE Checked(scope, "Unit", {"T0033"})
<1>2. c.errors = {}
  BY <1>1 DEF Statement, Step
<1>3. n \in Relvars
  BY <1>2 DEF Checked
<1>4. c.scope = y.scope /\ y.errors = {} /\ CheckName(scope, n).errors = {}
  BY <1>2, <1>3 DEF Checked
<1>5. /\ e \in Expressions /\ CanGoOn /\ scope \in Scopes
      /\ \A w \in worlds : Agrees(scope, Len(scope), w, UninitSnapshot(scope)) /\ w.val = "Unit"
  BY <1>1, ExpressionSets, Here DEF CanWrite
<1>6. Statement(c, worlds, Happens(e) \cup TouchedBy(n), Reads(e))
  BY <1>1
<1> HIDE DEF c
<1>7. x \in Scopes /\ OnlyMarks(scope, x)
  BY <1>4, <1>5, NameChecked, MarkUsedMarks
<1> HIDE DEF x
<1>8. Evaluates(x, e, y)
  BY <1>4, <1>5, <1>7, ExprOK
<1> HIDE DEF y
<1>9. y.scope \in Scopes /\ OnlyMarks(x, y.scope)
  BY <1>8 DEF Evaluates
<1>10. OnlyMarks(scope, y.scope)
  BY <1>5, <1>7, <1>9, MarksTransitive
<1>11. \A w \in worlds : Agrees(x, Len(x), w, UninitSnapshot(x))
  <2>1. Kept(scope, x, Len(scope)) /\ UninitSnapshot(x) = UninitSnapshot(scope) /\ Len(x) = Len(scope)
    BY <1>5, <1>7, MarksKeep DEF OnlyMarks
  <2> QED BY <1>5, <1>7, <2>1, AgreesKept
<1>12. (Happens(e) \cup TouchedBy(n)) \cap Faults = {}
  <2>1. \A w \in worlds : EvalFaults(w, e) \cap Faults = {}
    BY <1>8, <1>11 DEF Evaluates
  <2> QED BY <2>1, TouchedFaultless DEF Happens
<1> QED BY <1>1, <1>4, <1>5, <1>6, <1>9, <1>10, <1>12, MarkingFlows
-----------------------------------------------------------------------------
(* Tails and returns.                                                       *)

LEMMA TailFlows ==
    ASSUME Flowing, errors' = {}, TailExpr
    PROVE  Flowing'
<1>1. PICK e \in Operands \cup Calls :
         /\ CanWrite /\ tail' = CheckExpr(scope, e).ty /\ scope' = CheckExpr(scope, e).scope
         /\ errors' = errors \cup CheckExpr(scope, e).errors
         /\ worlds' = {[w EXCEPT !.val = Value(w, e)] : w \in worlds}
         /\ events' = events \cup Happens(e) /\ UNCHANGED blocks
  BY DEF TailExpr
<1> DEFINE c == CheckExpr(scope, e)
<1>2. e \in Expressions /\ CanGoOn /\ c.errors = {}
  BY <1>1, ExpressionSets DEF CanWrite
<1> HIDE DEF c
<1>3. /\ Walk(scope, blocks, tail, worlds) /\ events \cap Faults = {}
      /\ scope \in Scopes /\ Len(scope) \in Nat \ {0}
      /\ \A w \in worlds : Agrees(scope, Len(scope), w, UninitSnapshot(scope)) /\ w.val = "Unit"
  BY <1>2, Here
<1>4. /\ c.scope \in Scopes /\ OnlyMarks(scope, c.scope) /\ Happens(e) \cap Faults = {}
      /\ c.ty \in Types \ {"Unknown"}
      /\ \A w \in worlds : Value(w, e) = c.ty /\ c.ty \in Solid
  BY <1>2, ExprHere DEF c
<1>5. Kept(scope, c.scope, Len(scope)) /\ UninitSnapshot(c.scope) = UninitSnapshot(scope)
  BY <1>3, <1>4, MarksKeep
<1>6. Len(c.scope) = Len(scope) /\ Kept(scope, c.scope, Len(scope) - 1)
  BY <1>3, <1>5, <1>4, KeptLess DEF OnlyMarks
<1>7. \A w \in worlds : Agrees(c.scope, Len(c.scope), w, UninitSnapshot(c.scope))
  <2>1. \A w \in worlds : Agrees(c.scope, Len(scope), w, UninitSnapshot(scope))
    BY <1>3, <1>4, <1>5, AgreesKept
  <2> QED BY <1>5, <1>6, <2>1
<1>8. Yield(c.ty) = c.ty
  BY <1>4, SolidTypes DEF Yield
<1>9. \A w \in worlds' : Agrees(c.scope, Len(c.scope), w, UninitSnapshot(c.scope)) /\ w.val = Yield(c.ty)
  <2>1. PICK ws : ws = worlds' /\ ws = {[w EXCEPT !.val = Value(w, e)] : w \in worlds}
    BY <1>1
  <2>2. ASSUME NEW v \in ws
        PROVE  Agrees(c.scope, Len(c.scope), v, UninitSnapshot(c.scope)) /\ v.val = c.ty
    <3>1. PICK w \in worlds : v = [w EXCEPT !.val = c.ty]
      BY <1>4, <2>1
    <3>2. Agrees(c.scope, Len(c.scope), w, UninitSnapshot(c.scope)) /\ c.ty \in Solid
      BY <1>4, <1>7
    <3> QED BY <3>1, <3>2, AgreesValue
  <2> QED BY <1>8, <2>1, <2>2
<1>10. worlds = {} => worlds' = {}
  BY <1>1
<1>11. Walk(c.scope, blocks, c.ty, worlds')
  BY <1>3, <1>4, <1>5, <1>6, <1>9, <1>10, WalkOn
<1>12. scope' = c.scope /\ tail' = c.ty
  BY <1>1 DEF c
<1> QED BY <1>1, <1>3, <1>4, <1>11, <1>12, Flows

\* The value handed over has the declared type.
LEMMA ReturnFlows ==
    ASSUME Flowing, Ground, errors' = {}, ReturnStmt
    PROVE  Flowing'
<1>1. PICK e, c, left :
         /\ e \in Operands \cup {Lit("Unit")}
         /\ CanWrite /\ left \subseteq {"left early"}
         /\ c = Checked(CheckExpr(scope, e).scope, "Never",
                        CheckExpr(scope, e).errors \cup Mismatch("T0018", CheckExpr(scope, e).ty, returns)
                        \cup (IF txDepth > 0 THEN {"T0093"} ELSE {}))
         /\ Statement(c, {}, Happens(e) \cup left
                              \cup UNION {ExitFaults(w.depth, Value(w, e)) : w \in worlds}, Reads(e))
         /\ blocks' = WithTop([Top EXCEPT !.diverges = TRUE])
  BY DEF ReturnStmt
<1> DEFINE x == CheckExpr(scope, e)
           m == Len(blocks)
           b == [blocks[m] EXCEPT !.diverges = TRUE]
           cs == [blocks EXCEPT ![m] = b]
<1>2. /\ c.scope = x.scope /\ x.errors = {} /\ Mismatch("T0018", x.ty, returns) = {}
      /\ scope' = x.scope /\ worlds' = {} /\ tail' = "none"
      /\ events' = events \cup (Happens(e) \cup left
                              \cup UNION {ExitFaults(w.depth, Value(w, e)) : w \in worlds})
  <2>1. c.errors = {} /\ scope' = c.scope /\ tail' = tail /\ tail = "none" /\ worlds' = {}
        /\ events' = events \cup (Happens(e) \cup left
                              \cup UNION {ExitFaults(w.depth, Value(w, e)) : w \in worlds})
    BY <1>1 DEF Statement, Step, CanWrite, CanGoOn
  <2> QED BY <1>1, <2>1 DEF Checked
<1>3. e \in Expressions /\ CanGoOn
  BY <1>1, ExpressionSets DEF CanWrite
<1>4. /\ Walk(scope, blocks, tail, worlds) /\ events \cap Faults = {}
      /\ scope \in Scopes /\ Len(scope) \in Nat \ {0} /\ Len(scope) = m
  BY <1>3, Here
<1> HIDE DEF x
<1>5. /\ x.scope \in Scopes /\ OnlyMarks(scope, x.scope) /\ Happens(e) \cap Faults = {}
      /\ \A w \in worlds : Value(w, e) = x.ty /\ x.ty \in Solid
  BY <1>2, <1>3, ExprHere DEF x
<1>6. \A w \in worlds : ExitFaults(w.depth, Value(w, e)) \cap Faults = {}
  <2> SUFFICES ASSUME NEW w \in worlds PROVE ExitFaults(w.depth, Value(w, e)) \cap Faults = {}
    OBVIOUS
  <2>1. Value(w, e) = x.ty /\ x.ty \in Solid
    BY <1>5
  <2>2. x.ty = returns
    <3>1. AssignableTo(x.ty, returns)
      BY <1>2 DEF Mismatch
    <3>2. returns # "Unknown"
      BY TypesAreWritten DEF Ground
    <3> QED BY <2>1, <3>1, <3>2, SolidTypes DEF AssignableTo
  <2> QED BY <2>1, <2>2 DEF ExitFaults, Faults
<1>7. events' \cap Faults = {}
  <2> DEFINE exits == UNION {ExitFaults(w.depth, Value(w, e)) : w \in worlds}
  <2>1. left \cap Faults = {}
    BY <1>1 DEF Faults
  <2>2. exits \cap Faults = {}
    BY <1>6
  <2>3. events' = events \cup (Happens(e) \cup left \cup exits)
    BY <1>2
  <2> HIDE DEF exits
  <2> QED BY <1>4, <1>5, <2>1, <2>2, <2>3
<1>8. Kept(scope, x.scope, m) /\ UninitSnapshot(x.scope) = UninitSnapshot(scope)
  BY <1>4, <1>5, MarksKeep
<1>9. Len(x.scope) = m /\ Kept(scope, x.scope, m - 1)
  BY <1>4, <1>5, <1>8, KeptLess DEF OnlyMarks
<1>10. /\ blocks \in Seq(BlockRecs) /\ m \in 1 .. m /\ m \in 1 .. m + 1 /\ m \in Nat \ {0}
       /\ blocks[1].form = "oper" /\ Nest(blocks, scope) /\ Quiet(blocks, worlds)
       /\ SetAside(scope, m, blocks[m])
  BY <1>4 DEF Walk
<1>11. blocks[m] \in BlockRecs
  BY <1>10
<1>12. /\ b \in BlockRecs
       /\ b.form = blocks[m].form /\ b.use = blocks[m].use /\ b.snap = blocks[m].snap
       /\ b.before = blocks[m].before /\ b.after = blocks[m].after
       /\ b.thenTy = blocks[m].thenTy /\ b.thenInit = blocks[m].thenInit /\ b.cond = blocks[m].cond
  BY <1>11 DEF BlockRecs
<1> HIDE DEF b
<1>13. cs \in Seq(BlockRecs) /\ Len(cs) = m /\ \A k \in 1 .. m : cs[k] = IF k = m THEN b ELSE blocks[k]
  BY <1>10, <1>12, ExceptIsSeq
<1>14. blocks' = cs
  BY <1>1 DEF WithTop, Top, b
<1> HIDE DEF cs, m
<1>15. \A k \in 1 .. m - 1 : cs[k] = blocks[k]
  BY <1>10, <1>13
<1>16. cs[m] = b /\ cs[1].form = "oper"
  BY <1>10, <1>12, <1>13
<1>17. SetAside(x.scope, m, cs[m])
  <2>1. SetAside(x.scope, m, blocks[m])
    BY <1>4, <1>5, <1>9, <1>10, SetAsideKept
  <2> QED BY <1>12, <1>16, <2>1 DEF SetAside
<1>18. \A k \in 1 .. m : Waiting(cs, k, UninitSnapshot(x.scope))
  <2>1. \A k \in 1 .. m : Waiting(blocks, k, UninitSnapshot(scope))
    BY <1>10 DEF Nest, m
  <2>2. \A k \in 1 .. m : cs[k].form = blocks[k].form /\ cs[k].snap = blocks[k].snap
    BY <1>12, <1>13
  <2> QED BY <1>8, <2>1, <2>2 DEF Waiting
<1>19. \A k \in 1 .. m - 1 : Waiting(cs, k, cs[m].snap)
  <2>1. \A k \in 1 .. m - 1 : Waiting(blocks, k, blocks[m].snap)
    BY <1>10 DEF Nest, m
  <2> QED BY <1>12, <1>15, <1>16, <2>1 DEF Waiting
<1>20. Quiet(cs, {})
  <2> SUFFICES ASSUME NEW k \in 1 .. m, cs[k].diverges, NEW j \in k + 1 .. m
               PROVE  cs[j].before = {} /\ cs[j].after = {}
    BY <1>13 DEF Quiet
  <2>1. k \in 1 .. m - 1 /\ j \in 1 .. m
    BY <1>10
  <2>2. blocks[k].diverges
    BY <1>15, <2>1
  <2>3. blocks[j].before = {} /\ blocks[j].after = {}
    BY <1>10, <2>2 DEF Quiet, m
  <2> QED BY <1>12, <1>13, <2>1, <2>3
<1>21. Len(blocks) = m
  BY DEF m
<1>22. Walk(x.scope, cs, "none", {})
  BY <1>4, <1>5, <1>9, <1>10, <1>13, <1>15, <1>16, <1>17, <1>18, <1>19, <1>20, <1>21, WalkTo
<1> QED BY <1>2, <1>7, <1>14, <1>22, Flows
-----------------------------------------------------------------------------
(* Bindings and assignments.                                                *)

\* What Fresh counts is a number, and no action changes what is declared.
LEMMA FreshIsNew ==
    ASSUME Ground
    PROVE  Fresh \in Nat \ {0}
BY DEF Ground, Fresh

LEMMA NewBinding ==
    ASSUME NEW n \in Names, NEW ty \in Types, NEW origin \in {"let", "var", "param", "counter"}, NEW id \in Nat
    PROVE  /\ ty # "Unknown" => Binding(n, ty, origin, id) \in Bindings
           /\ origin = "var" => [Binding(n, ty, origin, id) EXCEPT !.initialized = FALSE] \in Bindings
<1> DEFINE b == Binding(n, ty, origin, id)
           c == [b EXCEPT !.initialized = FALSE]
<1>0. b = [name |-> n, ty |-> ty, origin |-> origin, id |-> id,
           used |-> FALSE, reassigned |-> FALSE, initialized |-> TRUE]
  BY DEF Binding
<1> HIDE DEF b
<1>2. n \notin Relvars /\ n \in Names \cup Relvars /\ origin \in Origins /\ origin # "relvar"
  BY RelvarsAreNotBound DEF Relvars, Origins
<1>3. b \in Marks
  BY <1>0, <1>2 DEF Marks
<1>4. c \in Marks /\ c.name = n /\ c.ty = ty /\ c.origin = origin /\ c.initialized = FALSE
  BY <1>0, <1>3 DEF Marks
<1> HIDE DEF c
<1>5. ty # "Unknown" => Proper(b)
  BY <1>0, <1>2 DEF Proper
<1>6. origin = "var" => Proper(c)
  BY <1>2, <1>4 DEF Proper
<1> QED BY <1>3, <1>4, <1>5, <1>6 DEF Bindings, b, c

\* A binding is written where the scope ends and its cell where the frames do.
LEMMA DeclaredFlows ==
    ASSUME Flowing, CanGoOn, NEW x \in Scopes, OnlyMarks(scope, x),
           NEW b \in Bindings, b.name \in Names,
           NEW c, c.scope = Insert(x, b), NEW ws, NEW happens, NEW reads,
           Statement(c, ws, happens, reads), UNCHANGED blocks,
           worlds = {} => ws = {}, happens \cap Faults = {},
           \A v \in ws : \E w \in worlds : \E cell \in Cells :
               v = Declare(w, b.name, cell) /\ Fits(b, cell, ~b.initialized)
    PROVE  Flowing'
<1> DEFINE m == Len(scope)
           t == Insert(x, b)
           i == Len(x[m]) + 1
           U == UninitSnapshot(x)
           V == UninitSnapshot(t)
<1>1. /\ scope \in Scopes /\ m \in Nat \ {0}
      /\ \A w \in worlds : Agrees(scope, m, w, UninitSnapshot(scope)) /\ w.val = "Unit"
  BY Here
<1>2. Kept(scope, x, m) /\ U = UninitSnapshot(scope) /\ Len(x) = m
  BY <1>1, MarksKeep DEF OnlyMarks
<1>3. /\ t \in Scopes /\ Len(t) = m /\ Kept(x, t, m - 1)
      /\ V = U \cup (IF b.initialized THEN {} ELSE {<<m, i>>})
  BY <1>1, <1>2, InsertPlaces
<1> HIDE DEF t, V, U, i, m
<1>4. Kept(scope, t, m - 1)
  <2>1. Kept(scope, x, m - 1)
    BY <1>1, <1>2, KeptLess
  <2> QED BY <1>1, <1>3, <2>1, KeptTransitive
<1>5. \A p \in V : p[1] < m => p \in UninitSnapshot(scope)
  BY <1>1, <1>2, <1>3
<1>6. ASSUME NEW v \in ws
      PROVE  Agrees(t, m, v, V) /\ v.val = "Unit"
  <2>1. PICK w \in worlds, cell \in Cells :
           v = Declare(w, b.name, cell) /\ Fits(b, cell, ~b.initialized)
    BY <1>6
  <2>2. Agrees(x, m, w, U)
    BY <1>1, <1>2, AgreesKept
  <2>3. Fits(b, cell, <<m, i>> \in V) /\ U \subseteq V
    BY <1>3, <2>1 DEF Fits
  <2>4. Fits(b, cell, <<Len(x), Len(x[Len(x)]) + 1>> \in V)
    BY <1>2, <2>3 DEF i
  <2>5. Agrees(x, Len(x), w, U) /\ Len(x) # 0
    BY <1>1, <1>2, <2>2
  <2>6. Agrees(Insert(x, b), Len(x), Declare(w, b.name, cell), V) /\ Declare(w, b.name, cell).val = w.val
    BY <2>3, <2>4, <2>5, AgreesDeclare
  <2>7. Agrees(t, m, v, V) /\ v.val = w.val
    BY <1>2, <2>1, <2>6 DEF t
  <2> QED BY <1>1, <2>7
<1>7. c.scope = t /\ UninitSnapshot(c.scope) = V
  BY DEF t, V
<1>8. \A v \in ws : Agrees(c.scope, Len(c.scope), v, UninitSnapshot(c.scope)) /\ v.val = "Unit"
  BY <1>3, <1>6, <1>7
<1>9. /\ c.scope \in Scopes /\ Len(c.scope) = m /\ Kept(scope, c.scope, m - 1)
      /\ \A p \in UninitSnapshot(c.scope) : p[1] < m => p \in UninitSnapshot(scope)
  BY <1>3, <1>4, <1>5, <1>7
<1> QED BY <1>8, <1>9, StatementFlows DEF m

LEMMA BindFlows ==
    ASSUME Flowing, Ground, errors' = {}, LetStmt \/ VarStmt
    PROVE  Flowing'
<1>1. PICK origin \in {"let", "var"}, n \in Names, e \in Operands \cup {CallOper}, ann \in Annotations :
         CanWrite /\ UNCHANGED blocks /\ Bind(n, e, origin, ann)
  BY DEF LetStmt, VarStmt
<1> DEFINE x == CheckExpr(scope, e)
           ty == IF ann = "none" THEN x.ty ELSE ann
           found == IF ann = "none" THEN {} ELSE Mismatch("T0010", x.ty, ann)
           b == Binding(n, ty, origin, Fresh)
           c == Checked(Insert(x.scope, b), ty, x.errors \cup found)
           ws == {Declare(w, n, Cell(Fresh, origin, Value(w, e))) : w \in worlds}
<1>2. Statement(c, ws, Happens(e), Reads(e))
  BY <1>1 DEF Bind
<1>3. x.errors = {} /\ found = {} /\ c.scope = Insert(x.scope, b)
  BY <1>2 DEF Statement, Step, Checked
<1>4. e \in Expressions /\ CanGoOn
  BY <1>1, ExpressionSets DEF CanWrite
<1> HIDE DEF x, c
<1>5. /\ x.scope \in Scopes /\ OnlyMarks(scope, x.scope) /\ Happens(e) \cap Faults = {}
      /\ x.ty \in Types \ {"Unknown"}
      /\ \A w \in worlds : Value(w, e) = x.ty /\ x.ty \in Solid
  BY <1>3, <1>4, ExprHere DEF x
<1>6. ty \in Types \ {"Unknown"}
  BY <1>5, TypesAreWritten DEF Types, Solid, Annotations
<1>7. \A w \in worlds : Value(w, e) = ty /\ ty \in Solid
  <2>1. CASE ann = "none"
    BY <1>5, <2>1
  <2>2. CASE ann # "none"
    <3>1. AssignableTo(x.ty, ann) /\ ann # "Unknown" /\ ty = ann
      BY <1>3, <2>2, TypesAreWritten DEF Mismatch, Annotations
    <3> QED BY <1>5, <3>1, SolidTypes DEF AssignableTo
  <2> QED BY <2>1, <2>2
<1> HIDE DEF ty, found
<1>8. b \in Bindings /\ b.name = n /\ b.initialized /\ b.id = Fresh /\ b.origin = origin /\ b.ty = ty
  <2>1. b \in Bindings
    BY <1>6, FreshIsNew, NewBinding
  <2> QED BY <2>1 DEF Binding
<1>9. ASSUME NEW v \in ws
      PROVE  \E w \in worlds : \E cell \in Cells :
               v = Declare(w, b.name, cell) /\ Fits(b, cell, ~b.initialized)
  <2>1. PICK w \in worlds : v = Declare(w, n, Cell(Fresh, origin, Value(w, e)))
    OBVIOUS
  <2> DEFINE cell == Cell(Fresh, origin, ty)
  <2>2. v = Declare(w, b.name, cell)
    BY <1>7, <1>8, <2>1
  <2>3. /\ cell = [id |-> Fresh, decl |-> origin, holds |-> ty]
        /\ Fresh \in Nat /\ origin \in Origins /\ ty \in Solid
    BY <1>7, FreshIsNew DEF Cell, Origins
  <2>4. cell \in Cells /\ cell.id = Fresh /\ cell.decl = origin /\ cell.holds = ty
    BY <2>3 DEF Cells
  <2> HIDE DEF cell
  <2>5. Fits(b, cell, ~b.initialized)
    BY <1>7, <1>8, <2>4, SolidTypes DEF Fits
  <2> QED BY <2>2, <2>4, <2>5
<1>10. worlds = {} => ws = {}
  OBVIOUS
<1> HIDE DEF b, ws
<1> QED BY <1>1, <1>2, <1>3, <1>4, <1>5, <1>8, <1>9, <1>10, DeclaredFlows DEF b

LEMMA DeclareFlows ==
    ASSUME Flowing, Ground, errors' = {}, DeclareUnassigned
    PROVE  Flowing'
<1>0. PICK n \in Names, origin \in {"let", "var"}, ann \in Annotations :
         LET b == Binding(n, IF ann = "none" THEN "Unknown" ELSE ann, origin, Fresh)
         IN  /\ CanWrite
             /\ Statement(Checked(Insert(scope, [b EXCEPT !.initialized = origin = "let"]), b.ty,
                                  IF origin = "let" THEN {"T0078"} ELSE {}),
                          {Declare(w, n, Cell(Fresh, origin, "nothing")) : w \in worlds}, {}, {})
             /\ UNCHANGED blocks
  BY DEF DeclareUnassigned
<1> DEFINE ty == IF ann = "none" THEN "Unknown" ELSE ann
           b0 == Binding(n, ty, origin, Fresh)
           b  == [b0 EXCEPT !.initialized = origin = "let"]
           c  == Checked(Insert(scope, b), b0.ty, IF origin = "let" THEN {"T0078"} ELSE {})
           ws == {Declare(w, n, Cell(Fresh, origin, "nothing")) : w \in worlds}
<1>1. /\ n \in Names /\ origin \in {"let", "var"} /\ ann \in Annotations
      /\ CanWrite /\ UNCHANGED blocks
      /\ ty = IF ann = "none" THEN "Unknown" ELSE ann
      /\ b0 = Binding(n, ty, origin, Fresh)
      /\ b = [b0 EXCEPT !.initialized = origin = "let"]
      /\ c = Checked(Insert(scope, b), b0.ty, IF origin = "let" THEN {"T0078"} ELSE {})
      /\ ws = {Declare(w, n, Cell(Fresh, origin, "nothing")) : w \in worlds}
      /\ Statement(c, ws, {}, {})
  BY <1>0
<1> HIDE DEF ty, b0, b, c, ws
<1>2. origin = "var" /\ c.scope = Insert(scope, b) /\ CanGoOn
  BY <1>1 DEF Statement, Step, Checked, CanWrite
<1>3. b0 = Binding(n, ty, "var", Fresh) /\ b = [b0 EXCEPT !.initialized = FALSE]
  BY <1>1, <1>2
<1>4. ty \in Types
  BY <1>1 DEF Annotations, Types, Solid
<1>5. b \in Bindings
  BY <1>1, <1>3, <1>4, FreshIsNew, NewBinding
<1>6. b.name = n /\ ~b.initialized /\ b.id = Fresh /\ b.origin = "var"
  BY <1>3 DEF Binding
<1>7. ASSUME NEW v \in ws
      PROVE  \E w \in worlds : \E cell \in Cells :
               v = Declare(w, b.name, cell) /\ Fits(b, cell, ~b.initialized)
  <2> DEFINE cell == Cell(Fresh, "var", "nothing")
  <2>1. PICK w \in worlds : v = Declare(w, b.name, cell)
    BY <1>1, <1>2, <1>6
  <2>2. cell = [id |-> Fresh, decl |-> "var", holds |-> "nothing"] /\ Fresh \in Nat /\ "var" \in Origins
    BY FreshIsNew DEF Cell, Origins
  <2>3. cell \in Cells /\ cell.id = Fresh /\ cell.decl = "var" /\ cell.holds = "nothing"
    BY <2>2 DEF Cells
  <2>4. Fits(b, cell, ~b.initialized)
    BY <1>6, <2>3 DEF Fits
  <2> HIDE DEF cell
  <2> QED BY <2>1, <2>3, <2>4
<1>8. worlds = {} => ws = {}
  BY <1>1
<1>9. scope \in Scopes /\ OnlyMarks(scope, scope)
  BY <1>2, Here, MarksReflexive
<1>10. {} \cap Faults = {} /\ Statement(c, ws, {}, {}) /\ UNCHANGED blocks /\ b.name \in Names
  BY <1>1, <1>6
<1> QED BY <1>2, <1>5, <1>7, <1>8, <1>9, <1>10, DeclaredFlows

\* An accepted assignment writes a var, to a value of its type.
LEMMA WrittenFlows ==
    ASSUME Flowing, CanGoOn, NEW x \in Scopes, OnlyMarks(scope, x),
           NEW n \in Names, NEW ty \in Types \ {"Unknown"}, NEW frozen, frozen # {},
           TargetErrors(x, n, ty, frozen) = {},
           NEW c, c.scope = (IF Origin(x, n) = "var" THEN Assigned(x, n, ty) ELSE x),
           NEW ws, NEW happens, NEW reads, Statement(c, ws, happens, reads), UNCHANGED blocks,
           \A f \in happens \cap Faults : \E w \in worlds : f \in WriteFaults(w, n),
           worlds # {} => ty \in Solid, worlds = {} => ws = {},
           \A v \in ws : \E w \in worlds : v = IF FramesOf(w, n) = {} THEN w ELSE Write(w, n, ty)
    PROVE  Flowing'
<1> DEFINE m == Len(scope)
           t == Assigned(x, n, ty)
           U == UninitSnapshot(x)
           V == UninitSnapshot(t)
<1>1. /\ scope \in Scopes /\ m \in Nat \ {0}
      /\ \A w \in worlds : Agrees(scope, m, w, UninitSnapshot(scope)) /\ w.val = "Unit"
  BY Here
<1>2. Kept(scope, x, m) /\ U = UninitSnapshot(scope) /\ Len(x) = m
  BY <1>1, MarksKeep DEF OnlyMarks
<1>3. Origin(x, n) = "var" /\ AssignableTo(ty, Found(x, n).ty)
  BY DEF TargetErrors, Mismatch
<1>4. Bound(x, n) /\ Found(x, n).origin = "var"
  BY <1>3 DEF Origin
<1>7. c.scope = t
  BY <1>3
<1> HIDE DEF m
<1>5. PICK l, i : Visible(x, m, n, l, i) /\ Found(x, n) = x[l][i] /\ x[l][i].origin = "var"
  BY <1>2, <1>4, LocateVisible
<1>6. /\ t \in Scopes /\ Len(t) = m /\ Kept(x, t, m) /\ V = U \ {<<l, i>>}
      /\ t[l][i].ty = IF x[l][i].ty = "Unknown" THEN ty ELSE x[l][i].ty
  <2>1. Visible(x, Len(x), n, l, i)
    BY <1>2, <1>5
  <2> QED BY <1>2, <1>5, <2>1, AssignedPlace
<1> HIDE DEF t, V, U
<1>8. l \in 1 .. m /\ i \in 1 .. Len(x[l]) /\ x[l][i] \in Bindings
  BY <1>1, <1>2, <1>5, ScopeTypes DEF Visible
<1>9. ty \in Solid => ty = t[l][i].ty
  BY <1>3, <1>5, <1>6, SolidTypes DEF AssignableTo
<1>10. Visible(t, m, n, l, i) /\ m \in 0 .. Len(t)
  BY <1>1, <1>5, <1>6, VisibleKept
<1>11. \A w \in worlds : Agrees(x, m, w, U) /\ Agrees(t, m, w, U)
  <2>1. \A w \in worlds : Agrees(x, m, w, U)
    BY <1>1, <1>2, AgreesKept DEF m
  <2> QED BY <1>6, <2>1, AgreesKept
<1>12. \A w \in worlds : FramesOf(w, n) # {} /\ WriteFaults(w, n) = {}
  <2>1. \A w \in worlds : FramesOf(w, n) # {} /\ Fits(x[l][i], CellOf(w, n), <<l, i>> \in U)
    BY <1>1, <1>2, <1>5, <1>11, FrameVisible DEF m
  <2> QED BY <1>4, <1>5, <2>1 DEF Fits, WriteFaults
<1>13. ASSUME NEW v \in ws
       PROVE  Agrees(t, m, v, V) /\ v.val = "Unit"
  <2>1. PICK w \in worlds : v = Write(w, n, ty)
    BY <1>12, <1>13
  <2>2. Agrees(t, m, w, U) /\ ty \in Solid /\ ty = t[l][i].ty /\ U \ {<<l, i>>} \subseteq V
    BY <1>6, <1>9, <1>11, <2>1
  <2>3. t \in Scopes /\ Visible(t, m, n, l, i) /\ m \in 0 .. Len(t)
    BY <1>6, <1>10
  <2>4. Agrees(t, m, Write(w, n, ty), V) /\ Write(w, n, ty).val = w.val
    BY <2>2, <2>3, AgreesWrite
  <2> QED BY <1>1, <2>1, <2>4
<1>14. Kept(scope, t, m) /\ Kept(scope, t, m - 1)
  <2>1. Kept(scope, t, m)
    BY <1>1, <1>2, <1>6, KeptTransitive DEF m
  <2> QED BY <1>1, <1>6, <2>1, KeptLess DEF m
<1>15. happens \cap Faults = {}
  BY <1>12
<1>16. \A p \in V : p[1] < m => p \in UninitSnapshot(scope)
  BY <1>2, <1>6
<1> QED BY <1>6, <1>7, <1>13, <1>14, <1>15, <1>16, StatementFlows DEF m, V

LEMMA AssignLocalFlows ==
    ASSUME Flowing, errors' = {}, AssignLocal
    PROVE  Flowing'
<1>0. PICK n \in Names, e \in Operands :
         LET y == CheckExpr(scope, e)
         IN  /\ CanWrite
             /\ Statement(Checked(IF Origin(y.scope, n) = "var" THEN Assigned(y.scope, n, y.ty) ELSE y.scope,
                                  "Unit", y.errors \cup TargetErrors(y.scope, n, y.ty, {"T0033"})),
                          {IF FramesOf(w, n) = {} THEN w ELSE Write(w, n, Value(w, e)) : w \in worlds},
                          Happens(e) \cup UNION {WriteFaults(w, n) : w \in worlds}, Reads(e) \cup Writes(n))
             /\ UNCHANGED blocks
  BY DEF AssignLocal, WriteLocal
<1> DEFINE x  == CheckExpr(scope, e)
           c  == Checked(IF Origin(x.scope, n) = "var" THEN Assigned(x.scope, n, x.ty) ELSE x.scope,
                         "Unit", x.errors \cup TargetErrors(x.scope, n, x.ty, {"T0033"}))
           ws == {IF FramesOf(w, n) = {} THEN w ELSE Write(w, n, Value(w, e)) : w \in worlds}
           happens == Happens(e) \cup UNION {WriteFaults(w, n) : w \in worlds}
           reads   == Reads(e) \cup Writes(n)
<1>1. /\ n \in Names /\ e \in Operands
      /\ CanWrite /\ UNCHANGED blocks
      /\ x = CheckExpr(scope, e)
      /\ c = Checked(IF Origin(x.scope, n) = "var" THEN Assigned(x.scope, n, x.ty) ELSE x.scope,
                     "Unit", x.errors \cup TargetErrors(x.scope, n, x.ty, {"T0033"}))
      /\ ws = {IF FramesOf(w, n) = {} THEN w ELSE Write(w, n, Value(w, e)) : w \in worlds}
      /\ happens = Happens(e) \cup UNION {WriteFaults(w, n) : w \in worlds}
      /\ Statement(c, ws, happens, reads)
  BY <1>0
<1> HIDE DEF x, c, ws, happens, reads
<1>2. /\ x.errors = {} /\ TargetErrors(x.scope, n, x.ty, {"T0033"}) = {}
      /\ c.scope = IF Origin(x.scope, n) = "var" THEN Assigned(x.scope, n, x.ty) ELSE x.scope
  BY <1>1 DEF Statement, Step, Checked
<1>3. e \in Expressions /\ CanGoOn
  BY <1>1, ExpressionSets DEF CanWrite
<1>4. /\ x.scope \in Scopes /\ OnlyMarks(scope, x.scope) /\ Happens(e) \cap Faults = {}
      /\ x.ty \in Types \ {"Unknown"}
      /\ \A w \in worlds : Value(w, e) = x.ty /\ x.ty \in Solid
  BY <1>1, <1>2, <1>3, ExprHere
<1>5. \A v \in ws : \E w \in worlds : v = IF FramesOf(w, n) = {} THEN w ELSE Write(w, n, x.ty)
  BY <1>1, <1>4
<1>6. /\ worlds # {} => x.ty \in Solid
      /\ worlds = {} => ws = {}
  BY <1>1, <1>4
<1>7. n \in Names /\ {"T0033"} # {} /\ UNCHANGED blocks
  BY <1>1
<1>8. \A f \in happens \cap Faults : \E w \in worlds : f \in WriteFaults(w, n)
  BY <1>1, <1>4
<1>9. Statement(c, ws, happens, reads)
  BY <1>1
<1> QED BY <1>2, <1>3, <1>4, <1>5, <1>6, <1>7, <1>8, <1>9, WrittenFlows

LEMMA LoadFlows ==
    ASSUME Flowing, errors' = {}, LoadStmt
    PROVE  Flowing'
<1>1. PICK n, e, x, loaded, found, c, ws, happens, reads :
         /\ n \in Names /\ e \in Operands
         /\ CanWrite /\ UNCHANGED blocks
         /\ x = CheckExpr(scope, e)
         /\ loaded = IF x.ty = "Relation" THEN "Sequence" ELSE "Unknown"
         /\ found = IF x.ty \in {"Relation", "Unknown"} THEN {} ELSE {"T0081"}
         /\ c = Checked(IF Origin(x.scope, n) = "var" THEN Assigned(x.scope, n, loaded) ELSE x.scope,
                        "Unit", x.errors \cup found \cup TargetErrors(x.scope, n, loaded, {"T0001"}))
         /\ ws = {IF FramesOf(w, n) = {} THEN w ELSE Write(w, n, "Sequence") : w \in worlds}
         /\ happens = Happens(e) \cup UNION {WriteFaults(w, n) : w \in worlds}
         /\ Statement(c, ws, happens, reads)
  BY DEF LoadStmt, WriteLocal
<1>2. /\ x.errors = {} /\ found = {} /\ TargetErrors(x.scope, n, loaded, {"T0001"}) = {}
      /\ c.scope = IF Origin(x.scope, n) = "var" THEN Assigned(x.scope, n, loaded) ELSE x.scope
  BY <1>1 DEF Statement, Step, Checked
<1>3. e \in Expressions /\ CanGoOn
  BY <1>1, ExpressionSets DEF CanWrite
<1>4. /\ x.scope \in Scopes /\ OnlyMarks(scope, x.scope) /\ Happens(e) \cap Faults = {}
      /\ x.ty \in Types \ {"Unknown"}
  BY <1>1, <1>2, <1>3, ExprHere
<1>5. loaded = "Sequence"
  BY <1>1, <1>2, <1>4
<1>6. "Sequence" \in Solid /\ loaded \in Types \ {"Unknown"}
  BY <1>5, SolidTypes DEF Solid, Types
<1>7. \A v \in ws : \E w \in worlds : v = IF FramesOf(w, n) = {} THEN w ELSE Write(w, n, loaded)
  BY <1>1, <1>5
<1>8. worlds = {} => ws = {}
  BY <1>1
<1>9. n \in Names /\ {"T0001"} # {} /\ UNCHANGED blocks
  BY <1>1
<1>10. \A f \in happens \cap Faults : \E w \in worlds : f \in WriteFaults(w, n)
  BY <1>1, <1>4
<1>11. Statement(c, ws, happens, reads) /\ (worlds # {} => loaded \in Solid)
  BY <1>1, <1>5, <1>6
<1> QED BY <1>2, <1>3, <1>4, <1>6, <1>7, <1>8, <1>9, <1>10, <1>11, WrittenFlows

-----------------------------------------------------------------------------
(* Opening blocks.                                                          *)

\* What a block puts aside as it opens: the branches, where the executions
\* stand; the others nothing.
Opens(x, b) ==
    /\ b \in BlockRecs /\ b.form \notin {"oper", "else"} /\ ~b.diverges
    /\ b.after = {} /\ b.thenTy = "none"
    /\ IF b.form \in Branches THEN b.snap = UninitSnapshot(x) /\ b.before = worlds
                              ELSE b.snap = {} /\ b.before = {}
    /\ b.form \in {"while", "for", "do"} => b.use = "stmt"
    /\ b.form = "while" => \A n \in NamesIn(b.cond) :
          \E l, i : Visible(x, Len(x), n, l, i) /\ <<l, i>> \notin b.snap
    /\ b.form = "for" => b.cond = Lit("Boolean")

LEMMA OpenFlows ==
    ASSUME Flowing, CanGoOn, NEW x \in Scopes, OnlyMarks(scope, x),
           NEW b, Opens(x, b), NEW t \in Scopes, Len(t) = Len(scope) + 1, Kept(x, t, Len(scope)),
           UninitSnapshot(t) = UninitSnapshot(x),
           NEW ws, worlds = {} => ws = {},
           \A v \in ws : \E w \in worlds :
               Agrees(x, Len(scope), w, UninitSnapshot(x)) =>
                  Agrees(t, Len(scope) + 1, v, UninitSnapshot(x)) /\ v.val = w.val,
           NEW happens, happens \cap Faults = {}, events' = events \cup happens,
           scope' = t, blocks' = Append(blocks, b), worlds' = ws, tail' = tail
    PROVE  Flowing'
<1> DEFINE m == Len(scope)
           cs == Append(blocks, b)
           U == UninitSnapshot(x)
<1>1. /\ scope \in Scopes /\ m \in Nat \ {0} /\ m = Len(blocks)
      /\ Walk(scope, blocks, tail, worlds) /\ events \cap Faults = {} /\ tail = "none"
      /\ \A w \in worlds : Agrees(scope, m, w, UninitSnapshot(scope)) /\ w.val = "Unit"
  BY Here DEF CanGoOn
<1>2. Kept(scope, x, m) /\ U = UninitSnapshot(scope) /\ Len(x) = m
  BY <1>1, MarksKeep DEF OnlyMarks
<1> HIDE DEF m
<1>3. Kept(scope, t, m) /\ Len(t) = m + 1 /\ UninitSnapshot(t) = U
  BY <1>1, <1>2, KeptTransitive DEF m
<1> HIDE DEF U
<1>4. /\ blocks \in Seq(BlockRecs) /\ blocks[1].form = "oper" /\ Nest(blocks, scope) /\ Quiet(blocks, worlds)
      /\ b \in BlockRecs
  BY <1>1 DEF Walk, Opens
<1>5. cs \in Seq(BlockRecs) /\ Len(cs) = m + 1 /\ cs[m + 1] = b /\ \A k \in 1 .. m : cs[k] = blocks[k]
  BY <1>1, <1>4
<1> HIDE DEF cs
<1>6. m + 1 \in 1 .. Len(blocks) + 1 /\ cs[1].form = "oper" /\ (m + 1) - 1 = m /\ m + 1 \in Nat \ {0}
  BY <1>1, <1>4, <1>5
<1>7. \A w \in worlds : Agrees(x, m, w, U) /\ Agrees(t, m, w, U)
  <2>1. \A w \in worlds : Agrees(x, m, w, U)
    BY <1>1, <1>2, AgreesKept
  <2>2. \A w \in worlds : Agrees(t, m, w, U)
    BY <1>1, <1>2, <1>3, AgreesKept
  <2> QED BY <2>1, <2>2
<1>8. SetAside(t, m + 1, b)
  <2>1. \A p \in b.snap : /\ p[1] \in 1 .. m /\ p[2] \in 1 .. Len(t[p[1]])
                          /\ t[p[1]][p[2]].origin = "var"
    <3> SUFFICES ASSUME NEW p \in b.snap
                 PROVE  /\ p[1] \in 1 .. m /\ p[2] \in 1 .. Len(t[p[1]])
                        /\ t[p[1]][p[2]].origin = "var"
      OBVIOUS
    <3>1. p \in UninitSnapshot(x)
      BY DEF Opens
    <3>2. p[1] \in 1 .. m /\ p[2] \in 1 .. Len(x[p[1]]) /\ x[p[1]][p[2]].origin = "var"
      BY <1>2, <3>1, UninitPlaces
    <3>3. Kept(x, t, m)
      BY DEF m
    <3> QED BY <3>2, <3>3 DEF Kept, Evolves
  <2>2. \A w \in b.before : Agrees(t, m, w, b.snap) /\ w.val = "Unit"
    BY <1>1, <1>7 DEF Opens, U
  <2>3. b.form = "while" => \A n \in NamesIn(b.cond) :
            \E l, i : Visible(t, m, n, l, i) /\ <<l, i>> \notin b.snap
    <3>1. Kept(x, t, m)
      BY DEF m
    <3>2. \A n, l, i : Visible(x, m, n, l, i) => Visible(t, m, n, l, i)
      BY <3>1, VisibleKept
    <3> QED BY <1>2, <3>2 DEF Opens
  <2> QED BY <1>6, <2>1, <2>2, <2>3 DEF SetAside, Opens
<1>9. \A k \in 1 .. m + 1 : Waiting(cs, k, U)
  <2> SUFFICES ASSUME NEW k \in 1 .. m + 1 PROVE Waiting(cs, k, U)
    OBVIOUS
  <2>1. CASE k = m + 1
    BY <1>5, <2>1 DEF Waiting, Opens, U
  <2>2. CASE k # m + 1
    <3>1. k \in 1 .. m /\ k \in 1 .. Len(blocks)
      BY <1>1, <2>2
    <3>2. Waiting(blocks, k, UninitSnapshot(scope))
      BY <1>4, <3>1 DEF Nest
    <3> QED BY <1>2, <1>5, <3>1, <3>2 DEF Waiting
  <2> QED BY <2>1, <2>2
<1>10. \A k \in 1 .. m : Waiting(cs, k, b.snap)
  <2>1. b.snap = U \/ b.snap = {}
    BY DEF Opens, U
  <2>2. \A k \in 1 .. m : Waiting(cs, k, U)
    BY <1>1, <1>9
  <2> QED BY <2>1, <2>2 DEF Waiting
<1>11. Quiet(cs, ws)
  <2> SUFFICES ASSUME NEW k \in 1 .. m + 1, cs[k].diverges
               PROVE  ws = {} /\ \A j \in k + 1 .. m + 1 : cs[j].before = {} /\ cs[j].after = {}
    BY <1>5 DEF Quiet
  <2>1. k \in 1 .. m /\ k \in 1 .. Len(blocks) /\ blocks[k].diverges
    BY <1>1, <1>5 DEF Opens
  <2>2. worlds = {} /\ \A j \in k + 1 .. m : blocks[j].before = {} /\ blocks[j].after = {}
    BY <1>1, <1>4, <2>1 DEF Quiet
  <2>3. b.before = {} /\ b.after = {}
    BY <2>2 DEF Opens
  <2>4. \A j \in k + 1 .. m + 1 : j = m + 1 \/ (j \in k + 1 .. m /\ j \in 1 .. m)
    BY <1>1
  <2> QED BY <1>5, <2>2, <2>3, <2>4
<1>12. \A v \in ws : Agrees(t, m + 1, v, UninitSnapshot(t)) /\ v.val = Yield("none")
  <2>1. \A v \in ws : Agrees(t, m + 1, v, U) /\ v.val = "Unit"
    BY <1>1, <1>7 DEF m, U
  <2> QED BY <1>3, <2>1 DEF Yield
<1>13. "none" \in (Types \ {"Unknown"}) \cup {"none"}
  OBVIOUS
<1>14. /\ \A k \in 1 .. (m + 1) - 1 : cs[k] = blocks[k]
       /\ \A k \in 1 .. (m + 1) - 1 : Waiting(cs, k, cs[m + 1].snap)
       /\ \A k \in 1 .. m + 1 : Waiting(cs, k, UninitSnapshot(t))
       /\ Kept(scope, t, (m + 1) - 1) /\ SetAside(t, m + 1, cs[m + 1])
  BY <1>3, <1>5, <1>6, <1>8, <1>9, <1>10
<1>15. Walk(t, cs, "none", ws)
  BY <1>1, <1>3, <1>5, <1>6, <1>11, <1>12, <1>13, <1>14, WalkTo
<1>16. events' \cap Faults = {}
  BY <1>1
<1> QED BY <1>1, <1>15, <1>16, Flows DEF cs

\* A new block of any form.
IsBlock(b, form, use, snap, before, cond) ==
    /\ b \in BlockRecs /\ b.form = form /\ b.use = use /\ ~b.diverges
    /\ b.after = {} /\ b.thenTy = "none"
    /\ b.snap = snap /\ b.before = before /\ b.cond = cond

LEMMA NewBlock ==
    ASSUME Ground, NEW form \in Forms, NEW use \in Uses,
           NEW snap \in SUBSET Places, NEW before \in SUBSET Worlds, NEW cond \in Conditions
    PROVE  /\ IsBlock(Block(form, use), form, use, {}, {}, Lit("Boolean"))
           /\ IsBlock([Block(form, use) EXCEPT !.snap = snap, !.before = before],
                      form, use, snap, before, Lit("Boolean"))
           /\ IsBlock([Block(form, use) EXCEPT !.snap = snap, !.cond = cond, !.before = before],
                      form, use, snap, before, cond)
<1> DEFINE a == Block(form, use)
<1>1. Fresh \in Nat /\ Lit("Boolean") \in Conditions
  BY FreshIsNew DEF Conditions
<1>2. /\ a \in BlockRecs /\ a.form = form /\ a.use = use /\ ~a.diverges
      /\ a.after = {} /\ a.thenTy = "none" /\ a.snap = {} /\ a.before = {} /\ a.cond = Lit("Boolean")
  BY <1>1 DEF Block, BlockRecs
<1> HIDE DEF a
<1> DEFINE b == [a EXCEPT !.snap = snap, !.before = before]
           c == [a EXCEPT !.snap = snap, !.cond = cond, !.before = before]
<1>3. /\ b \in BlockRecs /\ b.form = a.form /\ b.use = a.use /\ b.diverges = a.diverges
      /\ b.after = a.after /\ b.thenTy = a.thenTy
      /\ b.snap = snap /\ b.before = before /\ b.cond = a.cond
  BY <1>2 DEF BlockRecs
<1>4. /\ c \in BlockRecs /\ c.form = a.form /\ c.use = a.use /\ c.diverges = a.diverges
      /\ c.after = a.after /\ c.thenTy = a.thenTy
      /\ c.snap = snap /\ c.before = before /\ c.cond = cond
  BY <1>2 DEF BlockRecs
<1> HIDE DEF b, c
<1>5. IsBlock(a, form, use, {}, {}, Lit("Boolean"))
  BY <1>2 DEF IsBlock
<1>6. IsBlock(b, form, use, snap, before, Lit("Boolean"))
  BY <1>2, <1>3 DEF IsBlock
<1>7. IsBlock(c, form, use, snap, before, cond)
  BY <1>2, <1>4 DEF IsBlock
<1> QED BY <1>5, <1>6, <1>7 DEF a, b, c

\* A block whose executions just enter.
LEMMA EnterFlows ==
    ASSUME Flowing, CanGoOn, NEW x \in Scopes, OnlyMarks(scope, x),
           NEW b, Opens(x, b), NEW check, check.scope = Push(x),
           NEW happens, happens \cap Faults = {}, NEW reads,
           Step(check, {Enter(w) : w \in worlds}, happens, reads), blocks' = Append(blocks, b)
    PROVE  Flowing'
<1>1. scope \in Scopes /\ Len(x) = Len(scope)
  BY Here DEF OnlyMarks
<1> DEFINE t == Push(x)
           ws == {Enter(w) : w \in worlds}
<1>2. /\ t \in Scopes /\ Len(t) = Len(scope) + 1 /\ Kept(x, t, Len(scope))
      /\ UninitSnapshot(t) = UninitSnapshot(x)
  BY <1>1, PushPlaces
<1>3. ASSUME NEW v \in ws
      PROVE  \E w \in worlds :
                Agrees(x, Len(scope), w, UninitSnapshot(x)) =>
                   Agrees(t, Len(scope) + 1, v, UninitSnapshot(x)) /\ v.val = w.val
  <2>1. PICK w \in worlds : v = Enter(w)
    OBVIOUS
  <2>2. Agrees(x, Len(x), w, UninitSnapshot(x)) =>
           Agrees(t, Len(x) + 1, Enter(w), UninitSnapshot(x)) /\ Enter(w).val = w.val
    BY AgreesEnter
  <2> QED BY <1>1, <2>1, <2>2
<1>4. worlds = {} => ws = {}
  OBVIOUS
<1>5. scope' = t /\ worlds' = ws /\ events' = events \cup happens /\ tail' = tail
  BY DEF Step
<1> HIDE DEF t, ws
<1> QED BY <1>2, <1>3, <1>4, <1>5, OpenFlows

LEMMA ConditionFields ==
    ASSUME NEW e, NEW code
    PROVE  LET cond == Condition(e, code)
           IN  /\ cond.scope = CheckExpr(scope, e).scope
               /\ cond.errors = {} => CheckExpr(scope, e).errors = {}
<1>1. "errors" \in DOMAIN CheckExpr(scope, e) /\ "scope" \in DOMAIN CheckExpr(scope, e)
  BY DEF CheckExpr, CheckName, CheckCall, Checked
<1> QED BY <1>1 DEF Condition

\* What the executions are put aside with.
LEMMA AsideTypes ==
    ASSUME Flowing, CanGoOn
    PROVE  /\ worlds \in SUBSET Worlds
           /\ \A x \in Scopes : UninitSnapshot(x) \in SUBSET Places
           /\ Lit("Boolean") \in Conditions /\ {"stmt", "tail"} \subseteq Uses
<1>1. worlds \in SUBSET Worlds
  BY Here DEF Agrees
<1>2. \A x \in Scopes : UninitSnapshot(x) \in SUBSET Places
  BY UninitWithin DEF Places
<1> QED BY <1>1, <1>2 DEF Conditions, Uses

LEMMA IfFlows ==
    ASSUME Flowing, Ground, errors' = {}, BeginIf
    PROVE  Flowing'
<1>1. PICK e, use, cond, b, check :
         /\ e \in Conditions /\ use \in Uses
         /\ CanOpen /\ cond = Condition(e, "T0067")
         /\ b = [Block("then", use) EXCEPT !.snap = UninitSnapshot(cond.scope), !.before = worlds]
         /\ check = Checked(Push(cond.scope), "Unit", cond.errors)
         /\ Step(check, {Enter(w) : w \in worlds}, Happens(e), Reads(e))
         /\ blocks' = Append(blocks, b)
  BY DEF BeginIf, OpenBlock
<1> DEFINE x == CheckExpr(scope, e).scope
<1>2. cond.errors = {} /\ check.scope = Push(cond.scope)
  BY <1>1 DEF Step, Checked
<1>3. CheckExpr(scope, e).errors = {} /\ cond.scope = x /\ e \in Expressions /\ CanGoOn
  BY <1>1, <1>2, ConditionFields, ExpressionSets DEF CanOpen
<1>4. x \in Scopes /\ OnlyMarks(scope, x) /\ Happens(e) \cap Faults = {}
  BY <1>3, ExprHere
<1> HIDE DEF x
<1>5. IsBlock(b, "then", use, UninitSnapshot(x), worlds, Lit("Boolean"))
  <2>1. UninitSnapshot(x) \in SUBSET Places /\ worlds \in SUBSET Worlds /\ Lit("Boolean") \in Conditions
        /\ use \in Uses
    BY <1>1, <1>3, <1>4, AsideTypes
  <2>2. b = [Block("then", use) EXCEPT !.snap = UninitSnapshot(x), !.before = worlds]
    BY <1>1, <1>3
  <2> QED BY <2>1, <2>2, NewBlock DEF Forms
<1>6. Opens(x, b)
  BY <1>5 DEF IsBlock, Opens, Branches
<1>7. check.scope = Push(x)
  BY <1>2, <1>3
<1> QED BY <1>1, <1>3, <1>4, <1>6, <1>7, EnterFlows

LEMMA WhileFlows ==
    ASSUME Flowing, Ground, errors' = {}, BeginWhile
    PROVE  Flowing'
<1>1. PICK e, cond, b, check :
         /\ e \in Conditions
         /\ CanOpen /\ cond = Condition(e, "T0080")
         /\ b = [Block("while", "stmt") EXCEPT !.snap = UninitSnapshot(cond.scope), !.cond = e,
                                               !.before = worlds]
         /\ check = Checked(Push(cond.scope), "Unit", cond.errors)
         /\ Step(check, {Enter(w) : w \in worlds}, Happens(e), Reads(e))
         /\ blocks' = Append(blocks, b)
  BY DEF BeginWhile, OpenBlock
<1> DEFINE c == CheckExpr(scope, e)
           x == c.scope
<1>2. cond.errors = {} /\ check.scope = Push(cond.scope)
  BY <1>1 DEF Step, Checked
<1>3. c.errors = {} /\ cond.scope = x /\ e \in Expressions /\ CanGoOn
  BY <1>1, <1>2, ConditionFields, ExpressionSets DEF CanOpen
<1>4. x \in Scopes /\ OnlyMarks(scope, x) /\ Happens(e) \cap Faults = {} /\ Evaluates(scope, e, c)
  BY <1>3, ExprHere
<1> HIDE DEF c
<1>5. \A n \in NamesIn(e) : \E l, i : Visible(scope, Len(scope), n, l, i) /\ <<l, i>> \notin UninitSnapshot(scope)
  BY <1>4 DEF Evaluates
<1> HIDE DEF x
<1>6. \A n \in NamesIn(e) : \E l, i : Visible(x, Len(x), n, l, i) /\ <<l, i>> \notin UninitSnapshot(x)
  <2>1. /\ scope \in Scopes /\ Kept(scope, x, Len(scope)) /\ Len(x) = Len(scope)
        /\ UninitSnapshot(x) = UninitSnapshot(scope)
    BY <1>3, <1>4, Here, MarksKeep DEF OnlyMarks
  <2>2. \A n, l, i : Visible(scope, Len(scope), n, l, i) => Visible(x, Len(x), n, l, i)
    BY <1>4, <2>1, VisibleKept
  <2> QED BY <1>5, <2>1, <2>2
<1>7. IsBlock(b, "while", "stmt", UninitSnapshot(x), worlds, e)
  <2>1. UninitSnapshot(x) \in SUBSET Places /\ worlds \in SUBSET Worlds /\ "stmt" \in Uses /\ "while" \in Forms
        /\ e \in Conditions
    BY <1>1, <1>3, <1>4, AsideTypes DEF Forms
  <2>2. b = [Block("while", "stmt") EXCEPT !.snap = UninitSnapshot(x), !.cond = e, !.before = worlds]
    BY <1>1, <1>3
  <2> QED BY <2>1, <2>2, NewBlock
<1>8. Opens(x, b)
  BY <1>6, <1>7 DEF IsBlock, Opens, Branches
<1>9. check.scope = Push(x)
  BY <1>2, <1>3
<1> QED BY <1>1, <1>3, <1>4, <1>8, <1>9, EnterFlows

LEMMA DoFlows ==
    ASSUME Flowing, Ground, errors' = {}, BeginDo
    PROVE  Flowing'
<1>1. PICK b, check :
         /\ CanOpen /\ b = Block("do", "stmt") /\ check.scope = Push(scope)
         /\ Step(check, {Enter(w) : w \in worlds}, {}, {})
         /\ blocks' = Append(blocks, b)
  BY DEF BeginDo, OpenBlock, Checked
<1>2. CanGoOn /\ scope \in Scopes /\ OnlyMarks(scope, scope)
  BY <1>1, Here, MarksReflexive DEF CanOpen
<1>3. IsBlock(b, "do", "stmt", {}, {}, Lit("Boolean"))
  <2>1. "stmt" \in Uses /\ "do" \in Forms /\ Lit("Boolean") \in Conditions
    BY <1>2, AsideTypes DEF Forms
  <2>2. {} \in SUBSET Places /\ {} \in SUBSET Worlds
    OBVIOUS
  <2> QED BY <1>1, <2>1, <2>2, NewBlock
<1>4. Opens(scope, b) /\ {} \cap Faults = {}
  BY <1>3 DEF IsBlock, Opens, Branches
<1> QED BY <1>1, <1>2, <1>4, EnterFlows

LEMMA TransactionFlows ==
    ASSUME Flowing, Ground, errors' = {}, BeginTransaction
    PROVE  Flowing'
<1>1. PICK use, b, ws, t :
         /\ use \in Uses
         /\ CanOpen /\ b = Block("transaction", use) /\ t = Push(scope)
         /\ ws = {[Enter(w) EXCEPT !.depth = @ + 1] : w \in worlds}
         /\ scope' = t /\ blocks' = Append(blocks, b) /\ worlds' = ws
         /\ tail' = tail /\ events' = events \cup {}
  BY DEF BeginTransaction
<1>2. CanGoOn /\ scope \in Scopes /\ OnlyMarks(scope, scope)
  BY <1>1, Here, MarksReflexive DEF CanOpen
<1>3. IsBlock(b, "transaction", use, {}, {}, Lit("Boolean"))
  <2>1. "transaction" \in Forms /\ Lit("Boolean") \in Conditions
    BY <1>2, AsideTypes DEF Forms
  <2>2. {} \in SUBSET Places /\ {} \in SUBSET Worlds
    OBVIOUS
  <2> QED BY <1>1, <2>1, <2>2, NewBlock
<1>4. Opens(scope, b) /\ {} \cap Faults = {}
  BY <1>3 DEF IsBlock, Opens, Branches
<1>5. /\ t \in Scopes /\ Len(t) = Len(scope) + 1 /\ Kept(scope, t, Len(scope))
      /\ UninitSnapshot(t) = UninitSnapshot(scope)
  BY <1>1, <1>2, PushPlaces
<1>6. ASSUME NEW v \in ws
      PROVE  \E w \in worlds :
                Agrees(scope, Len(scope), w, UninitSnapshot(scope)) =>
                   Agrees(t, Len(scope) + 1, v, UninitSnapshot(scope)) /\ v.val = w.val
  <2>1. PICK w \in worlds : v = [Enter(w) EXCEPT !.depth = @ + 1]
    BY <1>1
  <2>2. ASSUME Agrees(scope, Len(scope), w, UninitSnapshot(scope))
        PROVE  Agrees(t, Len(scope) + 1, v, UninitSnapshot(scope)) /\ v.val = w.val
    <3> DEFINE u == Enter(w)
    <3>1. Agrees(t, Len(scope) + 1, u, UninitSnapshot(scope)) /\ u.val = w.val
      BY <1>1, <1>2, <2>2, AgreesEnter
    <3> HIDE DEF u
    <3>2. u.depth + 1 \in Int
      BY <3>1, WorldTypes DEF Agrees
    <3>3. v = [u EXCEPT !.depth = u.depth + 1]
      BY <2>1 DEF u
    <3> QED BY <3>1, <3>2, <3>3, AgreesDepth
  <2> QED BY <2>2
<1>7. worlds = {} => ws = {}
  BY <1>1
<1> QED BY <1>1, <1>2, <1>4, <1>5, <1>6, <1>7, OpenFlows

\* A loop's counter is the first binding of its body.
LEMMA ForFlows ==
    ASSUME Flowing, Ground, errors' = {}, BeginFor
    PROVE  Flowing'
<1>0. PICK n \in Names, e \in Operands, each \in BOOLEAN :
         /\ CanOpen
         /\ \E found :
               Step(Checked(Insert(Push(CheckExpr(scope, e).scope),
                                   Binding(n, IF each THEN "Tuple" ELSE "Integer", "counter", Fresh)),
                            IF each THEN "Tuple" ELSE "Integer", CheckExpr(scope, e).errors \cup found),
                    {Declare(Enter(w), n, Cell(Fresh, "counter", IF each THEN "Tuple" ELSE "Integer"))
                        : w \in worlds},
                    Happens(e), Reads(e))
         /\ blocks' = Append(blocks, [Block("for", "stmt") EXCEPT
                                        !.snap = UninitSnapshot(CheckExpr(scope, e).scope), !.before = worlds])
  BY DEF BeginFor
<1>1. PICK c, ty, a, b, t, ws, found :
         /\ CanOpen /\ c = CheckExpr(scope, e) /\ ty = (IF each THEN "Tuple" ELSE "Integer")
         /\ a = Binding(n, ty, "counter", Fresh)
         /\ b = [Block("for", "stmt") EXCEPT !.snap = UninitSnapshot(c.scope), !.before = worlds]
         /\ t = Insert(Push(c.scope), a)
         /\ ws = {Declare(Enter(w), n, Cell(Fresh, "counter", ty)) : w \in worlds}
         /\ Step(Checked(t, ty, c.errors \cup found), ws, Happens(e), Reads(e))
         /\ blocks' = Append(blocks, b)
  BY <1>0
<1> DEFINE x == c.scope
<1>2. /\ scope' = t /\ worlds' = ws /\ events' = events \cup Happens(e) /\ tail' = tail /\ c.errors = {}
  BY <1>1 DEF Step, Checked
<1>3. e \in Expressions /\ CanGoOn
  BY <1>1, ExpressionSets DEF CanOpen
<1>4. x \in Scopes /\ OnlyMarks(scope, x) /\ Happens(e) \cap Faults = {}
  BY <1>1, <1>2, <1>3, ExprHere
<1>5. b = [Block("for", "stmt") EXCEPT !.snap = UninitSnapshot(x), !.before = worlds] /\ t = Insert(Push(x), a)
  BY <1>1
<1> HIDE DEF x
<1>6. IsBlock(b, "for", "stmt", UninitSnapshot(x), worlds, Lit("Boolean"))
  <2>1. /\ UninitSnapshot(x) \in SUBSET Places /\ worlds \in SUBSET Worlds /\ "stmt" \in Uses /\ "for" \in Forms
        /\ Lit("Boolean") \in Conditions
    BY <1>3, <1>4, AsideTypes DEF Forms
  <2> QED BY <1>5, <2>1, NewBlock
<1>7. Opens(x, b)
  BY <1>6 DEF IsBlock, Opens, Branches
<1>8. ty \in Solid /\ ty \in Types /\ ty # "Unknown" /\ ty # "nothing" /\ Fresh \in Nat
  BY <1>1, FreshIsNew, SolidTypes DEF Solid, Types
<1>9. a \in Bindings /\ a.name = n /\ a.initialized /\ a.id = Fresh /\ a.origin = "counter" /\ a.ty = ty
  <2>1. a \in Bindings
    BY <1>1, <1>8, NewBinding
  <2> QED BY <1>1, <2>1 DEF Binding
<1> DEFINE cell == Cell(Fresh, "counter", ty)
           p == Push(x)
           m == Len(scope)
<1>10. cell \in Cells /\ cell.id = Fresh /\ cell.decl = "counter" /\ cell.holds = ty
  <2>1. cell = [id |-> Fresh, decl |-> "counter", holds |-> ty] /\ "counter" \in Origins
    BY DEF Cell, Origins
  <2> QED BY <1>8, <2>1 DEF Cells
<1>11. scope \in Scopes /\ m \in Nat \ {0} /\ Len(x) = m
  BY <1>3, <1>4, Here DEF OnlyMarks
<1>12. p \in Scopes /\ Len(p) = m + 1 /\ Kept(x, p, m) /\ UninitSnapshot(p) = UninitSnapshot(x)
  BY <1>4, <1>11, PushPlaces
<1>13. t = Insert(p, a)
  BY <1>5
<1>14. ws = {Declare(Enter(w), n, cell) : w \in worlds}
  BY <1>1
<1> HIDE DEF cell, p, m
<1>15. /\ t \in Scopes /\ Len(t) = m + 1 /\ Kept(p, t, m) /\ UninitSnapshot(t) = UninitSnapshot(x)
  <2>1. Len(p) # 0 /\ Len(p) - 1 = m
    BY <1>11, <1>12
  <2>2. /\ t \in Scopes /\ Len(t) = Len(p) /\ Kept(p, t, Len(p) - 1)
        /\ UninitSnapshot(t) = UninitSnapshot(p) \cup (IF a.initialized THEN {} ELSE {<<Len(p), Len(p[Len(p)]) + 1>>})
    BY <1>9, <1>12, <1>13, <2>1, InsertPlaces
  <2> QED BY <1>9, <1>12, <2>1, <2>2
<1>16. Kept(x, t, m)
  BY <1>4, <1>12, <1>15, KeptTransitive
<1>17. ASSUME NEW v \in ws
      PROVE  \E w \in worlds :
                Agrees(x, m, w, UninitSnapshot(x)) =>
                   Agrees(t, m + 1, v, UninitSnapshot(x)) /\ v.val = w.val
  <2>1. PICK w \in worlds : v = Declare(Enter(w), n, cell)
    BY <1>14
  <2>2. ASSUME Agrees(x, m, w, UninitSnapshot(x))
        PROVE  Agrees(t, m + 1, v, UninitSnapshot(x)) /\ v.val = w.val
    <3>1. Agrees(p, m + 1, Enter(w), UninitSnapshot(x)) /\ Enter(w).val = w.val
      BY <1>4, <1>11, <2>2, AgreesEnter DEF p
    <3>2. Agrees(p, Len(p), Enter(w), UninitSnapshot(x)) /\ Len(p) # 0
      BY <1>11, <1>12, <3>1
    <3>3. Fits(a, cell, <<Len(p), Len(p[Len(p)]) + 1>> \in UninitSnapshot(x))
      BY <1>8, <1>9, <1>10 DEF Fits
    <3>4. UninitSnapshot(x) \subseteq UninitSnapshot(x)
      OBVIOUS
    <3>5. /\ Agrees(Insert(p, a), Len(p), Declare(Enter(w), a.name, cell), UninitSnapshot(x))
          /\ Declare(Enter(w), a.name, cell).val = Enter(w).val
      BY <1>9, <1>10, <1>12, <3>2, <3>3, <3>4, AgreesDeclare
    <3> QED BY <1>9, <1>12, <1>13, <2>1, <3>1, <3>5
  <2> QED BY <2>2
<1>18. worlds = {} => ws = {}
  BY <1>1
<1>19. blocks' = Append(blocks, b)
  BY <1>1
<1> QED BY <1>2, <1>3, <1>4, <1>7, <1>15, <1>16, <1>17, <1>18, <1>19, OpenFlows DEF m

-----------------------------------------------------------------------------
(* Closing blocks.                                                          *)

\* A block inside another: its type is the value of every execution that ends
\* it, and leaving it keeps what is known of the outer places.
LEMMA Closing ==
    ASSUME Flowing, Checking, Top.form # "oper"
    PROVE  LET m == Len(blocks)
           IN  /\ Walk(scope, blocks, tail, worlds) /\ events \cap Faults = {}
               /\ scope \in Scopes /\ m \in Nat /\ m - 1 \in Nat \ {0} /\ m - 1 \in 1 .. m
               /\ Len(scope) = m /\ Top = blocks[m] /\ blocks[m] \in BlockRecs /\ SetAside(scope, m, blocks[m])
               /\ blocks \in Seq(BlockRecs) /\ Nest(blocks, scope) /\ Quiet(blocks, worlds)
               /\ BlockType \in Types \ {"Unknown"} /\ (BlockType = "Never" => worlds = {})
               /\ \A w \in worlds : w.val = BlockType
               /\ \A V : (\A p \in UninitSnapshot(scope) : p[1] \in 1 .. m - 1 => p \in V) =>
                     \A w \in Left : Agrees(scope, m - 1, w, V) /\ w.val = BlockType
<1> DEFINE m == Len(blocks)
<1>1. /\ Walk(scope, blocks, tail, worlds) /\ events \cap Faults = {} /\ Top = blocks[m]
      /\ blocks[m].form # "oper"
  BY DEF Flowing, Checking, Top
<1>2. /\ scope \in Scopes /\ blocks \in Seq(BlockRecs) /\ Len(scope) = m /\ m # 0 /\ blocks[1].form = "oper"
      /\ Nest(blocks, scope) /\ Quiet(blocks, worlds) /\ m \in Nat
      /\ \A k \in 1 .. m : SetAside(scope, k, blocks[k])
      /\ tail \in (Types \ {"Unknown"}) \cup {"none"}
      /\ \A w \in worlds : Agrees(scope, m, w, UninitSnapshot(scope)) /\ w.val = Yield(tail)
  BY <1>1 DEF Walk
<1>3. m - 1 \in Nat \ {0} /\ m - 1 \in 1 .. m /\ m \in 1 .. m
  BY <1>1, <1>2
<1>4. blocks[m] \in BlockRecs
  BY <1>2, <1>3
<1> HIDE DEF m
<1>5. /\ BlockType \in Types \ {"Unknown"} /\ (BlockType = "Never" => worlds = {})
      /\ \A w \in worlds : w.val = BlockType
  <2>1. CASE blocks[m].diverges
    <3>1. worlds = {}
      BY <1>2, <1>3, <2>1 DEF Quiet, m
    <3>2. BlockType = "Never" /\ "Never" \in Types \ {"Unknown"}
      BY <1>1, <2>1 DEF BlockType, Types
    <3> QED BY <3>1, <3>2
  <2>2. CASE ~blocks[m].diverges
    <3>1. BlockType = Yield(tail)
      BY <1>1, <2>2 DEF BlockType, Yield
    <3>2. Yield(tail) \in Types \ {"Unknown"}
      BY <1>2, SolidTypes DEF Yield, Types, Solid
    <3>3. \A w \in worlds : w.val \in Solid
      BY <1>2, WorldTypes DEF Agrees
    <3> QED BY <1>2, <3>1, <3>2, <3>3, SolidTypes
  <2> QED BY <2>1, <2>2
<1>6. ASSUME NEW V, \A p \in UninitSnapshot(scope) : p[1] \in 1 .. m - 1 => p \in V, NEW w \in Left
      PROVE  Agrees(scope, m - 1, w, V) /\ w.val = BlockType
  <2>1. PICK u \in worlds : w = Leave(u)
    BY DEF Left
  <2>2. Agrees(scope, (m - 1) + 1, u, UninitSnapshot(scope)) /\ (m - 1) + 1 <= Len(scope)
    BY <1>2, <1>3
  <2>3. Agrees(scope, m - 1, Leave(u), V) /\ Leave(u).val = u.val
    BY <1>2, <1>3, <1>6, <2>2, AgreesLeave
  <2> QED BY <1>5, <2>1, <2>3
<1> QED BY <1>1, <1>2, <1>3, <1>4, <1>5, <1>6 DEF m

\* The scope and the executions a block leaves behind are those of the block
\* around it, with the value where the block stands.
LEMMA DeliveredFlows ==
    ASSUME Flowing, Checking, Top.form # "oper",
           NEW popped \in Scopes, Len(popped) = Len(blocks) - 1, Kept(scope, popped, Len(blocks) - 1),
           \A k \in 1 .. Len(blocks) - 1 : Waiting(blocks, k, UninitSnapshot(popped)),
           NEW ty \in Types \ {"Unknown"}, NEW ws, Delivered(Outer, popped, ty, ws),
           \A w \in ws : /\ Agrees(popped, Len(blocks) - 1, w, UninitSnapshot(popped))
                         /\ Top.use \in Names \cup {"tail"} => w.val = ty,
           ty = "Never" => ws = {},
           \A k \in 1 .. Len(blocks) - 1 : blocks[k].diverges => ws = {},
           events' \cap Faults = {}
    PROVE  Flowing'
<1> DEFINE m == Len(blocks)
           q == m - 1
           use == Top.use
           b == Binding(use, ty, "let", Top.id)
           t == IF use \in Names THEN Insert(popped, b) ELSE popped
           tl == IF use = "tail" THEN ty ELSE "none"
           away == use = "stmt" /\ ty = "Never"
           d == [blocks[q] EXCEPT !.diverges = TRUE]
           cs == blocks'
<1>1. /\ Walk(scope, blocks, tail, worlds) /\ scope \in Scopes /\ m \in Nat /\ q \in Nat \ {0} /\ q \in 1 .. m
      /\ Len(scope) = m /\ Top = blocks[m] /\ blocks[m] \in BlockRecs /\ blocks[q] \in BlockRecs
      /\ blocks \in Seq(BlockRecs) /\ Nest(blocks, scope) /\ Quiet(blocks, worlds) /\ blocks[1].form = "oper"
      /\ SetAside(scope, q, blocks[q])
  BY Closing, BlockTypes DEF Walk
<1>2. /\ Outer \in Seq(BlockRecs) /\ Len(Outer) = q /\ \A k \in 1 .. q : Outer[k] = blocks[k]
  BY <1>1, FrontIsSeq DEF Outer
<1>3. /\ scope' = t /\ tail' = tl
      /\ cs = IF away THEN [Outer EXCEPT ![Len(Outer)] = [Outer[Len(Outer)] EXCEPT !.diverges = TRUE]] ELSE Outer
      /\ worlds' = {IF use \in Names THEN Declare([w EXCEPT !.val = "Unit"], use, Cell(Top.id, "let", w.val))
                    ELSE IF use = "tail" THEN w ELSE [w EXCEPT !.val = "Unit"] : w \in ws}
  BY DEF Delivered
<1> HIDE DEF Delivered, m, t, tl, away, d, cs, b, use
<1>4. /\ d \in BlockRecs
      /\ d.form = blocks[q].form /\ d.use = blocks[q].use /\ d.snap = blocks[q].snap
      /\ d.before = blocks[q].before /\ d.after = blocks[q].after
      /\ d.thenTy = blocks[q].thenTy /\ d.thenInit = blocks[q].thenInit /\ d.cond = blocks[q].cond
  BY <1>1 DEF BlockRecs, d
<1>5. /\ cs \in Seq(BlockRecs) /\ Len(cs) = q
      /\ \A k \in 1 .. q : cs[k] = IF away /\ k = q THEN d ELSE blocks[k]
  <2>1. CASE away
    <3>0. Len(Outer) = q /\ Outer[q] = blocks[q]
      BY <1>1, <1>2
    <3>1. cs = [Outer EXCEPT ![q] = d]
      BY <1>3, <2>1, <3>0 DEF d
    <3>2. q \in 1 .. Len(Outer)
      BY <1>1, <1>2
    <3> QED BY <1>2, <1>4, <2>1, <3>1, <3>2, ExceptIsSeq
  <2>2. CASE ~away
    BY <1>2, <1>3, <2>2
  <2> QED BY <2>1, <2>2
<1>6. /\ \A k \in 1 .. q - 1 : cs[k] = blocks[k]
      /\ \A k \in 1 .. q : cs[k].form = blocks[k].form /\ cs[k].snap = blocks[k].snap
      /\ \A k \in 1 .. q : cs[k].before = blocks[k].before /\ cs[k].after = blocks[k].after
      /\ cs[1].form = "oper"
  <2>1. \A k \in 1 .. q : /\ cs[k].form = blocks[k].form /\ cs[k].snap = blocks[k].snap
                          /\ cs[k].before = blocks[k].before /\ cs[k].after = blocks[k].after
    BY <1>4, <1>5
  <2>2. \A k \in 1 .. q - 1 : cs[k] = blocks[k]
    BY <1>1, <1>5
  <2> QED BY <1>1, <2>1, <2>2
<1>7. Top.id \in Nat /\ ty \in Types /\ ty # "Unknown"
  BY <1>1 DEF BlockRecs
<1>8. use \in Names => b \in Bindings /\ b.name = use /\ b.initialized /\ b.id = Top.id /\ b.origin = "let" /\ b.ty = ty
  <2>1. use \in Names => b \in Bindings
    BY <1>7, NewBinding DEF b
  <2> QED BY <2>1 DEF b, Binding
<1>9. /\ t \in Scopes /\ Len(t) = q /\ Kept(popped, t, q - 1) /\ UninitSnapshot(t) = UninitSnapshot(popped)
  <2>1. CASE use \in Names
    <3>1. Len(popped) # 0 /\ Len(popped) = q /\ t = Insert(popped, b)
      BY <1>1, <2>1 DEF m, t
    <3>2. /\ t \in Scopes /\ Len(t) = Len(popped) /\ Kept(popped, t, Len(popped) - 1)
          /\ UninitSnapshot(t) = UninitSnapshot(popped)
                 \cup (IF b.initialized THEN {} ELSE {<<Len(popped), Len(popped[Len(popped)]) + 1>>})
      BY <1>8, <2>1, <3>1, InsertPlaces
    <3> QED BY <1>8, <2>1, <3>1, <3>2
  <2>2. CASE use \notin Names
    <3>1. t = popped /\ q - 1 \in 0 .. Len(popped) /\ Len(popped) = q
      BY <1>1, <2>2 DEF t, m
    <3> QED BY <3>1, KeptReflexive
  <2> QED BY <2>1, <2>2
<1>10. Kept(scope, t, q - 1)
  <2>1. Kept(scope, popped, q) /\ q - 1 \in 0 .. q
    BY <1>1 DEF m
  <2>2. Kept(scope, popped, q - 1)
    BY <1>1, <2>1, KeptLess
  <2> QED BY <1>1, <1>9, <2>2, KeptTransitive
<1>11. SetAside(t, q, cs[q])
  <2>1. SetAside(t, q, blocks[q])
    BY <1>1, <1>9, <1>10, SetAsideKept
  <2>2. cs[q] = d \/ cs[q] = blocks[q]
    BY <1>1, <1>5
  <2> QED BY <1>4, <2>1, <2>2 DEF SetAside
<1>12. \A k \in 1 .. q : Waiting(cs, k, UninitSnapshot(t))
  <2>1. \A k \in 1 .. q : Waiting(blocks, k, UninitSnapshot(popped))
    BY DEF m
  <2> QED BY <1>6, <1>9, <2>1 DEF Waiting
<1>13. \A k \in 1 .. q - 1 : Waiting(cs, k, cs[q].snap)
  <2> SUFFICES ASSUME NEW k \in 1 .. q - 1 PROVE Waiting(cs, k, cs[q].snap)
    OBVIOUS
  <2>1. k \in 1 .. Len(blocks) /\ q \in k + 1 .. Len(blocks) /\ k \in 1 .. q /\ q \in 1 .. q
    BY <1>1 DEF m
  <2>2. Waiting(blocks, k, blocks[q].snap)
    BY <1>1, <2>1 DEF Nest
  <2> QED BY <1>6, <2>1, <2>2 DEF Waiting
<1>14. ws = {} => worlds' = {}
  BY <1>3
<1>15. Quiet(cs, worlds')
  <2> SUFFICES ASSUME NEW k \in 1 .. q, cs[k].diverges
               PROVE  worlds' = {} /\ \A j \in k + 1 .. q : cs[j].before = {} /\ cs[j].after = {}
    BY <1>5 DEF Quiet
  <2>1. CASE blocks[k].diverges
    <3>1. ws = {}
      BY <2>1 DEF m
    <3>2. k \in 1 .. Len(blocks) /\ \A j \in k + 1 .. q : j \in k + 1 .. Len(blocks) /\ j \in 1 .. q
      BY <1>1 DEF m
    <3>3. \A j \in k + 1 .. q : blocks[j].before = {} /\ blocks[j].after = {}
      BY <1>1, <2>1, <3>2 DEF Quiet
    <3> QED BY <1>6, <1>14, <3>1, <3>2, <3>3
  <2>2. CASE ~blocks[k].diverges
    <3>1. away /\ k = q
      BY <1>5, <2>2
    <3>2. ws = {}
      BY <3>1 DEF away
    <3>3. k + 1 .. q = {}
      BY <1>1, <3>1
    <3> QED BY <1>14, <3>2, <3>3
  <2> QED BY <2>1, <2>2
<1>16. ASSUME NEW v \in worlds'
       PROVE  Agrees(t, q, v, UninitSnapshot(t)) /\ v.val = Yield(tl)
  <2>1. PICK w \in ws :
           v = IF use \in Names THEN Declare([w EXCEPT !.val = "Unit"], use, Cell(Top.id, "let", w.val))
               ELSE IF use = "tail" THEN w ELSE [w EXCEPT !.val = "Unit"]
    BY <1>3
  <2>2. Agrees(popped, q, w, UninitSnapshot(popped)) /\ (use \in Names \cup {"tail"} => w.val = ty)
    BY DEF m, use
  <2>3. w.val \in Solid
    BY <2>2, WorldTypes DEF Agrees
  <2> DEFINE u == [w EXCEPT !.val = "Unit"]
  <2>4. Agrees(popped, q, u, UninitSnapshot(popped)) /\ u.val = "Unit"
    <3>1. "Unit" \in Solid
      BY DEF Solid
    <3> QED BY <2>2, <3>1, AgreesValue
  <2> HIDE DEF u
  <2>5. CASE use \in Names
    <3> DEFINE cell == Cell(Top.id, "let", ty)
    <3>1. v = Declare(u, b.name, cell) /\ ty \in Solid
      BY <1>8, <2>1, <2>2, <2>3, <2>5 DEF u
    <3>2. cell \in Cells /\ cell.id = Top.id /\ cell.decl = "let" /\ cell.holds = ty
      <4>1. cell = [id |-> Top.id, decl |-> "let", holds |-> ty] /\ "let" \in Origins
        BY DEF Cell, Origins
      <4> QED BY <1>7, <3>1, <4>1 DEF Cells
    <3> HIDE DEF cell
    <3>3. Fits(b, cell, <<Len(popped), Len(popped[Len(popped)]) + 1>> \in UninitSnapshot(popped))
      BY <1>8, <2>5, <3>1, <3>2, SolidTypes DEF Fits
    <3>4. Len(popped) = q /\ Len(popped) # 0 /\ Agrees(popped, Len(popped), u, UninitSnapshot(popped))
      BY <1>1, <2>4 DEF m
    <3>5. UninitSnapshot(popped) \subseteq UninitSnapshot(popped)
      OBVIOUS
    <3>6. /\ Agrees(Insert(popped, b), Len(popped), Declare(u, b.name, cell), UninitSnapshot(popped))
          /\ Declare(u, b.name, cell).val = u.val
      BY <1>8, <2>5, <3>2, <3>3, <3>4, <3>5, AgreesDeclare
    <3>7. t = Insert(popped, b) /\ tl = "none"
      BY <2>5, UsesAreNoNames DEF t, tl
    <3> QED BY <1>9, <2>4, <3>1, <3>4, <3>6, <3>7 DEF Yield
  <2>6. CASE use = "tail"
    <3>1. v = w /\ t = popped /\ tl = ty
      BY <2>1, <2>6, UsesAreNoNames DEF t, tl
    <3>2. Yield(ty) = ty /\ w.val = ty
      BY <2>2, <2>6, SolidTypes DEF Yield
    <3> QED BY <2>2, <3>1, <3>2
  <2>7. CASE use \notin Names \cup {"tail"}
    <3>1. v = u /\ t = popped /\ tl = "none"
      BY <2>1, <2>7 DEF t, tl, u
    <3> QED BY <2>4, <3>1 DEF Yield
  <2> QED BY <2>5, <2>6, <2>7
<1>17. tl \in (Types \ {"Unknown"}) \cup {"none"}
  BY DEF tl
<1>18. q \in 1 .. Len(blocks) + 1
  BY <1>1 DEF m
<1> HIDE DEF q
<1>19. Walk(t, cs, tl, worlds')
  <2>1. /\ Walk(scope, blocks, tail, worlds) /\ cs \in Seq(BlockRecs) /\ Len(cs) = q
        /\ \A k \in 1 .. q - 1 : cs[k] = blocks[k]
        /\ cs[1].form = "oper" /\ t \in Scopes /\ Len(t) = q
    BY <1>1, <1>5, <1>6, <1>9
  <2>2. \A v \in worlds' : Agrees(t, q, v, UninitSnapshot(t)) /\ v.val = Yield(tl)
    BY <1>16
  <2> QED BY <1>10, <1>11, <1>12, <1>13, <1>15, <1>17, <1>18, <2>1, <2>2, WalkTo
<1> QED BY <1>3, <1>19, Flows DEF cs

LEMMA EndTransactionFlows ==
    ASSUME Flowing, errors' = {}, EndTransaction
    PROVE  Flowing'
<1> DEFINE m == Len(blocks)
           popped == Pop(scope)
           ws == {[w EXCEPT !.depth = @ - 1] : w \in Left}
<1>1. /\ Checking /\ Top.form # "oper" /\ Delivered(Outer, popped, BlockType, ws) /\ events' = events
  BY DEF EndTransaction
<1>2. /\ scope \in Scopes /\ m \in Nat /\ m - 1 \in Nat \ {0} /\ Len(scope) = m /\ events \cap Faults = {}
      /\ Nest(blocks, scope) /\ Quiet(blocks, worlds)
      /\ BlockType \in Types \ {"Unknown"} /\ (BlockType = "Never" => worlds = {})
      /\ \A V : (\A p \in UninitSnapshot(scope) : p[1] \in 1 .. m - 1 => p \in V) =>
            \A w \in Left : Agrees(scope, m - 1, w, V) /\ w.val = BlockType
  BY <1>1, Closing
<1>3. /\ popped \in Scopes /\ Len(popped) = m - 1 /\ Kept(scope, popped, m - 1)
      /\ UninitSnapshot(popped) = {p \in UninitSnapshot(scope) : p[1] < m}
  <2>1. Len(scope) # 0
    BY <1>2
  <2> QED BY <1>2, <2>1, PopPlaces
<1>4. ws # {} => worlds # {}
  BY DEF Left
<1> HIDE DEF m, popped, ws, Left
<1>5. \A k \in 1 .. m - 1 : Waiting(blocks, k, UninitSnapshot(popped))
  <2>1. \A k \in 1 .. m - 1 : k \in 1 .. Len(blocks)
    BY <1>2 DEF m
  <2>2. \A k \in 1 .. m - 1 : Waiting(blocks, k, UninitSnapshot(scope))
    BY <1>2, <2>1 DEF Nest
  <2> QED BY <1>3, <2>2 DEF Waiting
<1>6. \A w \in Left : Agrees(popped, m - 1, w, UninitSnapshot(popped)) /\ w.val = BlockType
  <2> DEFINE V == UninitSnapshot(popped)
  <2>1. \A p \in UninitSnapshot(scope) : p[1] \in 1 .. m - 1 => p \in V
    BY <1>2, <1>3
  <2> HIDE DEF V
  <2>2. \A w \in Left : Agrees(scope, m - 1, w, V) /\ w.val = BlockType
    BY <1>2, <2>1
  <2>3. \A w \in Left : Agrees(popped, m - 1, w, V)
    BY <1>2, <1>3, <2>2, AgreesKept
  <2> QED BY <2>2, <2>3 DEF V
<1>7. ASSUME NEW v \in ws
      PROVE  Agrees(popped, m - 1, v, UninitSnapshot(popped)) /\ v.val = BlockType
  <2>1. PICK w \in Left : v = [w EXCEPT !.depth = w.depth - 1]
    BY DEF ws
  <2>2. Agrees(popped, m - 1, w, UninitSnapshot(popped)) /\ w.val = BlockType
    BY <1>6
  <2>3. w.depth - 1 \in Int
    BY <2>2, WorldTypes DEF Agrees
  <2> QED BY <2>1, <2>2, <2>3, AgreesDepth
<1>8. \A k \in 1 .. m - 1 : blocks[k].diverges => ws = {}
  <2>1. \A k \in 1 .. m - 1 : k \in 1 .. Len(blocks)
    BY <1>2 DEF m
  <2> QED BY <1>2, <1>4, <2>1 DEF Quiet
<1>9. BlockType = "Never" => ws = {}
  BY <1>2, <1>4
<1> QED BY <1>1, <1>2, <1>3, <1>5, <1>7, <1>8, <1>9, DeliveredFlows DEF m

\* What waits for a value outside did so when the block was opened, or still does.
LEMMA OuterWaits ==
    ASSUME Flowing, Checking, Top.form # "oper", NEW U,
           \A p \in U : p \in UninitSnapshot(scope) \/ p \in Top.snap
    PROVE  \A k \in 1 .. Len(blocks) - 1 : Waiting(blocks, k, U)
<1> DEFINE m == Len(blocks)
<1>1. Nest(blocks, scope) /\ Top = blocks[m] /\ m \in Nat
  BY Closing
<1>2. ASSUME NEW k \in 1 .. m - 1, blocks[k].form \in Branches, NEW p \in U, p[1] < k
      PROVE  p \in blocks[k].snap
  <2>1. k \in 1 .. m /\ m \in k + 1 .. m
    BY <1>1
  <2>2. Waiting(blocks, k, UninitSnapshot(scope)) /\ Waiting(blocks, k, blocks[m].snap)
    BY <1>1, <2>1 DEF Nest
  <2> QED BY <1>1, <1>2, <2>2 DEF Waiting
<1> QED BY <1>2 DEF Waiting

LEMMA LeftAgrees ==
    ASSUME Flowing, Checking, Top.form # "oper", NEW t \in Scopes, Kept(scope, t, Len(blocks) - 1),
           NEW V, \A p \in UninitSnapshot(scope) : p[1] \in 1 .. Len(blocks) - 1 => p \in V
    PROVE  \A w \in Left : Agrees(t, Len(blocks) - 1, w, V) /\ w.val = BlockType
<1>1. scope \in Scopes /\ \A w \in Left : Agrees(scope, Len(blocks) - 1, w, V) /\ w.val = BlockType
  BY Closing
<1> QED BY <1>1, AgreesKept

LEMMA OuterQuiet ==
    ASSUME Flowing, Checking, Top.form # "oper"
    PROVE  /\ \A k \in 1 .. Len(blocks) - 1 :
                 blocks[k].diverges => Left = {} /\ Top.before = {} /\ Top.after = {}
           /\ worlds = {} => Left = {}
<1> DEFINE m == Len(blocks)
<1>1. Quiet(blocks, worlds) /\ Top = blocks[m] /\ m \in Nat
  BY Closing
<1>2. worlds = {} => Left = {}
  BY DEF Left
<1>3. \A k \in 1 .. m - 1 : k \in 1 .. Len(blocks) /\ m \in k + 1 .. Len(blocks)
  BY <1>1
<1>4. \A k \in 1 .. m - 1 : blocks[k].diverges => worlds = {} /\ blocks[m].before = {} /\ blocks[m].after = {}
  BY <1>1, <1>3 DEF Quiet
<1> QED BY <1>1, <1>2, <1>4

\* Some vars wait for a value again; some have one again.
LEMMA Uninitialized ==
    ASSUME NEW s \in Scopes, NEW places \in SUBSET (Nat \X Nat),
           \A p \in places : p[1] \in 1 .. Len(s) /\ p[2] \in 1 .. Len(s[p[1]]),
           \A p \in places : s[p[1]][p[2]].origin = "var"
    PROVE  LET t == WithInitialized(s, places, FALSE)
           IN  /\ t \in Scopes /\ Len(t) = Len(s) /\ Kept(s, t, Len(s))
               /\ UninitSnapshot(t) = UninitSnapshot(s) \cup places
               /\ \A k \in 1 .. Len(s) : \A j \in 1 .. Len(s[k]) : t[k][j].ty = s[k][j].ty
<1> DEFINE t == WithInitialized(s, places, FALSE)
<1>1. CanBecome(s, places, FALSE)
  BY DEF CanBecome
<1>2. Became(s, places, FALSE, t)
  BY <1>1, InitializedPlaces, Zenon
<1> HIDE DEF t
<1>3. /\ t \in Scopes /\ Len(t) = Len(s) /\ Kept(s, t, Len(s))
      /\ UninitSnapshot(t) = UninitSnapshot(s) \cup places
      /\ \A k \in 1 .. Len(s) : \A j \in 1 .. Len(s[k]) :
            t[k][j] = IF <<k, j>> \in places THEN [s[k][j] EXCEPT !.initialized = FALSE] ELSE s[k][j]
  BY <1>2 DEF Became
<1>4. \A k \in 1 .. Len(s) : \A j \in 1 .. Len(s[k]) : t[k][j].ty = s[k][j].ty
  <2>1. \A k \in 1 .. Len(s) : \A j \in 1 .. Len(s[k]) : s[k][j] \in Bindings
    BY ScopeTypes
  <2>2. \A b \in Bindings : [b EXCEPT !.initialized = FALSE].ty = b.ty
    BY DEF Bindings, Marks
  <2> QED BY <1>3, <2>1, <2>2
<1> QED BY <1>3, <1>4 DEF t

LEMMA Reinitialized ==
    ASSUME NEW s \in Scopes, NEW places \in SUBSET (Nat \X Nat),
           \A p \in places : p[1] \in 1 .. Len(s) /\ p[2] \in 1 .. Len(s[p[1]]),
           \A p \in places : s[p[1]][p[2]].ty # "Unknown"
    PROVE  LET t == WithInitialized(s, places, TRUE)
           IN  /\ t \in Scopes /\ Len(t) = Len(s) /\ Kept(s, t, Len(s))
               /\ UninitSnapshot(t) = UninitSnapshot(s) \ places
<1> DEFINE t == WithInitialized(s, places, TRUE)
<1>1. CanBecome(s, places, TRUE)
  BY DEF CanBecome
<1>2. Became(s, places, TRUE, t)
  BY <1>1, InitializedPlaces, Zenon
<1> HIDE DEF t
<1>3. /\ t \in Scopes /\ Len(t) = Len(s) /\ Kept(s, t, Len(s))
      /\ UninitSnapshot(t) = UninitSnapshot(s) \ places
  BY <1>2 DEF Became
<1> QED BY <1>3 DEF t

\* The outer scope as it was when the block was opened, as far as values go.
LEMMA Restored ==
    ASSUME Flowing, Checking, Top.form # "oper",
           NEW t, t = RestoreUninit(Pop(scope), Top.snap) \/ t = Pop(RestoreUninit(scope, Top.snap))
    PROVE  /\ t \in Scopes /\ Len(t) = Len(blocks) - 1 /\ Kept(scope, t, Len(blocks) - 1)
           /\ UninitSnapshot(t) = {p \in UninitSnapshot(scope) : p[1] < Len(blocks)} \cup Top.snap
           /\ \A l \in 1 .. Len(blocks) - 1 : \A i \in 1 .. Len(scope[l]) :
                 scope[l][i].ty = t[l][i].ty
           /\ \A w \in Top.before : Agrees(t, Len(blocks) - 1, w, UninitSnapshot(t)) /\ w.val = "Unit"
           /\ \A w \in Left : Agrees(t, Len(blocks) - 1, w, UninitSnapshot(t)) /\ w.val = BlockType
           /\ \A p \in Top.snap : p[1] \in 1 .. Len(blocks) - 1 /\ p[2] \in 1 .. Len(scope[p[1]])
<1> DEFINE m == Len(blocks)
           snap == Top.snap
<1>1. /\ scope \in Scopes /\ m \in Nat /\ m - 1 \in Nat \ {0} /\ Len(scope) = m
      /\ Top = blocks[m] /\ blocks[m] \in BlockRecs /\ SetAside(scope, m, blocks[m])
  BY Closing
<1>2. /\ snap \in SUBSET (Nat \X Nat)
      /\ \A p \in snap : /\ p[1] \in 1 .. m - 1 /\ p[2] \in 1 .. Len(scope[p[1]])
                         /\ scope[p[1]][p[2]].origin = "var"
  BY <1>1 DEF BlockRecs, Places, SetAside
<1> HIDE DEF snap
<1>3. /\ t \in Scopes /\ Len(t) = m - 1 /\ Kept(scope, t, m - 1)
      /\ UninitSnapshot(t) = {p \in UninitSnapshot(scope) : p[1] < m} \cup snap
      /\ \A l \in 1 .. m - 1 : \A i \in 1 .. Len(scope[l]) : scope[l][i].ty = t[l][i].ty
  <2>1. CASE t = RestoreUninit(Pop(scope), Top.snap)
    <3> DEFINE u == Pop(scope)
    <3>1. /\ u \in Scopes /\ Len(u) = Len(scope) - 1 /\ Kept(scope, u, Len(scope) - 1)
          /\ \A l \in 1 .. Len(scope) - 1 : u[l] = scope[l]
          /\ UninitSnapshot(u) = {p \in UninitSnapshot(scope) : p[1] < Len(scope)}
      <4>1. Len(scope) # 0
        BY <1>1
      <4> QED BY <1>1, <4>1, PopPlaces
    <3>2. t = WithInitialized(u, snap, FALSE)
      BY <2>1 DEF RestoreUninit, snap
    <3> HIDE DEF u
    <3>3. \A p \in snap : p[1] \in 1 .. Len(u) /\ p[2] \in 1 .. Len(u[p[1]]) /\ u[p[1]][p[2]].origin = "var"
      BY <1>1, <1>2, <3>1
    <3>4. /\ t \in Scopes /\ Len(t) = Len(u) /\ Kept(u, t, Len(u))
          /\ UninitSnapshot(t) = UninitSnapshot(u) \cup snap
      BY <1>2, <3>1, <3>2, <3>3, Uninitialized
    <3>5. \A k \in 1 .. Len(u) : \A j \in 1 .. Len(u[k]) : t[k][j].ty = u[k][j].ty
      BY <1>2, <3>1, <3>2, <3>3, Uninitialized
    <3>6. Len(u) = m - 1 /\ Kept(scope, u, m - 1) /\ Kept(u, t, m - 1)
      BY <1>1, <3>1, <3>4
    <3>7. Kept(scope, t, m - 1)
      BY <1>1, <3>1, <3>4, <3>6, KeptTransitive
    <3>8. \A l \in 1 .. m - 1 : u[l] = scope[l] /\ l \in 1 .. Len(u)
      BY <1>1, <3>1
    <3>9. UninitSnapshot(t) = {p \in UninitSnapshot(scope) : p[1] < m} \cup snap
      BY <1>1, <3>1, <3>4
    <3> QED BY <3>4, <3>5, <3>6, <3>7, <3>8, <3>9
  <2>2. CASE t = Pop(RestoreUninit(scope, Top.snap))
    <3> DEFINE u == WithInitialized(scope, snap, FALSE)
    <3>1. t = Pop(u)
      BY <2>2 DEF RestoreUninit, snap
    <3>2. \A p \in snap : p[1] \in 1 .. Len(scope) /\ p[2] \in 1 .. Len(scope[p[1]])
                          /\ scope[p[1]][p[2]].origin = "var"
      BY <1>1, <1>2
    <3>3. /\ u \in Scopes /\ Len(u) = Len(scope) /\ Kept(scope, u, Len(scope))
          /\ UninitSnapshot(u) = UninitSnapshot(scope) \cup snap
          /\ \A k \in 1 .. Len(scope) : \A j \in 1 .. Len(scope[k]) : u[k][j].ty = scope[k][j].ty
      BY <1>1, <1>2, <3>2, Uninitialized
    <3> HIDE DEF u
    <3>4. /\ t \in Scopes /\ Len(t) = Len(u) - 1 /\ Kept(u, t, Len(u) - 1)
          /\ \A l \in 1 .. Len(u) - 1 : t[l] = u[l]
          /\ UninitSnapshot(t) = {p \in UninitSnapshot(u) : p[1] < Len(u)}
      <4>1. Len(u) # 0
        BY <1>1, <3>3
      <4> QED BY <3>1, <3>3, <4>1, PopPlaces
    <3>6. Kept(u, t, m - 1) /\ Len(t) = m - 1
      BY <1>1, <3>3, <3>4
    <3>7. Kept(scope, u, m - 1)
      <4>1. m - 1 \in 0 .. Len(scope)
        BY <1>1
      <4> QED BY <1>1, <3>3, <4>1, KeptLess
    <3>8. Kept(scope, t, m - 1)
      BY <1>1, <3>3, <3>4, <3>6, <3>7, KeptTransitive
    <3>9. \A p \in snap : p[1] < m
      BY <1>1, <1>2
    <3>10. UninitSnapshot(t) = {p \in UninitSnapshot(scope) : p[1] < m} \cup snap
      BY <1>1, <3>3, <3>4, <3>9
    <3>11. \A l \in 1 .. m - 1 : t[l] = u[l] /\ l \in 1 .. Len(scope)
      BY <1>1, <3>3, <3>4
    <3>12. \A l \in 1 .. m - 1 : \A i \in 1 .. Len(scope[l]) : scope[l][i].ty = t[l][i].ty
      BY <3>3, <3>11
    <3> QED BY <3>4, <3>6, <3>8, <3>10, <3>12
  <2> QED BY <2>1, <2>2
<1>4. \A w \in Top.before : Agrees(t, m - 1, w, UninitSnapshot(t)) /\ w.val = "Unit"
  <2>1. \A w \in Top.before : Agrees(scope, m - 1, w, snap) /\ w.val = "Unit"
    BY <1>1 DEF SetAside, snap
  <2>2. \A p \in snap : p \in UninitSnapshot(t)
    BY <1>3
  <2> QED BY <1>1, <1>3, <2>1, <2>2, AgreesKept
<1>5. \A w \in Left : Agrees(t, m - 1, w, UninitSnapshot(t)) /\ w.val = BlockType
  <2>1. \A p \in UninitSnapshot(scope) : p[1] \in 1 .. m - 1 => p \in UninitSnapshot(t)
    BY <1>1, <1>3
  <2> QED BY <1>3, <2>1, LeftAgrees
<1> QED BY <1>2, <1>3, <1>4, <1>5 DEF snap

LEMMA EndLoopFlows ==
    ASSUME Flowing, errors' = {}, EndLoop
    PROVE  Flowing'
<1> DEFINE m == Len(blocks)
           t == Pop(RestoreUninit(scope, Top.snap))
           ws == Top.before \cup Left
           happens == UNION {EvalFaults(w, Top.cond) : w \in Left}
<1>1. /\ Checking /\ Top.form \in {"while", "for"} /\ Top.form # "oper" /\ Delivered(Outer, t, "Unit", ws)
      /\ events' = events \cup happens
  BY DEF EndLoop
<1>2. /\ scope \in Scopes /\ m \in Nat /\ m - 1 \in Nat \ {0} /\ Len(scope) = m /\ events \cap Faults = {}
      /\ Nest(blocks, scope) /\ Top = blocks[m] /\ SetAside(scope, m, blocks[m]) /\ blocks[m] \in BlockRecs
  BY <1>1, Closing
<1>3. /\ t \in Scopes /\ Len(t) = m - 1 /\ Kept(scope, t, m - 1)
      /\ UninitSnapshot(t) = {p \in UninitSnapshot(scope) : p[1] < m} \cup Top.snap
      /\ \A w \in Top.before : Agrees(t, m - 1, w, UninitSnapshot(t)) /\ w.val = "Unit"
      /\ \A w \in Left : Agrees(t, m - 1, w, UninitSnapshot(t)) /\ w.val = BlockType
  BY <1>1, Restored
<1> HIDE DEF t
<1>4. \A k \in 1 .. m - 1 : Waiting(blocks, k, UninitSnapshot(t))
  BY <1>1, <1>3, OuterWaits
<1>5. /\ Top.use \notin Names \cup {"tail"}
  BY <1>1, <1>2, UsesAreNoNames DEF SetAside
<1>6. \A w \in ws : /\ Agrees(t, m - 1, w, UninitSnapshot(t))
                    /\ Top.use \in Names \cup {"tail"} => w.val = "Unit"
  BY <1>3, <1>5
<1>7. \A k \in 1 .. m - 1 : blocks[k].diverges => ws = {}
  BY <1>1, OuterQuiet
<1>8. happens \cap Faults = {}
  <2> SUFFICES ASSUME NEW w \in Left PROVE EvalFaults(w, Top.cond) \cap Faults = {}
    OBVIOUS
  <2> DEFINE U == {p \in UninitSnapshot(scope) : p[1] < m}
  <2>1. Agrees(scope, m - 1, w, U)
    <3>1. \A p \in UninitSnapshot(scope) : p[1] \in 1 .. m - 1 => p \in U
      BY <1>2
    <3>2. Kept(scope, scope, m - 1)
      BY <1>2, KeptReflexive
    <3> QED BY <1>1, <1>2, <3>1, <3>2, LeftAgrees
  <2>2. U \subseteq Top.snap
    <3>1. Waiting(blocks, m, UninitSnapshot(scope)) /\ blocks[m].form \in Branches
      BY <1>1, <1>2 DEF Nest, Branches
    <3> QED BY <1>2, <3>1 DEF Waiting
  <2> HIDE DEF U
  <2>3. Top.cond \in Conditions
    BY <1>2 DEF BlockRecs
  <2>4. CASE Top.cond = Lit("Boolean")
    BY <2>4 DEF EvalFaults, Lit, OperandFaults
  <2>5. CASE Top.cond # Lit("Boolean")
    <3>1. PICK n \in Names : Top.cond = Name(n)
      BY <2>3, <2>5 DEF Conditions
    <3>2. Top.form = "while" /\ NamesIn(Top.cond) = {n} /\ EvalFaults(w, Top.cond) = ReadFaults(w, n)
      BY <1>1, <1>2, <2>5, <3>1 DEF SetAside, Name, NamesIn, EvalFaults, OperandFaults
    <3>3. PICK l, i : Visible(scope, m - 1, n, l, i) /\ <<l, i>> \notin Top.snap
      BY <1>2, <3>2 DEF SetAside
    <3>4. m - 1 \in 0 .. Len(scope) /\ n \in Names \cup Relvars /\ <<l, i>> \notin U
      BY <1>2, <2>2, <3>3
    <3> QED BY <1>2, <2>1, <3>2, <3>3, <3>4, NameMeans
  <2> QED BY <2>4, <2>5
<1>9. events' \cap Faults = {} /\ "Unit" \in Types \ {"Unknown"}
  BY <1>1, <1>2, <1>8 DEF Types, Solid
<1> HIDE DEF ws
<1> QED BY <1>1, <1>3, <1>4, <1>6, <1>7, <1>9, DeliveredFlows

LEMMA EndDoFlows ==
    ASSUME Flowing, errors' = {}, EndDo
    PROVE  Flowing'
<1> DEFINE m == Len(blocks)
           p == Pop(scope)
<1>0. PICK e \in Conditions :
         /\ Checking /\ Top.form = "do" /\ CheckExpr(p, e).errors = {}
         /\ Delivered(Outer, CheckExpr(p, e).scope, "Unit", Left)
         /\ events' = events \cup UNION {EvalFaults(w, e) : w \in Left}
  BY DEF EndDo
<1>1. PICK c, happens :
         /\ Checking /\ Top.form = "do" /\ c = CheckExpr(p, e) /\ c.errors = {}
         /\ Delivered(Outer, c.scope, "Unit", Left)
         /\ happens = UNION {EvalFaults(w, e) : w \in Left} /\ events' = events \cup happens
  BY <1>0
<1>2. /\ scope \in Scopes /\ m \in Nat /\ m - 1 \in Nat \ {0} /\ Len(scope) = m /\ events \cap Faults = {}
      /\ Top = blocks[m] /\ SetAside(scope, m, blocks[m])
  BY <1>1, Closing
<1>3. /\ p \in Scopes /\ Len(p) = m - 1 /\ Kept(scope, p, m - 1)
      /\ UninitSnapshot(p) = {x \in UninitSnapshot(scope) : x[1] < m}
  <2>1. Len(scope) # 0
    BY <1>2
  <2> QED BY <1>2, <2>1, PopPlaces
<1> HIDE DEF p, m
<1>4. e \in Expressions
  BY ExpressionSets
<1>5. Evaluates(p, e, c)
  BY <1>1, <1>3, <1>4, ExprOK
<1>6. \A w \in Left : Agrees(p, m - 1, w, UninitSnapshot(p)) /\ w.val = BlockType
  <2>1. \A x \in UninitSnapshot(scope) : x[1] \in 1 .. m - 1 => x \in UninitSnapshot(p)
    BY <1>2, <1>3
  <2> QED BY <1>1, <1>3, <2>1, LeftAgrees DEF m
<1>7. /\ c.scope \in Scopes /\ OnlyMarks(p, c.scope)
      /\ \A w \in Left : EvalFaults(w, e) \cap Faults = {}
  BY <1>3, <1>5, <1>6 DEF Evaluates
<1>8. /\ Len(c.scope) = m - 1 /\ Kept(p, c.scope, m - 1) /\ UninitSnapshot(c.scope) = UninitSnapshot(p)
  BY <1>3, <1>7, MarksKeep DEF OnlyMarks
<1>9. Kept(scope, c.scope, m - 1)
  BY <1>2, <1>3, <1>7, <1>8, KeptTransitive
<1>10. \A k \in 1 .. m - 1 : Waiting(blocks, k, UninitSnapshot(c.scope))
  <2>1. \A x \in UninitSnapshot(c.scope) : x \in UninitSnapshot(scope) \/ x \in Top.snap
    BY <1>3, <1>8
  <2> QED BY <1>1, <2>1, OuterWaits DEF m
<1>11. \A w \in Left : /\ Agrees(c.scope, m - 1, w, UninitSnapshot(c.scope))
                       /\ Top.use \in Names \cup {"tail"} => w.val = "Unit"
  <2>1. \A w \in Left : Agrees(c.scope, m - 1, w, UninitSnapshot(p))
    BY <1>3, <1>6, <1>7, <1>8, AgreesKept
  <2>2. Top.use \notin Names \cup {"tail"}
    BY <1>1, <1>2, UsesAreNoNames DEF SetAside
  <2> QED BY <1>8, <2>1, <2>2
<1>12. \A k \in 1 .. m - 1 : blocks[k].diverges => Left = {}
  BY <1>1, OuterQuiet DEF m
<1>13. events' \cap Faults = {} /\ "Unit" \in Types \ {"Unknown"}
  <2>1. happens \cap Faults = {}
    BY <1>1, <1>7
  <2> QED BY <1>1, <1>2, <2>1 DEF Types, Solid
<1>14. "Unit" = "Never" => Left = {}
  OBVIOUS
<1>15. Top.form # "oper"
  BY <1>1
<1> QED BY <1>1, <1>7, <1>8, <1>9, <1>10, <1>11, <1>12, <1>13, <1>14, <1>15, DeliveredFlows DEF m

\* An if without an else: the arm may not have run.
LEMMA EndAloneFlows ==
    ASSUME Flowing, errors' = {}, EndIf, Top.form = "then"
    PROVE  Flowing'
<1> DEFINE m == Len(blocks)
           t == RestoreUninit(Pop(scope), Top.snap)
           ws == {[w EXCEPT !.val = "Unit"] : w \in Top.before \cup Left}
<1>1. /\ Checking /\ Top.form # "oper" /\ Delivered(Outer, t, "Unit", ws) /\ events' = events
  BY DEF EndIf
<1>2. m \in Nat /\ events \cap Faults = {}
  BY <1>1, Closing
<1>3. /\ t \in Scopes /\ Len(t) = m - 1 /\ Kept(scope, t, m - 1)
      /\ UninitSnapshot(t) = {p \in UninitSnapshot(scope) : p[1] < m} \cup Top.snap
      /\ \A w \in Top.before : Agrees(t, m - 1, w, UninitSnapshot(t)) /\ w.val = "Unit"
      /\ \A w \in Left : Agrees(t, m - 1, w, UninitSnapshot(t)) /\ w.val = BlockType
  BY <1>1, Restored
<1> HIDE DEF t
<1>4. \A k \in 1 .. m - 1 : Waiting(blocks, k, UninitSnapshot(t))
  BY <1>1, <1>3, OuterWaits
<1>5. "Unit" \in Solid /\ "Unit" \in Types \ {"Unknown"}
  BY SolidTypes DEF Solid, Types
<1>6. ASSUME NEW v \in ws
      PROVE  Agrees(t, m - 1, v, UninitSnapshot(t)) /\ v.val = "Unit"
  <2>1. PICK w \in Top.before \cup Left : v = [w EXCEPT !.val = "Unit"]
    OBVIOUS
  <2>2. Agrees(t, m - 1, w, UninitSnapshot(t))
    BY <1>3
  <2> QED BY <1>5, <2>1, <2>2, AgreesValue
<1>7. \A k \in 1 .. m - 1 : blocks[k].diverges => ws = {}
  BY <1>1, OuterQuiet
<1> HIDE DEF ws
<1>8. \A w \in ws : /\ Agrees(t, m - 1, w, UninitSnapshot(t))
                    /\ Top.use \in Names \cup {"tail"} => w.val = "Unit"
  BY <1>6
<1>9. events' \cap Faults = {} /\ ("Unit" = "Never" => ws = {})
  BY <1>1, <1>2
<1> QED BY <1>1, <1>3, <1>4, <1>5, <1>7, <1>8, <1>9, DeliveredFlows

\* An if with both arms leaves assigned what both assign, and has a value if
\* one of them comes to an end.
LEMMA EndArmsFlows ==
    ASSUME Flowing, errors' = {}, EndIf, Top.form # "then"
    PROVE  Flowing'
<1> DEFINE m == Len(blocks)
           r == RestoreUninit(Pop(scope), Top.snap)
           new == NewlyInitialized(scope, Top.snap)
           both == InBothArms(Top.thenInit, new)
           joined == JoinedType(Top.thenTy, BlockType)
           t == WithInitialized(r, both, TRUE)
           ws == Top.after \cup Left
<1>1. /\ Checking /\ Top.form = "else" /\ Top.form # "oper" /\ joined # "clash"
      /\ Delivered(Outer, t, joined, ws) /\ events' = events
  <2>1. /\ Checking /\ Top.form = "else" /\ Top.form # "oper" /\ events' = events
        /\ errors' = IF joined = "clash" THEN errors \cup {"T0068"} ELSE errors
        /\ Delivered(Outer, t, IF joined = "clash" THEN "Unknown" ELSE joined, ws)
    BY DEF EndIf
  <2> HIDE DEF joined
  <2>2. joined # "clash"
    BY <2>1
  <2> QED BY <2>1, <2>2
<1>2. /\ scope \in Scopes /\ m \in Nat /\ events \cap Faults = {} /\ Top = blocks[m] /\ Len(scope) = m
      /\ blocks[m] \in BlockRecs /\ SetAside(scope, m, blocks[m])
      /\ BlockType \in Types \ {"Unknown"} /\ (BlockType = "Never" => worlds = {})
  BY <1>1, Closing
<1>3. /\ r \in Scopes /\ Len(r) = m - 1 /\ Kept(scope, r, m - 1)
      /\ UninitSnapshot(r) = {p \in UninitSnapshot(scope) : p[1] < m} \cup Top.snap
      /\ \A l \in 1 .. m - 1 : \A i \in 1 .. Len(scope[l]) : scope[l][i].ty = r[l][i].ty
      /\ \A w \in Left : w.val = BlockType
      /\ \A p \in Top.snap : p[1] \in 1 .. m - 1 /\ p[2] \in 1 .. Len(scope[p[1]])
  BY <1>1, Restored
<1>4. Top.snap \in SUBSET (Nat \X Nat)
  BY <1>2 DEF BlockRecs, Places
<1>5. both \in SUBSET (Nat \X Nat) /\ both \subseteq Top.snap /\ both \subseteq Top.thenInit
      /\ \A p \in both : scope[p[1]][p[2]].initialized
  BY <1>4 DEF InBothArms, NewlyInitialized
<1> HIDE DEF r, both
<1>6. \A p \in both : /\ p[1] \in 1 .. Len(r) /\ p[2] \in 1 .. Len(r[p[1]])
                      /\ r[p[1]][p[2]].ty # "Unknown"
  <2> SUFFICES ASSUME NEW p \in both
               PROVE  /\ p[1] \in 1 .. Len(r) /\ p[2] \in 1 .. Len(r[p[1]])
                      /\ r[p[1]][p[2]].ty # "Unknown"
    OBVIOUS
  <2>1. p[1] \in 1 .. m - 1 /\ p[2] \in 1 .. Len(scope[p[1]]) /\ p[1] \in 1 .. Len(scope)
    BY <1>2, <1>3, <1>5
  <2>2. scope[p[1]][p[2]] \in Bindings /\ scope[p[1]][p[2]].initialized
    BY <1>2, <1>5, <2>1, ScopeTypes
  <2>3. scope[p[1]][p[2]].ty # "Unknown"
    BY <2>2 DEF Bindings, Proper
  <2>4. Len(r[p[1]]) = Len(scope[p[1]])
    BY <1>3, <2>1 DEF Kept
  <2> QED BY <1>3, <2>1, <2>3, <2>4
<1>7. /\ t \in Scopes /\ Len(t) = m - 1 /\ Kept(r, t, m - 1) /\ UninitSnapshot(t) = UninitSnapshot(r) \ both
  <2>1. t \in Scopes /\ Len(t) = Len(r) /\ Kept(r, t, Len(r)) /\ UninitSnapshot(t) = UninitSnapshot(r) \ both
    BY <1>3, <1>5, <1>6, Reinitialized
  <2> QED BY <1>3, <2>1
<1> HIDE DEF t
<1>8. Kept(scope, t, m - 1)
  BY <1>2, <1>3, <1>7, KeptTransitive
<1>9. \A k \in 1 .. m - 1 : Waiting(blocks, k, UninitSnapshot(t))
  <2>1. \A p \in UninitSnapshot(t) : p \in UninitSnapshot(scope) \/ p \in Top.snap
    BY <1>3, <1>7
  <2> QED BY <1>1, <2>1, OuterWaits
<1>10. \A w \in Left : Agrees(t, m - 1, w, UninitSnapshot(t))
  <2>1. \A p \in UninitSnapshot(scope) : p[1] \in 1 .. m - 1 => p \in UninitSnapshot(t)
    <3> SUFFICES ASSUME NEW p \in UninitSnapshot(scope), p[1] \in 1 .. m - 1
                 PROVE  p \notin both /\ p \in UninitSnapshot(r)
      BY <1>7
    <3>1. ~scope[p[1]][p[2]].initialized
      BY <1>2, UninitPlaces
    <3> QED BY <1>2, <1>3, <1>5, <3>1
  <2> QED BY <1>1, <1>7, <1>8, <2>1, LeftAgrees
<1>11. \A w \in Top.after : Agrees(t, m - 1, w, UninitSnapshot(t)) /\ w.val = Top.thenTy
  <2>1. \A w \in Top.after : Agrees(scope, m - 1, w, Top.snap \ Top.thenInit) /\ w.val = Top.thenTy
    BY <1>2 DEF SetAside
  <2>2. \A p \in Top.snap \ Top.thenInit : p \in UninitSnapshot(t)
    BY <1>3, <1>5, <1>7
  <2> QED BY <1>2, <1>7, <1>8, <2>1, <2>2, AgreesKept
<1>12. /\ joined \in Types \ {"Unknown"} /\ (joined = "Never" => ws = {})
       /\ \A w \in ws : w.val = joined
  <2>1. Top.thenTy \in Types \ {"Unknown"}
    BY <1>1, <1>2 DEF BlockRecs, SetAside
  <2>2. \A w \in ws : w.val \in Solid
    BY <1>10, <1>11, WorldTypes DEF Agrees
  <2>3. Top.thenTy = "Never" => Top.after = {}
    BY <1>11, <2>2, SolidTypes
  <2>4. BlockType = "Never" => Left = {}
    BY <1>1, <1>2, OuterQuiet
  <2>5. CASE Top.thenTy = "Never"
    <3>1. joined = BlockType
      BY <2>5 DEF JoinedType
    <3> QED BY <1>2, <1>3, <2>3, <2>4, <2>5, <3>1
  <2>6. CASE Top.thenTy # "Never"
    <3>1. joined = Top.thenTy /\ BlockType \in {"Unknown", "Never", Top.thenTy}
      BY <1>1, <2>1, <2>6 DEF JoinedType
    <3> QED BY <1>2, <1>3, <1>11, <2>1, <2>4, <2>6, <3>1
  <2> QED BY <2>5, <2>6
<1>13. \A k \in 1 .. m - 1 : blocks[k].diverges => ws = {}
  BY <1>1, OuterQuiet
<1>14. \A w \in ws : /\ Agrees(t, m - 1, w, UninitSnapshot(t))
                     /\ Top.use \in Names \cup {"tail"} => w.val = joined
  BY <1>10, <1>11, <1>12
<1> HIDE DEF ws, joined
<1>15. events' \cap Faults = {}
  BY <1>1, <1>2
<1> QED BY <1>1, <1>7, <1>8, <1>9, <1>12, <1>13, <1>14, <1>15, DeliveredFlows

LEMMA ElseFlows ==
    ASSUME Flowing, errors' = {}, Else
    PROVE  Flowing'
<1> DEFINE m == Len(blocks)
           r == RestoreUninit(Pop(scope), Top.snap)
           t == Push(r)
           new == NewlyInitialized(scope, Top.snap)
           b == [Top EXCEPT !.form = "else", !.thenTy = BlockType, !.diverges = FALSE,
                            !.thenInit = new, !.after = Left]
           cs == [blocks EXCEPT ![m] = b]
           ws == {Enter(w) : w \in Top.before}
<1>1. /\ Checking /\ Top.form = "then" /\ Top.form # "oper" /\ scope' = t /\ blocks' = cs /\ worlds' = ws
      /\ tail' = "none" /\ events' = events
  BY DEF Else, WithTop
<1>2. /\ scope \in Scopes /\ m \in Nat /\ m - 1 \in Nat \ {0} /\ events \cap Faults = {} /\ Top = blocks[m]
      /\ Len(scope) = m /\ blocks \in Seq(BlockRecs) /\ Nest(blocks, scope) /\ Quiet(blocks, worlds)
      /\ blocks[m] \in BlockRecs /\ SetAside(scope, m, blocks[m]) /\ Walk(scope, blocks, tail, worlds)
      /\ BlockType \in Types \ {"Unknown"}
  BY <1>1, Closing
<1>3. /\ r \in Scopes /\ Len(r) = m - 1 /\ Kept(scope, r, m - 1)
      /\ UninitSnapshot(r) = {p \in UninitSnapshot(scope) : p[1] < m} \cup Top.snap
      /\ \A w \in Top.before : Agrees(r, m - 1, w, UninitSnapshot(r)) /\ w.val = "Unit"
      /\ \A w \in Left : Agrees(r, m - 1, w, UninitSnapshot(r)) /\ w.val = BlockType
      /\ \A p \in Top.snap : p[1] \in 1 .. m - 1 /\ p[2] \in 1 .. Len(scope[p[1]])
  BY <1>1, Restored
<1> HIDE DEF r, m
<1>4. t \in Scopes /\ Len(t) = m /\ Kept(r, t, m - 1) /\ UninitSnapshot(t) = UninitSnapshot(r)
  <2>1. t \in Scopes /\ Len(t) = Len(r) + 1 /\ Kept(r, t, Len(r)) /\ UninitSnapshot(t) = UninitSnapshot(r)
    BY <1>3, PushPlaces
  <2> QED BY <1>2, <1>3, <2>1
<1>5. ASSUME NEW v \in ws
      PROVE  Agrees(t, m, v, UninitSnapshot(t)) /\ v.val = "Unit"
  <2>1. PICK w \in Top.before : v = Enter(w)
    OBVIOUS
  <2>2. Agrees(r, Len(r), w, UninitSnapshot(r)) /\ w.val = "Unit"
    BY <1>3, <2>1
  <2>3. Agrees(t, Len(r) + 1, Enter(w), UninitSnapshot(r)) /\ Enter(w).val = w.val
    BY <1>3, <2>2, AgreesEnter
  <2> QED BY <1>2, <1>3, <1>4, <2>1, <2>2, <2>3
<1>6. Top.before = {} => ws = {}
  OBVIOUS
<1> HIDE DEF t, ws
<1>7. Kept(scope, t, m - 1)
  BY <1>2, <1>3, <1>4, KeptTransitive
<1>8. Left \in SUBSET Worlds /\ new \in SUBSET Places
  <2>1. Left \in SUBSET Worlds
    BY <1>3 DEF Agrees
  <2>2. Top.snap \in SUBSET Places
    BY <1>2 DEF BlockRecs
  <2> QED BY <2>1, <2>2 DEF NewlyInitialized
<1>9. \A p \in UninitSnapshot(scope) : p[1] \in 1 .. m - 1 => p \in Top.snap \ new
  <2> SUFFICES ASSUME NEW p \in UninitSnapshot(scope), p[1] \in 1 .. m - 1 PROVE p \in Top.snap \ new
    OBVIOUS
  <2>1. ~scope[p[1]][p[2]].initialized
    BY <1>2, UninitPlaces
  <2>2. Waiting(blocks, m, UninitSnapshot(scope)) /\ m \in 1 .. m
    BY <1>2 DEF Nest, m
  <2>3. p[1] < m
    BY <1>2
  <2>4. p \in Top.snap
    BY <1>1, <1>2, <2>2, <2>3 DEF Waiting, Branches
  <2> QED BY <2>1, <2>4 DEF NewlyInitialized
<1>10. \A w \in Left : Agrees(t, m - 1, w, Top.snap \ new) /\ w.val = BlockType
  BY <1>1, <1>4, <1>7, <1>9, LeftAgrees DEF m
<1>11. /\ b \in BlockRecs /\ b.form = "else" /\ b.use = Top.use /\ ~b.diverges /\ b.snap = Top.snap
       /\ b.thenTy = BlockType /\ b.thenInit = new /\ b.before = Top.before /\ b.after = Left
  <2> HIDE DEF new
  <2>1. Top \in BlockRecs
    BY <1>2
  <2> QED BY <1>2, <1>8, <2>1 DEF BlockRecs, Forms
<1> HIDE DEF new, b
<1>12. /\ cs \in Seq(BlockRecs) /\ Len(cs) = m /\ cs[m] = b /\ \A k \in 1 .. m - 1 : cs[k] = blocks[k]
  <2>1. m \in 1 .. Len(blocks) /\ Len(blocks) = m
    BY <1>2 DEF m
  <2>2. cs \in Seq(BlockRecs) /\ Len(cs) = m /\ \A k \in 1 .. m : cs[k] = IF k = m THEN b ELSE blocks[k]
    BY <1>2, <1>11, <2>1, ExceptIsSeq
  <2> QED BY <1>2, <2>2
<1> HIDE DEF cs
<1>13. cs[1].form = "oper" /\ m \in 1 .. Len(blocks) + 1 /\ m \in 1 .. m
  <2>1. 1 \in 1 .. m - 1 /\ blocks[1].form = "oper"
    BY <1>2 DEF Walk
  <2> QED BY <1>2, <1>12, <2>1 DEF m
<1>14. SetAside(t, m, cs[m])
  <2>1. SetAside(t, m, blocks[m])
    BY <1>2, <1>4, <1>7, SetAsideKept
  <2>2. BlockType # "none"
    BY <1>2, SolidTypes
  <2>3. \A w \in b.after : Agrees(t, m - 1, w, b.snap \ b.thenInit) /\ w.val = b.thenTy
    BY <1>10, <1>11
  <2> QED BY <1>2, <1>11, <1>12, <2>1, <2>2, <2>3 DEF SetAside
<1>15. \A k \in 1 .. m - 1 : Waiting(cs, k, UninitSnapshot(t)) /\ Waiting(cs, k, cs[m].snap)
  <2>1. \A k \in 1 .. m - 1 : Waiting(blocks, k, UninitSnapshot(t))
    <3>1. \A p \in UninitSnapshot(t) : p \in UninitSnapshot(scope) \/ p \in Top.snap
      BY <1>3, <1>4
    <3> QED BY <1>1, <3>1, OuterWaits DEF m
  <2>2. \A k \in 1 .. m - 1 : Waiting(blocks, k, Top.snap)
    <3>1. \A p \in Top.snap : p \in UninitSnapshot(scope) \/ p \in Top.snap
      OBVIOUS
    <3> QED BY <1>1, <3>1, OuterWaits DEF m
  <2> QED BY <1>11, <1>12, <2>1, <2>2 DEF Waiting
<1>16. Waiting(cs, m, UninitSnapshot(t))
  <2>1. \A p \in UninitSnapshot(t) : p[1] < m => p \in Top.snap
    <3>1. \A p \in UninitSnapshot(scope) : p[1] < m => p \in Top.snap
      <4>1. Waiting(blocks, m, UninitSnapshot(scope)) /\ m \in 1 .. m
        BY <1>2 DEF Nest, m
      <4> QED BY <1>1, <1>2, <4>1 DEF Waiting, Branches
    <3> QED BY <1>3, <1>4, <3>1
  <2> QED BY <1>11, <1>12, <2>1 DEF Waiting
<1>17. \A k \in 1 .. m : Waiting(cs, k, UninitSnapshot(t))
  BY <1>2, <1>15, <1>16
<1>18. Quiet(cs, ws)
  <2> SUFFICES ASSUME NEW k \in 1 .. m, cs[k].diverges
               PROVE  ws = {} /\ \A j \in k + 1 .. m : cs[j].before = {} /\ cs[j].after = {}
    BY <1>12 DEF Quiet
  <2>1. k \in 1 .. m - 1 /\ k \in 1 .. Len(blocks) /\ blocks[k].diverges
    BY <1>2, <1>11, <1>12 DEF m
  <2>2. Left = {} /\ Top.before = {}
    BY <1>1, <2>1, OuterQuiet DEF m
  <2>3. \A j \in k + 1 .. m - 1 : blocks[j].before = {} /\ blocks[j].after = {}
    <3>1. \A j \in k + 1 .. m : blocks[j].before = {} /\ blocks[j].after = {}
      BY <1>2, <2>1 DEF Quiet, m
    <3> QED BY <1>2, <3>1
  <2>4. \A j \in k + 1 .. m : j = m \/ (j \in k + 1 .. m - 1 /\ j \in 1 .. m - 1)
    BY <1>2
  <2> QED BY <1>6, <1>11, <1>12, <2>2, <2>3, <2>4
<1>19. "none" \in (Types \ {"Unknown"}) \cup {"none"} /\ Yield("none") = "Unit"
  BY DEF Yield
<1>20. Walk(t, cs, "none", ws)
  <2>1. \A v \in ws : Agrees(t, m, v, UninitSnapshot(t)) /\ v.val = Yield("none")
    BY <1>5, <1>19
  <2>2. Walk(scope, blocks, tail, worlds)
    BY <1>2
  <2>3. \A k \in 1 .. m - 1 : Waiting(cs, k, cs[m].snap)
    BY <1>15
  <2> QED BY <1>4, <1>7, <1>12, <1>13, <1>14, <1>17, <1>18, <1>19, <2>1, <2>2, <2>3, WalkTo
<1>21. events' \cap Faults = {}
  BY <1>1, <1>2
<1> QED BY <1>1, <1>20, <1>21, Flows

\* The body's value is what the operator hands over.
LEMMA EndOperFlows ==
    ASSUME Flowing, Ground, errors' = {}, EndOper
    PROVE  Flowing'
<1>1. /\ Checking /\ Mismatch("T0009", BlockType, returns) = {} /\ blocks' = << >> /\ worlds' = {}
      /\ events' = events \cup UNION {ExitFaults(w.depth, w.val) : w \in worlds}
  BY DEF EndOper
<1>2. Walk(scope, blocks, tail, worlds) /\ events \cap Faults = {}
  BY <1>1 DEF Flowing, Checking
<1> DEFINE m == Len(blocks)
<1>3. \A w \in worlds : w.val = BlockType /\ w.val \in Solid
  <2>1. /\ m \in 1 .. m /\ Quiet(blocks, worlds)
        /\ \A w \in worlds : Agrees(scope, Len(scope), w, UninitSnapshot(scope)) /\ w.val = Yield(tail)
    BY <1>2 DEF Walk
  <2>2. \A w \in worlds : w.val \in Solid
    BY <2>1, WorldTypes DEF Agrees
  <2>3. CASE blocks[m].diverges
    BY <2>1, <2>3 DEF Quiet
  <2>4. CASE ~blocks[m].diverges
    BY <2>1, <2>2, <2>4 DEF BlockType, Top, Yield
  <2> QED BY <2>3, <2>4
<1>4. \A w \in worlds : ExitFaults(w.depth, w.val) \cap Faults = {}
  <2> SUFFICES ASSUME NEW w \in worlds PROVE ExitFaults(w.depth, w.val) \cap Faults = {}
    OBVIOUS
  <2>1. AssignableTo(w.val, returns) /\ returns # "Unknown" /\ w.val \in Solid
    BY <1>1, <1>3, TypesAreWritten DEF Mismatch, Ground
  <2>2. w.val = returns
    BY <2>1, SolidTypes DEF AssignableTo
  <2> QED BY <2>2 DEF ExitFaults, Faults
<1> DEFINE exits == UNION {ExitFaults(w.depth, w.val) : w \in worlds}
<1>5. exits \cap Faults = {}
  BY <1>4
<1>6. events' = events \cup exits
  BY <1>1
<1> HIDE DEF exits
<1>7. events' \cap Faults = {}
  BY <1>2, <1>5, <1>6
<1> QED BY <1>1, <1>7 DEF Flowing

-----------------------------------------------------------------------------
(* The start.                                                               *)

\* The file's relvars are bound, each once, and nothing else.
LEMMA RelvarsLaid ==
    /\ RelvarLayer \in Seq(Bindings)
    /\ \A i \in 1 .. Len(RelvarLayer) : /\ RelvarLayer[i].name \in Relvars
                                        /\ RelvarLayer[i].initialized
<1> DEFINE order == SetToSeq(Relvars)
           N == Cardinality(Relvars)
           b(r) == Binding(r, "Relation", "relvar", 0)
<1>1. N \in Nat /\ ExistsBijection(1 .. N, Relvars)
  BY RelvarsAreFinite, FS_CardinalityType DEF Relvars
<1>2. \E f \in [1 .. N -> Relvars] : IsInjective(f)
  <2>1. PICK f : f \in Bijection(1 .. N, Relvars)
    BY <1>1 DEF ExistsBijection
  <2>2. f \in [1 .. N -> Relvars] /\ IsInjective(f)
    BY <2>1 DEF Bijection, Injection, IsInjective
  <2> QED BY <2>2
<1>3. order \in [1 .. N -> Relvars]
  BY <1>2 DEF SetToSeq
<1> HIDE DEF order, N
<1>4. \A r \in Relvars : b(r) \in Bindings
  <2> TAKE r \in Relvars
  <2>1. /\ b(r).name = r /\ b(r).ty = "Relation" /\ b(r).origin = "relvar" /\ b(r).initialized
        /\ b(r) \in Marks
    BY DEF Binding, Marks, Types, Solid, Origins
  <2> QED BY <2>1 DEF Bindings, Proper
<1>5. RelvarLayer = [i \in 1 .. N |-> b(order[i])]
  BY <1>3 DEF RelvarLayer, order
<1>6. RelvarLayer \in [1 .. N -> Bindings]
  BY <1>3, <1>4, <1>5
<1>7. RelvarLayer \in Seq(Bindings) /\ Len(RelvarLayer) = N
  BY <1>1, <1>6, FunctionIsSeq
<1>8. \A i \in 1 .. N : RelvarLayer[i].name \in Relvars /\ RelvarLayer[i].initialized
  BY <1>3, <1>5 DEF Binding
<1> QED BY <1>7, <1>8

\* So is the operator's parameter, if it has one.
LEMMA FirstLayer ==
    ASSUME NEW params \in {{}} \cup {{n} : n \in Names}
    PROVE  LET layer == RelvarLayer \o
                 [i \in 1 .. Cardinality(params) |->
                     Binding(CHOOSE n \in params : TRUE, "Integer", "param", 0)]
           IN  /\ layer \in Seq(Bindings)
               /\ \A i \in 1 .. Len(layer) :
                     /\ layer[i].initialized
                     /\ layer[i].name \in Names =>
                           /\ layer[i].name \in params /\ layer[i].id = 0
                           /\ layer[i].origin = "param" /\ layer[i].ty = "Integer"
               /\ \A n \in params : \E i \in 1 .. Len(layer) : layer[i].name = n
<1> DEFINE R == RelvarLayer
           b(n) == Binding(n, "Integer", "param", 0)
           more == [i \in 1 .. Cardinality(params) |-> b(CHOOSE n \in params : TRUE)]
<1>1. R \in Seq(Bindings) /\ \A i \in 1 .. Len(R) : R[i].name \notin Names /\ R[i].initialized
  BY RelvarsLaid, RelvarsAreNotBound DEF Relvars
<1> HIDE DEF R
<1>2. CASE params = {}
  <2>1. more = << >>
    BY <1>2, FS_EmptySet
  <2>2. \A s \in Seq(Bindings) : s \o << >> = s
    OBVIOUS
  <2> HIDE DEF more
  <2>3. R \o more = R
    BY <1>1, <2>1, <2>2
  <2> QED BY <1>1, <1>2, <2>3 DEF R, more
<1>3. CASE \E n \in Names : params = {n}
  <2>1. PICK n \in Names : params = {n}
    BY <1>3
  <2>2. Cardinality(params) = 1 /\ (CHOOSE m \in params : TRUE) = n
    BY <2>1, FS_Singleton
  <2>3. more = <<b(n)>>
    <3>1. more = [i \in 1 .. 1 |-> b(n)]
      BY <2>2
    <3>2. \A x : [i \in 1 .. 1 |-> x] = <<x>>
      OBVIOUS
    <3> QED BY <3>1, <3>2
  <2>5. /\ b(n).name = n /\ b(n).ty = "Integer" /\ b(n).origin = "param" /\ b(n).initialized
        /\ b(n).id = 0 /\ b(n) \in Marks
    BY DEF Binding, Marks, Types, Solid, Origins
  <2>6. b(n) \in Bindings
    BY <2>5, RelvarsAreNotBound DEF Bindings, Proper, Relvars
  <2> HIDE DEF b, more
  <2>4. R \o more = Append(R, b(n))
    <3>1. \A s \in Seq(Bindings) : \A x \in Bindings : s \o <<x>> = Append(s, x)
      OBVIOUS
    <3> QED BY <1>1, <2>3, <2>6, <3>1
  <2>7. Append(R, b(n)) \in Seq(Bindings) /\ Len(Append(R, b(n))) = Len(R) + 1 /\ Len(R) \in Nat
    BY <1>1, <2>6
  <2>8. /\ \A i \in 1 .. Len(R) : Append(R, b(n))[i] = R[i]
        /\ Append(R, b(n))[Len(R) + 1] = b(n)
    BY <1>1, <2>6
  <2>9. \A i \in 1 .. Len(R) + 1 : i \in 1 .. Len(R) \/ i = Len(R) + 1
    BY <2>7
  <2>10. \A i \in 1 .. Len(R) + 1 :
            /\ Append(R, b(n))[i].initialized
            /\ Append(R, b(n))[i].name \in Names =>
                  /\ Append(R, b(n))[i].name \in params /\ Append(R, b(n))[i].id = 0
                  /\ Append(R, b(n))[i].origin = "param" /\ Append(R, b(n))[i].ty = "Integer"
    BY <1>1, <2>1, <2>5, <2>8, <2>9
  <2>11. Len(R) + 1 \in 1 .. Len(R) + 1
    BY <2>7
  <2> DEFINE layer == R \o more
  <2>12. layer = Append(R, b(n))
    BY <2>4
  <2> HIDE DEF layer
  <2>13. /\ layer \in Seq(Bindings)
         /\ \A i \in 1 .. Len(layer) :
               /\ layer[i].initialized
               /\ layer[i].name \in Names =>
                     /\ layer[i].name \in params /\ layer[i].id = 0
                     /\ layer[i].origin = "param" /\ layer[i].ty = "Integer"
         /\ \A m \in params : \E i \in 1 .. Len(layer) : layer[i].name = m
    BY <2>1, <2>5, <2>7, <2>8, <2>10, <2>11, <2>12
  <2> QED BY <2>13 DEF layer, R, more, b
<1> QED BY <1>2, <1>3

LEMMA InitFlows == Init => Ground /\ FlowInv
<1> SUFFICES ASSUME Init PROVE Ground /\ Flowing
  BY DEF FlowInv
<1>1. Ground
  BY DEF Init, Ground
<1>2. PICK params \in {{}} \cup {{n} : n \in Names} :
         /\ scope = <<RelvarLayer \o [i \in 1 .. Cardinality(params) |->
                         Binding(CHOOSE n \in params : TRUE, "Integer", "param", 0)]>>
         /\ worlds = {[frames |-> <<[n \in params |-> Cell(0, "param", "Integer")]>>,
                       depth |-> 0, val |-> "Unit"]}
  BY DEF Init
<1>3. PICK layer \in Seq(Bindings) :
         /\ scope = <<layer>>
         /\ \A i \in 1 .. Len(layer) :
               /\ layer[i].initialized
               /\ layer[i].name \in Names =>
                     /\ layer[i].name \in params /\ layer[i].id = 0
                     /\ layer[i].origin = "param" /\ layer[i].ty = "Integer"
         /\ \A n \in params : \E i \in 1 .. Len(layer) : layer[i].name = n
  BY <1>2, FirstLayer
<1>4. PICK frame : /\ frame = [n \in params |-> Cell(0, "param", "Integer")]
                   /\ worlds = {[frames |-> <<frame>>, depth |-> 0, val |-> "Unit"]}
  BY <1>2
<1>5. /\ scope \in Scopes /\ Len(scope) = 1 /\ scope[1] = layer
  BY <1>3 DEF Scopes
<1>6. UninitSnapshot(scope) = {}
  <2>1. \A p \in UninitSnapshot(scope) : FALSE
    <3> SUFFICES ASSUME NEW p \in UninitSnapshot(scope) PROVE FALSE
      OBVIOUS
    <3>1. p[1] \in 1 .. Len(scope) /\ p[2] \in 1 .. Len(scope[p[1]]) /\ ~scope[p[1]][p[2]].initialized
      BY <1>5, UninitWithin
    <3>2. p[1] = 1
      BY <1>5, <3>1
    <3> QED BY <1>3, <1>5, <3>1, <3>2
  <2> QED BY <2>1
<1>7. ASSUME NEW w \in worlds PROVE Agrees(scope, 1, w, {}) /\ w.val = "Unit"
  <2>1. w.frames = <<frame>> /\ w.depth = 0 /\ w.val = "Unit" /\ DOMAIN w = {"frames", "depth", "val"}
        /\ w = [frames |-> w.frames, depth |-> w.depth, val |-> w.val]
    BY <1>4
  <2>2. params \subseteq Names
    BY <1>2
  <2>3. Cell(0, "param", "Integer") \in Cells
    BY DEF Cell, Cells, Origins, Solid
  <2>4. frame \in [params -> Cells]
    BY <1>4, <2>3
  <2>5. frame \in Frames
    BY <2>2, <2>4 DEF Frames
  <2>6. w.frames \in Seq(Frames) /\ Len(w.frames) = 1 /\ w.frames[1] = frame
    BY <2>1, <2>5
  <2>7. w \in Worlds
    <3>1. "Unit" \in Solid
      BY DEF Solid
    <3> QED BY <2>1, <2>6, <3>1 DEF Worlds
  <2>8. \A n \in Names : n \in DOMAIN frame <=> \E i \in 1 .. Len(layer) : layer[i].name = n
    BY <1>3, <1>4
  <2>9. \A i \in 1 .. Len(layer) : layer[i].name \in Names => Fits(layer[i], frame[layer[i].name], FALSE)
    <3> SUFFICES ASSUME NEW i \in 1 .. Len(layer), layer[i].name \in Names
                 PROVE  Fits(layer[i], frame[layer[i].name], FALSE)
      OBVIOUS
    <3>1. frame[layer[i].name] = Cell(0, "param", "Integer")
      BY <1>3, <1>4
    <3> QED BY <1>3, <3>1 DEF Fits, Cell
  <2>10. \A l \in 1 .. 1 : l = 1
    OBVIOUS
  <2>11. \A i : <<1, i>> \notin {}
    OBVIOUS
  <2>12. \A n \in Names :
            n \in DOMAIN w.frames[1] <=> \E i \in 1 .. Len(scope[1]) : scope[1][i].name = n
    BY <1>5, <2>6, <2>8
  <2>13. \A i \in 1 .. Len(scope[1]) : scope[1][i].name \in Names =>
            Fits(scope[1][i], w.frames[1][scope[1][i].name], FALSE)
    BY <1>5, <2>6, <2>9
  <2>14. \A i \in 1 .. Len(scope[1]) : scope[1][i].name \in Names =>
            Fits(scope[1][i], w.frames[1][scope[1][i].name], <<1, i>> \in {})
    <3>1. \A i : (<<1, i>> \in {}) = FALSE
      OBVIOUS
    <3> QED BY <2>13, <3>1, Zenon
  <2> QED BY <2>1, <2>6, <2>7, <2>10, <2>12, <2>14 DEF Agrees
<1>8. PICK b \in BlockRecs :
         /\ blocks = <<b>> /\ b.form = "oper" /\ ~b.diverges /\ b.snap = {}
         /\ b.before = {} /\ b.after = {}
  <2>1. PICK b : /\ blocks = <<b>>
                 /\ b = [form |-> "oper", use |-> "stmt", id |-> 0, diverges |-> FALSE, snap |-> {},
                         thenTy |-> "none", thenInit |-> {}, cond |-> Lit("Boolean"),
                         before |-> {}, after |-> {}]
    BY DEF Init
  <2>2. b \in BlockRecs
    BY <2>1 DEF BlockRecs, Forms, Uses, Conditions
  <2> QED BY <2>1, <2>2
<1>9. /\ blocks \in Seq(BlockRecs) /\ Len(blocks) = 1 /\ blocks[1] = b /\ blocks # << >>
  BY <1>8
<1>15. tail = "none" /\ events = {}
  BY DEF Init
<1>10. \A k \in 1 .. 1 : k = 1 /\ \A j \in k + 1 .. 1 : FALSE
  OBVIOUS
<1>11. SetAside(scope, 1, b)
  BY <1>8 DEF SetAside
<1>12. Nest(blocks, scope)
  BY <1>8, <1>9, <1>10 DEF Nest, Waiting, Branches
<1>13. Quiet(blocks, worlds)
  BY <1>8, <1>9, <1>10 DEF Quiet
<1>14. Walk(scope, blocks, tail, worlds)
  BY <1>5, <1>6, <1>7, <1>8, <1>9, <1>10, <1>11, <1>12, <1>13, <1>15 DEF Walk, Yield
<1> QED BY <1>1, <1>9, <1>14, <1>15 DEF Flowing

-----------------------------------------------------------------------------
(* The theorems.                                                            *)

LEMMA GroundStep ==
    ASSUME Ground, [Next]_vars
    PROVE  Ground'
<1>1. CASE returns' = returns /\ size' = size
  BY <1>1 DEF Ground
<1>2. CASE returns' = returns /\ size' = [size EXCEPT !.stmts = @ + 1]
  BY <1>2 DEF Ground
<1>3. CASE returns' = returns /\ size' = [size EXCEPT !.blocks = @ + 1]
  BY <1>3 DEF Ground
<1>4. CASE LetStmt \/ VarStmt
  BY <1>2, <1>4 DEF LetStmt, VarStmt, Bind, Statement, Step
<1>5. CASE DeclareUnassigned
  BY <1>2, <1>5 DEF DeclareUnassigned, Statement, Step
<1>6. CASE AssignLocal
  BY <1>2, <1>6 DEF AssignLocal, Statement, Step
<1>7. CASE AssignRelvar
  BY <1>2, <1>7 DEF AssignRelvar, Statement, Step
<1>8. CASE TruncateStmt
  BY <1>2, <1>8 DEF TruncateStmt, Statement, Step
<1>9. CASE DeleteStmt
  BY <1>2, <1>9 DEF DeleteStmt, Statement, Step
<1>10. CASE InsertStmt
  BY <1>2, <1>10 DEF InsertStmt, Statement, Step
<1>11. CASE UpdateStmt
  BY <1>2, <1>11 DEF UpdateStmt, Statement, Step
<1>12. CASE LoadStmt
  BY <1>2, <1>12 DEF LoadStmt, Statement, Step
<1>13. CASE LoadReverse
  BY <1>2, <1>13 DEF LoadReverse, Statement, Step
<1>14. CASE ExprStmt
  BY <1>2, <1>14 DEF ExprStmt, Statement, Step
<1>15. CASE TailExpr
  BY <1>2, <1>15 DEF TailExpr
<1>16. CASE ReturnStmt
  BY <1>2, <1>16 DEF ReturnStmt, Statement, Step
<1>17. CASE BeginIf \/ BeginWhile \/ BeginDo
  BY <1>3, <1>17 DEF BeginIf, BeginWhile, BeginDo, OpenBlock, Opening, Step
<1>18. CASE BeginFor \/ BeginTransaction
  BY <1>3, <1>18 DEF BeginFor, BeginTransaction, Opening, Step
<1>19. CASE Else \/ EndIf \/ EndTransaction \/ EndLoop \/ EndDo \/ EndOper
  BY <1>1, <1>19 DEF Else, EndIf, EndTransaction, EndLoop, EndDo, EndOper
<1>20. CASE UNCHANGED vars
  BY <1>1, <1>20 DEF vars
<1> QED BY <1>4, <1>5, <1>6, <1>7, <1>8, <1>9, <1>10, <1>11, <1>12, <1>13, <1>14, <1>15, <1>16, <1>17,
           <1>18, <1>19, <1>20 DEF Next

\* A refused program is not gone on with, so what is accepted now was before.
LEMMA ErrorsStay ==
    ASSUME [Next]_vars, errors' = {}
    PROVE  errors = {}
<1>1. CASE Checking
  BY <1>1 DEF Checking
<1>2. CASE UNCHANGED vars
  BY <1>2 DEF vars
<1>3. CASE CanGoOn
  BY <1>1, <1>3 DEF CanGoOn
<1>4. CASE CanWrite \/ CanOpen
  BY <1>3, <1>4 DEF CanWrite, CanOpen
<1>5. CASE LetStmt \/ VarStmt \/ DeclareUnassigned \/ AssignLocal \/ AssignRelvar \/ TruncateStmt \/ DeleteStmt
  BY <1>4, <1>5 DEF LetStmt, VarStmt, DeclareUnassigned, AssignLocal, AssignRelvar, TruncateStmt, DeleteStmt
<1>6. CASE InsertStmt \/ UpdateStmt \/ LoadStmt \/ LoadReverse \/ ExprStmt \/ TailExpr \/ ReturnStmt
  BY <1>4, <1>6 DEF InsertStmt, UpdateStmt, LoadStmt, LoadReverse, ExprStmt, TailExpr, ReturnStmt
<1>7. CASE BeginIf \/ BeginWhile \/ BeginDo \/ BeginFor \/ BeginTransaction
  BY <1>4, <1>7 DEF BeginIf, BeginWhile, BeginDo, BeginFor, BeginTransaction, OpenBlock
<1>8. CASE Else \/ EndIf \/ EndTransaction \/ EndLoop \/ EndDo \/ EndOper
  BY <1>1, <1>8 DEF Else, EndIf, EndTransaction, EndLoop, EndDo, EndOper
<1> QED BY <1>2, <1>5, <1>6, <1>7, <1>8 DEF Next

LEMMA StepFlows ==
    ASSUME Ground, FlowInv, [Next]_vars
    PROVE  FlowInv'
<1> SUFFICES ASSUME errors' = {} PROVE Flowing'
  BY DEF FlowInv
<1>1. Flowing
  BY ErrorsStay DEF FlowInv
<1>2. CASE LetStmt \/ VarStmt
  BY <1>1, <1>2, BindFlows
<1>3. CASE DeclareUnassigned
  BY <1>1, <1>3, DeclareFlows
<1>4. CASE AssignLocal
  BY <1>1, <1>4, AssignLocalFlows
<1>5. CASE AssignRelvar
  BY <1>1, <1>5, AssignRelvarFlows
<1>6. CASE TruncateStmt
  BY <1>1, <1>6, TruncateFlows
<1>7. CASE DeleteStmt
  BY <1>1, <1>7, DeleteFlows
<1>8. CASE InsertStmt
  BY <1>1, <1>8, InsertFlows
<1>9. CASE UpdateStmt
  BY <1>1, <1>9, UpdateFlows
<1>10. CASE LoadStmt
  BY <1>1, <1>10, LoadFlows
<1>11. CASE LoadReverse
  BY <1>1, <1>11, LoadReverseFlows
<1>12. CASE ExprStmt
  BY <1>1, <1>12, ExprFlows
<1>13. CASE TailExpr
  BY <1>1, <1>13, TailFlows
<1>14. CASE ReturnStmt
  BY <1>1, <1>14, ReturnFlows
<1>15. CASE BeginIf
  BY <1>1, <1>15, IfFlows
<1>16. CASE Else
  BY <1>1, <1>16, ElseFlows
<1>17. CASE EndIf
  BY <1>1, <1>17, EndAloneFlows, EndArmsFlows
<1>18. CASE BeginTransaction
  BY <1>1, <1>18, TransactionFlows
<1>19. CASE EndTransaction
  BY <1>1, <1>19, EndTransactionFlows
<1>20. CASE BeginWhile
  BY <1>1, <1>20, WhileFlows
<1>21. CASE BeginFor
  BY <1>1, <1>21, ForFlows
<1>22. CASE EndLoop
  BY <1>1, <1>22, EndLoopFlows
<1>23. CASE BeginDo
  BY <1>1, <1>23, DoFlows
<1>24. CASE EndDo
  BY <1>1, <1>24, EndDoFlows
<1>25. CASE EndOper
  BY <1>1, <1>25, EndOperFlows
<1>26. CASE UNCHANGED vars
  <2>1. /\ scope' = scope /\ blocks' = blocks /\ tail' = tail /\ worlds' = worlds /\ events' = events
    BY <1>26 DEF vars
  <2>2. Flowing' = Flowing
    BY <2>1 DEF Flowing
  <2> QED BY <1>1, <2>2
<1> QED BY <1>2, <1>3, <1>4, <1>5, <1>6, <1>7, <1>8, <1>9, <1>10, <1>11, <1>12, <1>13, <1>14, <1>15,
           <1>16, <1>17, <1>18, <1>19, <1>20, <1>21, <1>22, <1>23, <1>24, <1>25, <1>26 DEF Next

\* On every path through an accepted body the frames of the executions follow
\* the scopes of the checker: each binding is the cell of the same declaration,
\* which holds a value of its type or, where the checker still says so, none.
THEOREM FlowIsReal == Spec => [](Ground /\ FlowInv)
<1> DEFINE Inv == Ground /\ FlowInv
<1>1. Init => Inv
  BY InitFlows
<1>2. Inv /\ [Next]_vars => Inv'
  BY GroundStep, StepFlows
<1> QED BY <1>1, <1>2, PTL DEF Spec

\* No execution of an accepted program reads a var that has no value yet
\* (T0079), whatever arms it takes and however often its loops run.
THEOREM AssignedBeforeRead == Spec => []ReadsAreAssigned
<1>1. FlowInv => ReadsAreAssigned
  BY DEF FlowInv, Flowing, Faults, ReadsAreAssigned, Accepted
<1> QED BY <1>1, FlowIsReal, PTL

\* In an accepted program every name means, wherever it stands, the cell of the
\* binding the checker found for it, that cell holds a value of the binding's
\* type or none, and what is handed over has the declared type.
THEOREM NamesMeanCells == Spec => []TypesMeanValues
<1>1. FlowInv => TypesMeanValues
  <2> SUFFICES ASSUME Flowing
               PROVE  /\ "mistyped" \notin events /\ "mistyped result" \notin events
                      /\ \A w \in worlds : \A n \in {m \in Names : FramesOf(w, m) # {}} :
                            /\ Found(scope, n).id = CellOf(w, n).id
                            /\ CellOf(w, n).holds \in {Found(scope, n).ty, "nothing"}
    BY DEF FlowInv, TypesMeanValues, Accepted
  <2>1. "mistyped" \notin events /\ "mistyped result" \notin events
    BY DEF Flowing, Faults
  <2>2. ASSUME NEW w \in worlds, NEW n \in Names, FramesOf(w, n) # {}
        PROVE  /\ Found(scope, n).id = CellOf(w, n).id
               /\ CellOf(w, n).holds \in {Found(scope, n).ty, "nothing"}
    <3>1. Walk(scope, blocks, tail, worlds)
      BY <2>2 DEF Flowing
    <3>2. /\ scope \in Scopes /\ Len(scope) \in 0 .. Len(scope)
          /\ Agrees(scope, Len(scope), w, UninitSnapshot(scope))
      BY <2>2, <3>1, ScopeTypes DEF Walk
    <3>3. PICK l, i : Visible(scope, Len(scope), n, l, i)
      BY <2>2, <3>2, FrameVisible
    <3>4. Found(scope, n) = scope[l][i]
      BY <3>2, <3>3, LocateVisible
    <3>5. Fits(scope[l][i], CellOf(w, n), <<l, i>> \in UninitSnapshot(scope))
      BY <2>2, <3>2, <3>3, FrameVisible
    <3> QED BY <3>4, <3>5 DEF Fits
  <2> QED BY <2>1, <2>2
<1> QED BY <1>1, FlowIsReal, PTL

=============================================================================
