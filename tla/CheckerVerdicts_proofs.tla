----------------------- MODULE CheckerVerdicts_proofs -----------------------
(***************************************************************************)
(* Theorems about what Checker says of a program, for every choice of      *)
(* names, relvars, literals and bounds. A warning is true: a binding is    *)
(* warned of once, as it goes out of scope, and what is said of it then    *)
(* holds of every execution, before and after. A refusal is deserved:      *)
(* where the checker says that a var may have no value, some execution     *)
(* gets there without one, so that each diagnostic of the flow rules has   *)
(* an execution that commits what it forbids.                              *)
(***************************************************************************)
EXTENDS Checker_proofs

(***************************************************************************)
(* Warnings.                                                               *)
(***************************************************************************)
-----------------------------------------------------------------------------
(* Who is who: bindings, warnings and what executions touched, by id.       *)

Owns(s, l, i, id) ==
    l \in 1 .. Len(s) /\ i \in 1 .. Len(s[l]) /\ s[l][i].origin # "relvar" /\ s[l][i].id = id

Owned(s, id) == \E l, i : Owns(s, l, i, id)

\* Ids given out and not bound: those of blocks whose value will be.
Promised(bs, k, id) == k \in 1 .. Len(bs) /\ bs[k].use \in Names /\ bs[k].id = id

Pending(bs, id) == \E k : Promised(bs, k, id)

Warned(wrn, id) == <<"T0032", id>> \in wrn \/ <<"T0077", id>> \in wrn
Seen(tch, id) == <<"read", id>> \in tch \/ <<"written", id>> \in tch

\* Nothing is known under the id.
Free(s, bs, wrn, tch, id) ==
    ~Owned(s, id) /\ ~Pending(bs, id) /\ ~Warned(wrn, id) /\ ~Seen(tch, id)

\* An id is one binding's, now or later.  What is warned of is bound no more
\* and never will be again; what executions read or wrote is marked so, and was
\* never warned of.
Tracked(s, bs, wrn, tch, fresh, id) ==
    /\ id < fresh \/ Free(s, bs, wrn, tch, id)
    /\ \A l1, i1, l2, i2 : Owns(s, l1, i1, id) /\ Owns(s, l2, i2, id) => l1 = l2 /\ i1 = i2
    /\ \A k, j : Promised(bs, k, id) /\ Promised(bs, j, id) => k = j
    /\ ~(Owned(s, id) /\ Pending(bs, id))
    /\ Warned(wrn, id) => ~Owned(s, id) /\ ~Pending(bs, id)
    /\ Seen(tch, id) => ~Pending(bs, id)
    /\ <<"read", id>> \in tch => /\ <<"T0032", id>> \notin wrn
                                 /\ \A l, i : Owns(s, l, i, id) => s[l][i].used
    /\ <<"written", id>> \in tch => /\ <<"T0077", id>> \notin wrn
                                    /\ \A l, i : Owns(s, l, i, id) => s[l][i].reassigned

Known(s, bs, wrn, tch, fresh) == \A id \in Nat : Tracked(s, bs, wrn, tch, fresh, id)

IdInv == errors = {} => Known(scope, blocks, warned, touched, Fresh)

-----------------------------------------------------------------------------
(* How what is known goes on, one part of a step at a time.                 *)

LEMMA KnownKept ==
    ASSUME NEW s \in Scopes, NEW t \in Scopes, Len(t) = Len(s), Kept(s, t, Len(s)),
           NEW bs, NEW wrn, NEW tch, NEW f, Known(s, bs, wrn, tch, f)
    PROVE  Known(t, bs, wrn, tch, f)
<1>1. \A l, i, id : /\ Owns(t, l, i, id) <=> Owns(s, l, i, id)
                    /\ Owns(s, l, i, id) /\ s[l][i].used => t[l][i].used
                    /\ Owns(s, l, i, id) /\ s[l][i].reassigned => t[l][i].reassigned
  BY DEF Owns, Kept, Evolves
<1>2. \A id : Owned(t, id) <=> Owned(s, id)
  BY <1>1 DEF Owned
<1> SUFFICES ASSUME NEW id \in Nat PROVE Tracked(t, bs, wrn, tch, f, id)
  BY DEF Known
<1>3. Tracked(s, bs, wrn, tch, f, id)
  BY DEF Known
<1> QED BY <1>1, <1>2, <1>3 DEF Tracked, Free

\* Ids not given out yet are free.
LEMMA KnownLater ==
    ASSUME NEW s, NEW bs, NEW wrn, NEW tch, NEW f \in Nat, Known(s, bs, wrn, tch, f)
    PROVE  /\ Known(s, bs, wrn, tch, f + 1)
           /\ Free(s, bs, wrn, tch, f) /\ f < f + 1
<1>1. ASSUME NEW id \in Nat PROVE Tracked(s, bs, wrn, tch, f + 1, id)
  <2>1. Tracked(s, bs, wrn, tch, f, id) /\ (id < f => id < f + 1)
    BY DEF Known
  <2> QED BY <2>1 DEF Tracked
<1>2. Tracked(s, bs, wrn, tch, f, f) /\ ~(f < f)
  BY DEF Known
<1> QED BY <1>1, <1>2 DEF Known, Tracked

\* A free id is given to a binding.
LEMMA KnownInsert ==
    ASSUME NEW s \in Scopes, Len(s) # 0, NEW b \in Bindings,
           NEW bs, NEW wrn, NEW tch, NEW f, Known(s, bs, wrn, tch, f),
           Free(s, bs, wrn, tch, b.id), b.id < f
    PROVE  Known(Insert(s, b), bs, wrn, tch, f)
<1> DEFINE t == Insert(s, b)
           m == Len(s)
           j == Len(s[m]) + 1
<1>1. /\ t \in Scopes /\ Len(t) = m /\ m \in Nat \ {0} /\ m \in 1 .. m /\ Len(s[m]) \in Nat
      /\ Len(t[m]) = j /\ t[m][j] = b
      /\ \A i \in 1 .. j - 1 : t[m][i] = s[m][i]
      /\ \A l \in 1 .. m - 1 : t[l] = s[l]
  BY InsertPlaces, ScopeTypes
<1> HIDE DEF t, m
<1>2. \A l, i : l \in 1 .. m /\ i \in 1 .. Len(t[l]) =>
         \/ l = m /\ i = j
         \/ i \in 1 .. Len(s[l]) /\ t[l][i] = s[l][i]
  <2> SUFFICES ASSUME NEW l \in 1 .. m, NEW i \in 1 .. Len(t[l]), ~(l = m /\ i = j)
               PROVE  i \in 1 .. Len(s[l]) /\ t[l][i] = s[l][i]
    OBVIOUS
  <2>1. CASE l = m
    BY <1>1, <2>1
  <2>2. CASE l # m
    <3>1. l \in 1 .. m - 1
      BY <1>1, <2>2
    <3> QED BY <1>1, <3>1
  <2> QED BY <2>1, <2>2
<1> HIDE DEF j
<1>3. \A l, i, id : Owns(t, l, i, id) =>
         \/ l = m /\ i = j /\ t[l][i] = b /\ id = b.id
         \/ Owns(s, l, i, id) /\ t[l][i] = s[l][i]
  BY <1>1, <1>2 DEF Owns, m
<1> SUFFICES ASSUME NEW id \in Nat PROVE Tracked(t, bs, wrn, tch, f, id)
  BY DEF Known, t
<1>4. Tracked(s, bs, wrn, tch, f, id)
  BY DEF Known
<1>5. CASE id = b.id
  <2>1. \A l, i : ~Owns(s, l, i, id)
    BY <1>5 DEF Free, Owned
  <2>2. \A l, i : Owns(t, l, i, id) => l = m /\ i = j
    BY <1>3, <2>1
  <2> QED BY <1>4, <1>5, <2>2 DEF Tracked, Free, Seen
<1>6. CASE id # b.id
  <2>1. \A l, i : Owns(t, l, i, id) => Owns(s, l, i, id) /\ t[l][i] = s[l][i]
    BY <1>3, <1>6
  <2>2. Owned(t, id) => Owned(s, id)
    BY <2>1 DEF Owned
  <2> QED BY <1>4, <2>1, <2>2 DEF Tracked, Free
<1> QED BY <1>5, <1>6

LEMMA KnownPush ==
    ASSUME NEW s \in Scopes, NEW bs, NEW wrn, NEW tch, NEW f, Known(s, bs, wrn, tch, f)
    PROVE  Known(Push(s), bs, wrn, tch, f)
<1> DEFINE t == Push(s)
           m == Len(s)
<1>1. /\ Len(t) = m + 1 /\ m \in Nat /\ t[m + 1] = << >> /\ \A l \in 1 .. m : t[l] = s[l]
  BY PushPlaces, ScopeTypes
<1> HIDE DEF t, m
<1>2. \A l, i, id : Owns(t, l, i, id) => Owns(s, l, i, id) /\ t[l][i] = s[l][i]
  <2> SUFFICES ASSUME NEW l \in 1 .. m + 1, NEW i \in 1 .. Len(t[l])
               PROVE  l \in 1 .. m
    BY <1>1 DEF Owns, m
  <2>1. l = m + 1 => Len(t[l]) = 0
    BY <1>1
  <2> QED BY <1>1, <2>1
<1> SUFFICES ASSUME NEW id \in Nat PROVE Tracked(t, bs, wrn, tch, f, id)
  BY DEF Known, t
<1>3. Tracked(s, bs, wrn, tch, f, id)
  BY DEF Known
<1>4. Owned(t, id) => Owned(s, id)
  BY <1>2 DEF Owned
<1> QED BY <1>2, <1>3, <1>4 DEF Tracked, Free

\* A free id is promised to the value of a block.
LEMMA KnownOpened ==
    ASSUME NEW bs \in Seq(BlockRecs), NEW b \in BlockRecs, NEW s, NEW wrn, NEW tch, NEW f,
           Known(s, bs, wrn, tch, f),
           b.use \in Names => Free(s, bs, wrn, tch, b.id) /\ b.id < f
    PROVE  Known(s, Append(bs, b), wrn, tch, f)
<1> DEFINE cs == Append(bs, b)
           m == Len(bs)
<1>1. /\ Len(cs) = m + 1 /\ m \in Nat /\ cs[m + 1] = b /\ \A k \in 1 .. m : cs[k] = bs[k]
  OBVIOUS
<1> HIDE DEF cs, m
<1>2. \A k, id : Promised(cs, k, id) =>
         \/ k = m + 1 /\ b.use \in Names /\ id = b.id
         \/ Promised(bs, k, id)
  <2> SUFFICES ASSUME NEW k \in 1 .. m + 1, k # m + 1 PROVE k \in 1 .. m
    BY <1>1 DEF Promised, m
  <2> QED BY <1>1
<1> SUFFICES ASSUME NEW id \in Nat PROVE Tracked(s, cs, wrn, tch, f, id)
  BY DEF Known, cs
<1>3. Tracked(s, bs, wrn, tch, f, id)
  BY DEF Known
<1>4. CASE b.use \in Names /\ id = b.id
  <2>1. \A k : ~Promised(bs, k, id)
    BY <1>4 DEF Free, Pending
  <2>2. \A k : Promised(cs, k, id) => k = m + 1
    BY <1>2, <2>1
  <2> QED BY <1>3, <1>4, <2>2 DEF Tracked, Free
<1>5. CASE ~(b.use \in Names /\ id = b.id)
  <2>1. \A k : Promised(cs, k, id) => Promised(bs, k, id)
    BY <1>2, <1>5
  <2>2. Pending(cs, id) => Pending(bs, id)
    BY <2>1 DEF Pending
  <2> QED BY <1>3, <2>1, <2>2 DEF Tracked, Free
<1> QED BY <1>4, <1>5

\* Blocks change or are closed; what a closed one was promised is free again.
LEMMA KnownClosed ==
    ASSUME NEW bs \in Seq(BlockRecs), NEW cs \in Seq(BlockRecs), Len(cs) <= Len(bs),
           \A k \in 1 .. Len(cs) : cs[k].use = bs[k].use /\ cs[k].id = bs[k].id,
           NEW s, NEW wrn, NEW tch, NEW f, Known(s, bs, wrn, tch, f)
    PROVE  /\ Known(s, cs, wrn, tch, f)
           /\ \A k \in Len(cs) + 1 .. Len(bs) : bs[k].use \in Names =>
                 bs[k].id < f /\ Free(s, cs, wrn, tch, bs[k].id)
<1>1. Len(cs) \in Nat /\ Len(bs) \in Nat
  OBVIOUS
<1>2. \A k, id : Promised(cs, k, id) => Promised(bs, k, id)
  BY <1>1 DEF Promised
<1>3. \A id : Pending(cs, id) => Pending(bs, id)
  BY <1>2 DEF Pending
<1>4. ASSUME NEW id \in Nat PROVE Tracked(s, cs, wrn, tch, f, id)
  <2>1. Tracked(s, bs, wrn, tch, f, id)
    BY DEF Known
  <2> QED BY <1>2, <1>3, <2>1 DEF Tracked, Free
<1>5. ASSUME NEW k \in Len(cs) + 1 .. Len(bs), bs[k].use \in Names
      PROVE  bs[k].id < f /\ Free(s, cs, wrn, tch, bs[k].id)
  <2> DEFINE id == bs[k].id
  <2>1. k \in 1 .. Len(bs) /\ k \notin 1 .. Len(cs)
    BY <1>1
  <2>2. bs[k] \in BlockRecs
    BY <2>1, BlockTypes
  <2>3. id \in Nat
    BY <2>2 DEF BlockRecs
  <2>4. Promised(bs, k, id)
    BY <1>5, <2>1 DEF Promised
  <2> HIDE DEF id
  <2>5. Tracked(s, bs, wrn, tch, f, id)
    BY <2>3 DEF Known
  <2>6. Pending(bs, id)
    BY <2>4 DEF Pending
  <2>7. ~Pending(cs, id)
    <3> SUFFICES ASSUME NEW j, Promised(cs, j, id) PROVE FALSE
      BY DEF Pending
    <3>1. j = k
      BY <1>2, <2>4, <2>5 DEF Tracked
    <3> QED BY <2>1, <3>1 DEF Promised
  <2>8. id < f /\ Free(s, cs, wrn, tch, id)
    BY <2>5, <2>6, <2>7 DEF Tracked, Free
  <2> QED BY <2>8 DEF id
<1> QED BY <1>4, <1>5 DEF Known

\* The innermost layer goes out of scope, with its warnings.
LEMMA KnownLeft ==
    ASSUME NEW s \in Scopes, Len(s) # 0, NEW t \in Scopes, Len(t) = Len(s) - 1, Kept(s, t, Len(s) - 1),
           NEW bs, NEW wrn, NEW tch, NEW f, Known(s, bs, wrn, tch, f)
    PROVE  Known(t, bs, wrn \cup Unused(s[Len(s)]), tch, f)
<1> DEFINE m == Len(s)
           gone == Unused(s[m])
<1>1. m \in Nat \ {0} /\ m \in 1 .. m /\ DOMAIN s[m] = 1 .. Len(s[m])
  BY ScopeTypes
<1>2. \A id : /\ <<"T0032", id>> \in gone => \E i : Owns(s, m, i, id) /\ ~s[m][i].used
              /\ <<"T0077", id>> \in gone => \E i : Owns(s, m, i, id) /\ ~s[m][i].reassigned
  <2> TAKE id
  <2>1. ASSUME <<"T0032", id>> \in gone PROVE \E i : Owns(s, m, i, id) /\ ~s[m][i].used
    <3>1. PICK i \in DOMAIN s[m] : /\ id = s[m][i].id /\ ~s[m][i].used
                                   /\ s[m][i].origin \in {"let", "var", "param"}
      BY <2>1 DEF Unused
    <3> QED BY <1>1, <3>1 DEF Owns
  <2>2. ASSUME <<"T0077", id>> \in gone PROVE \E i : Owns(s, m, i, id) /\ ~s[m][i].reassigned
    <3>1. PICK i \in DOMAIN s[m] : /\ id = s[m][i].id /\ ~s[m][i].reassigned
                                   /\ s[m][i].origin = "var"
      BY <2>2 DEF Unused
    <3> QED BY <1>1, <3>1 DEF Owns
  <2> QED BY <2>1, <2>2
<1> HIDE DEF gone
<1>3. \A l, i, id : Owns(t, l, i, id) => /\ Owns(s, l, i, id) /\ l # m
                                         /\ s[l][i].used => t[l][i].used
                                         /\ s[l][i].reassigned => t[l][i].reassigned
  <2> SUFFICES ASSUME NEW l \in 1 .. m - 1, NEW i \in 1 .. Len(t[l])
               PROVE  /\ l \in 1 .. m /\ l # m /\ i \in 1 .. Len(s[l])
                      /\ t[l][i].origin = s[l][i].origin /\ t[l][i].id = s[l][i].id
                      /\ s[l][i].used => t[l][i].used
                      /\ s[l][i].reassigned => t[l][i].reassigned
    BY DEF Owns
  <2> QED BY <1>1 DEF Kept, Evolves
<1> HIDE DEF m
<1> SUFFICES ASSUME NEW id \in Nat PROVE Tracked(t, bs, wrn \cup gone, tch, f, id)
  BY DEF Known, gone, m
<1>4. Tracked(s, bs, wrn, tch, f, id)
  BY DEF Known
<1>5. Owned(t, id) => Owned(s, id)
  BY <1>3 DEF Owned
<1>6. CASE ~Warned(gone, id)
  <2>1. /\ <<"T0032", id>> \in wrn \cup gone <=> <<"T0032", id>> \in wrn
        /\ <<"T0077", id>> \in wrn \cup gone <=> <<"T0077", id>> \in wrn
    BY <1>6 DEF Warned
  <2>2. Warned(wrn \cup gone, id) <=> Warned(wrn, id)
    BY <2>1 DEF Warned
  <2> QED BY <1>3, <1>4, <1>5, <2>1, <2>2 DEF Tracked, Free
<1>7. CASE Warned(gone, id)
  <2>1. PICK i : Owns(s, m, i, id)
    BY <1>2, <1>7 DEF Warned
  <2>2. Owned(s, id)
    BY <2>1 DEF Owned
  <2>3. ~Pending(bs, id) /\ ~Warned(wrn, id) /\ id < f
    BY <1>4, <2>2 DEF Tracked, Free
  <2>4. ~Owned(t, id)
    <3> SUFFICES ASSUME NEW l, NEW j, Owns(t, l, j, id) PROVE FALSE
      BY DEF Owned
    <3>1. Owns(s, l, j, id) /\ l # m
      BY <1>3
    <3> QED BY <1>4, <2>1, <3>1 DEF Tracked
  <2>5. <<"read", id>> \in tch => <<"T0032", id>> \notin wrn \cup gone
    BY <1>2, <1>4, <2>3 DEF Tracked, Warned
  <2>6. <<"written", id>> \in tch => <<"T0077", id>> \notin wrn \cup gone
    BY <1>2, <1>4, <2>3 DEF Tracked, Warned
  <2> QED BY <1>4, <2>3, <2>4, <2>5, <2>6 DEF Tracked, Owned
<1> QED BY <1>6, <1>7

\* What executions touch is in scope and marked.
Noted(s, R) ==
    \A id : /\ <<"read", id>> \in R => \E l, i : Owns(s, l, i, id) /\ s[l][i].used
            /\ <<"written", id>> \in R => \E l, i : Owns(s, l, i, id) /\ s[l][i].reassigned

LEMMA KnownTouched ==
    ASSUME NEW s, NEW bs, NEW wrn, NEW tch, NEW f, Known(s, bs, wrn, tch, f), NEW R, Noted(s, R)
    PROVE  Known(s, bs, wrn, tch \cup R, f)
<1> SUFFICES ASSUME NEW id \in Nat PROVE Tracked(s, bs, wrn, tch \cup R, f, id)
  BY DEF Known
<1>1. Tracked(s, bs, wrn, tch, f, id)
  BY DEF Known
<1>2. CASE ~Seen(R, id)
  <2>1. /\ <<"read", id>> \in tch \cup R <=> <<"read", id>> \in tch
        /\ <<"written", id>> \in tch \cup R <=> <<"written", id>> \in tch
    BY <1>2 DEF Seen
  <2>2. Seen(tch \cup R, id) <=> Seen(tch, id)
    BY <2>1 DEF Seen
  <2> QED BY <1>1, <2>1, <2>2 DEF Tracked, Free
<1>3. CASE Seen(R, id)
  <2>1. Owned(s, id)
    BY <1>3 DEF Seen, Noted, Owned
  <2>2. id < f /\ ~Pending(bs, id) /\ ~Warned(wrn, id)
    BY <1>1, <2>1 DEF Tracked, Free
  <2>3. <<"read", id>> \in tch \cup R => \A l, i : Owns(s, l, i, id) => s[l][i].used
    BY <1>1 DEF Tracked, Noted
  <2>4. <<"written", id>> \in tch \cup R => \A l, i : Owns(s, l, i, id) => s[l][i].reassigned
    BY <1>1 DEF Tracked, Noted
  <2> QED BY <1>1, <2>2, <2>3, <2>4 DEF Tracked, Warned
<1> QED BY <1>2, <1>3

-----------------------------------------------------------------------------
(* Reads and writes.                                                        *)

ReadIn(ws, e) ==
    UNION {{<<"read", CellOf(w, n).id>> : n \in {m \in NamesIn(e) : FramesOf(w, m) # {}}} : w \in ws}

LEMMA NamesOfExpression ==
    ASSUME NEW e \in Expressions
    PROVE  NamesIn(e) \subseteq Names \cup Relvars
<1>1. CASE e = CallOper \/ \E ty \in Solid : e = Lit(ty) \/ e = WriteLine(Lit(ty))
  BY <1>1 DEF NamesIn, CallOper, Lit, WriteLine
<1>2. CASE \E n \in Names \cup Relvars : e = Name(n) \/ e = WriteLine(Name(n))
  BY <1>2 DEF NamesIn, Name, WriteLine
<1> QED BY <1>1, <1>2, ExpressionCases

\* The binding behind the cell of a name that an execution has.
LEMMA CellOwned ==
    ASSUME NEW s \in Scopes, NEW w, NEW U, Agrees(s, Len(s), w, U),
           NEW n, NEW l, NEW i, Visible(s, Len(s), n, l, i), FramesOf(w, n) # {}
    PROVE  Owns(s, l, i, CellOf(w, n).id)
<1>1. n \in Names
  BY WorldTypes DEF FramesOf, Agrees
<1>2. Len(s) \in 0 .. Len(s) /\ l \in 1 .. Len(s) /\ i \in 1 .. Len(s[l]) /\ s[l][i].name = n
  BY ScopeTypes DEF Visible
<1>3. Fits(s[l][i], CellOf(w, n), <<l, i>> \in U)
  BY <1>1, <1>2, FrameVisible
<1>4. s[l][i] \in Bindings
  BY <1>2, ScopeTypes
<1>5. s[l][i].origin # "relvar"
  BY <1>1, <1>2, <1>4, RelvarsAreNotBound DEF Bindings, Proper, Relvars
<1> QED BY <1>2, <1>3, <1>5 DEF Owns, Fits

LEMMA ReadsNoted ==
    ASSUME NEW s \in Scopes, NEW e, NEW c, Evaluates(s, e, c),
           NEW ws, \A w \in ws : Agrees(s, Len(s), w, UninitSnapshot(s))
    PROVE  Noted(c.scope, ReadIn(ws, e))
<1>1. OnlyMarks(s, c.scope)
  BY DEF Evaluates
<1>2. ASSUME NEW id, <<"read", id>> \in ReadIn(ws, e)
      PROVE  \E l, i : Owns(c.scope, l, i, id) /\ c.scope[l][i].used
  <2>1. PICK w \in ws : \E n \in NamesIn(e) : FramesOf(w, n) # {} /\ id = CellOf(w, n).id
    BY <1>2 DEF ReadIn
  <2>2. PICK n \in NamesIn(e) : FramesOf(w, n) # {} /\ id = CellOf(w, n).id
    BY <2>1
  <2>3. PICK l, i : Visible(s, Len(s), n, l, i) /\ c.scope[l][i].used
    BY DEF Evaluates
  <2>4. Agrees(s, Len(s), w, UninitSnapshot(s))
    OBVIOUS
  <2>5. Owns(s, l, i, id)
    BY <2>2, <2>3, <2>4, CellOwned
  <2>6. Owns(c.scope, l, i, id)
    BY <1>1, <2>5 DEF Owns, OnlyMarks, Reread
  <2> QED BY <2>3, <2>6
<1>3. \A id : <<"written", id>> \notin ReadIn(ws, e)
  BY DEF ReadIn
<1> QED BY <1>2, <1>3 DEF Noted

LEMMA NotedMore ==
    ASSUME NEW s \in Scopes, NEW t \in Scopes, Len(t) = Len(s), Kept(s, t, Len(s)), NEW R, Noted(s, R)
    PROVE  Noted(t, R)
<1>1. \A l, i, id : /\ Owns(s, l, i, id) /\ s[l][i].used => Owns(t, l, i, id) /\ t[l][i].used
                    /\ Owns(s, l, i, id) /\ s[l][i].reassigned => Owns(t, l, i, id) /\ t[l][i].reassigned
  BY DEF Owns, Kept, Evolves
<1> QED BY <1>1 DEF Noted

\* An expression, where the program can be written on.
LEMMA ReadsHere ==
    ASSUME Flowing, CanGoOn, NEW e \in Expressions, CheckExpr(scope, e).errors = {}
    PROVE  LET x == CheckExpr(scope, e).scope
           IN  /\ x \in Scopes /\ Len(x) = Len(scope) /\ Kept(scope, x, Len(scope))
               /\ Noted(x, Reads(e))
<1> DEFINE c == CheckExpr(scope, e)
<1>1. /\ scope \in Scopes /\ \A w \in worlds : Agrees(scope, Len(scope), w, UninitSnapshot(scope))
  BY Here
<1>2. Evaluates(scope, e, c)
  BY <1>1, ExprOK
<1> HIDE DEF c
<1>3. Noted(c.scope, ReadIn(worlds, e))
  BY <1>1, <1>2, ReadsNoted
<1>4. Reads(e) = ReadIn(worlds, e)
  BY DEF Reads, ReadIn
<1>5. /\ c.scope \in Scopes /\ OnlyMarks(scope, c.scope)
  BY <1>2 DEF Evaluates
<1> QED BY <1>1, <1>3, <1>4, <1>5, MarksKeep DEF c, OnlyMarks

-----------------------------------------------------------------------------
(* Statements.                                                              *)

LEMMA FreshCounts ==
    ASSUME Ground
    PROVE  /\ Fresh \in Nat
           /\ size' = size => Fresh' = Fresh
           /\ size' = [size EXCEPT !.stmts = @ + 1] \/ size' = [size EXCEPT !.blocks = @ + 1] =>
                 Fresh' = Fresh + 1
BY DEF Ground, Fresh

\* A statement that binds nothing.
LEMMA StatementKnown ==
    ASSUME Flowing, Ground, CanGoOn, Known(scope, blocks, warned, touched, Fresh),
           NEW t \in Scopes, Len(t) = Len(scope), Kept(scope, t, Len(scope)),
           NEW reads, Noted(t, reads), scope' = t, touched' = touched \cup reads,
           blocks' = blocks, warned' = warned, size' = [size EXCEPT !.stmts = @ + 1]
    PROVE  Known(scope, blocks, warned, touched, Fresh)'
<1>1. scope \in Scopes /\ Fresh \in Nat /\ Fresh' = Fresh + 1
  BY Here, FreshCounts
<1>2. Known(t, blocks, warned, touched, Fresh)
  BY <1>1, KnownKept
<1>3. Known(t, blocks, warned, touched \cup reads, Fresh)
  BY <1>2, KnownTouched
<1>4. Known(t, blocks, warned, touched \cup reads, Fresh + 1)
  BY <1>1, <1>3, KnownLater
<1> QED BY <1>1, <1>4

LEMMA VerbKnown ==
    ASSUME Flowing, Ground, Known(scope, blocks, warned, touched, Fresh), errors' = {}, CanWrite,
           NEW e \in Expressions, CheckExpr(scope, e).errors = {},
           NEW c, NEW happens, Statement(c, worlds, happens, Reads(e)), UNCHANGED blocks,
           NEW r, c.scope = MarkUsed(CheckExpr(scope, e).scope, r) \/ c.scope = CheckExpr(scope, e).scope
    PROVE  Known(scope, blocks, warned, touched, Fresh)'
<1> DEFINE x == CheckExpr(scope, e).scope
<1>1. CanGoOn
  BY DEF CanWrite
<1>2. /\ x \in Scopes /\ Len(x) = Len(scope) /\ Kept(scope, x, Len(scope))
      /\ Noted(x, Reads(e)) /\ scope \in Scopes
  BY <1>1, ReadsHere, Here
<1>3. /\ scope' = c.scope /\ touched' = touched \cup Reads(e) /\ warned' = warned
      /\ size' = [size EXCEPT !.stmts = @ + 1]
  BY DEF Statement, Step
<1> HIDE DEF x
<1>4. c.scope \in Scopes /\ OnlyMarks(x, c.scope)
  BY <1>2, MarkUsedMarks, MarksReflexive DEF x
<1>5. Len(c.scope) = Len(x) /\ Kept(x, c.scope, Len(x))
  BY <1>2, <1>4, MarksKeep DEF OnlyMarks
<1>6. Noted(c.scope, Reads(e))
  BY <1>2, <1>4, <1>5, NotedMore
<1>7. Kept(scope, c.scope, Len(scope)) /\ Len(c.scope) = Len(scope)
  BY <1>2, <1>4, <1>5, KeptTransitive
<1> QED BY <1>1, <1>3, <1>4, <1>6, <1>7, StatementKnown

LEMMA AssignRelvarKnown ==
    ASSUME Flowing, Ground, Known(scope, blocks, warned, touched, Fresh), errors' = {}, AssignRelvar
    PROVE  Known(scope, blocks, warned, touched, Fresh)'
<1>1. PICK r, e, c, happens :
         /\ r \in Relvars /\ e \in Operands
         /\ CanWrite /\ UNCHANGED blocks
         /\ c = Checked(MarkUsed(CheckExpr(scope, e).scope, r), "Unit",
                        CheckExpr(scope, e).errors
                        \cup Mismatch("T0034", CheckExpr(scope, e).ty, "Relation"))
         /\ Statement(c, worlds, happens, Reads(e))
  BY DEF AssignRelvar
<1>2. CheckExpr(scope, e).errors = {} /\ c.scope = MarkUsed(CheckExpr(scope, e).scope, r)
  BY <1>1 DEF Statement, Step, Checked
<1>3. e \in Expressions
  BY <1>1, ExpressionSets
<1> QED BY <1>1, <1>2, <1>3, VerbKnown

\* truncate and delete evaluate nothing.
LEMMA TruncateKnown ==
    ASSUME Flowing, Ground, Known(scope, blocks, warned, touched, Fresh), errors' = {},
           TruncateStmt \/ DeleteStmt
    PROVE  Known(scope, blocks, warned, touched, Fresh)'
<1>1. PICK n, c, happens :
         /\ n \in Names \cup Relvars
         /\ CanWrite /\ UNCHANGED blocks
         /\ c = (IF n \in Relvars THEN Checked(MarkUsed(scope, n), "Unit", TransactionNeeded(n))
                                  ELSE Checked(scope, "Unit", {"T0033"}))
            \/ c = (IF n \in Relvars THEN CheckName(scope, n) ELSE Checked(scope, "Unit", {"T0033"}))
         /\ Statement(c, worlds, happens, {})
  BY DEF TruncateStmt, DeleteStmt
<1>2. c.errors = {} /\ scope' = c.scope
  BY <1>1 DEF Statement, Step
<1>3. CanGoOn /\ scope \in Scopes
  BY <1>1, Here DEF CanWrite
<1>4. c.scope = MarkUsed(scope, n) \/ c.scope = scope
  BY <1>1 DEF Checked, CheckName
<1>5. c.scope \in Scopes /\ OnlyMarks(scope, c.scope)
  BY <1>3, <1>4, MarkUsedMarks, MarksReflexive
<1>6. Len(c.scope) = Len(scope) /\ Kept(scope, c.scope, Len(scope))
  BY <1>3, <1>5, MarksKeep DEF OnlyMarks
<1>7. Noted(c.scope, {})
  BY DEF Noted
<1>8. touched' = touched \cup {} /\ warned' = warned /\ size' = [size EXCEPT !.stmts = @ + 1]
  BY <1>1 DEF Statement, Step
<1> QED BY <1>1, <1>2, <1>3, <1>5, <1>6, <1>7, <1>8, StatementKnown

LEMMA InsertKnown ==
    ASSUME Flowing, Ground, Known(scope, blocks, warned, touched, Fresh), errors' = {}, InsertStmt
    PROVE  Known(scope, blocks, warned, touched, Fresh)'
<1>0. PICK n \in Names \cup Relvars : \E e \in Sources(n) : \E c, happens :
         /\ CanWrite /\ UNCHANGED blocks
         /\ c = IF n \in Relvars
                THEN Checked(MarkUsed(CheckExpr(scope, e).scope, n), "Unit",
                             CheckExpr(scope, e).errors \cup TransactionNeeded(n)
                             \cup Mismatch("T0034", CheckExpr(scope, e).ty, "Relation"))
                ELSE [CheckExpr(scope, e) EXCEPT !.errors = @ \cup {"T0033"}]
         /\ Statement(c, worlds, happens, Reads(e))
  BY DEF InsertStmt
<1>1. PICK e \in Sources(n) : \E c, happens :
         /\ CanWrite /\ UNCHANGED blocks
         /\ c = IF n \in Relvars
                THEN Checked(MarkUsed(CheckExpr(scope, e).scope, n), "Unit",
                             CheckExpr(scope, e).errors \cup TransactionNeeded(n)
                             \cup Mismatch("T0034", CheckExpr(scope, e).ty, "Relation"))
                ELSE [CheckExpr(scope, e) EXCEPT !.errors = @ \cup {"T0033"}]
         /\ Statement(c, worlds, happens, Reads(e))
  BY <1>0
<1>2. PICK c, happens :
         /\ CanWrite /\ UNCHANGED blocks
         /\ c = IF n \in Relvars
                THEN Checked(MarkUsed(CheckExpr(scope, e).scope, n), "Unit",
                             CheckExpr(scope, e).errors \cup TransactionNeeded(n)
                             \cup Mismatch("T0034", CheckExpr(scope, e).ty, "Relation"))
                ELSE [CheckExpr(scope, e) EXCEPT !.errors = @ \cup {"T0033"}]
         /\ Statement(c, worlds, happens, Reads(e))
  BY <1>1
<1>3. c.errors = {}
  BY <1>2 DEF Statement, Step
<1>4. n \in Relvars
  <2>1. n \notin Relvars => c.errors = CheckExpr(scope, e).errors \cup {"T0033"}
    BY <1>2, ErrorsField
  <2> QED BY <1>3, <2>1
<1>5. c.scope = MarkUsed(CheckExpr(scope, e).scope, n) /\ CheckExpr(scope, e).errors = {}
  BY <1>2, <1>3, <1>4 DEF Checked
<1>6. e \in Expressions
  BY ExpressionSets
<1> QED BY <1>2, <1>5, <1>6, VerbKnown

LEMMA ExprKnown ==
    ASSUME Flowing, Ground, Known(scope, blocks, warned, touched, Fresh), errors' = {},
           ExprStmt \/ LoadReverse
    PROVE  Known(scope, blocks, warned, touched, Fresh)'
<1>1. CASE ExprStmt
  <2>1. PICK e \in Calls :
           CanWrite /\ UNCHANGED blocks /\ Statement(CheckExpr(scope, e), worlds, Happens(e), Reads(e))
    BY <1>1 DEF ExprStmt
  <2>2. CheckExpr(scope, e).errors = {} /\ e \in Expressions
    BY <2>1, ExpressionSets DEF Statement, Step
  <2> QED BY <2>1, <2>2, VerbKnown
<1>2. CASE LoadReverse
  <2>1. PICK n, e, found, c, happens :
           /\ n \in Names \cup Relvars /\ e \in {Name(m) : m \in Names}
           /\ CanWrite /\ UNCHANGED blocks
           /\ c = Checked(MarkUsed(CheckExpr(scope, e).scope, n), "Unit", CheckExpr(scope, e).errors \cup found)
           /\ Statement(c, worlds, happens, Reads(e))
    BY <1>2 DEF LoadReverse
  <2>2. CheckExpr(scope, e).errors = {} /\ c.scope = MarkUsed(CheckExpr(scope, e).scope, n)
    BY <2>1 DEF Statement, Step, Checked
  <2>3. e \in Expressions
    BY <2>1, ExpressionSets
  <2> QED BY <2>1, <2>2, <2>3, VerbKnown
<1> QED BY <1>1, <1>2

LEMMA UpdateKnown ==
    ASSUME Flowing, Ground, Known(scope, blocks, warned, touched, Fresh), errors' = {}, UpdateStmt
    PROVE  Known(scope, blocks, warned, touched, Fresh)'
<1>0. PICK n \in Names \cup Relvars : \E e \in Sources(n) : \E x, y, c, happens :
         /\ CanWrite /\ UNCHANGED blocks
         /\ x = CheckName(scope, n) /\ y = CheckExpr(x.scope, e)
         /\ c = IF n \in Relvars
                THEN Checked(y.scope, "Unit", x.errors \cup y.errors \cup Mismatch("T0034", y.ty, "Integer"))
                ELSE Checked(scope, "Unit", {"T0033"})
         /\ Statement(c, worlds, happens, Reads(e))
  BY DEF UpdateStmt
<1>1. PICK e \in Sources(n) : \E x, y, c, happens :
         /\ CanWrite /\ UNCHANGED blocks
         /\ x = CheckName(scope, n) /\ y = CheckExpr(x.scope, e)
         /\ c = IF n \in Relvars
                THEN Checked(y.scope, "Unit", x.errors \cup y.errors \cup Mismatch("T0034", y.ty, "Integer"))
                ELSE Checked(scope, "Unit", {"T0033"})
         /\ Statement(c, worlds, happens, Reads(e))
  BY <1>0
<1>2. PICK x, y, c, happens :
         /\ CanWrite /\ UNCHANGED blocks
         /\ x = CheckName(scope, n) /\ y = CheckExpr(x.scope, e)
         /\ c = IF n \in Relvars
                THEN Checked(y.scope, "Unit", x.errors \cup y.errors \cup Mismatch("T0034", y.ty, "Integer"))
                ELSE Checked(scope, "Unit", {"T0033"})
         /\ Statement(c, worlds, happens, Reads(e))
  BY <1>1
<1>3. c.errors = {} /\ scope' = c.scope /\ touched' = touched \cup Reads(e) /\ warned' = warned
      /\ size' = [size EXCEPT !.stmts = @ + 1]
  BY <1>2 DEF Statement, Step
<1>4. c.scope = y.scope /\ x.errors = {} /\ y.errors = {}
  BY <1>2, <1>3 DEF Checked
<1>5. /\ CanGoOn /\ scope \in Scopes /\ e \in Expressions
      /\ \A w \in worlds : Agrees(scope, Len(scope), w, UninitSnapshot(scope))
  BY <1>2, ExpressionSets, Here DEF CanWrite
<1>6. x.scope \in Scopes /\ OnlyMarks(scope, x.scope)
  BY <1>2, <1>4, <1>5, NameChecked, MarkUsedMarks
<1>7. Kept(scope, x.scope, Len(scope)) /\ UninitSnapshot(x.scope) = UninitSnapshot(scope)
      /\ Len(x.scope) = Len(scope)
  BY <1>5, <1>6, MarksKeep DEF OnlyMarks
<1>8. \A w \in worlds : Agrees(x.scope, Len(x.scope), w, UninitSnapshot(x.scope))
  BY <1>5, <1>6, <1>7, AgreesKept
<1>9. Evaluates(x.scope, e, y)
  BY <1>2, <1>4, <1>5, <1>6, ExprOK
<1>10. Noted(y.scope, ReadIn(worlds, e))
  BY <1>6, <1>8, <1>9, ReadsNoted
<1>11. Noted(y.scope, Reads(e))
  BY <1>10 DEF Reads, ReadIn
<1>12. y.scope \in Scopes /\ OnlyMarks(x.scope, y.scope)
  BY <1>9 DEF Evaluates
<1>13. Kept(x.scope, y.scope, Len(scope)) /\ Len(y.scope) = Len(scope)
  BY <1>6, <1>7, <1>12, MarksKeep DEF OnlyMarks
<1>14. Kept(scope, y.scope, Len(scope))
  BY <1>5, <1>6, <1>7, <1>12, <1>13, KeptTransitive
<1> QED BY <1>2, <1>3, <1>4, <1>5, <1>11, <1>12, <1>13, <1>14, StatementKnown

\* A statement that binds a name, under the new id.
LEMMA DeclaredKnown ==
    ASSUME Flowing, Ground, CanGoOn, Known(scope, blocks, warned, touched, Fresh),
           NEW x \in Scopes, Len(x) = Len(scope), Kept(scope, x, Len(scope)),
           NEW reads, Noted(x, reads), NEW b \in Bindings, b.id = Fresh,
           scope' = Insert(x, b), touched' = touched \cup reads,
           blocks' = blocks, warned' = warned, size' = [size EXCEPT !.stmts = @ + 1]
    PROVE  Known(scope, blocks, warned, touched, Fresh)'
<1>1. scope \in Scopes /\ Fresh \in Nat /\ Fresh' = Fresh + 1 /\ Len(scope) # 0
  BY Here, FreshCounts
<1>2. Known(x, blocks, warned, touched, Fresh)
  BY <1>1, KnownKept
<1>3. Known(x, blocks, warned, touched \cup reads, Fresh)
  BY <1>2, KnownTouched
<1>4. /\ Known(x, blocks, warned, touched \cup reads, Fresh + 1)
      /\ Free(x, blocks, warned, touched \cup reads, Fresh) /\ Fresh < Fresh + 1
  BY <1>1, <1>3, KnownLater
<1>5. Known(Insert(x, b), blocks, warned, touched \cup reads, Fresh + 1)
  BY <1>1, <1>4, KnownInsert
<1> QED BY <1>1, <1>5

LEMMA BindKnown ==
    ASSUME Flowing, Ground, Known(scope, blocks, warned, touched, Fresh), errors' = {},
           LetStmt \/ VarStmt
    PROVE  Known(scope, blocks, warned, touched, Fresh)'
<1>1. PICK origin \in {"let", "var"}, n \in Names, e \in Operands \cup {CallOper}, ann \in Annotations :
         CanWrite /\ UNCHANGED blocks /\ Bind(n, e, origin, ann)
  BY DEF LetStmt, VarStmt
<1>2. PICK x, ty, found, b, c, ws :
         /\ x = CheckExpr(scope, e)
         /\ ty = IF ann = "none" THEN x.ty ELSE ann
         /\ found = IF ann = "none" THEN {} ELSE Mismatch("T0010", x.ty, ann)
         /\ b = Binding(n, ty, origin, Fresh)
         /\ c = Checked(Insert(x.scope, b), ty, x.errors \cup found)
         /\ Statement(c, ws, Happens(e), Reads(e))
  BY <1>1 DEF Bind
<1>3. x.errors = {} /\ scope' = Insert(x.scope, b) /\ touched' = touched \cup Reads(e) /\ warned' = warned
      /\ size' = [size EXCEPT !.stmts = @ + 1]
  BY <1>2 DEF Statement, Step, Checked
<1>4. e \in Expressions /\ CanGoOn
  BY <1>1, ExpressionSets DEF CanWrite
<1>5. /\ x.scope \in Scopes /\ Len(x.scope) = Len(scope) /\ Kept(scope, x.scope, Len(scope))
      /\ Noted(x.scope, Reads(e)) /\ x.ty \in Types \ {"Unknown"}
  BY <1>2, <1>3, <1>4, ReadsHere, ExprHere
<1>6. ty \in Types \ {"Unknown"}
  BY <1>2, <1>5, TypesAreWritten DEF Types, Solid, Annotations
<1>7. b \in Bindings /\ b.id = Fresh
  <2>1. b \in Bindings
    BY <1>2, <1>6, FreshIsNew, NewBinding
  <2> QED BY <1>2, <2>1 DEF Binding
<1> QED BY <1>1, <1>3, <1>4, <1>5, <1>7, DeclaredKnown

LEMMA DeclareKnown ==
    ASSUME Flowing, Ground, Known(scope, blocks, warned, touched, Fresh), errors' = {}, DeclareUnassigned
    PROVE  Known(scope, blocks, warned, touched, Fresh)'
<1>1. PICK n, origin, ann, ty, b0, b, c, ws :
         /\ n \in Names /\ origin \in {"let", "var"} /\ ann \in Annotations
         /\ CanWrite /\ UNCHANGED blocks
         /\ ty = IF ann = "none" THEN "Unknown" ELSE ann
         /\ b0 = Binding(n, ty, origin, Fresh)
         /\ b = [b0 EXCEPT !.initialized = origin = "let"]
         /\ c = Checked(Insert(scope, b), b0.ty, IF origin = "let" THEN {"T0078"} ELSE {})
         /\ Statement(c, ws, {}, {})
  BY DEF DeclareUnassigned
<1>2. origin = "var" /\ scope' = Insert(scope, b) /\ CanGoOn
  BY <1>1 DEF Statement, Step, Checked, CanWrite
<1>3. b0 = Binding(n, ty, "var", Fresh) /\ b = [b0 EXCEPT !.initialized = FALSE]
  BY <1>1, <1>2
<1>4. ty \in Types
  BY <1>1 DEF Annotations, Types, Solid
<1>5. b \in Bindings
  BY <1>1, <1>3, <1>4, FreshIsNew, NewBinding
<1>6. b.id = Fresh
  BY <1>3 DEF Binding
<1>7. scope \in Scopes /\ Kept(scope, scope, Len(scope)) /\ Noted(scope, {})
  <2>1. scope \in Scopes /\ Len(scope) \in 0 .. Len(scope)
    BY <1>2, Here
  <2> QED BY <2>1, KeptReflexive DEF Noted
<1>8. touched' = touched \cup {} /\ warned' = warned /\ size' = [size EXCEPT !.stmts = @ + 1] /\ blocks' = blocks
  BY <1>1 DEF Statement, Step
<1> QED BY <1>2, <1>5, <1>6, <1>7, <1>8, DeclaredKnown

LEMMA WrittenCells ==
    ASSUME NEW n, NEW p \in Writes(n)
    PROVE  \E w \in worlds : FramesOf(w, n) # {} /\ p = <<"written", CellOf(w, n).id>>
<1> DEFINE one(w) == IF FramesOf(w, n) = {} THEN {} ELSE {<<"written", CellOf(w, n).id>>}
<1>1. PICK w \in worlds : p \in one(w)
  <2>1. Writes(n) = UNION {one(w) : w \in worlds}
    BY DEF Writes
  <2> HIDE DEF one
  <2> QED BY <2>1
<1>2. FramesOf(w, n) # {}
  BY <1>1
<1>3. p \in {<<"written", CellOf(w, n).id>>}
  BY <1>1, <1>2
<1> QED BY <1>2, <1>3

\* An accepted assignment, or load, marks the var it writes.
LEMMA WrittenKnown ==
    ASSUME Flowing, Ground, CanGoOn, Known(scope, blocks, warned, touched, Fresh),
           NEW e \in Expressions, NEW x, x = CheckExpr(scope, e), x.errors = {},
           NEW n \in Names, NEW ty \in Types \ {"Unknown"}, NEW frozen, frozen # {},
           TargetErrors(x.scope, n, ty, frozen) = {},
           scope' = (IF Origin(x.scope, n) = "var" THEN Assigned(x.scope, n, ty) ELSE x.scope),
           touched' = touched \cup (Reads(e) \cup Writes(n)), blocks' = blocks, warned' = warned,
           size' = [size EXCEPT !.stmts = @ + 1]
    PROVE  Known(scope, blocks, warned, touched, Fresh)'
<1> DEFINE m == Len(scope)
           s == x.scope
           t == Assigned(s, n, ty)
<1>1. /\ scope \in Scopes /\ m \in Nat \ {0}
      /\ \A w \in worlds : Agrees(scope, m, w, UninitSnapshot(scope)) /\ w.val = "Unit"
  BY Here
<1>2. /\ s \in Scopes /\ Len(s) = m /\ Kept(scope, s, m) /\ Noted(s, Reads(e)) /\ OnlyMarks(scope, s)
  BY ReadsHere, ExprHere
<1>3. Origin(s, n) = "var"
  BY DEF TargetErrors
<1>4. Bound(s, n) /\ Found(s, n).origin = "var" /\ scope' = t
  BY <1>3 DEF Origin
<1> HIDE DEF m, s
<1>5. PICK l, i : Visible(s, Len(s), n, l, i) /\ Found(s, n) = s[l][i] /\ s[l][i].origin = "var"
  BY <1>2, <1>4, LocateVisible
<1>6. t \in Scopes /\ Len(t) = m /\ Kept(s, t, m) /\ t[l][i].reassigned
  BY <1>2, <1>5, AssignedPlace
<1> HIDE DEF t
<1>7. Noted(t, Reads(e))
  BY <1>2, <1>6, NotedMore
<1>8. \A w \in worlds : Agrees(s, Len(s), w, UninitSnapshot(scope))
  BY <1>1, <1>2, AgreesKept
<1>9. \A id : /\ <<"read", id>> \notin Writes(n)
              /\ <<"written", id>> \in Writes(n) => \E k, j : Owns(t, k, j, id) /\ t[k][j].reassigned
  <2> TAKE id
  <2>1. ASSUME <<"written", id>> \in Writes(n) PROVE \E k, j : Owns(t, k, j, id) /\ t[k][j].reassigned
    <3>1. PICK w \in worlds : FramesOf(w, n) # {} /\ id = CellOf(w, n).id
      BY <2>1, WrittenCells
    <3>2. Owns(s, l, i, id)
      BY <1>2, <1>5, <1>8, <3>1, CellOwned
    <3>3. Owns(t, l, i, id)
      BY <1>2, <1>6, <3>2 DEF Owns, Kept, Evolves
    <3> QED BY <1>6, <3>3
  <2>2. <<"read", id>> \notin Writes(n)
    BY WrittenCells
  <2> QED BY <2>1, <2>2
<1>10. Noted(t, Reads(e) \cup Writes(n))
  BY <1>7, <1>9 DEF Noted
<1>11. Kept(scope, t, m)
  BY <1>1, <1>2, <1>6, KeptTransitive
<1> QED BY <1>4, <1>6, <1>10, <1>11, StatementKnown DEF m

LEMMA AssignLocalKnown ==
    ASSUME Flowing, Ground, Known(scope, blocks, warned, touched, Fresh), errors' = {}, AssignLocal
    PROVE  Known(scope, blocks, warned, touched, Fresh)'
<1>1. PICK n, e, x, c, ws, happens :
         /\ n \in Names /\ e \in Operands
         /\ CanWrite /\ UNCHANGED blocks
         /\ x = CheckExpr(scope, e)
         /\ c = Checked(IF Origin(x.scope, n) = "var" THEN Assigned(x.scope, n, x.ty) ELSE x.scope,
                        "Unit", x.errors \cup TargetErrors(x.scope, n, x.ty, {"T0033"}))
         /\ Statement(c, ws, happens, Reads(e) \cup Writes(n))
  BY DEF AssignLocal
<1>2. /\ x.errors = {} /\ TargetErrors(x.scope, n, x.ty, {"T0033"}) = {}
      /\ scope' = IF Origin(x.scope, n) = "var" THEN Assigned(x.scope, n, x.ty) ELSE x.scope
      /\ touched' = touched \cup (Reads(e) \cup Writes(n)) /\ warned' = warned
      /\ size' = [size EXCEPT !.stmts = @ + 1] /\ blocks' = blocks
  BY <1>1 DEF Statement, Step, Checked
<1>3. e \in Expressions /\ CanGoOn
  BY <1>1, ExpressionSets DEF CanWrite
<1>4. x.ty \in Types \ {"Unknown"}
  BY <1>1, <1>2, <1>3, ExprHere
<1>5. {"T0033"} # {}
  OBVIOUS
<1> QED BY <1>1, <1>2, <1>3, <1>4, <1>5, WrittenKnown

LEMMA LoadKnown ==
    ASSUME Flowing, Ground, Known(scope, blocks, warned, touched, Fresh), errors' = {}, LoadStmt
    PROVE  Known(scope, blocks, warned, touched, Fresh)'
<1>1. PICK n, e, x, loaded, found, c, ws, happens :
         /\ n \in Names /\ e \in Operands
         /\ CanWrite /\ UNCHANGED blocks
         /\ x = CheckExpr(scope, e)
         /\ loaded = IF x.ty = "Relation" THEN "Sequence" ELSE "Unknown"
         /\ found = IF x.ty \in {"Relation", "Unknown"} THEN {} ELSE {"T0081"}
         /\ c = Checked(IF Origin(x.scope, n) = "var" THEN Assigned(x.scope, n, loaded) ELSE x.scope,
                        "Unit", x.errors \cup found \cup TargetErrors(x.scope, n, loaded, {"T0001"}))
         /\ Statement(c, ws, happens, Reads(e) \cup Writes(n))
  BY DEF LoadStmt
<1>2. /\ x.errors = {} /\ found = {} /\ TargetErrors(x.scope, n, loaded, {"T0001"}) = {}
      /\ scope' = IF Origin(x.scope, n) = "var" THEN Assigned(x.scope, n, loaded) ELSE x.scope
      /\ touched' = touched \cup (Reads(e) \cup Writes(n)) /\ warned' = warned
      /\ size' = [size EXCEPT !.stmts = @ + 1] /\ blocks' = blocks
  BY <1>1 DEF Statement, Step, Checked
<1>3. e \in Expressions /\ CanGoOn
  BY <1>1, ExpressionSets DEF CanWrite
<1>4. x.ty \in Types \ {"Unknown"}
  BY <1>1, <1>2, <1>3, ExprHere
<1>5. loaded \in Types \ {"Unknown"}
  BY <1>1, <1>2, <1>4 DEF Types, Solid
<1>6. {"T0001"} # {}
  OBVIOUS
<1> QED BY <1>1, <1>2, <1>3, <1>5, <1>6, WrittenKnown

LEMMA TailKnown ==
    ASSUME Flowing, Ground, Known(scope, blocks, warned, touched, Fresh), errors' = {}, TailExpr
    PROVE  Known(scope, blocks, warned, touched, Fresh)'
<1>1. PICK e \in Operands \cup Calls :
         /\ CanWrite /\ scope' = CheckExpr(scope, e).scope /\ CheckExpr(scope, e).errors = {}
         /\ touched' = touched \cup Reads(e) /\ warned' = warned /\ blocks' = blocks
         /\ size' = [size EXCEPT !.stmts = @ + 1]
  BY DEF TailExpr
<1>2. CanGoOn /\ e \in Expressions
  BY <1>1, ExpressionSets DEF CanWrite
<1>3. /\ scope' \in Scopes /\ Len(scope') = Len(scope) /\ Kept(scope, scope', Len(scope))
      /\ Noted(scope', Reads(e))
  BY <1>1, <1>2, ReadsHere
<1> QED BY <1>1, <1>2, <1>3, StatementKnown

LEMMA ReturnKnown ==
    ASSUME Flowing, Ground, Known(scope, blocks, warned, touched, Fresh), errors' = {}, ReturnStmt
    PROVE  Known(scope, blocks, warned, touched, Fresh)'
<1>1. PICK e, x, c, ws, happens, found :
         /\ e \in Operands \cup {Lit("Unit")}
         /\ CanWrite /\ blocks' = WithTop([Top EXCEPT !.diverges = TRUE])
         /\ x = CheckExpr(scope, e)
         /\ c = Checked(x.scope, "Never", x.errors \cup found)
         /\ Statement(c, ws, happens, Reads(e))
  <2>1. PICK e, left :
           /\ e \in Operands \cup {Lit("Unit")}
           /\ CanWrite /\ blocks' = WithTop([Top EXCEPT !.diverges = TRUE])
           /\ Statement(Checked(CheckExpr(scope, e).scope, "Never",
                                CheckExpr(scope, e).errors \cup Mismatch("T0018", CheckExpr(scope, e).ty, returns)
                                \cup (IF txDepth > 0 THEN {"T0093"} ELSE {})),
                        {}, Happens(e) \cup left
                            \cup UNION {ExitFaults(w.depth, Value(w, e)) : w \in worlds},
                        Reads(e))
    BY DEF ReturnStmt
  <2> DEFINE found == Mismatch("T0018", CheckExpr(scope, e).ty, returns)
                      \cup (IF txDepth > 0 THEN {"T0093"} ELSE {})
  <2>2. CheckExpr(scope, e).errors \cup found =
           CheckExpr(scope, e).errors \cup Mismatch("T0018", CheckExpr(scope, e).ty, returns)
           \cup (IF txDepth > 0 THEN {"T0093"} ELSE {})
    OBVIOUS
  <2> HIDE DEF found
  <2> QED BY <2>1, <2>2
<1>2. x.errors = {} /\ scope' = x.scope /\ touched' = touched \cup Reads(e) /\ warned' = warned
      /\ size' = [size EXCEPT !.stmts = @ + 1]
  BY <1>1 DEF Statement, Step, Checked
<1>3. CanGoOn /\ e \in Expressions
  BY <1>1, ExpressionSets DEF CanWrite
<1>4. /\ x.scope \in Scopes /\ Len(x.scope) = Len(scope) /\ Kept(scope, x.scope, Len(scope))
      /\ Noted(x.scope, Reads(e)) /\ scope \in Scopes
  BY <1>1, <1>2, <1>3, ReadsHere, Here
<1>5. /\ Fresh \in Nat /\ Fresh' = Fresh + 1
  BY <1>2, FreshCounts
<1>6. Known(x.scope, blocks, warned, touched, Fresh)
  BY <1>4, KnownKept
<1>7. Known(x.scope, blocks, warned, touched \cup Reads(e), Fresh)
  BY <1>4, <1>6, KnownTouched
<1>8. Known(x.scope, blocks, warned, touched \cup Reads(e), Fresh + 1)
  BY <1>5, <1>7, KnownLater
<1>9. /\ blocks \in Seq(BlockRecs) /\ blocks' \in Seq(BlockRecs) /\ Len(blocks') <= Len(blocks)
      /\ \A k \in 1 .. Len(blocks') : blocks'[k].use = blocks[k].use /\ blocks'[k].id = blocks[k].id
  <2> DEFINE q == Len(blocks)
             d == [Top EXCEPT !.diverges = TRUE]
  <2>1. blocks \in Seq(BlockRecs) /\ q \in Nat \ {0} /\ Top = blocks[q] /\ q \in 1 .. q
    BY <1>3, Here DEF Walk, Top
  <2>2. Top \in BlockRecs
    BY <2>1, BlockTypes
  <2>3. d \in BlockRecs /\ d.use = Top.use /\ d.id = Top.id
    BY <2>2 DEF BlockRecs
  <2> HIDE DEF d
  <2>4. blocks' = [blocks EXCEPT ![q] = d]
    BY <1>1 DEF WithTop, d
  <2> HIDE DEF q
  <2>5. blocks' \in Seq(BlockRecs) /\ Len(blocks') = q
        /\ \A k \in 1 .. q : blocks'[k] = IF k = q THEN d ELSE blocks[k]
    BY <2>1, <2>3, <2>4, ExceptIsSeq DEF q
  <2> QED BY <2>1, <2>3, <2>5 DEF q
<1>10. Known(x.scope, blocks', warned, touched \cup Reads(e), Fresh + 1)
  BY <1>8, <1>9, KnownClosed
<1> QED BY <1>2, <1>5, <1>10

-----------------------------------------------------------------------------
(* Opening blocks.                                                          *)

LEMMA NewBlockId ==
    ASSUME Ground, NEW form \in Forms, NEW use \in Uses,
           NEW snap \in SUBSET Places, NEW before \in SUBSET Worlds, NEW cond \in Conditions
    PROVE  /\ Block(form, use).id = Fresh
           /\ [Block(form, use) EXCEPT !.snap = snap, !.before = before].id = Fresh
           /\ [Block(form, use) EXCEPT !.snap = snap, !.cond = cond, !.before = before].id = Fresh
<1> DEFINE a == Block(form, use)
<1>1. a \in BlockRecs /\ a.id = Fresh
  BY FreshIsNew DEF Block, BlockRecs, Conditions
<1> HIDE DEF a
<1>2. [a EXCEPT !.snap = snap, !.before = before].id = a.id
  BY <1>1 DEF BlockRecs
<1>3. [a EXCEPT !.snap = snap, !.cond = cond, !.before = before].id = a.id
  BY <1>1 DEF BlockRecs
<1> QED BY <1>1, <1>2, <1>3 DEF a

\* What a new id stands for is free when a block takes it.
LEMMA OpenedKnown ==
    ASSUME Flowing, Ground, CanGoOn, Known(scope, blocks, warned, touched, Fresh),
           NEW x \in Scopes, Len(x) = Len(scope), Kept(scope, x, Len(scope)),
           NEW reads, Noted(x, reads), NEW b \in BlockRecs, b.id = Fresh,
           scope' = Push(x), touched' = touched \cup reads,
           blocks' = Append(blocks, b), warned' = warned, size' = [size EXCEPT !.blocks = @ + 1]
    PROVE  Known(scope, blocks, warned, touched, Fresh)'
<1>1. /\ scope \in Scopes /\ Fresh \in Nat /\ Fresh' = Fresh + 1
      /\ blocks \in Seq(BlockRecs)
  BY Here, FreshCounts DEF Walk
<1>2. Known(x, blocks, warned, touched, Fresh)
  BY <1>1, KnownKept
<1>3. Known(x, blocks, warned, touched \cup reads, Fresh)
  BY <1>2, KnownTouched
<1>4. /\ Known(x, blocks, warned, touched \cup reads, Fresh + 1)
      /\ Free(x, blocks, warned, touched \cup reads, Fresh) /\ Fresh < Fresh + 1
  BY <1>1, <1>3, KnownLater
<1>5. Known(x, Append(blocks, b), warned, touched \cup reads, Fresh + 1)
  BY <1>1, <1>4, KnownOpened
<1>6. Known(Push(x), Append(blocks, b), warned, touched \cup reads, Fresh + 1)
  BY <1>5, KnownPush
<1> QED BY <1>1, <1>6

LEMMA NothingRead ==
    ASSUME Flowing, CanGoOn
    PROVE  scope \in Scopes /\ Kept(scope, scope, Len(scope)) /\ Noted(scope, {})
<1>1. scope \in Scopes /\ Len(scope) \in 0 .. Len(scope)
  BY Here
<1> QED BY <1>1, KeptReflexive DEF Noted

LEMMA BeginIfKnown ==
    ASSUME Flowing, Ground, Known(scope, blocks, warned, touched, Fresh), errors' = {}, BeginIf
    PROVE  Known(scope, blocks, warned, touched, Fresh)'
<1>1. PICK e, use, cond, b, check :
         /\ e \in Conditions /\ use \in Uses
         /\ CanOpen /\ Opening /\ cond = Condition(e, "T0067")
         /\ b = [Block("then", use) EXCEPT !.snap = UninitSnapshot(cond.scope), !.before = worlds]
         /\ check = Checked(Push(cond.scope), "Unit", cond.errors)
         /\ Step(check, {Enter(w) : w \in worlds}, Happens(e), Reads(e))
         /\ blocks' = Append(blocks, b)
  BY DEF BeginIf, OpenBlock
<1> DEFINE x == CheckExpr(scope, e).scope
<1>2. /\ cond.errors = {} /\ scope' = Push(cond.scope) /\ touched' = touched \cup Reads(e)
      /\ warned' = warned /\ size' = [size EXCEPT !.blocks = @ + 1]
  BY <1>1 DEF Step, Checked, Opening
<1>3. CheckExpr(scope, e).errors = {} /\ cond.scope = x /\ e \in Expressions /\ CanGoOn
  BY <1>1, <1>2, ConditionFields, ExpressionSets DEF CanOpen
<1>4. /\ x \in Scopes /\ Len(x) = Len(scope) /\ Kept(scope, x, Len(scope)) /\ Noted(x, Reads(e))
  BY <1>3, ReadsHere
<1> HIDE DEF x
<1>5. b \in BlockRecs /\ b.id = Fresh
  <2>1. UninitSnapshot(x) \in SUBSET Places /\ worlds \in SUBSET Worlds /\ Lit("Boolean") \in Conditions
        /\ "then" \in Forms /\ use \in Uses
    BY <1>1, <1>3, <1>4, AsideTypes DEF Forms
  <2>2. b = [Block("then", use) EXCEPT !.snap = UninitSnapshot(x), !.before = worlds]
    BY <1>1, <1>3
  <2>3. IsBlock(b, "then", use, UninitSnapshot(x), worlds, Lit("Boolean"))
    BY <2>1, <2>2, NewBlock
  <2>4. b.id = Fresh
    BY <2>1, <2>2, NewBlockId
  <2> QED BY <2>3, <2>4 DEF IsBlock
<1> QED BY <1>1, <1>2, <1>3, <1>4, <1>5, OpenedKnown

LEMMA BeginWhileKnown ==
    ASSUME Flowing, Ground, Known(scope, blocks, warned, touched, Fresh), errors' = {}, BeginWhile
    PROVE  Known(scope, blocks, warned, touched, Fresh)'
<1>1. PICK e, cond, b, check :
         /\ e \in Conditions
         /\ CanOpen /\ Opening /\ cond = Condition(e, "T0080")
         /\ b = [Block("while", "stmt") EXCEPT !.snap = UninitSnapshot(cond.scope), !.cond = e,
                                               !.before = worlds]
         /\ check = Checked(Push(cond.scope), "Unit", cond.errors)
         /\ Step(check, {Enter(w) : w \in worlds}, Happens(e), Reads(e))
         /\ blocks' = Append(blocks, b)
  BY DEF BeginWhile, OpenBlock
<1> DEFINE x == CheckExpr(scope, e).scope
<1>2. /\ cond.errors = {} /\ scope' = Push(cond.scope) /\ touched' = touched \cup Reads(e)
      /\ warned' = warned /\ size' = [size EXCEPT !.blocks = @ + 1]
  BY <1>1 DEF Step, Checked, Opening
<1>3. CheckExpr(scope, e).errors = {} /\ cond.scope = x /\ e \in Expressions /\ CanGoOn
  BY <1>1, <1>2, ConditionFields, ExpressionSets DEF CanOpen
<1>4. /\ x \in Scopes /\ Len(x) = Len(scope) /\ Kept(scope, x, Len(scope)) /\ Noted(x, Reads(e))
  BY <1>3, ReadsHere
<1> HIDE DEF x
<1>5. b \in BlockRecs /\ b.id = Fresh
  <2>1. UninitSnapshot(x) \in SUBSET Places /\ worlds \in SUBSET Worlds /\ "stmt" \in Uses /\ "while" \in Forms
        /\ e \in Conditions
    BY <1>1, <1>3, <1>4, AsideTypes DEF Forms
  <2>2. b = [Block("while", "stmt") EXCEPT !.snap = UninitSnapshot(x), !.cond = e, !.before = worlds]
    BY <1>1, <1>3
  <2>3. IsBlock(b, "while", "stmt", UninitSnapshot(x), worlds, e)
    BY <2>1, <2>2, NewBlock
  <2>4. b.id = Fresh
    BY <2>1, <2>2, NewBlockId
  <2> QED BY <2>3, <2>4 DEF IsBlock
<1> QED BY <1>1, <1>2, <1>3, <1>4, <1>5, OpenedKnown

\* do and transaction evaluate nothing as they begin.
LEMMA BeginBlockKnown ==
    ASSUME Flowing, Ground, Known(scope, blocks, warned, touched, Fresh), errors' = {},
           BeginDo \/ BeginTransaction
    PROVE  Known(scope, blocks, warned, touched, Fresh)'
<1>1. PICK form \in {"do", "transaction"}, use \in Uses :
         /\ CanOpen /\ scope' = Push(scope) /\ touched' = touched \cup {} /\ warned' = warned
         /\ blocks' = Append(blocks, Block(form, use)) /\ size' = [size EXCEPT !.blocks = @ + 1]
  <2>1. CASE BeginDo
    <3>1. "stmt" \in Uses
      BY DEF Uses
    <3> QED BY <2>1, <3>1 DEF BeginDo, OpenBlock, Step, Checked, Opening
  <2>2. CASE BeginTransaction
    BY <2>2 DEF BeginTransaction, Opening
  <2> QED BY <2>1, <2>2
<1>2. CanGoOn /\ scope \in Scopes /\ Kept(scope, scope, Len(scope)) /\ Noted(scope, {})
  BY <1>1, NothingRead DEF CanOpen
<1>3. Block(form, use) \in BlockRecs /\ Block(form, use).id = Fresh
  <2>1. {} \in SUBSET Places /\ {} \in SUBSET Worlds /\ Lit("Boolean") \in Conditions /\ form \in Forms
    BY <1>2, AsideTypes DEF Forms
  <2>2. IsBlock(Block(form, use), form, use, {}, {}, Lit("Boolean")) /\ Block(form, use).id = Fresh
    BY <2>1, NewBlock, NewBlockId
  <2> QED BY <2>2 DEF IsBlock
<1> QED BY <1>1, <1>2, <1>3, OpenedKnown

\* The counter takes the new id, not the loop's block.
LEMMA BeginForKnown ==
    ASSUME Flowing, Ground, Known(scope, blocks, warned, touched, Fresh), errors' = {}, BeginFor
    PROVE  Known(scope, blocks, warned, touched, Fresh)'
<1>0. PICK n \in Names, e \in Operands, each \in BOOLEAN :
         /\ CanOpen /\ Opening
         /\ \E found, ws :
               Step(Checked(Insert(Push(CheckExpr(scope, e).scope),
                                   Binding(n, IF each THEN "Tuple" ELSE "Integer", "counter", Fresh)),
                            IF each THEN "Tuple" ELSE "Integer", CheckExpr(scope, e).errors \cup found),
                    ws, Happens(e), Reads(e))
         /\ blocks' = Append(blocks, [Block("for", "stmt") EXCEPT
                                        !.snap = UninitSnapshot(CheckExpr(scope, e).scope), !.before = worlds])
  BY DEF BeginFor
<1>1. PICK c, ty, a, b, found, ws :
         /\ CanOpen /\ Opening /\ c = CheckExpr(scope, e) /\ ty = (IF each THEN "Tuple" ELSE "Integer")
         /\ a = Binding(n, ty, "counter", Fresh)
         /\ b = [Block("for", "stmt") EXCEPT !.snap = UninitSnapshot(c.scope), !.before = worlds]
         /\ Step(Checked(Insert(Push(c.scope), a), ty, c.errors \cup found), ws, Happens(e), Reads(e))
         /\ blocks' = Append(blocks, b)
  BY <1>0
<1>2. /\ scope' = Insert(Push(c.scope), a) /\ touched' = touched \cup Reads(e) /\ warned' = warned
      /\ c.errors = {} /\ size' = [size EXCEPT !.blocks = @ + 1]
  BY <1>1 DEF Step, Checked, Opening
<1>3. e \in Expressions /\ CanGoOn
  BY <1>1, ExpressionSets DEF CanOpen
<1>4. PICK x : /\ x = c.scope /\ x \in Scopes /\ Len(x) = Len(scope) /\ Kept(scope, x, Len(scope))
               /\ Noted(x, Reads(e))
  BY <1>1, <1>2, <1>3, ReadsHere
<1>5. b \in BlockRecs /\ b.use \notin Names
  <2>1. /\ UninitSnapshot(x) \in SUBSET Places /\ worlds \in SUBSET Worlds /\ "stmt" \in Uses /\ "for" \in Forms
        /\ Lit("Boolean") \in Conditions
    BY <1>3, <1>4, AsideTypes DEF Forms
  <2>2. b = [Block("for", "stmt") EXCEPT !.snap = UninitSnapshot(x), !.before = worlds]
    BY <1>1, <1>4
  <2>3. IsBlock(b, "for", "stmt", UninitSnapshot(x), worlds, Lit("Boolean"))
    BY <2>1, <2>2, NewBlock
  <2> QED BY <2>3, UsesAreNoNames DEF IsBlock
<1>6. a \in Bindings /\ a.id = Fresh
  <2>1. ty \in Types /\ ty # "Unknown" /\ Fresh \in Nat
    BY <1>1, FreshIsNew, SolidTypes DEF Solid, Types
  <2>2. a \in Bindings
    BY <1>1, <2>1, NewBinding
  <2> QED BY <1>1, <2>2 DEF Binding
<1>7. /\ scope \in Scopes /\ Fresh \in Nat /\ Fresh' = Fresh + 1 /\ Len(scope) # 0
      /\ blocks \in Seq(BlockRecs)
  BY <1>2, <1>3, Here, FreshCounts DEF Walk
<1> DEFINE p == Push(x)
           cs == Append(blocks, b)
           tch == touched \cup Reads(e)
           f == Fresh
<1>8. p \in Scopes /\ Len(p) # 0
  BY <1>4, PushPlaces, ScopeTypes
<1>9. scope' = Insert(p, a) /\ blocks' = cs /\ touched' = tch /\ Fresh' = f + 1
  BY <1>1, <1>2, <1>4, <1>7
<1> HIDE DEF p, cs, tch
<1>10. Known(x, blocks, warned, touched, f)
  BY <1>4, <1>7, KnownKept
<1>11. Known(x, blocks, warned, tch, f)
  BY <1>4, <1>10, KnownTouched DEF tch
<1>12. Known(x, cs, warned, tch, f)
  BY <1>5, <1>7, <1>11, KnownOpened DEF cs
<1>13. Known(p, cs, warned, tch, f)
  BY <1>4, <1>12, KnownPush DEF p
<1>14. Known(p, cs, warned, tch, f + 1) /\ Free(p, cs, warned, tch, f) /\ f < f + 1
  BY <1>7, <1>13, KnownLater
<1>15. Known(Insert(p, a), cs, warned, tch, f + 1)
  BY <1>6, <1>8, <1>14, KnownInsert
<1> QED BY <1>2, <1>9, <1>15

-----------------------------------------------------------------------------
(* Closing blocks.                                                          *)

\* The layer goes with its warnings; the value is bound under the id that was
\* promised to the block.
LEMMA DeliveredKnown ==
    ASSUME Flowing, Checking, Top.form # "oper", Known(scope, blocks, warned, touched, Fresh),
           NEW popped \in Scopes, Len(popped) = Len(blocks) - 1, Kept(scope, popped, Len(blocks) - 1),
           NEW ty \in Types \ {"Unknown"}, NEW ws, Delivered(Outer, popped, ty, ws),
           NEW reads, Noted(popped, reads), touched' = touched \cup reads,
           warned' = warned \cup Unused(Layer), size' = size
    PROVE  Known(scope, blocks, warned, touched, Fresh)'
<1> DEFINE m == Len(blocks)
           q == m - 1
           use == Top.use
           b == Binding(use, ty, "let", Top.id)
           d == [blocks[q] EXCEPT !.diverges = TRUE]
           cs == blocks'
           wrn == warned \cup Unused(scope[Len(scope)])
           tch == touched \cup reads
<1>1. /\ scope \in Scopes /\ m \in Nat /\ q \in Nat \ {0} /\ q \in 1 .. m
      /\ Len(scope) = m /\ Top = blocks[m] /\ blocks[m] \in BlockRecs /\ blocks[q] \in BlockRecs
      /\ blocks \in Seq(BlockRecs)
  BY Closing, BlockTypes
<1>2. /\ Outer \in Seq(BlockRecs) /\ Len(Outer) = q /\ \A k \in 1 .. q : Outer[k] = blocks[k]
  BY <1>1, FrontIsSeq DEF Outer
<1>3. /\ scope' = IF use \in Names THEN Insert(popped, b) ELSE popped
      /\ \/ cs = [Outer EXCEPT ![Len(Outer)] = [Outer[Len(Outer)] EXCEPT !.diverges = TRUE]]
         \/ cs = Outer
      /\ warned' = wrn /\ touched' = tch /\ Fresh' = Fresh
  BY DEF Delivered, Layer, Fresh
<1> HIDE DEF m, d, cs, b, use, wrn, tch
<1>4. d \in BlockRecs /\ d.use = blocks[q].use /\ d.id = blocks[q].id
  BY <1>1 DEF BlockRecs, d
<1>5. /\ cs \in Seq(BlockRecs) /\ Len(cs) = q
      /\ \A k \in 1 .. q : cs[k].use = blocks[k].use /\ cs[k].id = blocks[k].id
  <2>1. CASE cs = [Outer EXCEPT ![Len(Outer)] = [Outer[Len(Outer)] EXCEPT !.diverges = TRUE]]
    <3>0. Len(Outer) = q /\ Outer[q] = blocks[q] /\ q \in 1 .. Len(Outer)
      BY <1>1, <1>2
    <3>1. cs = [Outer EXCEPT ![q] = d]
      BY <2>1, <3>0 DEF d
    <3>2. cs \in Seq(BlockRecs) /\ Len(cs) = q /\ \A k \in 1 .. q : cs[k] = IF k = q THEN d ELSE Outer[k]
      BY <1>2, <1>4, <3>0, <3>1, ExceptIsSeq
    <3> QED BY <1>2, <1>4, <3>2
  <2>2. CASE cs = Outer
    BY <1>2, <2>2
  <2> QED BY <1>3, <2>1, <2>2
<1>6. Known(popped, blocks, wrn, touched, Fresh)
  <2>1. Len(scope) # 0 /\ Len(popped) = Len(scope) - 1 /\ Kept(scope, popped, Len(scope) - 1)
    BY <1>1 DEF m
  <2> QED BY <1>1, <2>1, KnownLeft DEF wrn
<1>7. Known(popped, blocks, wrn, tch, Fresh)
  BY <1>6, KnownTouched DEF tch
<1>8. /\ Known(popped, cs, wrn, tch, Fresh)
      /\ use \in Names => Top.id < Fresh /\ Free(popped, cs, wrn, tch, Top.id)
  <2>1. /\ Len(cs) <= Len(blocks) /\ m \in Len(cs) + 1 .. Len(blocks)
        /\ \A k \in 1 .. Len(cs) : cs[k].use = blocks[k].use /\ cs[k].id = blocks[k].id
    BY <1>1, <1>5 DEF m
  <2>2. /\ Known(popped, cs, wrn, tch, Fresh)
        /\ \A k \in Len(cs) + 1 .. Len(blocks) : blocks[k].use \in Names =>
              blocks[k].id < Fresh /\ Free(popped, cs, wrn, tch, blocks[k].id)
    BY <1>1, <1>5, <1>7, <2>1, KnownClosed
  <2> QED BY <1>1, <2>1, <2>2 DEF use
<1>9. CASE use \notin Names
  BY <1>3, <1>8, <1>9 DEF cs
<1>10. CASE use \in Names
  <2>1. b \in Bindings /\ b.id = Top.id
    <3>1. Top.id \in Nat /\ ty \in Types /\ ty # "Unknown"
      BY <1>1 DEF BlockRecs
    <3>2. b \in Bindings
      BY <1>10, <3>1, NewBinding DEF b
    <3> QED BY <3>2 DEF b, Binding
  <2>2. Len(popped) # 0
    BY <1>1 DEF m
  <2>3. Known(Insert(popped, b), cs, wrn, tch, Fresh)
    BY <1>8, <1>10, <2>1, <2>2, KnownInsert
  <2> QED BY <1>3, <1>10, <2>3 DEF cs
<1> QED BY <1>9, <1>10

LEMMA EndTransactionKnown ==
    ASSUME Flowing, Known(scope, blocks, warned, touched, Fresh), errors' = {}, EndTransaction
    PROVE  Known(scope, blocks, warned, touched, Fresh)'
<1> DEFINE popped == Pop(scope)
<1>1. PICK ws :
         /\ Checking /\ Top.form # "oper" /\ Delivered(Outer, popped, BlockType, ws)
         /\ touched' = touched \cup {} /\ warned' = warned \cup Unused(Layer) /\ size' = size
  BY DEF EndTransaction
<1>2. /\ scope \in Scopes /\ Len(blocks) \in Nat \ {0} /\ Len(scope) = Len(blocks)
      /\ BlockType \in Types \ {"Unknown"}
  BY <1>1, Closing
<1>3. popped \in Scopes /\ Len(popped) = Len(blocks) - 1 /\ Kept(scope, popped, Len(blocks) - 1)
  <2>1. Len(scope) # 0
    BY <1>2
  <2> QED BY <1>2, <2>1, PopPlaces
<1>4. Noted(popped, {})
  BY DEF Noted
<1> HIDE DEF popped
<1> QED BY <1>1, <1>2, <1>3, <1>4, DeliveredKnown

LEMMA EndLoopKnown ==
    ASSUME Flowing, Known(scope, blocks, warned, touched, Fresh), errors' = {}, EndLoop
    PROVE  Known(scope, blocks, warned, touched, Fresh)'
<1> DEFINE t == Pop(RestoreUninit(scope, Top.snap))
<1>1. PICK ws :
         /\ Checking /\ Top.form # "oper" /\ Delivered(Outer, t, "Unit", ws)
         /\ touched' = touched \cup {} /\ warned' = warned \cup Unused(Layer) /\ size' = size
  BY DEF EndLoop
<1>2. t \in Scopes /\ Len(t) = Len(blocks) - 1 /\ Kept(scope, t, Len(blocks) - 1)
  BY <1>1, Restored
<1>3. Noted(t, {}) /\ "Unit" \in Types \ {"Unknown"}
  BY DEF Noted, Types, Solid
<1> HIDE DEF t
<1> QED BY <1>1, <1>2, <1>3, DeliveredKnown

LEMMA EndDoKnown ==
    ASSUME Flowing, Known(scope, blocks, warned, touched, Fresh), errors' = {}, EndDo
    PROVE  Known(scope, blocks, warned, touched, Fresh)'
<1> DEFINE m == Len(blocks)
           p == Pop(scope)
<1>1. PICK e, c :
         /\ e \in Conditions
         /\ Checking /\ Top.form # "oper" /\ c = CheckExpr(p, e) /\ c.errors = {}
         /\ Delivered(Outer, c.scope, "Unit", Left)
         /\ touched' = touched \cup ReadIn(Left, e) /\ warned' = warned \cup Unused(Layer) /\ size' = size
  BY DEF EndDo, ReadIn
<1>2. /\ scope \in Scopes /\ m \in Nat /\ m - 1 \in Nat \ {0} /\ Len(scope) = m
  BY <1>1, Closing
<1>3. /\ p \in Scopes /\ Len(p) = m - 1 /\ Kept(scope, p, m - 1)
      /\ UninitSnapshot(p) = {x \in UninitSnapshot(scope) : x[1] < m}
  <2>1. Len(scope) # 0
    BY <1>2
  <2> QED BY <1>2, <2>1, PopPlaces
<1> HIDE DEF p, m
<1>4. Evaluates(p, e, c)
  <2>1. e \in Expressions
    BY <1>1, ExpressionSets
  <2> QED BY <1>1, <1>3, <2>1, ExprOK
<1>5. \A w \in Left : Agrees(p, Len(p), w, UninitSnapshot(p))
  <2>1. \A x \in UninitSnapshot(scope) : x[1] \in 1 .. m - 1 => x \in UninitSnapshot(p)
    BY <1>2, <1>3
  <2> QED BY <1>1, <1>3, <2>1, LeftAgrees DEF m
<1>6. Noted(c.scope, ReadIn(Left, e))
  BY <1>3, <1>4, <1>5, ReadsNoted
<1>7. c.scope \in Scopes /\ OnlyMarks(p, c.scope)
  BY <1>4 DEF Evaluates
<1>8. Len(c.scope) = m - 1 /\ Kept(p, c.scope, m - 1)
  BY <1>3, <1>7, MarksKeep DEF OnlyMarks
<1>9. Kept(scope, c.scope, m - 1)
  BY <1>2, <1>3, <1>7, <1>8, KeptTransitive
<1>10. "Unit" \in Types \ {"Unknown"}
  BY DEF Types, Solid
<1> QED BY <1>1, <1>6, <1>7, <1>8, <1>9, <1>10, DeliveredKnown DEF m

LEMMA EndIfKnown ==
    ASSUME Flowing, Known(scope, blocks, warned, touched, Fresh), errors' = {}, EndIf
    PROVE  Known(scope, blocks, warned, touched, Fresh)'
<1> DEFINE m == Len(blocks)
           r == RestoreUninit(Pop(scope), Top.snap)
           new == NewlyInitialized(scope, Top.snap)
           both == InBothArms(Top.thenInit, new)
           joined == JoinedType(Top.thenTy, BlockType)
           t == WithInitialized(r, both, TRUE)
<1>1. /\ Checking /\ Top.form \in {"then", "else"} /\ Top.form # "oper"
      /\ touched' = touched \cup {} /\ warned' = warned \cup Unused(Layer) /\ size' = size
  BY DEF EndIf
<1>2. /\ r \in Scopes /\ Len(r) = m - 1 /\ Kept(scope, r, m - 1)
      /\ \A l \in 1 .. m - 1 : \A i \in 1 .. Len(scope[l]) : scope[l][i].ty = r[l][i].ty
      /\ \A p \in Top.snap : p[1] \in 1 .. m - 1 /\ p[2] \in 1 .. Len(scope[p[1]])
  BY <1>1, Restored
<1>3. /\ scope \in Scopes /\ m \in Nat /\ m - 1 \in Nat /\ Len(scope) = m /\ Top = blocks[m] /\ blocks[m] \in BlockRecs
      /\ SetAside(scope, m, blocks[m]) /\ BlockType \in Types \ {"Unknown"}
  BY <1>1, Closing
<1>4. Noted(r, {}) /\ Noted(t, {}) /\ "Unit" \in Types \ {"Unknown"}
  BY DEF Noted, Types, Solid
<1>5. CASE Top.form = "then"
  <2>1. PICK ws : Delivered(Outer, r, "Unit", ws)
    BY <1>5 DEF EndIf
  <2> HIDE DEF r
  <2> QED BY <1>1, <1>2, <1>4, <2>1, DeliveredKnown
<1>6. CASE Top.form = "else"
  <2>1. PICK ws : joined # "clash" /\ Delivered(Outer, t, joined, ws)
    <3>1. /\ errors' = IF joined = "clash" THEN errors \cup {"T0068"} ELSE errors
          /\ Delivered(Outer, t, IF joined = "clash" THEN "Unknown" ELSE joined, Top.after \cup Left)
      BY <1>6 DEF EndIf
    <3> HIDE DEF joined
    <3>2. joined # "clash"
      BY <3>1
    <3> QED BY <3>1, <3>2
  <2>2. both \in SUBSET (Nat \X Nat) /\ both \subseteq Top.snap
        /\ \A p \in both : scope[p[1]][p[2]].initialized
    <3>1. Top.snap \in SUBSET (Nat \X Nat)
      BY <1>3 DEF BlockRecs, Places
    <3> QED BY <3>1 DEF InBothArms, NewlyInitialized
  <2>3. joined \in Types \ {"Unknown"}
    <3>1. Top.thenTy \in Types \ {"Unknown"}
      BY <1>3, <1>6 DEF BlockRecs, SetAside
    <3> QED BY <1>3, <2>1, <3>1 DEF JoinedType
  <2> HIDE DEF r, both, joined
  <2>4. \A p \in both : /\ p[1] \in 1 .. Len(r) /\ p[2] \in 1 .. Len(r[p[1]])
                        /\ r[p[1]][p[2]].ty # "Unknown"
    <3> SUFFICES ASSUME NEW p \in both
                 PROVE  /\ p[1] \in 1 .. Len(r) /\ p[2] \in 1 .. Len(r[p[1]])
                        /\ r[p[1]][p[2]].ty # "Unknown"
      OBVIOUS
    <3>1. p[1] \in 1 .. m - 1 /\ p[2] \in 1 .. Len(scope[p[1]]) /\ p[1] \in 1 .. Len(scope)
      BY <1>2, <1>3, <2>2
    <3>2. scope[p[1]][p[2]] \in Bindings /\ scope[p[1]][p[2]].initialized
      BY <1>3, <2>2, <3>1, ScopeTypes
    <3>3. scope[p[1]][p[2]].ty # "Unknown"
      BY <3>2 DEF Bindings, Proper
    <3>4. Len(r[p[1]]) = Len(scope[p[1]])
      BY <1>2, <3>1 DEF Kept
    <3> QED BY <1>2, <3>1, <3>3, <3>4
  <2>5. t \in Scopes /\ Len(t) = m - 1 /\ Kept(r, t, m - 1)
    <3>1. t \in Scopes /\ Len(t) = Len(r) /\ Kept(r, t, Len(r))
      BY <1>2, <2>2, <2>4, Reinitialized
    <3> QED BY <1>2, <3>1
  <2> HIDE DEF t, m
  <2>6. Kept(scope, t, m - 1)
    BY <1>2, <1>3, <2>5, KeptTransitive
  <2> QED BY <1>1, <1>4, <2>1, <2>3, <2>5, <2>6, DeliveredKnown DEF m
<1> QED BY <1>1, <1>5, <1>6

LEMMA ElseKnown ==
    ASSUME Flowing, Known(scope, blocks, warned, touched, Fresh), errors' = {}, Else
    PROVE  Known(scope, blocks, warned, touched, Fresh)'
<1> DEFINE m == Len(blocks)
           r == RestoreUninit(Pop(scope), Top.snap)
           new == NewlyInitialized(scope, Top.snap)
           b == [Top EXCEPT !.form = "else", !.thenTy = BlockType, !.diverges = FALSE,
                            !.thenInit = new, !.after = Left]
           cs == [blocks EXCEPT ![m] = b]
           wrn == warned \cup Unused(scope[Len(scope)])
<1>1. /\ Checking /\ Top.form # "oper" /\ scope' = Push(r) /\ blocks' = cs
      /\ warned' = wrn /\ touched' = touched /\ Fresh' = Fresh
  BY DEF Else, WithTop, Layer, Fresh
<1>2. /\ scope \in Scopes /\ m \in Nat /\ m - 1 \in Nat \ {0} /\ Top = blocks[m]
      /\ Len(scope) = m /\ blocks \in Seq(BlockRecs) /\ blocks[m] \in BlockRecs
      /\ BlockType \in Types \ {"Unknown"}
  BY <1>1, Closing
<1>3. /\ r \in Scopes /\ Len(r) = m - 1 /\ Kept(scope, r, m - 1)
      /\ \A w \in Left : Agrees(r, m - 1, w, UninitSnapshot(r))
  BY <1>1, Restored
<1> HIDE DEF r, m
<1>4. Left \in SUBSET Worlds /\ new \in SUBSET Places
  <2>1. Left \in SUBSET Worlds
    BY <1>3 DEF Agrees
  <2>2. Top.snap \in SUBSET Places
    BY <1>2 DEF BlockRecs
  <2> QED BY <2>1, <2>2 DEF NewlyInitialized
<1>5. b \in BlockRecs /\ b.use = Top.use /\ b.id = Top.id
  <2> HIDE DEF new
  <2>1. Top \in BlockRecs
    BY <1>2
  <2> QED BY <1>2, <1>4, <2>1 DEF BlockRecs, Forms
<1> HIDE DEF new, b
<1>6. /\ cs \in Seq(BlockRecs) /\ Len(cs) <= Len(blocks)
      /\ \A k \in 1 .. Len(cs) : cs[k].use = blocks[k].use /\ cs[k].id = blocks[k].id
  <2>1. m \in 1 .. Len(blocks) /\ Len(blocks) = m
    BY <1>2 DEF m
  <2>2. cs \in Seq(BlockRecs) /\ Len(cs) = m /\ \A k \in 1 .. m : cs[k] = IF k = m THEN b ELSE blocks[k]
    BY <1>2, <1>5, <2>1, ExceptIsSeq
  <2> QED BY <1>2, <1>5, <2>1, <2>2
<1> HIDE DEF cs, wrn
<1>7. Known(r, blocks, wrn, touched, Fresh)
  <2>1. Len(scope) # 0 /\ Len(r) = Len(scope) - 1 /\ Kept(scope, r, Len(scope) - 1)
    BY <1>2, <1>3
  <2> QED BY <1>2, <1>3, <2>1, KnownLeft DEF wrn
<1>8. Known(r, cs, wrn, touched, Fresh)
  BY <1>2, <1>6, <1>7, KnownClosed
<1>9. Known(Push(r), cs, wrn, touched, Fresh)
  BY <1>3, <1>8, KnownPush
<1> QED BY <1>1, <1>9

LEMMA EndOperKnown ==
    ASSUME Flowing, Known(scope, blocks, warned, touched, Fresh), errors' = {}, EndOper
    PROVE  Known(scope, blocks, warned, touched, Fresh)'
<1> DEFINE wrn == warned \cup Unused(scope[Len(scope)])
           p == Pop(scope)
<1>1. /\ Checking /\ blocks' = << >> /\ scope' = p /\ warned' = wrn
      /\ touched' = touched /\ Fresh' = Fresh
  BY DEF EndOper, Layer, Fresh
<1>2. scope \in Scopes /\ Len(scope) # 0 /\ blocks \in Seq(BlockRecs)
  BY <1>1 DEF Flowing, Checking, Walk
<1>3. p \in Scopes /\ Len(p) = Len(scope) - 1 /\ Kept(scope, p, Len(scope) - 1)
  BY <1>2, PopPlaces
<1> HIDE DEF p, wrn
<1>4. Known(p, blocks, wrn, touched, Fresh)
  BY <1>2, <1>3, KnownLeft DEF wrn
<1>5. /\ << >> \in Seq(BlockRecs) /\ Len(<< >>) <= Len(blocks)
      /\ \A k \in 1 .. Len(<< >>) : << >>[k].use = blocks[k].use /\ << >>[k].id = blocks[k].id
  BY <1>2
<1>6. Known(p, << >>, wrn, touched, Fresh)
  BY <1>2, <1>4, <1>5, KnownClosed
<1> QED BY <1>1, <1>6

-----------------------------------------------------------------------------
(* The start, and every step.                                               *)

\* What is bound at first and is no relvar is the parameter.
LEMMA OneParameter ==
    ASSUME NEW params \in {{}} \cup {{n} : n \in Names}
    PROVE  LET layer == RelvarLayer \o
                 [i \in 1 .. Cardinality(params) |->
                     Binding(CHOOSE n \in params : TRUE, "Integer", "param", 0)]
           IN  \A i \in 1 .. Len(layer) : layer[i].origin # "relvar" =>
                  i = Len(RelvarLayer) + 1 /\ layer[i].id = 0
<1> DEFINE R == RelvarLayer
           b == Binding(CHOOSE n \in params : TRUE, "Integer", "param", 0)
           more == [i \in 1 .. Cardinality(params) |-> b]
           layer == R \o more
<1>1. R \in Seq(Bindings) /\ \A i \in 1 .. Len(R) : R[i].origin = "relvar"
  <2>1. \A i \in 1 .. Len(R) : R[i].name \in Relvars /\ R[i] \in Bindings
    BY RelvarsLaid
  <2> QED BY <2>1, RelvarsLaid DEF Bindings, Proper
<1>2. Cardinality(params) \in {0, 1}
  BY FS_EmptySet, FS_Singleton
<1>3. b.id = 0
  BY DEF Binding
<1> HIDE DEF R, b
<1>4. more \in Seq({b}) /\ Len(more) = Cardinality(params) /\ Len(R) \in Nat
  BY <1>1, <1>2
<1> HIDE DEF more
<1>5. Len(layer) = Len(R) + Cardinality(params)
      /\ \A i \in 1 .. Len(layer) : layer[i] = IF i <= Len(R) THEN R[i] ELSE more[i - Len(R)]
  BY <1>1, <1>4
<1> HIDE DEF layer
<1>6. ASSUME NEW i \in 1 .. Len(layer), layer[i].origin # "relvar"
      PROVE  i = Len(R) + 1 /\ layer[i].id = 0
  <2>1. ~(i <= Len(R))
    BY <1>1, <1>4, <1>5, <1>6
  <2>2. i - Len(R) = 1 /\ i - Len(R) \in 1 .. Len(more) /\ i = Len(R) + 1
    BY <1>2, <1>4, <1>5, <2>1
  <2>3. more[i - Len(R)] = b
    BY <1>4, <2>2
  <2> QED BY <1>3, <1>5, <2>1, <2>2, <2>3
<1> QED BY <1>6 DEF layer, more, b, R

LEMMA InitKnown == Init => Known(scope, blocks, warned, touched, Fresh)
<1> SUFFICES ASSUME Init PROVE Known(scope, blocks, warned, touched, Fresh)
  OBVIOUS
<1>1. PICK layer :
         /\ scope = <<layer>>
         /\ \A i \in 1 .. Len(layer) : layer[i].origin # "relvar" =>
               i = Len(RelvarLayer) + 1 /\ layer[i].id = 0
  <2>1. PICK params \in {{}} \cup {{n} : n \in Names} :
           scope = <<RelvarLayer \o [i \in 1 .. Cardinality(params) |->
                        Binding(CHOOSE n \in params : TRUE, "Integer", "param", 0)]>>
    BY DEF Init
  <2> QED BY <2>1, OneParameter
<1>2. PICK b : blocks = <<b>> /\ b.use = "stmt"
  BY DEF Init
<1>3. /\ Len(scope) = 1 /\ scope[1] = layer /\ Len(blocks) = 1 /\ blocks[1] = b
      /\ \A l \in 1 .. 1 : l = 1
  BY <1>1, <1>2
<1>4. Fresh = 1 /\ warned = {} /\ touched = {}
  BY DEF Init, Fresh
<1>5. \A l, i, id : Owns(scope, l, i, id) => l = 1 /\ i = Len(RelvarLayer) + 1 /\ id = 0
  BY <1>1, <1>3 DEF Owns
<1>6. \A k, id : ~Promised(blocks, k, id)
  BY <1>2, <1>3, UsesAreNoNames DEF Promised
<1>7. \A id : ~Pending(blocks, id) /\ ~Warned(warned, id) /\ ~Seen(touched, id)
  BY <1>4, <1>6 DEF Pending, Warned, Seen
<1> SUFFICES ASSUME NEW id \in Nat PROVE Tracked(scope, blocks, warned, touched, Fresh, id)
  BY DEF Known
<1>8. Owned(scope, id) => id < Fresh
  BY <1>4, <1>5 DEF Owned
<1> QED BY <1>4, <1>5, <1>6, <1>7, <1>8 DEF Tracked, Free

LEMMA StepKnown ==
    ASSUME Ground, FlowInv, IdInv, [Next]_vars
    PROVE  IdInv'
<1> SUFFICES ASSUME errors' = {} PROVE Known(scope, blocks, warned, touched, Fresh)'
  BY DEF IdInv
<1>1. Flowing /\ Known(scope, blocks, warned, touched, Fresh)
  BY ErrorsStay DEF FlowInv, IdInv
<1>2. CASE LetStmt \/ VarStmt
  BY <1>1, <1>2, BindKnown
<1>3. CASE DeclareUnassigned
  BY <1>1, <1>3, DeclareKnown
<1>4. CASE AssignLocal
  BY <1>1, <1>4, AssignLocalKnown
<1>5. CASE AssignRelvar
  BY <1>1, <1>5, AssignRelvarKnown
<1>6. CASE TruncateStmt \/ DeleteStmt
  BY <1>1, <1>6, TruncateKnown
<1>7. CASE InsertStmt
  BY <1>1, <1>7, InsertKnown
<1>8. CASE UpdateStmt
  BY <1>1, <1>8, UpdateKnown
<1>9. CASE LoadStmt
  BY <1>1, <1>9, LoadKnown
<1>10. CASE LoadReverse \/ ExprStmt
  BY <1>1, <1>10, ExprKnown
<1>11. CASE TailExpr
  BY <1>1, <1>11, TailKnown
<1>12. CASE ReturnStmt
  BY <1>1, <1>12, ReturnKnown
<1>13. CASE BeginIf
  BY <1>1, <1>13, BeginIfKnown
<1>14. CASE Else
  BY <1>1, <1>14, ElseKnown
<1>15. CASE EndIf
  BY <1>1, <1>15, EndIfKnown
<1>16. CASE BeginTransaction \/ BeginDo
  BY <1>1, <1>16, BeginBlockKnown
<1>17. CASE EndTransaction
  BY <1>1, <1>17, EndTransactionKnown
<1>18. CASE BeginWhile
  BY <1>1, <1>18, BeginWhileKnown
<1>19. CASE BeginFor
  BY <1>1, <1>19, BeginForKnown
<1>20. CASE EndLoop
  BY <1>1, <1>20, EndLoopKnown
<1>21. CASE EndDo
  BY <1>1, <1>21, EndDoKnown
<1>22. CASE EndOper
  BY <1>1, <1>22, EndOperKnown
<1>23. CASE UNCHANGED vars
  <2>1. scope' = scope /\ blocks' = blocks /\ warned' = warned /\ touched' = touched /\ Fresh' = Fresh
    BY <1>23 DEF vars, Fresh
  <2> QED BY <1>1, <2>1
<1> QED BY <1>2, <1>3, <1>4, <1>5, <1>6, <1>7, <1>8, <1>9, <1>10, <1>11, <1>12, <1>13, <1>14, <1>15,
           <1>16, <1>17, <1>18, <1>19, <1>20, <1>21, <1>22, <1>23 DEF Next

\* Every id is one binding's, in scope or promised to the value of a block; a
\* binding is warned of as it goes and never comes back, and what executions
\* read or wrote is marked so for as long as it is in scope.
THEOREM BindingsAreTracked == Spec => [](Ground /\ FlowInv /\ IdInv)
<1> DEFINE Inv == Ground /\ FlowInv /\ IdInv
<1>1. Init => Inv
  BY InitFlows, InitKnown DEF IdInv
<1>2. Inv /\ [Next]_vars => Inv'
  BY GroundStep, StepFlows, StepKnown
<1> QED BY <1>1, <1>2, PTL DEF Spec

\* In an accepted program a binding reported unused (T0032) is read by no
\* execution, a var reported as never reassigned (T0077) is written by none, and
\* nothing but a var is ever written.
THEOREM WarningsHold == Spec => []WarningsAreTrue
<1>1. FlowInv /\ IdInv => WarningsAreTrue
  <2> SUFFICES ASSUME Flowing, Known(scope, blocks, warned, touched, Fresh)
               PROVE  /\ \A id \in 0 .. MaxSize : <<"T0032", id>> \in warned => <<"read", id>> \notin touched
                      /\ \A id \in 0 .. MaxSize : <<"T0077", id>> \in warned => <<"written", id>> \notin touched
                      /\ "frozen write" \notin events
    BY DEF FlowInv, IdInv, WarningsAreTrue, Accepted
  <2>1. "frozen write" \notin events
    BY DEF Flowing, Faults
  <2>2. \A id \in 0 .. MaxSize : id \in Nat
    OBVIOUS
  <2>3. \A id \in Nat : /\ <<"T0032", id>> \in warned => <<"read", id>> \notin touched
                        /\ <<"T0077", id>> \in warned => <<"written", id>> \notin touched
    BY DEF Known, Tracked
  <2> QED BY <2>1, <2>2, <2>3
<1> QED BY <1>1, BindingsAreTracked, PTL

(***************************************************************************)
(* Refusals.                                                               *)
(***************************************************************************)
-----------------------------------------------------------------------------
(* Diagnostics and what executions show of them.                            *)

\* Each diagnostic among those found has its fault among what happened.
Backed(found, happened) ==
    /\ "T0079" \in found => "unassigned read" \in happened
    /\ "T0025" \in found => "bare access" \in happened
    /\ "T0026" \in found => "impure" \in happened
    /\ "T0093" \in found => "open bracket" \in happened
    /\ "T0072" \in found => "frozen write" \in happened
    /\ "T0074" \in found => "frozen write" \in happened

Codes == {"T0079", "T0025", "T0026", "T0093", "T0072", "T0074"}

LEMMA BackedUnion ==
    ASSUME NEW a, NEW b, NEW h, Backed(a, h), Backed(b, h)
    PROVE  Backed(a \cup b, h)
BY DEF Backed

LEMMA BackedMore ==
    ASSUME NEW a, NEW h, NEW k, Backed(a, h), h \subseteq k
    PROVE  Backed(a, k)
BY DEF Backed

LEMMA BackedOthers ==
    ASSUME NEW a, NEW h, a \cap Codes = {}
    PROVE  Backed(a, h)
BY DEF Backed, Codes

LEMMA BackedMismatch ==
    ASSUME NEW code, code \notin Codes, NEW ty, NEW want, NEW h
    PROVE  Backed(Mismatch(code, ty, want), h)
BY BackedOthers DEF Mismatch

-----------------------------------------------------------------------------
(* What waits for a value, waits in some execution.                         *)

Empty(s, l, i, w) == w.frames[l][s[l][i].name].holds = "nothing"

Exact(s, m, ws, U) ==
    /\ ws # {}
    /\ \A l \in 1 .. m : \A i \in 1 .. Len(s[l]) :
          <<l, i>> \in U /\ Latest(s[l], i) => \E w \in ws : Empty(s, l, i, w)

\* Of what block k has put aside, too.
Spread(s, k, b) ==
    /\ b.form \in Branches => Exact(s, k - 1, b.before, b.snap)
    /\ b.form = "else" => Exact(s, k - 1, b.after, b.snap \ b.thenInit)

Shown(s, bs, ws) ==
    /\ Exact(s, Len(s), ws, UninitSnapshot(s))
    /\ \A k \in 1 .. Len(bs) : Spread(s, k, bs[k])

\* Executions go on, and where one had no value one still has none.
LEMMA ExactFollows ==
    ASSUME NEW s \in Scopes, NEW t \in Scopes, NEW m, Kept(s, t, m),
           NEW ws, NEW U, Exact(s, m, ws, U), NEW vs, NEW V,
           \A w \in ws : \E v \in vs : \A l \in 1 .. m : \A i \in 1 .. Len(s[l]) :
               <<l, i>> \in V /\ Latest(s[l], i) /\ Empty(s, l, i, w) => Empty(s, l, i, v),
           \A l \in 1 .. m : \A i \in 1 .. Len(s[l]) : <<l, i>> \in V => <<l, i>> \in U
    PROVE  Exact(t, m, vs, V)
<1>1. vs # {}
  BY DEF Exact
<1>2. ASSUME NEW l \in 1 .. m, NEW i \in 1 .. Len(t[l]), <<l, i>> \in V, Latest(t[l], i)
      PROVE  \E v \in vs : Empty(t, l, i, v)
  <2>1. i \in 1 .. Len(s[l]) /\ t[l][i].name = s[l][i].name
    BY DEF Kept, Evolves
  <2>2. Latest(s[l], i) /\ <<l, i>> \in U
    BY <1>2, <2>1, LatestKept
  <2>3. PICK w \in ws : Empty(s, l, i, w)
    BY <2>1, <2>2 DEF Exact
  <2>4. PICK v \in vs : Empty(s, l, i, v)
    BY <1>2, <2>1, <2>2, <2>3
  <2> QED BY <2>1, <2>4 DEF Empty
<1> QED BY <1>1, <1>2 DEF Exact

LEMMA ExactSame ==
    ASSUME NEW s \in Scopes, NEW t \in Scopes, NEW m, Kept(s, t, m),
           NEW ws, NEW U, Exact(s, m, ws, U), NEW vs, NEW V,
           \A w \in ws : \E v \in vs : \A l \in 1 .. m : v.frames[l] = w.frames[l],
           \A p \in V : p[1] \in 1 .. m => p \in U
    PROVE  Exact(t, m, vs, V)
<1>1. ASSUME NEW w \in ws
      PROVE  \E v \in vs : \A l \in 1 .. m : \A i \in 1 .. Len(s[l]) :
               <<l, i>> \in V /\ Latest(s[l], i) /\ Empty(s, l, i, w) => Empty(s, l, i, v)
  <2>1. PICK v \in vs : \A l \in 1 .. m : v.frames[l] = w.frames[l]
    BY <1>1
  <2> QED BY <2>1 DEF Empty
<1>2. \A l \in 1 .. m : \A i \in 1 .. Len(s[l]) : <<l, i>> \in V => <<l, i>> \in U
  OBVIOUS
<1> QED BY <1>1, <1>2, ExactFollows

LEMMA EnterFrames ==
    ASSUME NEW s \in Scopes, NEW m, NEW w, NEW U, Agrees(s, m, w, U)
    PROVE  \A l \in 1 .. m : Enter(w).frames[l] = w.frames[l]
<1>1. w \in Worlds /\ Len(w.frames) = m
  BY DEF Agrees
<1>2. w.frames \in Seq(Frames) /\ Append(w.frames, << >>) = Enter(w).frames
  BY <1>1 DEF Worlds, Enter
<1> QED BY <1>1, <1>2

LEMMA LeaveFrames ==
    ASSUME NEW s, NEW m \in Nat, NEW w, NEW U, Agrees(s, m + 1, w, U)
    PROVE  \A l \in 1 .. m : Leave(w).frames[l] = w.frames[l]
<1>1. w \in Worlds /\ Len(w.frames) = m + 1
  BY DEF Agrees
<1>2. w.frames \in Seq(Frames) /\ SubSeq(w.frames, 1, Len(w.frames) - 1) = Leave(w).frames
  BY <1>1 DEF Worlds, Leave
<1>3. Len(w.frames) # 0 /\ Len(w.frames) - 1 = m
  BY <1>1
<1> QED BY <1>2, <1>3, FrontIsSeq

LEMMA OtherFields ==
    ASSUME NEW w \in Worlds
    PROVE  /\ \A x : [w EXCEPT !.val = x].frames = w.frames /\ [w EXCEPT !.val = x].depth = w.depth
           /\ \A x : [w EXCEPT !.depth = x].frames = w.frames
BY DEF Worlds


-----------------------------------------------------------------------------
(* Expressions.                                                             *)

\* Executions in a scope, as many as its checking says.
Standing(s, ws) ==
    /\ s \in Scopes
    /\ \A w \in ws : Agrees(s, Len(s), w, UninitSnapshot(s))
    /\ Exact(s, Len(s), ws, UninitSnapshot(s))
    /\ txDepth \in Int /\ AllAt(ws, txDepth)

LEMMA TouchShown ==
    ASSUME NEW s, NEW ws, Standing(s, ws), NEW r \in PublicRelvars, txDepth = 0
    PROVE  "bare access" \in UNION {Touch(w, r) : w \in ws}
<1>1. PICK w \in ws : w.depth = 0
  BY DEF Standing, Exact, AllAt, At
<1> QED BY <1>1 DEF Touch

LEMMA NameShown ==
    ASSUME NEW s, NEW ws, Standing(s, ws), NEW n \in Names \cup Relvars
    PROVE  /\ Backed(CheckName(s, n).errors, UNION {ReadFaults(w, n) : w \in ws})
           /\ n \in Relvars => Backed(CheckName(s, n).errors, UNION {Touch(w, n) : w \in ws})
<1> DEFINE found == CheckName(s, n).errors
           reads == UNION {ReadFaults(w, n) : w \in ws}
           touches == UNION {Touch(w, n) : w \in ws}
<1>1. CASE ~Bound(s, n)
  <2>1. found = {"T0001"}
    BY <1>1 DEF CheckName, Checked
  <2> QED BY <2>1, BackedOthers DEF Codes
<1>2. CASE Bound(s, n)
  <2>1. found = (IF Found(s, n).initialized THEN {} ELSE {"T0079"}) \cup
                (IF n \in PublicRelvars /\ txDepth = 0 THEN {"T0025"} ELSE {})
    BY <1>2 DEF CheckName, Checked
  <2>2. s \in Scopes
    BY DEF Standing
  <2>3. PICK l, i : Visible(s, Len(s), n, l, i)
    BY <1>2, <2>2, LocateVisible
  <2>4. Found(s, n) = s[l][i]
    BY <2>2, <2>3, LocateVisible
  <2>5. /\ l \in 1 .. Len(s) /\ i \in 1 .. Len(s[l]) /\ s[l][i].name = n /\ Latest(s[l], i)
        /\ Len(s) \in 0 .. Len(s)
    BY <2>2, <2>3, ScopeTypes DEF Visible
  <2>6. s[l][i] \in Bindings
    BY <2>2, <2>5, ScopeTypes
  <2>7. CASE n \in Relvars
    <3>1. s[l][i].initialized
      BY <2>5, <2>6, <2>7 DEF Bindings, Proper
    <3>2. reads = touches
      BY <2>7 DEF ReadFaults
    <3>3. found \subseteq {"T0025"} /\ ("T0025" \in found => n \in PublicRelvars /\ txDepth = 0)
      BY <2>1, <2>4, <3>1
    <3>4. "T0025" \in found => "bare access" \in touches
      BY <3>3, TouchShown
    <3> HIDE DEF found, reads, touches
    <3>5. Backed(found, touches)
      BY <3>3, <3>4 DEF Backed
    <3> QED BY <3>2, <3>5 DEF found, reads, touches
  <2>8. CASE n \notin Relvars
    <3>1. n \in Names /\ n \notin PublicRelvars
      BY <2>8 DEF Relvars
    <3>2. found \subseteq {"T0079"}
      BY <2>1, <3>1
    <3>3. ASSUME "T0079" \in found PROVE "unassigned read" \in reads
      <4>1. ~s[l][i].initialized
        BY <2>1, <2>4, <3>1, <3>3
      <4>2. <<l, i>> \in UninitSnapshot(s)
        BY <2>2, <2>5, <4>1, UninitWithin
      <4>3. PICK w \in ws : Empty(s, l, i, w)
        BY <2>5, <4>2 DEF Standing, Exact
      <4>4. Agrees(s, Len(s), w, UninitSnapshot(s))
        BY DEF Standing
      <4>5. FramesOf(w, n) # {} /\ CellOf(w, n) = w.frames[l][n]
        <5>1. Len(s) \in 0 .. Len(s) /\ n \in Names
          BY <2>5, <3>1
        <5> HIDE DEF found, reads, touches
        <5>2. \A k, j : Visible(s, Len(s), n, k, j) => FramesOf(w, n) # {}
          BY <2>2, <4>4, <5>1, FrameVisible
        <5>3. \A k, j : Visible(s, Len(s), n, k, j) => FrameOf(w, n) = k
          BY <2>2, <4>4, <5>1, FrameVisible
        <5>4. FrameOf(w, n) = l
          BY <2>3, <5>3
        <5> QED BY <2>3, <5>2, <5>4 DEF CellOf
      <4>6. CellOf(w, n).holds = "nothing"
        BY <2>5, <4>3, <4>5 DEF Empty
      <4>7. ReadFaults(w, n) = {"unassigned read"}
        BY <2>8, <4>6 DEF ReadFaults
      <4> QED BY <4>7
    <3> HIDE DEF found, reads
    <3>4. Backed(found, reads)
      BY <3>2, <3>3 DEF Backed
    <3> QED BY <2>8, <3>4 DEF found, reads
  <2> QED BY <2>7, <2>8
<1> QED BY <1>1, <1>2

LEMMA PurityShown ==
    ASSUME NEW s, NEW ws, Standing(s, ws)
    PROVE  Backed(CheckCallPurity, UNION {Effect(w) : w \in ws})
<1>1. CheckCallPurity \subseteq {"T0026"} /\ ("T0026" \in CheckCallPurity => txDepth > 0)
  BY DEF CheckCallPurity
<1>2. ASSUME txDepth > 0 PROVE "impure" \in UNION {Effect(w) : w \in ws}
  <2>1. PICK w \in ws : w.depth = txDepth
    BY DEF Standing, Exact, AllAt, At
  <2> QED BY <1>2, <2>1 DEF Effect
<1> QED BY <1>1, <1>2 DEF Backed

\* What is said of an expression, some execution shows.
LEMMA ExprShown ==
    ASSUME NEW s, NEW ws, Standing(s, ws), NEW e \in Expressions
    PROVE  Backed(CheckExpr(s, e).errors, UNION {EvalFaults(w, e) : w \in ws})
<1> DEFINE found == CheckExpr(s, e).errors
           faults == UNION {EvalFaults(w, e) : w \in ws}
<1>1. CASE \E ty \in Solid : e = Lit(ty)
  <2>1. found = {}
    BY <1>1 DEF CheckExpr, Lit, Checked
  <2> QED BY <2>1, BackedOthers
<1>2. CASE \E n \in Names \cup Relvars : e = Name(n)
  <2>1. PICK n \in Names \cup Relvars : e = Name(n)
    BY <1>2
  <2>2. found = CheckName(s, n).errors /\ \A w : EvalFaults(w, e) = ReadFaults(w, n)
    BY <2>1 DEF CheckExpr, Name, EvalFaults, OperandFaults
  <2>3. faults = UNION {ReadFaults(w, n) : w \in ws}
    BY <2>2
  <2> HIDE DEF found, faults
  <2>4. Backed(found, faults)
    BY <2>2, <2>3, NameShown
  <2> QED BY <2>4 DEF found, faults
<1>3. CASE e = CallOper
  <2>1. found = CheckCallPurity /\ \A w : EvalFaults(w, e) = Effect(w)
    BY <1>3 DEF CheckExpr, CheckCall, CallOper, Checked, EvalFaults
  <2>2. faults = UNION {Effect(w) : w \in ws}
    BY <2>1
  <2> HIDE DEF found, faults
  <2>3. Backed(found, faults)
    BY <2>1, <2>2, PurityShown
  <2> QED BY <2>3 DEF found, faults
<1>4. CASE \E ty \in Solid : e = WriteLine(Lit(ty)) /\ ty = "Text"
  <2>1. found = CheckCallPurity
    <3>1. CheckExpr(s, e) = CheckCall(s, e) /\ e.k # "oper" /\ e.arg = Lit("Text")
      BY <1>4 DEF CheckExpr, WriteLine
    <3>2. CheckNamedArg(s, Lit("Text"), "Text").errors = {}
      BY DEF CheckNamedArg, Lit, Checked, AssignableTo
    <3> QED BY <3>1, <3>2 DEF CheckCall, Checked
  <2>2. \A w : Effect(w) \subseteq EvalFaults(w, e)
    BY <1>4 DEF EvalFaults, WriteLine
  <2>3. UNION {Effect(w) : w \in ws} \subseteq faults
    BY <2>2
  <2> HIDE DEF found, faults
  <2>4. Backed(found, faults)
    BY <2>1, <2>3, PurityShown, BackedMore
  <2> QED BY <2>4 DEF found, faults
<1>5. CASE \E n \in Names \cup Relvars : e = WriteLine(Name(n))
  <2>1. PICK n \in Names \cup Relvars : e = WriteLine(Name(n))
    BY <1>5
  <2> DEFINE a == CheckName(s, n)
             more == IF AssignableTo(a.ty, "Text") THEN {} ELSE {"T0004"}
  <2>2. found = (a.errors \cup more) \cup CheckCallPurity
    <3>1. DOMAIN a = {"scope", "ty", "errors"}
      BY DEF CheckName, Checked
    <3>2. CheckNamedArg(s, Name(n), "Text") = [a EXCEPT !.errors = @ \cup more]
      BY DEF CheckNamedArg, Name
    <3>3. CheckExpr(s, e) = CheckCall(s, e)
      BY <2>1 DEF CheckExpr, WriteLine
    <3>4. CheckExpr(s, e) = Checked(CheckNamedArg(s, Name(n), "Text").scope, "Unit",
                      CheckNamedArg(s, Name(n), "Text").errors \cup CheckCallPurity)
      BY <2>1, <3>3 DEF CheckCall, WriteLine
    <3> HIDE DEF a, more
    <3> QED BY <3>1, <3>2, <3>4 DEF Checked
  <2>3. more \cap Codes = {}
    BY DEF Codes
  <2>4. \A w : Effect(w) \subseteq EvalFaults(w, e) /\ ReadFaults(w, n) \subseteq EvalFaults(w, e)
    BY <2>1 DEF EvalFaults, WriteLine, Name, OperandFaults
  <2>5. /\ UNION {Effect(w) : w \in ws} \subseteq faults
        /\ UNION {ReadFaults(w, n) : w \in ws} \subseteq faults
    BY <2>4
  <2> HIDE DEF found, faults, a, more
  <2>6. Backed(a.errors, faults) /\ Backed(CheckCallPurity, faults) /\ Backed(more, faults)
    <3>1. Backed(a.errors, UNION {ReadFaults(w, n) : w \in ws})
      BY NameShown DEF a
    <3>2. Backed(CheckCallPurity, UNION {Effect(w) : w \in ws})
      BY PurityShown
    <3>3. Backed(more, faults)
      BY <2>3, BackedOthers
    <3> QED BY <2>5, <3>1, <3>2, <3>3, BackedMore
  <2>7. Backed(found, faults)
    BY <2>2, <2>6, BackedUnion
  <2> QED BY <2>7 DEF found, faults
<1> QED BY <1>1, <1>2, <1>3, <1>4, <1>5, ExpressionCases

LEMMA NameMarks ==
    ASSUME NEW s \in Scopes, NEW n
    PROVE  CheckName(s, n).scope \in Scopes /\ OnlyMarks(s, CheckName(s, n).scope)
<1>1. CASE Bound(s, n)
  <2>1. CheckName(s, n).scope = MarkUsed(s, n)
    BY <1>1 DEF CheckName, Checked
  <2> QED BY <2>1, MarkUsedMarks
<1>2. CASE ~Bound(s, n)
  <2>1. CheckName(s, n).scope = s
    BY <1>2 DEF CheckName, Checked
  <2> QED BY <2>1, MarksReflexive
<1> QED BY <1>1, <1>2

\* Whatever is wrong with it, checking an expression only marks its names.
LEMMA ExprMarks ==
    ASSUME NEW s \in Scopes, NEW e \in Expressions
    PROVE  CheckExpr(s, e).scope \in Scopes /\ OnlyMarks(s, CheckExpr(s, e).scope)
<1>1. CASE \E ty \in Solid : e = Lit(ty)
  <2>1. CheckExpr(s, e).scope = s
    BY <1>1 DEF CheckExpr, Lit, Checked
  <2> QED BY <2>1, MarksReflexive
<1>2. CASE \E n \in Names \cup Relvars : e = Name(n)
  <2>1. PICK n \in Names \cup Relvars : e = Name(n)
    BY <1>2
  <2>2. CheckExpr(s, e) = CheckName(s, n)
    BY <2>1 DEF CheckExpr, Name
  <2> QED BY <2>2, NameMarks
<1>3. CASE e = CallOper
  <2>1. CheckExpr(s, e).scope = s
    BY <1>3 DEF CheckExpr, CheckCall, CallOper, Checked
  <2> QED BY <2>1, MarksReflexive
<1>4. CASE \E ty \in Solid : e = WriteLine(Lit(ty)) /\ ty = "Text"
  <2>1. CheckExpr(s, e) = CheckCall(s, e) /\ e.k # "oper" /\ e.arg = Lit("Text")
    BY <1>4 DEF CheckExpr, WriteLine
  <2>2. CheckNamedArg(s, Lit("Text"), "Text").scope = s
    BY DEF CheckNamedArg, Lit, Checked
  <2>3. CheckExpr(s, e).scope = s
    BY <2>1, <2>2 DEF CheckCall, Checked
  <2> QED BY <2>3, MarksReflexive
<1>5. CASE \E n \in Names \cup Relvars : e = WriteLine(Name(n))
  <2>1. PICK n \in Names \cup Relvars : e = WriteLine(Name(n))
    BY <1>5
  <2>2. CheckExpr(s, e) = CheckCall(s, e)
    BY <2>1 DEF CheckExpr, WriteLine
  <2>3. DOMAIN CheckName(s, n) = {"scope", "ty", "errors"}
    BY DEF CheckName, Checked
  <2>4. CheckNamedArg(s, Name(n), "Text").scope = CheckName(s, n).scope
    BY <2>3 DEF CheckNamedArg, Name
  <2>5. CheckExpr(s, e).scope = CheckName(s, n).scope
    BY <2>1, <2>2, <2>4 DEF CheckCall, WriteLine, Checked
  <2> QED BY <2>5, NameMarks
<1> QED BY <1>1, <1>2, <1>3, <1>4, <1>5, ExpressionCases


-----------------------------------------------------------------------------
(* How a walk goes on.                                                      *)

\* Before a step: nothing refused so far, no return behind it.
Going == Flowing /\ DepthsAgree /\ Shown(scope, blocks, worlds)

\* After it: what is refused was done, what waits is waited for.
Justified ==
    /\ Backed(errors, events)
    /\ errors = {} /\ "left early" \notin events /\ blocks # << >> => Shown(scope, blocks, worlds)

LEMMA Justify ==
    ASSUME errors = {}, NEW found, errors' = errors \cup found,
           NEW happens, events' = events \cup happens, Backed(found, happens),
           found = {} /\ "left early" \notin happens /\ blocks' # << >> => Shown(scope', blocks', worlds')
    PROVE  Justified'
<1>1. errors' = found /\ happens \subseteq events' /\ ("left early" \in happens => "left early" \in events')
  OBVIOUS
<1>2. Backed(errors', events')
  BY <1>1, BackedMore
<1>3. errors' = {} /\ "left early" \notin events' /\ blocks' # << >> => Shown(scope', blocks', worlds')
  BY <1>1
<1> QED BY <1>2, <1>3 DEF Justified

LEMMA GoingHere ==
    ASSUME Going, Checking
    PROVE  /\ Walk(scope, blocks, tail, worlds) /\ scope \in Scopes /\ blocks \in Seq(BlockRecs)
           /\ Len(scope) \in Nat \ {0} /\ Len(blocks) = Len(scope) /\ errors = {}
           /\ \A w \in worlds : Agrees(scope, Len(scope), w, UninitSnapshot(scope))
           /\ Standing(scope, worlds)
<1>1. Walk(scope, blocks, tail, worlds) /\ errors = {}
  BY DEF Going, Flowing, Checking
<1>2. /\ scope \in Scopes /\ blocks \in Seq(BlockRecs) /\ Len(blocks) = Len(scope) /\ Len(blocks) # 0
      /\ \A w \in worlds : Agrees(scope, Len(scope), w, UninitSnapshot(scope))
  BY <1>1 DEF Walk
<1>3. Len(scope) \in Nat \ {0}
  BY <1>2, ScopeTypes
<1>4. Exact(scope, Len(scope), worlds, UninitSnapshot(scope)) /\ txDepth \in Int /\ AllAt(worlds, txDepth)
  BY DEF Going, Shown, DepthsAgree
<1> QED BY <1>1, <1>2, <1>3, <1>4 DEF Standing

LEMMA StandingMarked ==
    ASSUME NEW s, NEW ws, Standing(s, ws), NEW t \in Scopes, OnlyMarks(s, t)
    PROVE  Standing(t, ws)
<1>1. s \in Scopes
  BY DEF Standing
<1>2. Kept(s, t, Len(s)) /\ UninitSnapshot(t) = UninitSnapshot(s) /\ Len(t) = Len(s)
  BY <1>1, MarksKeep DEF OnlyMarks
<1> DEFINE m == Len(s)
           U == UninitSnapshot(s)
<1> HIDE DEF m, U
<1>3. \A w \in ws : Agrees(t, m, w, U)
  BY <1>1, <1>2, AgreesKept DEF Standing, m, U
<1>4. Exact(t, m, ws, U)
  BY <1>1, <1>2, ExactSame DEF Standing, m, U
<1> QED BY <1>2, <1>3, <1>4 DEF Standing, m, U

LEMMA SpreadKept ==
    ASSUME NEW s \in Scopes, NEW t \in Scopes, NEW k, Kept(s, t, k - 1), NEW b, Spread(s, k, b)
    PROVE  Spread(t, k, b)
BY ExactSame DEF Spread

LEMMA ShownTo ==
    ASSUME NEW s \in Scopes, NEW bs, Len(bs) \in Nat, NEW ws0, Shown(s, bs, ws0),
           NEW q \in 1 .. Len(bs) + 1, NEW cs, Len(cs) = q, \A k \in 1 .. q - 1 : cs[k] = bs[k],
           NEW t \in Scopes, Len(t) = q, Kept(s, t, q - 1), Spread(t, q, cs[q]),
           NEW ws, Exact(t, q, ws, UninitSnapshot(t))
    PROVE  Shown(t, cs, ws)
<1>1. ASSUME NEW k \in 1 .. q PROVE Spread(t, k, cs[k])
  <2>1. CASE k = q
    BY <2>1
  <2>2. CASE k # q
    <3>1. k \in 1 .. q - 1 /\ k \in 1 .. Len(bs) /\ k - 1 \in 0 .. q - 1
      BY <2>2
    <3>2. Kept(s, t, k - 1)
      BY <3>1, KeptLess
    <3>3. Spread(s, k, bs[k]) /\ cs[k] = bs[k]
      BY <3>1 DEF Shown
    <3> QED BY <3>2, <3>3, SpreadKept
  <2> QED BY <2>1, <2>2
<1> QED BY <1>1 DEF Shown

LEMMA ShownOn ==
    ASSUME Going, Checking, NEW t \in Scopes, Len(t) = Len(scope), Kept(scope, t, Len(scope) - 1),
           NEW ws, Exact(t, Len(t), ws, UninitSnapshot(t))
    PROVE  Shown(t, blocks, ws)
<1> DEFINE q == Len(blocks)
<1>1. scope \in Scopes /\ q \in Nat \ {0} /\ Len(scope) = q /\ Shown(scope, blocks, worlds)
  BY GoingHere DEF Going
<1>2. Spread(t, q, blocks[q])
  <2>1. Spread(scope, q, blocks[q])
    BY <1>1 DEF Shown
  <2> QED BY <1>1, <2>1, SpreadKept
<1>3. q \in 1 .. Len(blocks) + 1 /\ \A k \in 1 .. q - 1 : blocks[k] = blocks[k]
  BY <1>1
<1> QED BY <1>1, <1>2, <1>3, ShownTo

\* A statement that marks names and leaves every execution where it is.
LEMMA MarkingJustified ==
    ASSUME Going, CanGoOn, NEW c, NEW happens, NEW reads,
           Statement(c, worlds, happens, reads), UNCHANGED blocks,
           c.scope \in Scopes, OnlyMarks(scope, c.scope), Backed(c.errors, happens)
    PROVE  Justified'
<1>1. Checking /\ errors = {}
  BY DEF CanGoOn, Checking
<1>2. /\ errors' = errors \cup c.errors /\ events' = events \cup happens
      /\ scope' = c.scope /\ worlds' = worlds
  BY DEF Statement, Step
<1>3. Shown(c.scope, blocks, worlds)
  <2>1. scope \in Scopes /\ Len(scope) \in Nat \ {0} /\ Standing(scope, worlds)
    BY <1>1, GoingHere
  <2>2. Standing(c.scope, worlds)
    BY <2>1, StandingMarked
  <2>3. Exact(c.scope, Len(c.scope), worlds, UninitSnapshot(c.scope))
    BY <2>2 DEF Standing
  <2>4. Len(c.scope) = Len(scope) /\ Kept(scope, c.scope, Len(scope))
    BY <2>1, MarksKeep DEF OnlyMarks
  <2>5. Kept(scope, c.scope, Len(scope) - 1)
    <3>1. Len(scope) - 1 \in 0 .. Len(scope)
      BY <2>1
    <3> QED BY <2>1, <2>4, <3>1, KeptLess
  <2> QED BY <1>1, <2>3, <2>4, <2>5, ShownOn
<1> QED BY <1>1, <1>2, <1>3, Justify

\* Checking an expression here.
LEMMA ExprStands ==
    ASSUME Going, CanGoOn, NEW e \in Expressions
    PROVE  LET x == CheckExpr(scope, e)
           IN  /\ x.scope \in Scopes /\ OnlyMarks(scope, x.scope) /\ Standing(x.scope, worlds)
               /\ Backed(x.errors, Happens(e))
<1>1. Checking
  BY DEF CanGoOn
<1>2. scope \in Scopes /\ Standing(scope, worlds)
  BY <1>1, GoingHere
<1>3. Backed(CheckExpr(scope, e).errors, Happens(e))
  BY <1>2, ExprShown DEF Happens
<1> QED BY <1>2, <1>3, ExprMarks, StandingMarked

LEMMA NeededShown ==
    ASSUME Going, CanGoOn, NEW r
    PROVE  Backed(TransactionNeeded(r), TouchedBy(r))
<1>1. Standing(scope, worlds)
  BY GoingHere DEF CanGoOn
<1>2. CASE r \in PublicRelvars /\ txDepth = 0
  <2>1. "bare access" \in TouchedBy(r)
    BY <1>1, <1>2, TouchShown DEF TouchedBy
  <2> QED BY <1>2, <2>1 DEF TransactionNeeded, Backed
<1>3. CASE ~(r \in PublicRelvars /\ txDepth = 0)
  BY <1>3, BackedOthers DEF TransactionNeeded
<1> QED BY <1>2, <1>3

-----------------------------------------------------------------------------
(* The verbs on relvars, and expression statements.                         *)

LEMMA MarkedThen ==
    ASSUME NEW s \in Scopes, NEW x \in Scopes, OnlyMarks(s, x), NEW n
    PROVE  MarkUsed(x, n) \in Scopes /\ OnlyMarks(s, MarkUsed(x, n))
BY MarkUsedMarks, MarksTransitive

LEMMA AssignRelvarJustified ==
    ASSUME Going, AssignRelvar
    PROVE  Justified'
<1>1. PICK r, e, x, c :
         /\ r \in Relvars /\ e \in Operands
         /\ CanWrite /\ UNCHANGED blocks /\ x = CheckExpr(scope, e)
         /\ c = Checked(MarkUsed(x.scope, r), "Unit", x.errors \cup Mismatch("T0034", x.ty, "Relation"))
         /\ Statement(c, worlds, Happens(e) \cup TouchedBy(r), Reads(e))
  BY DEF AssignRelvar
<1>2. e \in Expressions /\ CanGoOn /\ Checking
  BY <1>1, ExpressionSets DEF CanWrite, CanGoOn
<1>3. /\ scope \in Scopes /\ x.scope \in Scopes /\ OnlyMarks(scope, x.scope)
      /\ Backed(x.errors, Happens(e))
  BY <1>1, <1>2, ExprStands, GoingHere
<1>4. c.scope = MarkUsed(x.scope, r) /\ c.errors = x.errors \cup Mismatch("T0034", x.ty, "Relation")
  BY <1>1 DEF Checked
<1>5. c.scope \in Scopes /\ OnlyMarks(scope, c.scope)
  BY <1>3, <1>4, MarkedThen
<1>6. Backed(c.errors, Happens(e) \cup TouchedBy(r))
  <2>1. Backed(x.errors, Happens(e) \cup TouchedBy(r))
    BY <1>3, BackedMore
  <2>2. Backed(Mismatch("T0034", x.ty, "Relation"), Happens(e) \cup TouchedBy(r))
    BY BackedMismatch DEF Codes
  <2> QED BY <1>4, <2>1, <2>2, BackedUnion
<1> QED BY <1>1, <1>2, <1>5, <1>6, MarkingJustified

LEMMA TruncateJustified ==
    ASSUME Going, TruncateStmt
    PROVE  Justified'
<1>1. PICK n, c :
         /\ n \in Names \cup Relvars
         /\ CanWrite /\ UNCHANGED blocks /\ Statement(c, worlds, TouchedBy(n), {})
         /\ c = IF n \in Relvars THEN Checked(MarkUsed(scope, n), "Unit", TransactionNeeded(n))
                                 ELSE Checked(scope, "Unit", {"T0033"})
  BY DEF TruncateStmt
<1>2. CanGoOn /\ Checking
  BY <1>1 DEF CanWrite, CanGoOn
<1>3. scope \in Scopes /\ OnlyMarks(scope, scope)
  BY <1>2, GoingHere, MarksReflexive
<1>4. /\ c.scope \in Scopes /\ OnlyMarks(scope, c.scope)
      /\ c.errors = TransactionNeeded(n) \/ c.errors = {"T0033"}
  BY <1>1, <1>3, MarkedThen DEF Checked
<1>5. Backed(c.errors, TouchedBy(n))
  <2>1. Backed({"T0033"}, TouchedBy(n))
    BY BackedOthers DEF Codes
  <2> QED BY <1>2, <1>4, <2>1, NeededShown
<1> QED BY <1>1, <1>2, <1>4, <1>5, MarkingJustified

LEMMA DeleteJustified ==
    ASSUME Going, DeleteStmt
    PROVE  Justified'
<1>1. PICK n, c :
         /\ n \in Names \cup Relvars
         /\ CanWrite /\ UNCHANGED blocks /\ Statement(c, worlds, TouchedBy(n), {})
         /\ c = IF n \in Relvars THEN CheckName(scope, n) ELSE Checked(scope, "Unit", {"T0033"})
  BY DEF DeleteStmt
<1>2. CanGoOn /\ Checking
  BY <1>1 DEF CanWrite, CanGoOn
<1>3. scope \in Scopes /\ OnlyMarks(scope, scope) /\ Standing(scope, worlds)
  BY <1>2, GoingHere, MarksReflexive
<1>4. CASE n \in Relvars
  <2>1. c = CheckName(scope, n)
    BY <1>1, <1>4
  <2>2. c.scope \in Scopes /\ OnlyMarks(scope, c.scope)
    BY <1>3, <2>1, NameMarks
  <2>3. Backed(c.errors, TouchedBy(n))
    BY <1>1, <1>3, <1>4, <2>1, NameShown DEF TouchedBy
  <2> QED BY <1>1, <1>2, <2>2, <2>3, MarkingJustified
<1>5. CASE n \notin Relvars
  <2>1. c.scope = scope /\ c.errors = {"T0033"}
    BY <1>1, <1>5 DEF Checked
  <2>2. Backed(c.errors, TouchedBy(n))
    BY <2>1, BackedOthers DEF Codes
  <2> QED BY <1>1, <1>2, <1>3, <2>1, <2>2, MarkingJustified
<1> QED BY <1>4, <1>5

LEMMA InsertJustified ==
    ASSUME Going, InsertStmt
    PROVE  Justified'
<1>1. PICK n \in Names \cup Relvars : \E e \in Sources(n) : \E x, c :
         /\ CanWrite /\ UNCHANGED blocks /\ x = CheckExpr(scope, e)
         /\ Statement(c, worlds, Happens(e) \cup TouchedBy(n), Reads(e))
         /\ c = IF n \in Relvars
                THEN Checked(MarkUsed(x.scope, n), "Unit",
                             x.errors \cup TransactionNeeded(n) \cup Mismatch("T0034", x.ty, "Relation"))
                ELSE [x EXCEPT !.errors = @ \cup {"T0033"}]
  BY DEF InsertStmt
<1>2. PICK e, x, c :
         /\ e \in Sources(n)
         /\ CanWrite /\ UNCHANGED blocks /\ x = CheckExpr(scope, e)
         /\ Statement(c, worlds, Happens(e) \cup TouchedBy(n), Reads(e))
         /\ c = IF n \in Relvars
                THEN Checked(MarkUsed(x.scope, n), "Unit",
                             x.errors \cup TransactionNeeded(n) \cup Mismatch("T0034", x.ty, "Relation"))
                ELSE [x EXCEPT !.errors = @ \cup {"T0033"}]
  BY <1>1
<1>3. e \in Expressions /\ CanGoOn /\ Checking
  BY <1>2, ExpressionSets DEF CanWrite, CanGoOn
<1>4. /\ scope \in Scopes /\ x.scope \in Scopes /\ OnlyMarks(scope, x.scope)
      /\ Backed(x.errors, Happens(e))
  BY <1>2, <1>3, ExprStands, GoingHere
<1> DEFINE h == Happens(e) \cup TouchedBy(n)
<1>5. Backed(x.errors, h) /\ Backed(TransactionNeeded(n), h)
  BY <1>3, <1>4, NeededShown, BackedMore
<1>6. Backed(Mismatch("T0034", x.ty, "Relation"), h) /\ Backed({"T0033"}, h)
  BY BackedMismatch, BackedOthers DEF Codes
<1>7. c.scope \in Scopes /\ OnlyMarks(scope, c.scope)
  <2>1. c.scope = MarkUsed(x.scope, n) \/ c.scope = x.scope
    BY <1>2 DEF Checked
  <2> QED BY <1>4, <2>1, MarkedThen
<1>8. Backed(c.errors, h)
  <2>1. \/ c.errors = (x.errors \cup TransactionNeeded(n)) \cup Mismatch("T0034", x.ty, "Relation")
        \/ c.errors = x.errors \cup {"T0033"}
    <3>1. [x EXCEPT !.errors = @ \cup {"T0033"}].errors = x.errors \cup {"T0033"}
      BY <1>2, ErrorsField
    <3> QED BY <1>2, <3>1 DEF Checked
  <2> HIDE DEF h
  <2> QED BY <1>5, <1>6, <2>1, BackedUnion
<1> QED BY <1>2, <1>3, <1>7, <1>8, MarkingJustified

LEMMA UpdateJustified ==
    ASSUME Going, UpdateStmt
    PROVE  Justified'
<1>1. PICK n \in Names \cup Relvars : \E e \in Sources(n) : \E o, x, c :
         /\ CanWrite /\ UNCHANGED blocks /\ o = CheckName(scope, n) /\ x = CheckExpr(o.scope, e)
         /\ Statement(c, worlds, Happens(e) \cup TouchedBy(n), Reads(e))
         /\ c = IF n \in Relvars
                THEN Checked(x.scope, "Unit", o.errors \cup x.errors \cup Mismatch("T0034", x.ty, "Integer"))
                ELSE Checked(scope, "Unit", {"T0033"})
  BY DEF UpdateStmt
<1>2. PICK e, o, x, c :
         /\ e \in Sources(n)
         /\ CanWrite /\ UNCHANGED blocks /\ o = CheckName(scope, n) /\ x = CheckExpr(o.scope, e)
         /\ Statement(c, worlds, Happens(e) \cup TouchedBy(n), Reads(e))
         /\ c = IF n \in Relvars
                THEN Checked(x.scope, "Unit", o.errors \cup x.errors \cup Mismatch("T0034", x.ty, "Integer"))
                ELSE Checked(scope, "Unit", {"T0033"})
  BY <1>1
<1>3. e \in Expressions /\ CanGoOn /\ Checking
  BY <1>2, ExpressionSets DEF CanWrite, CanGoOn
<1>4. scope \in Scopes /\ OnlyMarks(scope, scope) /\ Standing(scope, worlds)
  BY <1>3, GoingHere, MarksReflexive
<1>5. o.scope \in Scopes /\ OnlyMarks(scope, o.scope) /\ Standing(o.scope, worlds)
  BY <1>2, <1>4, NameMarks, StandingMarked
<1>6. x.scope \in Scopes /\ OnlyMarks(scope, x.scope) /\ Backed(x.errors, Happens(e))
  <2>1. x.scope \in Scopes /\ OnlyMarks(o.scope, x.scope)
    BY <1>2, <1>3, <1>5, ExprMarks
  <2>2. Backed(x.errors, Happens(e))
    BY <1>2, <1>3, <1>5, ExprShown DEF Happens
  <2> QED BY <1>4, <1>5, <2>1, <2>2, MarksTransitive
<1> DEFINE h == Happens(e) \cup TouchedBy(n)
<1>7. CASE n \in Relvars
  <2>1. c.scope = x.scope /\ c.errors = (o.errors \cup x.errors) \cup Mismatch("T0034", x.ty, "Integer")
    BY <1>2, <1>7 DEF Checked
  <2>2. Backed(o.errors, TouchedBy(n))
    BY <1>2, <1>4, <1>7, NameShown DEF TouchedBy
  <2>3. Backed(o.errors, h) /\ Backed(x.errors, h) /\ Backed(Mismatch("T0034", x.ty, "Integer"), h)
    BY <1>6, <2>2, BackedMore, BackedMismatch DEF Codes
  <2> HIDE DEF h
  <2>4. Backed(c.errors, h)
    BY <2>1, <2>3, BackedUnion
  <2> QED BY <1>2, <1>3, <1>6, <2>1, <2>4, MarkingJustified DEF h
<1>8. CASE n \notin Relvars
  <2>1. c.scope = scope /\ c.errors = {"T0033"}
    BY <1>2, <1>8 DEF Checked
  <2>2. Backed(c.errors, h)
    BY <2>1, BackedOthers DEF Codes
  <2> QED BY <1>2, <1>3, <1>4, <2>1, <2>2, MarkingJustified
<1> QED BY <1>7, <1>8

LEMMA ExprJustified ==
    ASSUME Going, ExprStmt
    PROVE  Justified'
<1>1. PICK e, c :
         /\ e \in Calls
         /\ CanWrite /\ UNCHANGED blocks /\ c = CheckExpr(scope, e)
         /\ Statement(c, worlds, Happens(e), Reads(e))
  BY DEF ExprStmt
<1>2. e \in Expressions /\ CanGoOn
  BY <1>1, ExpressionSets DEF CanWrite
<1>3. c.scope \in Scopes /\ OnlyMarks(scope, c.scope) /\ Backed(c.errors, Happens(e))
  BY <1>1, <1>2, ExprStands
<1> QED BY <1>1, <1>2, <1>3, MarkingJustified

LEMMA LoadReverseJustified ==
    ASSUME Going, LoadReverse
    PROVE  Justified'
<1>1. PICK n, e, x, found, c :
         /\ n \in Names \cup Relvars /\ e \in {Name(k) : k \in Names}
         /\ CanWrite /\ UNCHANGED blocks /\ x = CheckExpr(scope, e)
         /\ found \cap Codes = {}
         /\ c = Checked(MarkUsed(x.scope, n), "Unit", x.errors \cup found)
         /\ Statement(c, worlds, Happens(e) \cup TouchedBy(n), Reads(e))
  <2>1. PICK n \in Names \cup Relvars, e \in {Name(k) : k \in Names} :
           LET x == CheckExpr(scope, e)
               found == CASE n \in Names          -> {"T0033"}
                       [] n \in PublicRelvars -> {"T0084"}
                       [] OTHER               -> {}
           IN  /\ CanWrite /\ UNCHANGED blocks
               /\ Statement(Checked(MarkUsed(x.scope, n), "Unit", x.errors \cup found),
                         worlds, Happens(e) \cup TouchedBy(n), Reads(e))
    BY DEF LoadReverse
  <2> DEFINE found == CASE n \in Names          -> {"T0033"}
                       [] n \in PublicRelvars -> {"T0084"}
                       [] OTHER               -> {}
  <2>2. found \cap Codes = {}
    <3>1. n \in PublicRelvars => n \notin Names
      BY RelvarsAreNotBound
    <3> QED BY <3>1 DEF Codes
  <2> HIDE DEF found
  <2> QED BY <2>1, <2>2 DEF found
<1>2. e \in Expressions /\ CanGoOn /\ Checking
  BY <1>1, ExpressionSets DEF CanWrite, CanGoOn
<1>3. /\ scope \in Scopes /\ x.scope \in Scopes /\ OnlyMarks(scope, x.scope)
      /\ Backed(x.errors, Happens(e))
  BY <1>1, <1>2, ExprStands, GoingHere
<1>4. c.scope = MarkUsed(x.scope, n) /\ c.errors = x.errors \cup found
  BY <1>1 DEF Checked
<1>5. c.scope \in Scopes /\ OnlyMarks(scope, c.scope)
  BY <1>3, <1>4, MarkedThen
<1>6. Backed(c.errors, Happens(e) \cup TouchedBy(n))
  <2>1. Backed(x.errors, Happens(e) \cup TouchedBy(n)) /\ Backed(found, Happens(e) \cup TouchedBy(n))
    BY <1>1, <1>3, BackedMore, BackedOthers
  <2> QED BY <1>4, <2>1, BackedUnion
<1> QED BY <1>1, <1>2, <1>5, <1>6, MarkingJustified


-----------------------------------------------------------------------------
(* Bindings and assignments.                                                *)

LEMMA DeclareFrames ==
    ASSUME NEW s \in Scopes, NEW m \in Nat \ {0}, NEW w, NEW U, Agrees(s, m, w, U),
           NEW n \in Names, NEW c \in Cells
    PROVE  LET v == Declare(w, n, c)
           IN  /\ \A l \in 1 .. m - 1 : v.frames[l] = w.frames[l]
               /\ v.frames[m][n] = c
               /\ \A y \in DOMAIN w.frames[m] : y # n => v.frames[m][y] = w.frames[m][y]
<1> DEFINE v == Declare(w, n, c)
           g == w.frames[m]
           f == With(g, n, c)
           fs == [w.frames EXCEPT ![m] = f]
<1>1. /\ w \in Worlds /\ Len(w.frames) = m /\ w.frames \in Seq(Frames) /\ w.frames[m] \in Frames
      /\ m \in 1 .. m
  <2>1. w \in Worlds /\ Len(w.frames) = m
    BY DEF Agrees
  <2>2. w.frames \in Seq(Frames)
    BY <2>1 DEF Worlds
  <2>3. m \in 1 .. m
    OBVIOUS
  <2> QED BY <2>1, <2>2, <2>3, WorldTypes
<1>2. f \in Frames /\ f[n] = c /\ \A y \in DOMAIN g : y # n => f[y] = g[y]
  <2>1. g \in Frames
    BY <1>1
  <2> HIDE DEF g
  <2> QED BY <2>1, WithCell
<1> HIDE DEF f
<1>3. fs \in Seq(Frames) /\ \A l \in 1 .. m : fs[l] = IF l = m THEN f ELSE w.frames[l]
  BY <1>1, <1>2, ExceptIsSeq
<1>4. v = [w EXCEPT !.frames = fs]
  BY <1>1 DEF Declare, f
<1> HIDE DEF fs, v
<1>5. v.frames = fs
  BY <1>1, <1>3, <1>4, WorldWith
<1>6. \A l \in 1 .. m - 1 : l \in 1 .. m /\ l # m
  OBVIOUS
<1> QED BY <1>1, <1>2, <1>3, <1>5, <1>6 DEF v

LEMMA WriteFrames ==
    ASSUME NEW s \in Scopes, NEW m \in 0 .. Len(s), NEW w, NEW U, Agrees(s, m, w, U),
           NEW n \in Names, NEW l, NEW i, Visible(s, m, n, l, i), NEW x
    PROVE  \A k \in 1 .. m : \A y \in DOMAIN w.frames[k] :
              ~(k = l /\ y = n) => Write(w, n, x).frames[k][y] = w.frames[k][y]
<1> DEFINE f == w.frames[l]
           g == [f EXCEPT ![n] = [f[n] EXCEPT !.holds = x]]
           fs == [w.frames EXCEPT ![l] = g]
<1>1. w \in Worlds /\ Len(w.frames) = m /\ DOMAIN w.frames = 1 .. m /\ DOMAIN w = {"frames", "depth", "val"}
  BY WorldTypes DEF Agrees
<1>2. FrameOf(w, n) = l
  BY FrameVisible
<1>3. Write(w, n, x) = [w EXCEPT !.frames = fs]
  BY <1>2 DEF Write
<1>4. \A y \in DOMAIN f : y # n => g[y] = f[y]
  OBVIOUS
<1> HIDE DEF g
<1>5. \A k \in 1 .. m : fs[k] = IF k = l THEN g ELSE w.frames[k]
  BY <1>1
<1> HIDE DEF fs
<1>6. Write(w, n, x).frames = fs
  BY <1>1, <1>3
<1> QED BY <1>4, <1>5, <1>6

\* A name that waits is in its frame.
LEMMA WaitingNames ==
    ASSUME NEW s \in Scopes, NEW m \in 0 .. Len(s), NEW w, NEW U, Agrees(s, m, w, U)
    PROVE  \A l \in 1 .. m : \A i \in 1 .. Len(s[l]) : <<l, i>> \in UninitSnapshot(s) =>
              s[l][i].name \in Names /\ s[l][i].name \in DOMAIN w.frames[l]
<1> SUFFICES ASSUME NEW l \in 1 .. m, NEW i \in 1 .. Len(s[l]), <<l, i>> \in UninitSnapshot(s)
             PROVE  s[l][i].name \in Names /\ s[l][i].name \in DOMAIN w.frames[l]
  OBVIOUS
<1>1. l \in 1 .. Len(s)
  BY ScopeTypes
<1>2. s[l][i] \in Bindings /\ ~s[l][i].initialized
  BY <1>1, ScopeTypes, UninitWithin
<1>3. s[l][i].name \in Names
  BY <1>2 DEF Bindings, Proper, Marks
<1> QED BY <1>3 DEF Agrees

LEMMA ExactDeclared ==
    ASSUME NEW s \in Scopes, Len(s) # 0, NEW b \in Bindings, b.name \in Names,
           NEW ws, \A w \in ws : Agrees(s, Len(s), w, UninitSnapshot(s)),
           Exact(s, Len(s), ws, UninitSnapshot(s)),
           NEW vs, \A w \in ws : \E c \in Cells :
                      Declare(w, b.name, c) \in vs /\ (~b.initialized => c.holds = "nothing")
    PROVE  Exact(Insert(s, b), Len(s), vs, UninitSnapshot(Insert(s, b)))
<1> DEFINE m == Len(s)
           i0 == Len(s[m]) + 1
           t == Insert(s, b)
           n == b.name
           U == UninitSnapshot(s)
           V == UninitSnapshot(t)
<1>1. m \in Nat \ {0} /\ m \in 1 .. m /\ m \in 0 .. Len(s) /\ i0 \in Nat \ {0} /\ i0 - 1 = Len(s[m])
  BY ScopeTypes
<1>2. /\ t \in Scopes /\ Len(t) = m /\ Len(t[m]) = i0 /\ t[m][i0] = b
      /\ \A j \in 1 .. i0 - 1 : t[m][j] = s[m][j]
      /\ \A l \in 1 .. m - 1 : t[l] = s[l]
      /\ V = U \cup (IF b.initialized THEN {} ELSE {<<m, i0>>})
  BY InsertPlaces
<1>3. \A w \in ws : Agrees(s, m, w, U) /\ Exact(s, m, ws, U)
  OBVIOUS
<1>4. PICK w0 \in ws : TRUE
  BY DEF Exact
<1>5. vs # {}
  BY <1>4
<1> HIDE DEF t, U, V
<1>6. ASSUME NEW l \in 1 .. m, NEW i \in 1 .. Len(t[l]), <<l, i>> \in V, Latest(t[l], i)
      PROVE  \E v \in vs : Empty(t, l, i, v)
  <2>1. CASE l = m /\ i = i0
    <3>1. ~b.initialized
      <4>1. <<l, i>> \notin U
        BY <1>1, <2>1, UninitWithin DEF U
      <4> QED BY <1>2, <1>6, <4>1
    <3>2. PICK c \in Cells : Declare(w0, n, c) \in vs /\ c.holds = "nothing"
      BY <1>4, <3>1
    <3>3. Declare(w0, n, c).frames[m][n] = c
      BY <1>1, <1>3, <1>4, DeclareFrames
    <3>4. t[l][i].name = n
      BY <1>2, <2>1
    <3> QED BY <2>1, <3>2, <3>3, <3>4 DEF Empty
  <2>2. CASE ~(l = m /\ i = i0)
    <3>1. i \in 1 .. Len(s[l]) /\ t[l][i] = s[l][i] /\ <<l, i>> \in U
      <4>1. <<l, i>> \in U
        BY <1>2, <1>6, <2>2
      <4>2. CASE l = m
        <5>1. i \in 1 .. i0 - 1
          BY <1>1, <1>2, <2>2, <4>2
        <5> QED BY <1>1, <1>2, <4>1, <4>2, <5>1
      <4>3. CASE l # m
        <5>1. l \in 1 .. m - 1
          BY <1>1, <4>3
        <5> QED BY <1>2, <4>1, <5>1
      <4> QED BY <4>2, <4>3
    <3>2. Latest(s[l], i) /\ (l = m => s[l][i].name # n)
      <4>1. CASE l = m
        <5>1. i0 \in i + 1 .. i0 /\ \A j \in i + 1 .. Len(s[m]) : j \in i + 1 .. i0 /\ j \in 1 .. i0 - 1
          BY <1>1, <3>1, <4>1
        <5>2. \A j \in i + 1 .. i0 : t[m][j].name # t[m][i].name
          BY <1>2, <1>6, <4>1 DEF Latest
        <5>3. t[m][i] = s[m][i]
          BY <3>1, <4>1
        <5> HIDE DEF i0, m, n
        <5>4. s[m][i].name # n
          BY <1>2, <5>1, <5>2, <5>3 DEF n
        <5>5. Latest(s[m], i)
          BY <1>2, <5>1, <5>2, <5>3 DEF Latest
        <5> QED BY <4>1, <5>4, <5>5
      <4>2. CASE l # m
        <5>1. l \in 1 .. m - 1
          BY <1>1, <4>2
        <5>2. t[l] = s[l]
          BY <1>2, <5>1
        <5> QED BY <1>6, <4>2, <5>2
      <4> QED BY <4>1, <4>2
    <3>3. PICK w \in ws : Empty(s, l, i, w)
      BY <1>3, <1>4, <3>1, <3>2 DEF Exact
    <3>4. PICK c \in Cells : Declare(w, n, c) \in vs
      BY <3>3
    <3> DEFINE v == Declare(w, n, c)
               y == s[l][i].name
    <3>5. y \in DOMAIN w.frames[l]
      <4>1. Agrees(s, m, w, U)
        BY <1>3
      <4> QED BY <1>1, <3>1, <4>1, WaitingNames DEF U
    <3>6. /\ \A k \in 1 .. m - 1 : v.frames[k] = w.frames[k]
          /\ \A z \in DOMAIN w.frames[m] : z # n => v.frames[m][z] = w.frames[m][z]
      BY <1>1, <1>3, DeclareFrames
    <3> HIDE DEF v
    <3>7. v.frames[l][y] = w.frames[l][y]
      <4>1. CASE l = m
        BY <3>2, <3>5, <3>6, <4>1
      <4>2. CASE l # m
        <5>1. l \in 1 .. m - 1
          BY <1>1, <4>2
        <5> QED BY <3>6, <5>1
      <4> QED BY <4>1, <4>2
    <3>8. Empty(t, l, i, v)
      BY <3>1, <3>3, <3>7 DEF Empty
    <3> QED BY <3>4, <3>8 DEF v
  <2> QED BY <2>1, <2>2
<1>7. Exact(t, m, vs, V)
  BY <1>5, <1>6 DEF Exact
<1> QED BY <1>7 DEF t, V

LEMMA DeclaredShown ==
    ASSUME Going, Checking, NEW x \in Scopes, OnlyMarks(scope, x),
           NEW b \in Bindings, b.name \in Names,
           NEW vs, \A w \in worlds : \E c \in Cells :
                      Declare(w, b.name, c) \in vs /\ (~b.initialized => c.holds = "nothing")
    PROVE  Shown(Insert(x, b), blocks, vs)
<1> DEFINE m == Len(scope)
           t == Insert(x, b)
<1>1. scope \in Scopes /\ m \in Nat \ {0} /\ Standing(scope, worlds)
  BY GoingHere
<1>2. Standing(x, worlds) /\ Len(x) = m /\ Kept(scope, x, m)
  BY <1>1, StandingMarked, MarksKeep DEF OnlyMarks
<1>3. t \in Scopes /\ Len(t) = m /\ Kept(x, t, m - 1)
  BY <1>1, <1>2, InsertPlaces
<1>4. Exact(t, m, vs, UninitSnapshot(t))
  BY <1>1, <1>2, ExactDeclared DEF Standing
<1> HIDE DEF t, m
<1>5. Kept(scope, t, m - 1)
  <2>1. Kept(scope, x, m - 1)
    BY <1>1, <1>2, KeptLess
  <2> QED BY <1>1, <1>3, <2>1, KeptTransitive
<1> QED BY <1>3, <1>4, <1>5, ShownOn DEF t, m

LEMMA BindJustified ==
    ASSUME Going, Ground, LetStmt \/ VarStmt
    PROVE  Justified'
<1>1. PICK origin \in {"let", "var"}, n \in Names, e \in Operands \cup {CallOper}, ann \in Annotations :
         CanWrite /\ UNCHANGED blocks /\ Bind(n, e, origin, ann)
  BY DEF LetStmt, VarStmt
<1> DEFINE x == CheckExpr(scope, e)
           ty == IF ann = "none" THEN x.ty ELSE ann
           found == IF ann = "none" THEN {} ELSE Mismatch("T0010", x.ty, ann)
           b == Binding(n, ty, origin, Fresh)
           c == Checked(Insert(x.scope, b), ty, x.errors \cup found)
           ws == {Declare(w, n, Cell(Fresh, origin, Value(w, e))) : w \in worlds}
<1>2. Statement(c, ws, Happens(e), Reads(e))
  BY <1>1 DEF Bind
<1>3. c.errors = x.errors \cup found /\ c.scope = Insert(x.scope, b)
  BY DEF Checked
<1>4. e \in Expressions /\ CanGoOn /\ Checking /\ errors = {}
  BY <1>1, ExpressionSets DEF CanWrite, CanGoOn, Checking
<1>5. /\ errors' = errors \cup c.errors /\ events' = events \cup Happens(e)
      /\ scope' = c.scope /\ worlds' = ws /\ blocks' = blocks
  BY <1>1, <1>2 DEF Statement, Step
<1> HIDE DEF c
<1>6. x.scope \in Scopes /\ OnlyMarks(scope, x.scope) /\ Backed(x.errors, Happens(e))
  BY <1>4, ExprStands
<1>7. Backed(c.errors, Happens(e))
  <2>1. Backed(found, Happens(e))
    BY BackedMismatch, BackedOthers DEF Codes
  <2> HIDE DEF x, found
  <2> QED BY <1>3, <1>6, <2>1, BackedUnion
<1>8. ASSUME c.errors = {} PROVE Shown(scope', blocks', worlds')
  <2>1. x.errors = {} /\ found = {}
    BY <1>3, <1>8
  <2>2. /\ x.ty \in Types \ {"Unknown"}
        /\ \A w \in worlds : Value(w, e) = x.ty /\ x.ty \in Solid
    BY <1>4, <2>1, ExprHere DEF Going
  <2> HIDE DEF x
  <2>3. ty \in Types \ {"Unknown"}
    BY <2>2, TypesAreWritten DEF Types, Solid, Annotations
  <2> HIDE DEF ty
  <2>4. b \in Bindings /\ b.name = n /\ b.initialized
    <3>1. b \in Bindings
      BY <2>3, FreshIsNew, NewBinding
    <3> QED BY <3>1 DEF Binding
  <2> HIDE DEF b
  <2>5. ASSUME NEW w \in worlds
        PROVE  \E cell \in Cells : Declare(w, b.name, cell) \in ws /\ (~b.initialized => cell.holds = "nothing")
    <3> DEFINE cell == Cell(Fresh, origin, Value(w, e))
    <3>1. /\ cell = [id |-> Fresh, decl |-> origin, holds |-> Value(w, e)]
          /\ Fresh \in Nat /\ origin \in Origins /\ Value(w, e) \in Solid
      BY <2>2, FreshIsNew DEF Cell, Origins
    <3>2. cell \in Cells
      BY <3>1 DEF Cells
    <3>3. Declare(w, b.name, cell) \in ws
      BY <2>4
    <3> QED BY <2>4, <3>2, <3>3
  <2> HIDE DEF ws
  <2>6. Shown(Insert(x.scope, b), blocks, ws)
    BY <1>4, <1>6, <2>4, <2>5, DeclaredShown DEF x
  <2> QED BY <1>3, <1>5, <2>6
<1> QED BY <1>4, <1>5, <1>7, <1>8, Justify

LEMMA DeclareJustified ==
    ASSUME Going, Ground, DeclareUnassigned
    PROVE  Justified'
<1>0. PICK n \in Names, origin \in {"let", "var"}, ann \in Annotations :
         LET b == Binding(n, IF ann = "none" THEN "Unknown" ELSE ann, origin, Fresh)
         IN  /\ CanWrite
             /\ Statement(Checked(Insert(scope, [b EXCEPT !.initialized = origin = "let"]), b.ty,
                                  IF origin = "let" THEN {"T0078"} ELSE {}),
                          {Declare(w, n, Cell(Fresh, origin, "nothing")) : w \in worlds}, {}, {})
             /\ UNCHANGED blocks
  BY DEF DeclareUnassigned
<1> DEFINE ty == IF ann = "none" THEN "Unknown" ELSE ann
           b0 == Binding(n, ty, origin, Fresh)
           b  == [b0 EXCEPT !.initialized = origin = "let"]
           c  == Checked(Insert(scope, b), b0.ty, IF origin = "let" THEN {"T0078"} ELSE {})
           ws == {Declare(w, n, Cell(Fresh, origin, "nothing")) : w \in worlds}
<1>1. /\ n \in Names /\ origin \in {"let", "var"} /\ ann \in Annotations
      /\ CanWrite /\ UNCHANGED blocks
      /\ ty = IF ann = "none" THEN "Unknown" ELSE ann
      /\ b0 = Binding(n, ty, origin, Fresh)
      /\ b = [b0 EXCEPT !.initialized = origin = "let"]
      /\ c = Checked(Insert(scope, b), b0.ty, IF origin = "let" THEN {"T0078"} ELSE {})
      /\ ws = {Declare(w, n, Cell(Fresh, origin, "nothing")) : w \in worlds}
      /\ Statement(c, ws, {}, {})
  BY <1>0
<1> HIDE DEF ty, b0, b, c, ws
<1>2. CanGoOn /\ Checking /\ errors = {}
  BY <1>1 DEF CanWrite, CanGoOn, Checking
<1>3. /\ errors' = errors \cup c.errors /\ events' = events \cup {}
      /\ scope' = c.scope /\ worlds' = ws /\ blocks' = blocks
      /\ c.scope = Insert(scope, b) /\ c.errors = IF origin = "let" THEN {"T0078"} ELSE {}
  BY <1>1 DEF Statement, Step, Checked
<1>4. Backed(c.errors, {})
  BY <1>3, BackedOthers DEF Codes
<1>5. ASSUME c.errors = {} PROVE Shown(scope', blocks', worlds')
  <2>1. origin = "var"
    BY <1>1, <1>3, <1>5
  <2>2. b0 = Binding(n, ty, "var", Fresh) /\ b = [b0 EXCEPT !.initialized = FALSE]
    BY <1>1, <2>1
  <2>3. ty \in Types
    BY <1>1 DEF Annotations, Types, Solid
  <2>4. b \in Bindings
    BY <1>1, <2>2, <2>3, FreshIsNew, NewBinding
  <2>5. b.name = n
    BY <2>2 DEF Binding
  <2>6. ASSUME NEW w \in worlds
        PROVE  \E cell \in Cells : Declare(w, b.name, cell) \in ws /\ (~b.initialized => cell.holds = "nothing")
    <3> DEFINE cell == Cell(Fresh, "var", "nothing")
    <3>1. cell = [id |-> Fresh, decl |-> "var", holds |-> "nothing"] /\ Fresh \in Nat /\ "var" \in Origins
      BY FreshIsNew DEF Cell, Origins
    <3>2. cell \in Cells /\ cell.holds = "nothing"
      BY <3>1 DEF Cells
    <3>3. Declare(w, b.name, cell) \in ws
      BY <1>1, <2>1, <2>5
    <3> QED BY <3>2, <3>3
  <2>7. scope \in Scopes /\ OnlyMarks(scope, scope)
    BY <1>2, GoingHere, MarksReflexive
  <2>8. b.name \in Names
    BY <1>1, <2>5
  <2>9. Shown(Insert(scope, b), blocks, ws)
    BY <1>2, <2>4, <2>6, <2>7, <2>8, DeclaredShown
  <2> QED BY <1>3, <2>9
<1> QED BY <1>2, <1>3, <1>4, <1>5, Justify


LEMMA SeenFrames ==
    ASSUME NEW s \in Scopes, NEW m \in 0 .. Len(s), NEW w, NEW U, Agrees(s, m, w, U),
           NEW n \in Names, NEW l, NEW i, Visible(s, m, n, l, i)
    PROVE  FramesOf(w, n) # {}
BY FrameVisible

LEMMA WrittenShown ==
    ASSUME Going, Checking, NEW x \in Scopes, OnlyMarks(scope, x), NEW n \in Names,
           NEW l, NEW i, Visible(x, Len(x), n, l, i), x[l][i].origin = "var",
           NEW ty \in Types \ {"Unknown"},
           NEW vs, \A w \in worlds : \E z : (IF FramesOf(w, n) = {} THEN w ELSE Write(w, n, z)) \in vs
    PROVE  Shown(Assigned(x, n, ty), blocks, vs)
<1> DEFINE m == Len(scope)
           t == Assigned(x, n, ty)
           U == UninitSnapshot(x)
           V == UninitSnapshot(t)
<1>1. scope \in Scopes /\ m \in Nat \ {0} /\ Standing(scope, worlds)
  BY GoingHere
<1>2. Standing(x, worlds) /\ Len(x) = m /\ Kept(scope, x, m)
  BY <1>1, StandingMarked, MarksKeep DEF OnlyMarks
<1>3. t \in Scopes /\ Len(t) = m /\ Kept(x, t, m) /\ V = U \ {<<l, i>>}
  BY <1>2, AssignedPlace
<1>4. Exact(x, m, worlds, U) /\ \A w \in worlds : Agrees(x, m, w, U)
  BY <1>2 DEF Standing
<1>5. m \in 0 .. Len(x)
  BY <1>1, <1>2
<1> HIDE DEF m, t, U, V
<1>6. ASSUME NEW w \in worlds
      PROVE  \E v \in vs : \A k \in 1 .. m : \A j \in 1 .. Len(x[k]) :
               <<k, j>> \in V /\ Latest(x[k], j) /\ Empty(x, k, j, w) => Empty(x, k, j, v)
  <2>1. Agrees(x, m, w, U) /\ Visible(x, m, n, l, i)
    BY <1>2, <1>4
  <2>2. FramesOf(w, n) # {}
    BY <1>5, <2>1, SeenFrames
  <2>3. PICK z : Write(w, n, z) \in vs
    BY <2>2
  <2>4. ASSUME NEW k \in 1 .. m, NEW j \in 1 .. Len(x[k]),
               <<k, j>> \in V, Latest(x[k], j), Empty(x, k, j, w)
        PROVE  Empty(x, k, j, Write(w, n, z))
    <3> DEFINE y == x[k][j].name
    <3>1. <<k, j>> \in U /\ <<k, j>> # <<l, i>>
      BY <1>3, <2>4
    <3>2. y \in DOMAIN w.frames[k]
      BY <1>5, <2>1, <3>1, WaitingNames DEF U
    <3>3. ~(k = l /\ y = n)
      <4>1. SUFFICES ASSUME k = l, y = n PROVE FALSE
        OBVIOUS
      <4>2. i \in 1 .. Len(x[l]) /\ Latest(x[l], i) /\ x[l][i].name = n /\ j \in 1 .. Len(x[l]) /\ i # j
        BY <2>1, <3>1, <4>1 DEF Visible
      <4>3. Len(x[l]) \in Nat
        BY <1>1, <1>2, <2>4, <4>1, ScopeTypes
      <4>4. i \in j + 1 .. Len(x[l]) \/ j \in i + 1 .. Len(x[l])
        BY <4>2, <4>3
      <4> QED BY <2>4, <4>1, <4>2, <4>4 DEF Latest
    <3>4. Write(w, n, z).frames[k][y] = w.frames[k][y]
      BY <1>5, <2>1, <3>2, <3>3, WriteFrames
    <3> QED BY <2>4, <3>4 DEF Empty
  <2> QED BY <2>3, <2>4
<1>7. Exact(t, m, vs, V)
  BY <1>3, <1>4, <1>6, ExactFollows
<1>8. Kept(scope, t, m - 1)
  <2>1. Kept(scope, t, m)
    BY <1>1, <1>2, <1>3, KeptTransitive DEF m
  <2>2. m - 1 \in 0 .. m
    BY <1>1
  <2> QED BY <1>1, <1>3, <2>1, <2>2, KeptLess
<1>9. Shown(t, blocks, vs)
  BY <1>3, <1>7, <1>8, ShownOn DEF m, V
<1> QED BY <1>9 DEF t

LEMMA TargetShown ==
    ASSUME NEW s, NEW ws, Standing(s, ws), NEW n \in Names, NEW ty, NEW frozen, frozen \cap Codes = {}
    PROVE  Backed(TargetErrors(s, n, ty, frozen), UNION {WriteFaults(w, n) : w \in ws})
<1> DEFINE found == TargetErrors(s, n, ty, frozen)
           faults == UNION {WriteFaults(w, n) : w \in ws}
<1>1. CASE Origin(s, n) \in {"counter", "let", "param"}
  <2>1. Bound(s, n) /\ Found(s, n).origin \in {"counter", "let", "param"} /\ s \in Scopes
    BY <1>1 DEF Origin, Standing
  <2>2. PICK l, i : Visible(s, Len(s), n, l, i) /\ Found(s, n) = s[l][i]
    BY <2>1, LocateVisible
  <2>3. PICK w \in ws : Agrees(s, Len(s), w, UninitSnapshot(s))
    BY DEF Standing, Exact
  <2>4. Len(s) \in 0 .. Len(s)
    BY <2>1, ScopeTypes
  <2>5. FramesOf(w, n) # {} /\ Fits(s[l][i], CellOf(w, n), <<l, i>> \in UninitSnapshot(s))
    BY <2>1, <2>2, <2>3, <2>4, FrameVisible
  <2>6. WriteFaults(w, n) = {"frozen write"}
    BY <2>1, <2>2, <2>5 DEF Fits, WriteFaults
  <2>7. "frozen write" \in faults
    BY <2>6
  <2>8. found \subseteq {"T0072", "T0074"}
    BY <1>1 DEF TargetErrors
  <2> HIDE DEF found, faults
  <2>9. Backed(found, faults)
    BY <2>7, <2>8 DEF Backed
  <2> QED BY <2>9 DEF found, faults
<1>2. CASE Origin(s, n) = "var"
  <2>1. found = Mismatch("T0075", ty, Found(s, n).ty)
    BY <1>2 DEF TargetErrors
  <2> QED BY <2>1, BackedMismatch DEF Codes
<1>3. CASE Origin(s, n) \notin {"counter", "let", "param", "var"}
  <2>1. found = frozen
    BY <1>3 DEF TargetErrors
  <2> QED BY <2>1, BackedOthers
<1> QED BY <1>1, <1>2, <1>3

\* What is refused of an assignment is refused for its value or its target.
LEMMA WrittenJustified ==
    ASSUME Going, CanGoOn, NEW x \in Scopes, OnlyMarks(scope, x),
           NEW n \in Names, NEW ty, NEW frozen, frozen # {}, frozen \cap Codes = {},
           NEW more, NEW h, Backed(more, h), more = {} => ty \in Types \ {"Unknown"},
           NEW c, c.scope = (IF Origin(x, n) = "var" THEN Assigned(x, n, ty) ELSE x),
           c.errors = more \cup TargetErrors(x, n, ty, frozen),
           NEW ws, \A w \in worlds : \E z : (IF FramesOf(w, n) = {} THEN w ELSE Write(w, n, z)) \in ws,
           NEW reads, Statement(c, ws, h \cup UNION {WriteFaults(w, n) : w \in worlds}, reads),
           UNCHANGED blocks
    PROVE  Justified'
<1> DEFINE faults == UNION {WriteFaults(w, n) : w \in worlds}
           target == TargetErrors(x, n, ty, frozen)
           happens == h \cup faults
<1>1. Checking /\ errors = {}
  BY DEF CanGoOn, Checking
<1>2. /\ errors' = errors \cup c.errors /\ events' = events \cup happens
      /\ scope' = c.scope /\ worlds' = ws
  BY DEF Statement, Step
<1>3. scope \in Scopes /\ Standing(scope, worlds)
  BY <1>1, GoingHere
<1>4. Standing(x, worlds)
  BY <1>3, StandingMarked
<1>5. Backed(target, faults)
  BY <1>4, TargetShown
<1>6. ASSUME c.errors = {} PROVE Shown(c.scope, blocks, ws)
  <2>1. target = {} /\ ty \in Types \ {"Unknown"}
    BY <1>6
  <2>2. Origin(x, n) = "var"
    BY <2>1 DEF TargetErrors
  <2>3. Bound(x, n) /\ Found(x, n).origin = "var"
    BY <2>2 DEF Origin
  <2>4. PICK l, i : Visible(x, Len(x), n, l, i) /\ Found(x, n) = x[l][i]
    BY <2>3, LocateVisible
  <2>5. Shown(Assigned(x, n, ty), blocks, ws)
    BY <1>1, <2>1, <2>3, <2>4, WrittenShown
  <2> QED BY <2>2, <2>5
<1> HIDE DEF faults, target
<1>7. Backed(c.errors, happens)
  <2>1. Backed(more, happens) /\ Backed(target, happens)
    BY <1>5, BackedMore
  <2> HIDE DEF happens
  <2> QED BY <2>1, BackedUnion DEF target
<1> HIDE DEF happens
<1> QED BY <1>1, <1>2, <1>6, <1>7, Justify

LEMMA AssignLocalJustified ==
    ASSUME Going, AssignLocal
    PROVE  Justified'
<1>1. PICK n, e, x, c, ws, reads :
         /\ n \in Names /\ e \in Operands
         /\ CanWrite /\ UNCHANGED blocks
         /\ x = CheckExpr(scope, e)
         /\ c = Checked(IF Origin(x.scope, n) = "var" THEN Assigned(x.scope, n, x.ty) ELSE x.scope,
                        "Unit", x.errors \cup TargetErrors(x.scope, n, x.ty, {"T0033"}))
         /\ ws = {IF FramesOf(w, n) = {} THEN w ELSE Write(w, n, Value(w, e)) : w \in worlds}
         /\ Statement(c, ws, Happens(e) \cup UNION {WriteFaults(w, n) : w \in worlds}, reads)
  BY DEF AssignLocal, WriteLocal
<1>2. /\ c.scope = IF Origin(x.scope, n) = "var" THEN Assigned(x.scope, n, x.ty) ELSE x.scope
      /\ c.errors = x.errors \cup TargetErrors(x.scope, n, x.ty, {"T0033"})
  BY <1>1 DEF Checked
<1>3. e \in Expressions /\ CanGoOn
  BY <1>1, ExpressionSets DEF CanWrite
<1>4. x.scope \in Scopes /\ OnlyMarks(scope, x.scope) /\ Backed(x.errors, Happens(e))
  BY <1>1, <1>3, ExprStands
<1>5. x.errors = {} => x.ty \in Types \ {"Unknown"}
  BY <1>1, <1>3, ExprHere DEF Going
<1>6. \A w \in worlds : \E z : (IF FramesOf(w, n) = {} THEN w ELSE Write(w, n, z)) \in ws
  BY <1>1
<1>7. {"T0033"} # {} /\ {"T0033"} \cap Codes = {} /\ UNCHANGED blocks
  BY <1>1 DEF Codes
<1>8. Statement(c, ws, Happens(e) \cup UNION {WriteFaults(w, n) : w \in worlds}, reads)
  BY <1>1
<1> QED BY <1>1, <1>2, <1>3, <1>4, <1>5, <1>6, <1>7, <1>8, WrittenJustified

LEMMA LoadJustified ==
    ASSUME Going, LoadStmt
    PROVE  Justified'
<1>1. PICK n, e, x, loaded, found, c, ws, reads :
         /\ n \in Names /\ e \in Operands
         /\ CanWrite /\ UNCHANGED blocks
         /\ x = CheckExpr(scope, e)
         /\ loaded = IF x.ty = "Relation" THEN "Sequence" ELSE "Unknown"
         /\ found = IF x.ty \in {"Relation", "Unknown"} THEN {} ELSE {"T0081"}
         /\ c = Checked(IF Origin(x.scope, n) = "var" THEN Assigned(x.scope, n, loaded) ELSE x.scope,
                        "Unit", x.errors \cup found \cup TargetErrors(x.scope, n, loaded, {"T0001"}))
         /\ ws = {IF FramesOf(w, n) = {} THEN w ELSE Write(w, n, "Sequence") : w \in worlds}
         /\ Statement(c, ws, Happens(e) \cup UNION {WriteFaults(w, n) : w \in worlds}, reads)
  BY DEF LoadStmt, WriteLocal
<1> DEFINE more == x.errors \cup found
<1>2. /\ c.scope = IF Origin(x.scope, n) = "var" THEN Assigned(x.scope, n, loaded) ELSE x.scope
      /\ c.errors = more \cup TargetErrors(x.scope, n, loaded, {"T0001"})
  BY <1>1 DEF Checked
<1>3. e \in Expressions /\ CanGoOn
  BY <1>1, ExpressionSets DEF CanWrite
<1>4. x.scope \in Scopes /\ OnlyMarks(scope, x.scope) /\ Backed(x.errors, Happens(e))
  BY <1>1, <1>3, ExprStands
<1>5. x.errors = {} => x.ty \in Types \ {"Unknown"}
  BY <1>1, <1>3, ExprHere DEF Going
<1>6. more = {} => loaded \in Types \ {"Unknown"}
  BY <1>1, <1>5, SolidTypes DEF Solid, Types
<1>7. Backed(more, Happens(e))
  <2>1. Backed(found, Happens(e))
    BY <1>1, BackedOthers DEF Codes
  <2> QED BY <1>4, <2>1, BackedUnion
<1>8. \A w \in worlds : \E z : (IF FramesOf(w, n) = {} THEN w ELSE Write(w, n, z)) \in ws
  BY <1>1
<1>9. n \in Names /\ {"T0001"} # {} /\ {"T0001"} \cap Codes = {} /\ UNCHANGED blocks
  BY <1>1 DEF Codes
<1>10. Statement(c, ws, Happens(e) \cup UNION {WriteFaults(w, n) : w \in worlds}, reads)
  BY <1>1
<1> HIDE DEF more
<1> QED BY <1>2, <1>3, <1>4, <1>6, <1>7, <1>8, <1>9, <1>10, WrittenJustified


-----------------------------------------------------------------------------
(* Tails and returns.                                                       *)

LEMMA TailJustified ==
    ASSUME Going, TailExpr
    PROVE  Justified'
<1>1. PICK e, x, ws :
         /\ e \in Operands \cup Calls
         /\ CanWrite /\ x = CheckExpr(scope, e) /\ scope' = x.scope /\ errors' = errors \cup x.errors
         /\ ws = {[w EXCEPT !.val = Value(w, e)] : w \in worlds} /\ worlds' = ws
         /\ events' = events \cup Happens(e) /\ UNCHANGED blocks
  BY DEF TailExpr
<1> DEFINE m == Len(scope)
           U == UninitSnapshot(x.scope)
<1>2. e \in Expressions /\ CanGoOn /\ Checking /\ errors = {}
  BY <1>1, ExpressionSets DEF CanWrite, CanGoOn, Checking
<1>3. /\ x.scope \in Scopes /\ OnlyMarks(scope, x.scope) /\ Standing(x.scope, worlds)
      /\ Backed(x.errors, Happens(e))
  BY <1>1, <1>2, ExprStands
<1>4. scope \in Scopes /\ m \in Nat \ {0} /\ Len(x.scope) = m /\ Kept(scope, x.scope, m)
  BY <1>2, <1>3, GoingHere, MarksKeep DEF OnlyMarks
<1>5. Exact(x.scope, m, worlds, U) /\ \A w \in worlds : w \in Worlds
  BY <1>3, <1>4 DEF Standing, Agrees
<1>6. ASSUME NEW w \in worlds PROVE \E v \in ws : \A l \in 1 .. m : v.frames[l] = w.frames[l]
  <2>1. [w EXCEPT !.val = Value(w, e)].frames = w.frames
    BY <1>5, OtherFields
  <2> QED BY <1>1, <2>1
<1>7. m \in 0 .. Len(x.scope)
  BY <1>4
<1> HIDE DEF m, U
<1>8. Kept(x.scope, x.scope, m)
  BY <1>3, <1>7, KeptReflexive
<1>9. Exact(x.scope, m, ws, U)
  BY <1>3, <1>5, <1>6, <1>8, ExactSame
<1>10. Kept(scope, x.scope, m - 1)
  <2>1. m - 1 \in 0 .. m
    BY <1>4
  <2> QED BY <1>3, <1>4, <2>1, KeptLess
<1>11. Shown(x.scope, blocks, ws)
  BY <1>2, <1>3, <1>4, <1>9, <1>10, ShownOn DEF m, U
<1> QED BY <1>1, <1>2, <1>3, <1>11, Justify

\* An accepted return ends what is compared; a refused one is refused for its
\* value or for the bracket it leaves open.
LEMMA ReturnJustified ==
    ASSUME Going, ReturnStmt
    PROVE  Justified'
<1>0. PICK e \in Operands \cup {Lit("Unit")} :
         LET value == CheckExpr(scope, e)
             found == value.errors \cup Mismatch("T0018", value.ty, returns)
                      \cup (IF txDepth > 0 THEN {"T0093"} ELSE {})
         IN  /\ CanWrite
             /\ Statement(Checked(value.scope, "Never", found), {},
                          Happens(e) \cup (IF found = {} THEN {"left early"} ELSE {})
                          \cup UNION {ExitFaults(w.depth, Value(w, e)) : w \in worlds},
                          Reads(e))
  BY DEF ReturnStmt
<1>1. PICK x, found, exits, early, c :
         /\ CanWrite /\ x = CheckExpr(scope, e)
         /\ found = x.errors \cup Mismatch("T0018", x.ty, returns) \cup (IF txDepth > 0 THEN {"T0093"} ELSE {})
         /\ exits = UNION {ExitFaults(w.depth, Value(w, e)) : w \in worlds}
         /\ early = IF found = {} THEN {"left early"} ELSE {}
         /\ c = Checked(x.scope, "Never", found)
         /\ Statement(c, {}, Happens(e) \cup early \cup exits, Reads(e))
  BY <1>0
<1> DEFINE happens == Happens(e) \cup early \cup exits
           open == IF txDepth > 0 THEN {"T0093"} ELSE {}
<1>2. e \in Expressions /\ CanGoOn /\ Checking /\ errors = {}
  BY <1>0, ExpressionSets DEF CanWrite, CanGoOn, Checking
<1>3. errors' = errors \cup found /\ events' = events \cup happens
  BY <1>1 DEF Statement, Step, Checked
<1>4. Backed(x.errors, Happens(e)) /\ Standing(scope, worlds)
  BY <1>1, <1>2, ExprStands, GoingHere
<1>5. Backed(open, exits)
  <2>1. ASSUME txDepth > 0 PROVE "open bracket" \in exits
    <3>1. PICK w \in worlds : w.depth = txDepth
      BY <1>4 DEF Standing, Exact, AllAt, At
    <3>2. "open bracket" \in ExitFaults(w.depth, Value(w, e))
      BY <2>1, <3>1 DEF ExitFaults
    <3> QED BY <1>1, <3>2
  <2>2. open \subseteq {"T0093"} /\ ("T0093" \in open => txDepth > 0)
    OBVIOUS
  <2> HIDE DEF open
  <2> QED BY <2>1, <2>2 DEF Backed
<1>6. Happens(e) \subseteq happens /\ exits \subseteq happens
  OBVIOUS
<1>7. found = (x.errors \cup Mismatch("T0018", x.ty, returns)) \cup open
  BY <1>1
<1>8. found = {} => "left early" \in happens
  BY <1>1
<1> HIDE DEF happens, open
<1>9. Backed(found, happens)
  <2>1. Backed(x.errors, happens) /\ Backed(open, happens)
    BY <1>4, <1>5, <1>6, BackedMore
  <2>2. Backed(Mismatch("T0018", x.ty, returns), happens)
    BY BackedMismatch DEF Codes
  <2> QED BY <1>7, <2>1, <2>2, BackedUnion
<1> QED BY <1>2, <1>3, <1>8, <1>9, Justify

-----------------------------------------------------------------------------
(* Opening blocks.                                                          *)

\* A block that may be skipped, or taken the other way, puts aside where the
\* executions stand.
Starts(x, b) ==
    /\ b.form # "else"
    /\ b.form \in Branches => b.snap = UninitSnapshot(x) /\ b.before = worlds

LEMMA OpenShown ==
    ASSUME Going, Checking, NEW x \in Scopes, OnlyMarks(scope, x), NEW b, Starts(x, b),
           NEW t \in Scopes, Len(t) = Len(scope) + 1, Kept(x, t, Len(scope)),
           NEW ws, Exact(t, Len(t), ws, UninitSnapshot(t))
    PROVE  Shown(t, Append(blocks, b), ws)
<1> DEFINE m == Len(scope)
           cs == Append(blocks, b)
           U == UninitSnapshot(x)
<1>1. /\ scope \in Scopes /\ m \in Nat \ {0} /\ m = Len(blocks) /\ blocks \in Seq(BlockRecs)
      /\ Standing(scope, worlds) /\ Shown(scope, blocks, worlds)
  BY GoingHere DEF Going
<1>2. Len(x) = m /\ Kept(scope, x, m) /\ Standing(x, worlds)
  BY <1>1, StandingMarked, MarksKeep DEF OnlyMarks
<1>3. Exact(x, m, worlds, U)
  BY <1>2 DEF Standing
<1> HIDE DEF m, U
<1>4. Kept(scope, t, m) /\ Kept(x, t, m)
  BY <1>1, <1>2, KeptTransitive DEF m
<1>5. Len(cs) = m + 1 /\ cs[m + 1] = b /\ \A k \in 1 .. m : cs[k] = blocks[k]
  <2>1. IsSeq(blocks)
    BY <1>1, AnySeq
  <2> QED BY <1>1, <2>1, AppendSeq
<1> HIDE DEF cs
<1>6. Exact(t, m, worlds, U)
  BY <1>3, <1>4, ExactSame
<1>7. (m + 1) - 1 = m /\ m + 1 \in 1 .. Len(blocks) + 1 /\ Len(blocks) \in Nat
  BY <1>1
<1>8. Spread(t, m + 1, cs[m + 1])
  BY <1>5, <1>6, <1>7 DEF Spread, Starts, U
<1>9. Shown(t, cs, ws)
  <2>1. Len(t) = m + 1 /\ Exact(t, m + 1, ws, UninitSnapshot(t))
    BY DEF m
  <2>2. /\ Kept(scope, t, (m + 1) - 1) /\ \A k \in 1 .. (m + 1) - 1 : cs[k] = blocks[k]
    BY <1>4, <1>5, <1>7
  <2> QED BY <1>1, <1>5, <1>7, <1>8, <2>1, <2>2, ShownTo
<1> QED BY <1>9 DEF cs

LEMMA EnterShown ==
    ASSUME NEW x \in Scopes, NEW ws, \A w \in ws : Agrees(x, Len(x), w, UninitSnapshot(x)),
           Exact(x, Len(x), ws, UninitSnapshot(x)),
           NEW vs, \A w \in ws : \E v \in vs : v.frames = Enter(w).frames
    PROVE  Exact(Push(x), Len(Push(x)), vs, UninitSnapshot(Push(x)))
<1> DEFINE m == Len(x)
           t == Push(x)
           U == UninitSnapshot(x)
<1>1. x \in Scopes /\ Exact(x, m, ws, U) /\ \A w \in ws : Agrees(x, m, w, U)
  OBVIOUS
<1>2. m \in Nat
  BY <1>1, ScopeTypes
<1>3. /\ t \in Scopes /\ Len(t) = m + 1 /\ Kept(x, t, m) /\ t[m + 1] = << >>
      /\ UninitSnapshot(t) = U
  BY <1>1, PushPlaces
<1> HIDE DEF m, t, U
<1>4. ASSUME NEW w \in ws PROVE \E v \in vs : \A l \in 1 .. m : v.frames[l] = w.frames[l]
  <2>1. \A l \in 1 .. m : Enter(w).frames[l] = w.frames[l]
    BY <1>1, EnterFrames
  <2> QED BY <2>1
<1>5. Exact(t, m, vs, U)
  BY <1>1, <1>3, <1>4, ExactSame
<1>6. \A l \in 1 .. m + 1 : \A i \in 1 .. Len(t[l]) : l \in 1 .. m
  BY <1>2, <1>3
<1>7. Exact(t, m + 1, vs, U)
  BY <1>5, <1>6 DEF Exact
<1> QED BY <1>3, <1>7 DEF t

LEMMA EnterJustified ==
    ASSUME Going, CanGoOn, NEW x \in Scopes, OnlyMarks(scope, x), NEW b, Starts(x, b),
           NEW found, NEW happens, Backed(found, happens),
           scope' = Push(x), errors' = errors \cup found, events' = events \cup happens,
           blocks' = Append(blocks, b), \A w \in worlds : \E v \in worlds' : v.frames = Enter(w).frames
    PROVE  Justified'
<1>1. Checking /\ errors = {}
  BY DEF CanGoOn, Checking
<1>2. scope \in Scopes /\ Standing(scope, worlds)
  BY <1>1, GoingHere
<1>3. Standing(x, worlds) /\ Len(x) = Len(scope)
  BY <1>2, StandingMarked DEF OnlyMarks
<1> DEFINE t == Push(x)
           ws == worlds'
<1>4. t \in Scopes /\ Len(t) = Len(scope) + 1 /\ Kept(x, t, Len(scope))
  BY <1>3, PushPlaces
<1>5. \A w \in worlds : \E v \in ws : v.frames = Enter(w).frames
  OBVIOUS
<1>6. Exact(t, Len(t), ws, UninitSnapshot(t))
  <2> HIDE DEF ws, t
  <2> QED BY <1>3, <1>5, EnterShown DEF Standing, t
<1> HIDE DEF t
<1>7. Shown(t, Append(blocks, b), ws)
  <2> HIDE DEF ws
  <2> QED BY <1>1, <1>4, <1>6, OpenShown
<1>8. Shown(scope', blocks', worlds')
  BY <1>7 DEF t
<1> QED BY <1>1, <1>8, Justify

\* A condition is refused as an expression, or for its type.
LEMMA ConditionStands ==
    ASSUME Going, CanGoOn, NEW e \in Expressions, NEW code, code \notin Codes
    PROVE  LET cond == Condition(e, code)
           IN  /\ cond.scope \in Scopes /\ OnlyMarks(scope, cond.scope)
               /\ Backed(cond.errors, Happens(e))
<1> DEFINE x == CheckExpr(scope, e)
           cond == Condition(e, code)
           more == IF x.ty \in {"Boolean", "Unknown"} THEN {} ELSE {code}
<1>1. x.scope \in Scopes /\ OnlyMarks(scope, x.scope) /\ Backed(x.errors, Happens(e))
  BY ExprStands
<1>2. cond.scope = x.scope
  BY ConditionFields
<1>3. cond.errors = x.errors \cup more
  BY ErrorsField DEF Condition
<1>4. Backed(more, Happens(e))
  BY BackedOthers
<1> HIDE DEF x, cond, more
<1>5. Backed(cond.errors, Happens(e))
  BY <1>1, <1>3, <1>4, BackedUnion
<1> QED BY <1>1, <1>2, <1>5 DEF cond

LEMMA IfJustified ==
    ASSUME Going, BeginIf
    PROVE  Justified'
<1>1. PICK e, use, cond, b, ws :
         /\ e \in Conditions /\ use \in Uses
         /\ CanOpen /\ cond = Condition(e, "T0067")
         /\ b = [Block("then", use) EXCEPT !.snap = UninitSnapshot(cond.scope), !.before = worlds]
         /\ ws = {Enter(w) : w \in worlds}
         /\ Step(Checked(Push(cond.scope), "Unit", cond.errors), ws, Happens(e), Reads(e))
         /\ blocks' = Append(blocks, b)
  BY DEF BeginIf, OpenBlock
<1>2. e \in Expressions /\ CanGoOn /\ "T0067" \notin Codes
  BY <1>1, ExpressionSets DEF CanOpen, Codes
<1>3. cond.scope \in Scopes /\ OnlyMarks(scope, cond.scope) /\ Backed(cond.errors, Happens(e))
  BY <1>1, <1>2, ConditionStands
<1>4. Starts(cond.scope, b)
  <2>1. b.form = "then" /\ b.snap = UninitSnapshot(cond.scope) /\ b.before = worlds
    BY <1>1 DEF Block
  <2> QED BY <2>1 DEF Starts
<1>5. /\ scope' = Push(cond.scope) /\ errors' = errors \cup cond.errors /\ events' = events \cup Happens(e)
      /\ worlds' = ws
  BY <1>1 DEF Step, Checked
<1>6. \A w \in worlds : \E v \in worlds' : v.frames = Enter(w).frames
  BY <1>1, <1>5
<1> QED BY <1>1, <1>2, <1>3, <1>4, <1>5, <1>6, EnterJustified

LEMMA WhileJustified ==
    ASSUME Going, BeginWhile
    PROVE  Justified'
<1>1. PICK e, cond, b, ws :
         /\ e \in Conditions
         /\ CanOpen /\ cond = Condition(e, "T0080")
         /\ b = [Block("while", "stmt") EXCEPT !.snap = UninitSnapshot(cond.scope), !.cond = e,
                                               !.before = worlds]
         /\ ws = {Enter(w) : w \in worlds}
         /\ Step(Checked(Push(cond.scope), "Unit", cond.errors), ws, Happens(e), Reads(e))
         /\ blocks' = Append(blocks, b)
  BY DEF BeginWhile, OpenBlock
<1>2. e \in Expressions /\ CanGoOn /\ "T0080" \notin Codes
  BY <1>1, ExpressionSets DEF CanOpen, Codes
<1>3. cond.scope \in Scopes /\ OnlyMarks(scope, cond.scope) /\ Backed(cond.errors, Happens(e))
  BY <1>1, <1>2, ConditionStands
<1>4. Starts(cond.scope, b)
  <2>1. b.form = "while" /\ b.snap = UninitSnapshot(cond.scope) /\ b.before = worlds
    BY <1>1 DEF Block
  <2> QED BY <2>1 DEF Starts
<1>5. /\ scope' = Push(cond.scope) /\ errors' = errors \cup cond.errors /\ events' = events \cup Happens(e)
      /\ worlds' = ws
  BY <1>1 DEF Step, Checked
<1>6. \A w \in worlds : \E v \in worlds' : v.frames = Enter(w).frames
  BY <1>1, <1>5
<1> QED BY <1>1, <1>2, <1>3, <1>4, <1>5, <1>6, EnterJustified

LEMMA DoJustified ==
    ASSUME Going, BeginDo
    PROVE  Justified'
<1>1. PICK b, ws :
         /\ CanOpen /\ b = Block("do", "stmt") /\ ws = {Enter(w) : w \in worlds}
         /\ Step(Checked(Push(scope), "Unit", {}), ws, {}, {})
         /\ blocks' = Append(blocks, b)
  BY DEF BeginDo, OpenBlock, Checked
<1>2. CanGoOn /\ scope \in Scopes /\ OnlyMarks(scope, scope)
  BY <1>1, GoingHere, MarksReflexive DEF CanOpen, CanGoOn
<1>3. Starts(scope, b)
  <2>1. b.form = "do"
    BY <1>1 DEF Block
  <2> QED BY <2>1 DEF Starts, Branches
<1>4. scope' = Push(scope) /\ errors' = errors \cup {} /\ events' = events \cup {} /\ worlds' = ws
  BY <1>1 DEF Step, Checked
<1>5. \A w \in worlds : \E v \in worlds' : v.frames = Enter(w).frames
  BY <1>1, <1>4
<1>6. Backed({}, {})
  BY BackedOthers
<1> QED BY <1>1, <1>2, <1>3, <1>4, <1>5, <1>6, EnterJustified

LEMMA TransactionJustified ==
    ASSUME Going, BeginTransaction
    PROVE  Justified'
<1>1. PICK use, b, ws :
         /\ use \in Uses
         /\ CanOpen /\ b = Block("transaction", use)
         /\ ws = {[Enter(w) EXCEPT !.depth = @ + 1] : w \in worlds}
         /\ scope' = Push(scope) /\ errors' = errors /\ events' = events /\ worlds' = ws
         /\ blocks' = Append(blocks, b)
  BY DEF BeginTransaction
<1>2. CanGoOn /\ Checking
  BY <1>1 DEF CanOpen, CanGoOn
<1>3. scope \in Scopes /\ OnlyMarks(scope, scope) /\ Standing(scope, worlds)
  BY <1>2, GoingHere, MarksReflexive
<1>4. Starts(scope, b)
  <2>1. b.form = "transaction"
    BY <1>1 DEF Block
  <2> QED BY <2>1 DEF Starts, Branches
<1>5. ASSUME NEW w \in worlds PROVE \E v \in worlds' : v.frames = Enter(w).frames
  <2>1. Agrees(scope, Len(scope), w, UninitSnapshot(scope))
    BY <1>3 DEF Standing
  <2>2. Enter(w) \in Worlds
    BY <1>3, <2>1, AgreesEnter DEF Agrees
  <2>3. [Enter(w) EXCEPT !.depth = @ + 1].frames = Enter(w).frames
    BY <2>2 DEF Worlds
  <2> QED BY <1>1, <2>3
<1>6. Backed({}, {}) /\ errors' = errors \cup {} /\ events' = events \cup {}
  BY <1>1, BackedOthers
<1> QED BY <1>1, <1>2, <1>3, <1>4, <1>5, <1>6, EnterJustified


LEMMA ForJustified ==
    ASSUME Going, Ground, BeginFor
    PROVE  Justified'
<1>0. PICK n \in Names, e \in Operands, each \in BOOLEAN :
         LET bound == CheckExpr(scope, e)
             found == CASE each /\ bound.ty \notin {"Sequence", "Unknown"}  -> {"T0073"}
                        [] ~each /\ bound.ty \notin {"Integer", "Unknown"}  -> {"T0071"}
                        [] OTHER -> {}
             ty == IF each THEN "Tuple" ELSE "Integer"
         IN  /\ CanOpen
             /\ Step(Checked(Insert(Push(bound.scope), Binding(n, ty, "counter", Fresh)), ty,
                             bound.errors \cup found),
                     {Declare(Enter(w), n, Cell(Fresh, "counter", ty)) : w \in worlds},
                     Happens(e), Reads(e))
             /\ blocks' = Append(blocks, [Block("for", "stmt") EXCEPT
                                            !.snap = UninitSnapshot(bound.scope), !.before = worlds])
  BY DEF BeginFor
<1>1. PICK c, found, ty, a, b, t, ws :
         /\ CanOpen /\ c = CheckExpr(scope, e) /\ ty = (IF each THEN "Tuple" ELSE "Integer")
         /\ found \subseteq {"T0073", "T0071"}
         /\ a = Binding(n, ty, "counter", Fresh)
         /\ b = [Block("for", "stmt") EXCEPT !.snap = UninitSnapshot(c.scope), !.before = worlds]
         /\ t = Insert(Push(c.scope), a)
         /\ ws = {Declare(Enter(w), n, Cell(Fresh, "counter", ty)) : w \in worlds}
         /\ Step(Checked(t, ty, c.errors \cup found), ws, Happens(e), Reads(e))
         /\ blocks' = Append(blocks, b)
  <2> DEFINE bound == CheckExpr(scope, e)
             found == CASE each /\ bound.ty \notin {"Sequence", "Unknown"}  -> {"T0073"}
                        [] ~each /\ bound.ty \notin {"Integer", "Unknown"}  -> {"T0071"}
                        [] OTHER -> {}
  <2>1. found \subseteq {"T0073", "T0071"}
    OBVIOUS
  <2> HIDE DEF found
  <2> QED BY <1>0, <2>1 DEF found
<1> DEFINE x == c.scope
           p == Push(x)
           m == Len(scope)
           cell == Cell(Fresh, "counter", ty)
           entered == {Enter(w) : w \in worlds}
<1>2. /\ scope' = t /\ worlds' = ws /\ events' = events \cup Happens(e)
      /\ errors' = errors \cup (c.errors \cup found)
  BY <1>1 DEF Step, Checked
<1>3. e \in Expressions /\ CanGoOn /\ Checking /\ errors = {}
  BY <1>1, ExpressionSets DEF CanOpen, CanGoOn, Checking
<1>4. x \in Scopes /\ OnlyMarks(scope, x) /\ Standing(x, worlds) /\ Backed(c.errors, Happens(e))
  BY <1>1, <1>3, ExprStands
<1>5. Backed(c.errors \cup found, Happens(e))
  <2>1. Backed(found, Happens(e))
    BY <1>1, BackedOthers DEF Codes
  <2> QED BY <1>4, <2>1, BackedUnion
<1>6. Starts(x, b)
  <2>1. b.form = "for" /\ b.snap = UninitSnapshot(x) /\ b.before = worlds
    BY <1>1 DEF Block
  <2> QED BY <2>1 DEF Starts
<1>7. ty \in Solid /\ ty \in Types /\ ty # "Unknown" /\ Fresh \in Nat
  BY <1>1, FreshIsNew, SolidTypes DEF Solid, Types
<1>8. a \in Bindings /\ a.name = n /\ a.initialized
  <2>1. a \in Bindings
    BY <1>1, <1>7, NewBinding
  <2> QED BY <1>1, <2>1 DEF Binding
<1>9. cell \in Cells
  <2>1. cell = [id |-> Fresh, decl |-> "counter", holds |-> ty] /\ "counter" \in Origins
    BY DEF Cell, Origins
  <2> QED BY <1>7, <2>1 DEF Cells
<1>10. scope \in Scopes /\ m \in Nat \ {0} /\ Len(x) = m
  BY <1>3, <1>4, GoingHere DEF OnlyMarks
<1>11. /\ p \in Scopes /\ Len(p) = m + 1 /\ Kept(x, p, m) /\ UninitSnapshot(p) = UninitSnapshot(x)
       /\ Len(p) # 0 /\ Len(p) - 1 = m
  BY <1>4, <1>10, PushPlaces
<1>12. t = Insert(p, a) /\ blocks' = Append(blocks, b)
  BY <1>1
<1>13. \A w \in worlds : Declare(Enter(w), n, cell) \in ws
  BY <1>1
<1>14. \A w \in entered : Agrees(p, Len(p), w, UninitSnapshot(p))
  <2>1. \A w \in worlds : Agrees(x, m, w, UninitSnapshot(x))
    BY <1>4, <1>10 DEF Standing
  <2>2. \A w \in worlds : Agrees(p, m + 1, Enter(w), UninitSnapshot(x))
    BY <1>4, <1>10, <2>1, AgreesEnter
  <2> HIDE DEF p
  <2> QED BY <1>11, <2>2
<1>15. Exact(p, Len(p), entered, UninitSnapshot(p))
  <2>1. \A w \in worlds : \E v \in entered : v.frames = Enter(w).frames
    OBVIOUS
  <2> HIDE DEF entered, x
  <2> QED BY <1>4, <2>1, EnterShown DEF Standing
<1>16. \A w \in entered : \E d \in Cells : Declare(w, a.name, d) \in ws /\ (~a.initialized => d.holds = "nothing")
  <2> HIDE DEF cell
  <2> QED BY <1>8, <1>9, <1>13
<1> HIDE DEF x, p, m, cell, entered
<1>17. a.name \in Names
  BY <1>8
<1>18. Exact(t, Len(p), ws, UninitSnapshot(t))
  BY <1>8, <1>11, <1>12, <1>14, <1>15, <1>16, <1>17, ExactDeclared
<1>19. t \in Scopes /\ Len(t) = m + 1 /\ Kept(p, t, m)
  <2>1. t \in Scopes /\ Len(t) = Len(p) /\ Kept(p, t, Len(p) - 1)
    BY <1>8, <1>11, <1>12, InsertPlaces
  <2> QED BY <1>11, <2>1
<1>20. Kept(x, t, m)
  BY <1>4, <1>11, <1>19, KeptTransitive
<1>21. Len(t) = Len(p)
  BY <1>11, <1>19
<1>22. Shown(t, Append(blocks, b), ws)
  BY <1>3, <1>4, <1>6, <1>18, <1>19, <1>20, <1>21, OpenShown DEF m
<1> QED BY <1>2, <1>3, <1>5, <1>12, <1>22, Justify


-----------------------------------------------------------------------------
(* Closing blocks.                                                          *)

LEMMA ExactBoth ==
    ASSUME NEW s, NEW m, NEW ws, NEW U, NEW V, Exact(s, m, ws, U), Exact(s, m, ws, V),
           NEW W, W \subseteq U \cup V
    PROVE  Exact(s, m, ws, W)
BY DEF Exact

LEMMA ClosingHere ==
    ASSUME Going, Checking, Top.form # "oper"
    PROVE  LET m == Len(blocks)
           IN  /\ scope \in Scopes /\ m \in Nat /\ m - 1 \in Nat \ {0} /\ Len(scope) = m
               /\ Top = blocks[m] /\ blocks[m] \in BlockRecs /\ SetAside(scope, m, blocks[m])
               /\ blocks \in Seq(BlockRecs) /\ Spread(scope, m, blocks[m])
               /\ Standing(scope, worlds) /\ Shown(scope, blocks, worlds)
               /\ BlockType \in Types \ {"Unknown"}
<1> DEFINE m == Len(blocks)
<1>1. /\ scope \in Scopes /\ m \in Nat /\ m - 1 \in Nat \ {0} /\ Len(scope) = m
      /\ Top = blocks[m] /\ blocks[m] \in BlockRecs /\ SetAside(scope, m, blocks[m])
      /\ blocks \in Seq(BlockRecs) /\ BlockType \in Types \ {"Unknown"}
  BY Closing DEF Going
<1>2. Standing(scope, worlds) /\ Shown(scope, blocks, worlds)
  BY GoingHere DEF Going
<1>3. m \in 1 .. m
  BY <1>1
<1>4. Spread(scope, m, blocks[m])
  BY <1>2, <1>3 DEF Shown
<1> QED BY <1>1, <1>2, <1>4

\* The executions that end the block show what still waits at its end.
LEMMA LeftShown ==
    ASSUME Going, Checking, Top.form # "oper",
           NEW t \in Scopes, Kept(scope, t, Len(blocks) - 1),
           NEW vs, \A w \in Left : \E v \in vs : v.frames = w.frames,
           NEW V, \A p \in V : p[1] \in 1 .. Len(blocks) - 1 => p \in UninitSnapshot(scope)
    PROVE  Exact(t, Len(blocks) - 1, vs, V)
<1> DEFINE m == Len(blocks)
           U == UninitSnapshot(scope)
<1>1. scope \in Scopes /\ m \in Nat /\ m - 1 \in Nat \ {0} /\ Len(scope) = m /\ Standing(scope, worlds)
  BY ClosingHere
<1>2. Exact(scope, m, worlds, U) /\ \A w \in worlds : Agrees(scope, m, w, U)
  BY <1>1 DEF Standing
<1> HIDE DEF m, U
<1>3. Exact(scope, m - 1, worlds, U)
  <2>1. \A l \in 1 .. m - 1 : l \in 1 .. m
    BY <1>1
  <2> QED BY <1>2, <2>1 DEF Exact
<1>4. ASSUME NEW w \in worlds PROVE \E v \in vs : \A l \in 1 .. m - 1 : v.frames[l] = w.frames[l]
  <2>1. Agrees(scope, (m - 1) + 1, w, U) /\ m - 1 \in Nat
    BY <1>1, <1>2
  <2>2. \A l \in 1 .. m - 1 : Leave(w).frames[l] = w.frames[l]
    BY <2>1, LeaveFrames
  <2>3. Leave(w) \in Left
    BY DEF Left
  <2>4. PICK v \in vs : v.frames = Leave(w).frames
    BY <2>3
  <2> QED BY <2>2, <2>4
<1>5. \A p \in V : p[1] \in 1 .. m - 1 => p \in U
  BY DEF m, U
<1>6. Kept(scope, t, m - 1)
  BY DEF m
<1>7. Exact(t, m - 1, vs, V)
  BY <1>1, <1>3, <1>4, <1>5, <1>6, ExactSame
<1> QED BY <1>7 DEF m

\* Those put aside show what waited as the block was opened, and what the first
\* arm did not assign.
LEMMA BeforeShown ==
    ASSUME Going, Checking, Top.form \in Branches,
           NEW t \in Scopes, Kept(scope, t, Len(blocks) - 1),
           NEW vs, \A w \in Top.before : \E v \in vs : v.frames = w.frames,
           NEW V, V \subseteq Top.snap
    PROVE  Exact(t, Len(blocks) - 1, vs, V)
<1>1. Top.form # "oper"
  BY DEF Branches
<1>2. scope \in Scopes /\ Exact(scope, Len(blocks) - 1, Top.before, Top.snap)
  BY <1>1, ClosingHere DEF Spread
<1>3. ASSUME NEW w \in Top.before PROVE \E v \in vs : \A l \in 1 .. Len(blocks) - 1 : v.frames[l] = w.frames[l]
  <2>1. PICK v \in vs : v.frames = w.frames
    OBVIOUS
  <2> QED BY <2>1
<1> QED BY <1>2, <1>3, ExactSame

LEMMA AfterShown ==
    ASSUME Going, Checking, Top.form = "else",
           NEW t \in Scopes, Kept(scope, t, Len(blocks) - 1),
           NEW vs, \A w \in Top.after : \E v \in vs : v.frames = w.frames,
           NEW V, V \subseteq Top.snap \ Top.thenInit
    PROVE  Exact(t, Len(blocks) - 1, vs, V)
<1>1. scope \in Scopes /\ Exact(scope, Len(blocks) - 1, Top.after, Top.snap \ Top.thenInit)
  BY ClosingHere DEF Spread
<1>2. ASSUME NEW w \in Top.after PROVE \E v \in vs : \A l \in 1 .. Len(blocks) - 1 : v.frames[l] = w.frames[l]
  <2>1. PICK v \in vs : v.frames = w.frames
    OBVIOUS
  <2> QED BY <2>1
<1> QED BY <1>1, <1>2, ExactSame

LEMMA DeliveredShown ==
    ASSUME Going, Checking, Top.form # "oper",
           NEW popped \in Scopes, Len(popped) = Len(blocks) - 1, Kept(scope, popped, Len(blocks) - 1),
           NEW ty \in Types \ {"Unknown"}, NEW ws, Delivered(Outer, popped, ty, ws),
           \A w \in ws : Agrees(popped, Len(blocks) - 1, w, UninitSnapshot(popped)),
           Exact(popped, Len(blocks) - 1, ws, UninitSnapshot(popped))
    PROVE  Shown(scope', blocks', worlds')
<1> DEFINE m == Len(blocks)
           q == m - 1
           use == Top.use
           b == Binding(use, ty, "let", Top.id)
           U == UninitSnapshot(popped)
           t == scope'
           cs == blocks'
           vs == worlds'
           away == use = "stmt" /\ ty = "Never"
           d == [blocks[q] EXCEPT !.diverges = TRUE]
           plain(w) == [w EXCEPT !.val = "Unit"]
           us == {plain(w) : w \in ws}
<1>1. /\ scope \in Scopes /\ m \in Nat /\ q \in Nat \ {0} /\ Len(scope) = m /\ q \in 1 .. m
      /\ Top = blocks[m] /\ blocks[m] \in BlockRecs /\ blocks[q] \in BlockRecs
      /\ blocks \in Seq(BlockRecs) /\ Shown(scope, blocks, worlds)
  BY ClosingHere, BlockTypes
<1>2. /\ Outer \in Seq(BlockRecs) /\ Len(Outer) = q /\ \A k \in 1 .. q : Outer[k] = blocks[k]
  BY <1>1, FrontIsSeq DEF Outer
<1>3. /\ t = (IF use \in Names THEN Insert(popped, b) ELSE popped)
      /\ cs = IF away THEN [Outer EXCEPT ![Len(Outer)] = [Outer[Len(Outer)] EXCEPT !.diverges = TRUE]] ELSE Outer
      /\ vs = {IF use \in Names THEN Declare(plain(w), use, Cell(Top.id, "let", w.val))
               ELSE IF use = "tail" THEN w ELSE plain(w) : w \in ws}
  BY DEF Delivered
<1>4. /\ d \in BlockRecs /\ d.form = blocks[q].form /\ d.snap = blocks[q].snap
      /\ d.before = blocks[q].before /\ d.after = blocks[q].after /\ d.thenInit = blocks[q].thenInit
  BY <1>1 DEF BlockRecs
<1>5. Len(popped) = q /\ Len(popped) # 0 /\ Kept(scope, popped, q) /\ Kept(popped, popped, q)
  BY <1>1, KeptReflexive
<1>6. Top.id \in Nat /\ ty \in Types /\ ty # "Unknown"
  BY <1>1 DEF BlockRecs
<1> HIDE DEF Delivered, m, t, cs, vs, away, d, b, use, U
<1>7. /\ Len(cs) = q /\ \A k \in 1 .. q - 1 : cs[k] = blocks[k]
      /\ cs[q] = d \/ cs[q] = blocks[q]
  <2>1. CASE away
    <3>0. Len(Outer) = q /\ Outer[q] = blocks[q]
      BY <1>1, <1>2
    <3>1. cs = [Outer EXCEPT ![q] = d]
      BY <1>3, <2>1, <3>0 DEF d
    <3>2. q \in 1 .. Len(Outer)
      BY <1>1, <1>2
    <3>3. Len(cs) = q /\ \A k \in 1 .. q : cs[k] = IF k = q THEN d ELSE Outer[k]
      BY <1>2, <1>4, <3>1, <3>2, ExceptIsSeq
    <3> QED BY <1>1, <1>2, <3>3
  <2>2. CASE ~away
    BY <1>1, <1>2, <1>3, <2>2
  <2> QED BY <2>1, <2>2
<1>8. \A w \in ws : w \in Worlds /\ w.val \in Solid /\ Agrees(popped, q, w, U)
  <2>1. \A w \in ws : Agrees(popped, q, w, U)
    BY DEF m, U
  <2> QED BY <2>1, WorldTypes DEF Agrees
<1>9. \A w \in ws : plain(w).frames = w.frames
  BY <1>8, OtherFields
<1>10. \A u \in us : Agrees(popped, q, u, U)
  <2>1. "Unit" \in Solid
    BY DEF Solid
  <2>2. \A w \in ws : Agrees(popped, q, plain(w), U)
    BY <1>8, <2>1, AgreesValue
  <2> QED BY <2>2
<1> HIDE DEF plain
<1>11. Exact(popped, q, ws, U)
  BY DEF m, U
<1>12. Exact(popped, q, us, U)
  <2>1. \A w \in ws : \E v \in us : \A l \in 1 .. q : v.frames[l] = w.frames[l]
    BY <1>9
  <2> HIDE DEF us
  <2> QED BY <1>5, <1>11, <2>1, ExactSame
<1>13. t \in Scopes /\ Len(t) = q /\ Kept(popped, t, q - 1) /\ Exact(t, q, vs, UninitSnapshot(t))
  <2>1. CASE use \in Names
    <3>1. b \in Bindings /\ b.name = use /\ b.initialized
      <4>1. b \in Bindings
        BY <1>6, <2>1, NewBinding DEF b
      <4> QED BY <4>1 DEF b, Binding
    <3>2. t = Insert(popped, b)
      BY <1>3, <2>1
    <3>3. t \in Scopes /\ Len(t) = q /\ Kept(popped, t, q - 1)
      BY <1>5, <3>1, <3>2, InsertPlaces
    <3>4. ASSUME NEW u \in us
          PROVE  \E c \in Cells : Declare(u, b.name, c) \in vs /\ (~b.initialized => c.holds = "nothing")
      <4>1. PICK w \in ws : u = plain(w)
        OBVIOUS
      <4> DEFINE cell == Cell(Top.id, "let", w.val)
      <4>2. cell = [id |-> Top.id, decl |-> "let", holds |-> w.val] /\ "let" \in Origins
        BY DEF Cell, Origins
      <4>3. cell \in Cells
        BY <1>6, <1>8, <4>2 DEF Cells
      <4>4. Declare(u, use, cell) \in vs
        BY <1>3, <2>1, <4>1
      <4> HIDE DEF cell
      <4> QED BY <3>1, <4>3, <4>4
    <3>5. b.name \in Names
      BY <2>1, <3>1
    <3>6. \A u \in us : Agrees(popped, Len(popped), u, UninitSnapshot(popped))
      BY <1>5, <1>10 DEF U
    <3>7. Exact(popped, Len(popped), us, UninitSnapshot(popped))
      BY <1>5, <1>12 DEF U
    <3> HIDE DEF us, q
    <3>8. Exact(Insert(popped, b), Len(popped), vs, UninitSnapshot(Insert(popped, b)))
      BY <1>5, <3>1, <3>4, <3>5, <3>6, <3>7, ExactDeclared
    <3> QED BY <1>5, <3>2, <3>3, <3>8
  <2>2. CASE use \notin Names
    <3>1. t = popped
      BY <1>3, <2>2
    <3>2. Kept(popped, popped, q - 1)
      <4>1. q - 1 \in 0 .. Len(popped)
        BY <1>1, <1>5
      <4> QED BY <4>1, KeptReflexive
    <3>3. ASSUME NEW w \in ws PROVE \E v \in vs : \A l \in 1 .. q : v.frames[l] = w.frames[l]
      <4>1. w \in vs \/ plain(w) \in vs
        BY <1>3, <2>2
      <4> QED BY <1>9, <4>1
    <3>4. Exact(popped, q, vs, U)
      <4> HIDE DEF q
      <4> QED BY <1>5, <1>11, <3>3, ExactSame
    <3> QED BY <1>5, <3>1, <3>2, <3>4 DEF U
  <2> QED BY <2>1, <2>2
<1>14. Kept(scope, t, q - 1)
  <2>1. Kept(scope, popped, q - 1)
    <3>1. q - 1 \in 0 .. q
      BY <1>1
    <3> QED BY <1>1, <1>5, <3>1, KeptLess
  <2> QED BY <1>1, <1>13, <2>1, KeptTransitive
<1>15. Spread(t, q, cs[q])
  <2>1. Spread(scope, q, blocks[q])
    BY <1>1 DEF Shown, m
  <2>2. Spread(t, q, blocks[q])
    BY <1>1, <1>13, <1>14, <2>1, SpreadKept
  <2> QED BY <1>4, <1>7, <2>2 DEF Spread
<1>16. q \in 1 .. Len(blocks) + 1 /\ Len(blocks) \in Nat
  BY <1>1 DEF m
<1> HIDE DEF q
<1>17. Shown(t, cs, vs)
  BY <1>1, <1>7, <1>13, <1>14, <1>15, <1>16, ShownTo
<1> QED BY <1>17 DEF t, cs, vs


LEMMA EndTransactionJustified ==
    ASSUME Going, EndTransaction
    PROVE  Justified'
<1> DEFINE m == Len(blocks)
           popped == Pop(scope)
           ws == {[w EXCEPT !.depth = @ - 1] : w \in Left}
<1>1. /\ Checking /\ Top.form # "oper" /\ Delivered(Outer, popped, BlockType, ws)
      /\ events' = events \cup {} /\ errors' = errors \cup {}
  BY DEF EndTransaction
<1>2. /\ scope \in Scopes /\ m \in Nat /\ m - 1 \in Nat \ {0} /\ Len(scope) = m
      /\ BlockType \in Types \ {"Unknown"} /\ Flowing /\ errors = {}
  BY <1>1, ClosingHere DEF Going, Checking
<1>3. /\ popped \in Scopes /\ Len(popped) = m - 1 /\ Kept(scope, popped, m - 1)
      /\ UninitSnapshot(popped) = {p \in UninitSnapshot(scope) : p[1] < m}
  <2>1. Len(scope) # 0
    BY <1>2
  <2> QED BY <1>2, <2>1, PopPlaces
<1> HIDE DEF m, popped
<1>4. \A w \in Left : Agrees(popped, m - 1, w, UninitSnapshot(popped))
  <2>1. \A p \in UninitSnapshot(scope) : p[1] \in 1 .. m - 1 => p \in UninitSnapshot(popped)
    BY <1>2, <1>3
  <2> QED BY <1>1, <1>2, <1>3, <2>1, LeftAgrees DEF m
<1>5. \A w \in Left : w \in Worlds
  BY <1>4 DEF Agrees
<1>6. \A v \in ws : Agrees(popped, m - 1, v, UninitSnapshot(popped))
  <2> SUFFICES ASSUME NEW v \in ws PROVE Agrees(popped, m - 1, v, UninitSnapshot(popped))
    OBVIOUS
  <2>1. PICK w \in Left : v = [w EXCEPT !.depth = w.depth - 1]
    OBVIOUS
  <2>2. w.depth - 1 \in Int
    BY <1>5, WorldTypes
  <2> QED BY <1>4, <2>1, <2>2, AgreesDepth
<1>7. \A w \in Left : \E v \in ws : v.frames = w.frames
  <2> SUFFICES ASSUME NEW w \in Left PROVE \E v \in ws : v.frames = w.frames
    OBVIOUS
  <2>1. [w EXCEPT !.depth = w.depth - 1] \in ws
    OBVIOUS
  <2>2. [w EXCEPT !.depth = w.depth - 1].frames = w.frames
    BY <1>5, OtherFields
  <2> QED BY <2>1, <2>2
<1> HIDE DEF ws
<1>8. Exact(popped, m - 1, ws, UninitSnapshot(popped))
  <2>1. \A p \in UninitSnapshot(popped) : p[1] \in 1 .. m - 1 => p \in UninitSnapshot(scope)
    BY <1>3
  <2> QED BY <1>1, <1>3, <1>7, <2>1, LeftShown DEF m
<1>9. Shown(scope', blocks', worlds')
  BY <1>1, <1>2, <1>3, <1>6, <1>8, DeliveredShown DEF m
<1>10. Backed({}, {})
  BY DEF Backed
<1> QED BY <1>1, <1>2, <1>9, <1>10, Justify

\* A block that may have been skipped leaves waiting what waited before it.
LEMMA SkippedShown ==
    ASSUME Going, Checking, Top.form \in Branches,
           NEW t \in Scopes, Kept(scope, t, Len(blocks) - 1),
           UninitSnapshot(t) = {p \in UninitSnapshot(scope) : p[1] < Len(blocks)} \cup Top.snap,
           NEW vs, \A w \in Top.before \cup Left : \E v \in vs : v.frames = w.frames
    PROVE  Exact(t, Len(blocks) - 1, vs, UninitSnapshot(t))
<1> DEFINE V == {p \in UninitSnapshot(scope) : p[1] < Len(blocks)}
<1>1. Top.form # "oper"
  BY DEF Branches
<1>2. Exact(t, Len(blocks) - 1, vs, V)
  <2>1. \A p \in V : p[1] \in 1 .. Len(blocks) - 1 => p \in UninitSnapshot(scope)
    OBVIOUS
  <2>2. \A w \in Left : \E v \in vs : v.frames = w.frames
    OBVIOUS
  <2> HIDE DEF V
  <2> QED BY <1>1, <2>1, <2>2, LeftShown
<1>3. Exact(t, Len(blocks) - 1, vs, Top.snap)
  <2>1. \A w \in Top.before : \E v \in vs : v.frames = w.frames
    OBVIOUS
  <2> QED BY <2>1, BeforeShown
<1>4. UninitSnapshot(t) \subseteq V \cup Top.snap
  OBVIOUS
<1> HIDE DEF V
<1> QED BY <1>2, <1>3, <1>4, ExactBoth

LEMMA EndLoopJustified ==
    ASSUME Going, EndLoop
    PROVE  Justified'
<1> DEFINE m == Len(blocks)
           t == Pop(RestoreUninit(scope, Top.snap))
           ws == Top.before \cup Left
           happens == UNION {EvalFaults(w, Top.cond) : w \in Left}
<1>1. /\ Checking /\ Top.form \in {"while", "for"} /\ Delivered(Outer, t, "Unit", ws)
      /\ events' = events \cup happens /\ errors' = errors \cup {}
  BY DEF EndLoop
<1>2. Flowing /\ errors = {} /\ Top.form \in Branches /\ Top.form # "oper" /\ "Unit" \in Types \ {"Unknown"}
  BY <1>1 DEF Going, Checking, Branches, Types, Solid
<1>3. /\ t \in Scopes /\ Len(t) = m - 1 /\ Kept(scope, t, m - 1)
      /\ UninitSnapshot(t) = {p \in UninitSnapshot(scope) : p[1] < m} \cup Top.snap
      /\ \A w \in Top.before : Agrees(t, m - 1, w, UninitSnapshot(t))
      /\ \A w \in Left : Agrees(t, m - 1, w, UninitSnapshot(t))
  BY <1>1, <1>2, Restored
<1> HIDE DEF t
<1>4. \A w \in ws : Agrees(t, m - 1, w, UninitSnapshot(t))
  BY <1>3
<1>5. \A w \in Top.before \cup Left : \E v \in ws : v.frames = w.frames
  OBVIOUS
<1> HIDE DEF ws, happens
<1>6. Exact(t, m - 1, ws, UninitSnapshot(t))
  BY <1>1, <1>2, <1>3, <1>5, SkippedShown
<1>7. Shown(scope', blocks', worlds')
  BY <1>1, <1>2, <1>3, <1>4, <1>6, DeliveredShown
<1>8. Backed({}, happens)
  BY DEF Backed
<1> QED BY <1>1, <1>2, <1>7, <1>8, Justify

LEMMA EndAloneJustified ==
    ASSUME Going, EndIf, Top.form = "then"
    PROVE  Justified'
<1> DEFINE m == Len(blocks)
           t == RestoreUninit(Pop(scope), Top.snap)
           ws == {[w EXCEPT !.val = "Unit"] : w \in Top.before \cup Left}
           found == IF BlockType \in {"Unit", "Unknown", "Never"} THEN {} ELSE {"T0069"}
<1>1. /\ Checking /\ Top.form # "oper" /\ Delivered(Outer, t, "Unit", ws)
      /\ events' = events \cup {} /\ errors' = errors \cup found
  BY DEF EndIf
<1>2. Flowing /\ errors = {} /\ Top.form \in Branches /\ "Unit" \in Types \ {"Unknown"} /\ "Unit" \in Solid
  BY <1>1 DEF Going, Checking, Branches, Types, Solid
<1>3. /\ t \in Scopes /\ Len(t) = m - 1 /\ Kept(scope, t, m - 1)
      /\ UninitSnapshot(t) = {p \in UninitSnapshot(scope) : p[1] < m} \cup Top.snap
      /\ \A w \in Top.before : Agrees(t, m - 1, w, UninitSnapshot(t))
      /\ \A w \in Left : Agrees(t, m - 1, w, UninitSnapshot(t))
  BY <1>1, <1>2, Restored
<1>4. Backed(found, {})
  <2>1. found \cap Codes = {}
    BY DEF Codes
  <2> HIDE DEF found
  <2> QED BY <2>1, BackedOthers
<1> HIDE DEF t, found
<1>5. \A v \in ws : Agrees(t, m - 1, v, UninitSnapshot(t))
  <2> SUFFICES ASSUME NEW v \in ws PROVE Agrees(t, m - 1, v, UninitSnapshot(t))
    OBVIOUS
  <2>1. PICK w \in Top.before \cup Left : v = [w EXCEPT !.val = "Unit"]
    OBVIOUS
  <2>2. Agrees(t, m - 1, w, UninitSnapshot(t))
    BY <1>3
  <2> QED BY <1>2, <2>1, <2>2, AgreesValue
<1>6. \A w \in Top.before \cup Left : \E v \in ws : v.frames = w.frames
  <2> SUFFICES ASSUME NEW w \in Top.before \cup Left PROVE \E v \in ws : v.frames = w.frames
    OBVIOUS
  <2>1. [w EXCEPT !.val = "Unit"] \in ws /\ w \in Worlds
    BY <1>3 DEF Agrees
  <2>2. [w EXCEPT !.val = "Unit"].frames = w.frames
    BY <2>1, OtherFields
  <2> QED BY <2>1, <2>2
<1> HIDE DEF ws
<1>7. Exact(t, m - 1, ws, UninitSnapshot(t))
  BY <1>1, <1>2, <1>3, <1>6, SkippedShown
<1>8. Shown(scope', blocks', worlds')
  BY <1>1, <1>2, <1>3, <1>5, <1>7, DeliveredShown
<1> QED BY <1>1, <1>2, <1>4, <1>8, Justify


LEMMA EndArmsJustified ==
    ASSUME Going, EndIf, Top.form # "then"
    PROVE  Justified'
<1> DEFINE m == Len(blocks)
           r == RestoreUninit(Pop(scope), Top.snap)
           new == NewlyInitialized(scope, Top.snap)
           both == InBothArms(Top.thenInit, new)
           joined == JoinedType(Top.thenTy, BlockType)
           t == WithInitialized(r, both, TRUE)
           ws == Top.after \cup Left
           found == IF joined = "clash" THEN {"T0068"} ELSE {}
<1>1. /\ Checking /\ Top.form = "else" /\ Top.form # "oper" /\ Top.form \in Branches
      /\ events' = events \cup {} /\ errors' = errors \cup found
      /\ joined # "clash" => Delivered(Outer, t, joined, ws)
  <2>1. /\ Checking /\ Top.form = "else" /\ events' = events
        /\ errors' = IF joined = "clash" THEN errors \cup {"T0068"} ELSE errors
        /\ Delivered(Outer, t, IF joined = "clash" THEN "Unknown" ELSE joined, ws)
    BY DEF EndIf
  <2> HIDE DEF joined
  <2> QED BY <2>1 DEF Branches
<1>2. /\ scope \in Scopes /\ m \in Nat /\ m - 1 \in Nat \ {0} /\ Top = blocks[m] /\ Len(scope) = m
      /\ blocks[m] \in BlockRecs /\ SetAside(scope, m, blocks[m]) /\ Flowing /\ errors = {}
      /\ BlockType \in Types \ {"Unknown"}
  BY <1>1, ClosingHere DEF Going, Checking
<1>3. Backed(found, {}) /\ (found = {} => joined # "clash")
  <2>1. found \cap Codes = {}
    BY DEF Codes
  <2>2. found = {} => joined # "clash"
    OBVIOUS
  <2> HIDE DEF found
  <2> QED BY <2>1, <2>2, BackedOthers
<1> SUFFICES ASSUME joined # "clash" PROVE Shown(scope', blocks', worlds')
  <2> HIDE DEF joined, found
  <2> QED BY <1>1, <1>2, <1>3, Justify
<1>4. joined \in Types \ {"Unknown"}
  <2>1. Top.thenTy \in Types \ {"Unknown"}
    BY <1>1, <1>2 DEF BlockRecs, SetAside
  <2> QED BY <1>2, <2>1 DEF JoinedType
<1>5. /\ r \in Scopes /\ Len(r) = m - 1 /\ Kept(scope, r, m - 1)
      /\ UninitSnapshot(r) = {p \in UninitSnapshot(scope) : p[1] < m} \cup Top.snap
      /\ \A l \in 1 .. m - 1 : \A i \in 1 .. Len(scope[l]) : scope[l][i].ty = r[l][i].ty
      /\ \A p \in Top.snap : p[1] \in 1 .. m - 1 /\ p[2] \in 1 .. Len(scope[p[1]])
  BY <1>1, <1>2, Restored
<1>6. Top.snap \in SUBSET (Nat \X Nat)
  BY <1>2 DEF BlockRecs, Places
<1>7. both \in SUBSET (Nat \X Nat) /\ both \subseteq Top.snap
      /\ \A p \in Top.snap : p \in both <=> p \in Top.thenInit /\ scope[p[1]][p[2]].initialized
  BY <1>6 DEF InBothArms, NewlyInitialized
<1> HIDE DEF r, both, joined, found, new
<1>8. \A p \in both : /\ p[1] \in 1 .. Len(r) /\ p[2] \in 1 .. Len(r[p[1]])
                      /\ r[p[1]][p[2]].ty # "Unknown"
  <2> SUFFICES ASSUME NEW p \in both
               PROVE  /\ p[1] \in 1 .. Len(r) /\ p[2] \in 1 .. Len(r[p[1]])
                      /\ r[p[1]][p[2]].ty # "Unknown"
    OBVIOUS
  <2>1. p[1] \in 1 .. m - 1 /\ p[2] \in 1 .. Len(scope[p[1]]) /\ p[1] \in 1 .. Len(scope)
    BY <1>2, <1>5, <1>7
  <2>2. scope[p[1]][p[2]] \in Bindings /\ scope[p[1]][p[2]].initialized
    BY <1>2, <1>7, <2>1, ScopeTypes
  <2>3. scope[p[1]][p[2]].ty # "Unknown"
    BY <2>2 DEF Bindings, Proper
  <2>4. Len(r[p[1]]) = Len(scope[p[1]])
    BY <1>5, <2>1 DEF Kept
  <2> QED BY <1>5, <2>1, <2>3, <2>4
<1>9. t \in Scopes /\ Len(t) = m - 1 /\ Kept(r, t, m - 1) /\ UninitSnapshot(t) = UninitSnapshot(r) \ both
  <2>1. t \in Scopes /\ Len(t) = Len(r) /\ Kept(r, t, Len(r)) /\ UninitSnapshot(t) = UninitSnapshot(r) \ both
    BY <1>5, <1>7, <1>8, Reinitialized
  <2> QED BY <1>5, <2>1
<1> HIDE DEF t
<1>10. Kept(scope, t, m - 1)
  BY <1>2, <1>5, <1>9, KeptTransitive
<1>11. \A w \in Left : Agrees(t, m - 1, w, UninitSnapshot(t))
  <2>1. \A p \in UninitSnapshot(scope) : p[1] \in 1 .. m - 1 => p \in UninitSnapshot(t)
    <3> SUFFICES ASSUME NEW p \in UninitSnapshot(scope), p[1] \in 1 .. m - 1
                 PROVE  p \notin both /\ p \in UninitSnapshot(r)
      BY <1>9
    <3>1. ~scope[p[1]][p[2]].initialized
      BY <1>2, UninitPlaces
    <3> QED BY <1>2, <1>5, <1>7, <3>1
  <2> QED BY <1>1, <1>2, <1>9, <1>10, <2>1, LeftAgrees
<1>12. \A w \in Top.after : Agrees(t, m - 1, w, UninitSnapshot(t))
  <2>1. \A w \in Top.after : Agrees(scope, m - 1, w, Top.snap \ Top.thenInit)
    BY <1>2 DEF SetAside
  <2>2. \A p \in Top.snap \ Top.thenInit : p \in UninitSnapshot(t)
    BY <1>5, <1>7, <1>9
  <2> QED BY <1>2, <1>9, <1>10, <2>1, <2>2, AgreesKept
<1>13. \A w \in ws : Agrees(t, m - 1, w, UninitSnapshot(t))
  BY <1>11, <1>12
<1>14. (\A w \in Left : \E v \in ws : v.frames = w.frames) /\ (\A w \in Top.after : \E v \in ws : v.frames = w.frames)
  OBVIOUS
<1> HIDE DEF ws
<1>15. Exact(t, m - 1, ws, UninitSnapshot(t))
  <2> DEFINE V == {p \in UninitSnapshot(scope) : p[1] < m}
             W == Top.snap \ Top.thenInit
  <2>1. Exact(t, m - 1, ws, V)
    <3>1. \A p \in V : p[1] \in 1 .. m - 1 => p \in UninitSnapshot(scope)
      OBVIOUS
    <3> HIDE DEF V
    <3> QED BY <1>1, <1>9, <1>10, <1>14, <3>1, LeftShown
  <2>2. Exact(t, m - 1, ws, W)
    <3> HIDE DEF m
    <3> QED BY <1>1, <1>9, <1>10, <1>14, AfterShown DEF m
  <2>3. ASSUME NEW p \in UninitSnapshot(t) PROVE p \in V \cup W
    <3>1. p \in UninitSnapshot(r) /\ p \notin both
      BY <1>9, <2>3
    <3>2. CASE p \in V
      BY <3>2
    <3>3. CASE p \notin V
      <4>1. p \in Top.snap
        BY <1>5, <3>1, <3>3
      <4>2. CASE p \in Top.thenInit
        <5>1. ~scope[p[1]][p[2]].initialized
          BY <1>7, <3>1, <4>1, <4>2
        <5>2. p[1] \in 1 .. m - 1 /\ p[2] \in 1 .. Len(scope[p[1]]) /\ p = <<p[1], p[2]>>
          BY <1>5, <1>6, <4>1
        <5>3. p[1] \in 1 .. Len(scope) /\ p[1] < m
          BY <1>2, <5>2
        <5>4. p \in UninitSnapshot(scope)
          BY <1>2, <5>1, <5>2, <5>3, UninitPlaces
        <5> QED BY <3>3, <5>3, <5>4
      <4> QED BY <4>1, <4>2
    <3> QED BY <3>2, <3>3
  <2> HIDE DEF V, W
  <2>4. UninitSnapshot(t) \subseteq V \cup W
    BY <2>3
  <2> QED BY <2>1, <2>2, <2>4, ExactBoth
<1>16. Delivered(Outer, t, joined, ws)
  BY <1>1
<1> QED BY <1>1, <1>4, <1>9, <1>10, <1>13, <1>15, <1>16, DeliveredShown

LEMMA EndDoJustified ==
    ASSUME Going, EndDo
    PROVE  Justified'
<1> DEFINE m == Len(blocks)
           p == Pop(scope)
<1>0. PICK e \in Conditions :
         /\ Checking /\ Top.form = "do"
         /\ errors' = errors \cup CheckExpr(p, e).errors
                      \cup (IF CheckExpr(p, e).ty \in {"Boolean", "Unknown"} THEN {} ELSE {"T0080"})
         /\ Delivered(Outer, CheckExpr(p, e).scope, "Unit", Left)
         /\ events' = events \cup UNION {EvalFaults(w, e) : w \in Left}
  BY DEF EndDo
<1>1. PICK c, more, happens :
         /\ Checking /\ Top.form = "do" /\ c = CheckExpr(p, e)
         /\ more = (IF c.ty \in {"Boolean", "Unknown"} THEN {} ELSE {"T0080"})
         /\ errors' = errors \cup (c.errors \cup more)
         /\ Delivered(Outer, c.scope, "Unit", Left)
         /\ happens = UNION {EvalFaults(w, e) : w \in Left} /\ events' = events \cup happens
  BY <1>0
<1>2. /\ scope \in Scopes /\ m \in Nat /\ m - 1 \in Nat \ {0} /\ Len(scope) = m
      /\ Top.form # "oper" /\ errors = {} /\ Flowing
  BY <1>1, ClosingHere DEF Going, Checking
<1>3. /\ p \in Scopes /\ Len(p) = m - 1 /\ Kept(scope, p, m - 1)
      /\ UninitSnapshot(p) = {x \in UninitSnapshot(scope) : x[1] < m}
  <2>1. Len(scope) # 0
    BY <1>2
  <2> QED BY <1>2, <2>1, PopPlaces
<1> HIDE DEF p, m
<1>4. e \in Expressions
  BY ExpressionSets
<1>5. \A w \in Left : Agrees(p, m - 1, w, UninitSnapshot(p))
  <2>1. \A x \in UninitSnapshot(scope) : x[1] \in 1 .. m - 1 => x \in UninitSnapshot(p)
    BY <1>2, <1>3
  <2> QED BY <1>1, <1>2, <1>3, <2>1, LeftAgrees DEF m
<1>6. Exact(p, m - 1, Left, UninitSnapshot(p))
  <2>1. \A x \in UninitSnapshot(p) : x[1] \in 1 .. m - 1 => x \in UninitSnapshot(scope)
    BY <1>3
  <2>2. \A w \in Left : \E v \in Left : v.frames = w.frames
    OBVIOUS
  <2> QED BY <1>1, <1>2, <1>3, <2>1, <2>2, LeftShown DEF m
<1>7. Standing(p, Left)
  <2>1. txDepth \in Int /\ AllAt(Left, txDepth)
    BY LeftDepth DEF Going, DepthsAgree
  <2> QED BY <1>3, <1>5, <1>6, <2>1 DEF Standing
<1>8. c.scope \in Scopes /\ OnlyMarks(p, c.scope)
  BY <1>1, <1>3, <1>4, ExprMarks
<1>9. Backed(c.errors \cup more, happens)
  <2>1. Backed(c.errors, happens)
    BY <1>1, <1>4, <1>7, ExprShown
  <2>2. more \cap Codes = {}
    BY <1>1 DEF Codes
  <2>3. Backed(more, happens)
    BY <2>2, BackedOthers
  <2> QED BY <2>1, <2>3, BackedUnion
<1>10. /\ Len(c.scope) = m - 1 /\ Kept(p, c.scope, m - 1) /\ UninitSnapshot(c.scope) = UninitSnapshot(p)
  BY <1>3, <1>8, MarksKeep DEF OnlyMarks
<1>11. Kept(scope, c.scope, m - 1)
  BY <1>2, <1>3, <1>8, <1>10, KeptTransitive
<1>12. Standing(c.scope, Left)
  BY <1>7, <1>8, StandingMarked
<1>13. /\ \A w \in Left : Agrees(c.scope, m - 1, w, UninitSnapshot(c.scope))
       /\ Exact(c.scope, m - 1, Left, UninitSnapshot(c.scope))
  BY <1>10, <1>12 DEF Standing
<1>14. "Unit" \in Types \ {"Unknown"}
  BY DEF Types, Solid
<1>15. Shown(scope', blocks', worlds')
  BY <1>1, <1>2, <1>8, <1>10, <1>11, <1>13, <1>14, DeliveredShown DEF m
<1> QED BY <1>1, <1>2, <1>9, <1>15, Justify

LEMMA EndOperJustified ==
    ASSUME EndOper
    PROVE  Justified'
<1> DEFINE found == Mismatch("T0009", BlockType, returns)
           happens == UNION {ExitFaults(w.depth, w.val) : w \in worlds}
<1>1. /\ errors = {} /\ errors' = errors \cup found /\ events' = events \cup happens /\ blocks' = << >>
  BY DEF EndOper, Checking
<1> HIDE DEF happens
<1>2. Backed(found, happens)
  BY BackedMismatch DEF Codes
<1> HIDE DEF found
<1> QED BY <1>1, <1>2, Justify


LEMMA ElseJustified ==
    ASSUME Going, Else
    PROVE  Justified'
<1> DEFINE m == Len(blocks)
           r == RestoreUninit(Pop(scope), Top.snap)
           t == Push(r)
           new == NewlyInitialized(scope, Top.snap)
           b == [Top EXCEPT !.form = "else", !.thenTy = BlockType, !.diverges = FALSE,
                            !.thenInit = new, !.after = Left]
           cs == [blocks EXCEPT ![m] = b]
           ws == {Enter(w) : w \in Top.before}
<1>1. /\ Checking /\ Top.form = "then" /\ Top.form # "oper" /\ Top.form \in Branches
      /\ scope' = t /\ blocks' = cs /\ worlds' = ws
      /\ events' = events \cup {} /\ errors' = errors \cup {}
  BY DEF Else, WithTop, Branches
<1>2. /\ scope \in Scopes /\ m \in Nat /\ m - 1 \in Nat \ {0} /\ Top = blocks[m] /\ Len(scope) = m
      /\ blocks \in Seq(BlockRecs) /\ blocks[m] \in BlockRecs /\ Shown(scope, blocks, worlds)
      /\ BlockType \in Types \ {"Unknown"} /\ Flowing /\ errors = {}
  BY <1>1, ClosingHere DEF Going, Checking
<1>3. /\ r \in Scopes /\ Len(r) = m - 1 /\ Kept(scope, r, m - 1)
      /\ UninitSnapshot(r) = {p \in UninitSnapshot(scope) : p[1] < m} \cup Top.snap
      /\ \A w \in Top.before : Agrees(r, m - 1, w, UninitSnapshot(r))
      /\ \A w \in Left : Agrees(r, m - 1, w, UninitSnapshot(r))
      /\ \A p \in Top.snap : p[1] \in 1 .. m - 1 /\ p[2] \in 1 .. Len(scope[p[1]])
  BY <1>1, <1>2, Restored
<1>4. Top.snap \in SUBSET Places /\ new \in SUBSET Places /\ Left \in SUBSET Worlds
  <2>1. Top.snap \in SUBSET Places
    BY <1>2 DEF BlockRecs
  <2>2. Left \in SUBSET Worlds
    BY <1>3 DEF Agrees
  <2> QED BY <2>1, <2>2 DEF NewlyInitialized
<1>5. \A p \in Top.snap \ new : p \in UninitSnapshot(scope)
  <2> SUFFICES ASSUME NEW p \in Top.snap \ new PROVE p \in UninitSnapshot(scope)
    OBVIOUS
  <2>1. ~scope[p[1]][p[2]].initialized
    BY DEF NewlyInitialized
  <2>2. p = <<p[1], p[2]>> /\ p[1] \in 1 .. Len(scope) /\ p[2] \in 1 .. Len(scope[p[1]])
    BY <1>2, <1>3, <1>4 DEF Places
  <2> QED BY <1>2, <2>1, <2>2, UninitPlaces
<1> HIDE DEF r, m, new
<1>6. UninitSnapshot(r) \subseteq Top.snap
  <2>1. Walk(scope, blocks, tail, worlds)
    BY <1>1, GoingHere
  <2>2. Waiting(blocks, m, UninitSnapshot(scope)) /\ m \in 1 .. m
    BY <1>2, <2>1 DEF Walk, Nest, m
  <2>3. \A p \in UninitSnapshot(scope) : p[1] < m => p \in Top.snap
    BY <1>1, <1>2, <2>2 DEF Waiting
  <2> QED BY <1>3, <2>3
<1>7. t \in Scopes /\ Len(t) = m /\ Kept(r, t, m - 1) /\ UninitSnapshot(t) = UninitSnapshot(r)
  <2>1. t \in Scopes /\ Len(t) = Len(r) + 1 /\ Kept(r, t, Len(r)) /\ UninitSnapshot(t) = UninitSnapshot(r)
    BY <1>3, PushPlaces
  <2> QED BY <1>2, <1>3, <2>1
<1>8. Kept(scope, t, m - 1)
  BY <1>2, <1>3, <1>7, KeptTransitive
<1>9. Exact(t, m, ws, UninitSnapshot(t))
  <2>1. \A w \in Top.before : \E v \in Top.before : v.frames = w.frames
    OBVIOUS
  <2>2. Exact(r, m - 1, Top.before, UninitSnapshot(r))
    BY <1>1, <1>3, <1>6, <2>1, BeforeShown DEF m
  <2>3. \A w \in Top.before : \E v \in ws : v.frames = Enter(w).frames
    OBVIOUS
  <2> DEFINE before == Top.before
  <2>4. /\ \A w \in before : Agrees(r, Len(r), w, UninitSnapshot(r))
        /\ Exact(r, Len(r), before, UninitSnapshot(r))
        /\ \A w \in before : \E v \in ws : v.frames = Enter(w).frames
    BY <1>3, <2>2, <2>3
  <2> HIDE DEF before, ws, t
  <2>5. Exact(Push(r), Len(Push(r)), ws, UninitSnapshot(Push(r)))
    BY <1>3, <2>4, EnterShown
  <2> QED BY <1>7, <2>5 DEF t
<1> HIDE DEF t, ws
<1>10. /\ b \in BlockRecs /\ b.form = "else" /\ b.snap = Top.snap
       /\ b.thenInit = new /\ b.before = Top.before /\ b.after = Left
  <2>1. Top \in BlockRecs
    BY <1>2
  <2> QED BY <1>2, <1>4, <2>1 DEF BlockRecs, Forms
<1> HIDE DEF b
<1>11. Spread(t, m, b)
  <2>1. Exact(t, m - 1, Top.before, Top.snap)
    <3>1. \A w \in Top.before : \E v \in Top.before : v.frames = w.frames
      OBVIOUS
    <3> QED BY <1>1, <1>7, <1>8, <3>1, BeforeShown DEF m
  <2>2. Exact(t, m - 1, Left, Top.snap \ new)
    <3>1. \A w \in Left : \E v \in Left : v.frames = w.frames
      OBVIOUS
    <3> DEFINE V == Top.snap \ new
    <3>2. \A p \in V : p[1] \in 1 .. m - 1 => p \in UninitSnapshot(scope)
      BY <1>5
    <3> HIDE DEF V
    <3>3. Exact(t, m - 1, Left, V)
      BY <1>1, <1>7, <1>8, <3>1, <3>2, LeftShown DEF m
    <3> QED BY <3>3 DEF V
  <2> QED BY <1>10, <2>1, <2>2 DEF Spread
<1>12. /\ Len(cs) = m /\ cs[m] = b /\ \A k \in 1 .. m - 1 : cs[k] = blocks[k]
  <2>1. m \in 1 .. Len(blocks) /\ Len(blocks) = m
    BY <1>2 DEF m
  <2>2. Len(cs) = m /\ \A k \in 1 .. m : cs[k] = IF k = m THEN b ELSE blocks[k]
    BY <1>2, <1>10, <2>1, ExceptIsSeq
  <2> QED BY <1>2, <2>2
<1> HIDE DEF cs
<1>13. m \in 1 .. Len(blocks) + 1 /\ Len(blocks) \in Nat
  BY <1>2 DEF m
<1>14. Shown(t, cs, ws)
  <2>1. Spread(t, m, cs[m])
    BY <1>11, <1>12
  <2> QED BY <1>2, <1>7, <1>8, <1>9, <1>12, <1>13, <2>1, ShownTo
<1>15. Shown(scope', blocks', worlds')
  BY <1>1, <1>14
<1>16. Backed({}, {})
  BY DEF Backed
<1> QED BY <1>1, <1>2, <1>15, <1>16, Justify

-----------------------------------------------------------------------------
(* The theorem.                                                             *)

Deserved == "left early" \notin events => Justified

LEMMA InitDeserved == Init => Deserved
<1> SUFFICES ASSUME Init PROVE Justified
  BY DEF Deserved
<1>1. PICK params \in {{}} \cup {{n} : n \in Names} :
         /\ scope = <<RelvarLayer \o [i \in 1 .. Cardinality(params) |->
                         Binding(CHOOSE n \in params : TRUE, "Integer", "param", 0)]>>
         /\ worlds = {[frames |-> <<[n \in params |-> Cell(0, "param", "Integer")]>>,
                       depth |-> 0, val |-> "Unit"]}
  BY DEF Init
<1>2. PICK layer \in Seq(Bindings) :
         /\ scope = <<layer>>
         /\ \A i \in 1 .. Len(layer) : layer[i].initialized
  BY <1>1, FirstLayer
<1>3. scope \in Scopes /\ Len(scope) = 1 /\ scope[1] = layer
  BY <1>2 DEF Scopes
<1>4. UninitSnapshot(scope) = {}
  <2>1. \A p \in UninitSnapshot(scope) : FALSE
    <3> SUFFICES ASSUME NEW p \in UninitSnapshot(scope) PROVE FALSE
      OBVIOUS
    <3>1. p[1] \in 1 .. Len(scope) /\ p[2] \in 1 .. Len(scope[p[1]]) /\ ~scope[p[1]][p[2]].initialized
      BY <1>3, UninitPlaces
    <3>2. p[1] = 1
      BY <1>3, <3>1
    <3> QED BY <1>2, <1>3, <3>1, <3>2
  <2> QED BY <2>1
<1>5. worlds # {}
  BY <1>1
<1>6. Exact(scope, Len(scope), worlds, UninitSnapshot(scope))
  BY <1>4, <1>5 DEF Exact
<1>7. PICK b : blocks = <<b>> /\ b.form = "oper"
  BY DEF Init
<1>8. Len(blocks) = 1 /\ blocks[1] = b /\ \A k \in 1 .. 1 : k = 1
  BY <1>7
<1>9. Shown(scope, blocks, worlds)
  <2>1. \A k \in 1 .. Len(blocks) : Spread(scope, k, blocks[k])
    BY <1>7, <1>8 DEF Spread, Branches
  <2> QED BY <1>6, <2>1 DEF Shown
<1>10. Backed(errors, events)
  BY DEF Init, Backed
<1> QED BY <1>9, <1>10 DEF Justified

\* Every action goes on with an accepted program, and forgets nothing that
\* happened.
LEMMA Acts ==
    ASSUME Next
    PROVE  Checking /\ events \subseteq events'
<1>1. CanGoOn => Checking
  BY DEF CanGoOn
<1>2. CanWrite \/ CanOpen => Checking
  BY <1>1 DEF CanWrite, CanOpen
<1>3. CASE LetStmt \/ VarStmt
  BY <1>2, <1>3 DEF LetStmt, VarStmt, Bind, Statement, Step
<1>4. CASE DeclareUnassigned
  BY <1>2, <1>4 DEF DeclareUnassigned, Statement, Step
<1>5. CASE AssignLocal
  BY <1>2, <1>5 DEF AssignLocal, Statement, Step
<1>6. CASE AssignRelvar
  BY <1>2, <1>6 DEF AssignRelvar, Statement, Step
<1>7. CASE TruncateStmt
  BY <1>2, <1>7 DEF TruncateStmt, Statement, Step
<1>8. CASE DeleteStmt
  BY <1>2, <1>8 DEF DeleteStmt, Statement, Step
<1>9. CASE InsertStmt
  BY <1>2, <1>9 DEF InsertStmt, Statement, Step
<1>10. CASE UpdateStmt
  BY <1>2, <1>10 DEF UpdateStmt, Statement, Step
<1>11. CASE LoadStmt
  BY <1>2, <1>11 DEF LoadStmt, Statement, Step
<1>12. CASE LoadReverse
  BY <1>2, <1>12 DEF LoadReverse, Statement, Step
<1>13. CASE ExprStmt
  BY <1>2, <1>13 DEF ExprStmt, Statement, Step
<1>14. CASE TailExpr
  BY <1>2, <1>14 DEF TailExpr
<1>15. CASE ReturnStmt
  BY <1>2, <1>15 DEF ReturnStmt, Statement, Step
<1>16. CASE BeginIf \/ BeginWhile \/ BeginDo
  BY <1>2, <1>16 DEF BeginIf, BeginWhile, BeginDo, OpenBlock, Step
<1>17. CASE BeginFor \/ BeginTransaction
  BY <1>2, <1>17 DEF BeginFor, BeginTransaction, Step
<1>18. CASE Else \/ EndIf \/ EndTransaction \/ EndLoop \/ EndDo \/ EndOper
  BY <1>18 DEF Else, EndIf, EndTransaction, EndLoop, EndDo, EndOper
<1> QED BY <1>3, <1>4, <1>5, <1>6, <1>7, <1>8, <1>9, <1>10, <1>11, <1>12, <1>13, <1>14, <1>15, <1>16,
           <1>17, <1>18 DEF Next

LEMMA StepDeserved ==
    ASSUME Ground, FlowInv, IndInv, Deserved, [Next]_vars
    PROVE  Deserved'
<1> SUFFICES ASSUME "left early" \notin events' PROVE Justified'
  BY DEF Deserved
<1>1. CASE UNCHANGED vars
  <2>1. /\ scope' = scope /\ blocks' = blocks /\ errors' = errors /\ worlds' = worlds /\ events' = events
    BY <1>1 DEF vars
  <2>2. Justified' = Justified
    BY <2>1 DEF Justified
  <2> QED BY <2>1, <2>2 DEF Deserved
<1>2. CASE Next
  <2>1. Checking /\ errors = {} /\ blocks # << >> /\ Justified
    BY <1>2, Acts DEF Checking, Deserved
  <2>2. "left early" \notin events
    BY <1>2, Acts
  <2>3. Going
    BY <2>1, <2>2 DEF Going, Justified, FlowInv, IndInv
  <2>4. CASE LetStmt \/ VarStmt
    BY <2>3, <2>4, BindJustified
  <2>5. CASE DeclareUnassigned
    BY <2>3, <2>5, DeclareJustified
  <2>6. CASE AssignLocal
    BY <2>3, <2>6, AssignLocalJustified
  <2>7. CASE AssignRelvar
    BY <2>3, <2>7, AssignRelvarJustified
  <2>8. CASE TruncateStmt
    BY <2>3, <2>8, TruncateJustified
  <2>9. CASE DeleteStmt
    BY <2>3, <2>9, DeleteJustified
  <2>10. CASE InsertStmt
    BY <2>3, <2>10, InsertJustified
  <2>11. CASE UpdateStmt
    BY <2>3, <2>11, UpdateJustified
  <2>12. CASE LoadStmt
    BY <2>3, <2>12, LoadJustified
  <2>13. CASE LoadReverse
    BY <2>3, <2>13, LoadReverseJustified
  <2>14. CASE ExprStmt
    BY <2>3, <2>14, ExprJustified
  <2>15. CASE TailExpr
    BY <2>3, <2>15, TailJustified
  <2>16. CASE ReturnStmt
    BY <2>3, <2>16, ReturnJustified
  <2>17. CASE BeginIf
    BY <2>3, <2>17, IfJustified
  <2>18. CASE Else
    BY <2>3, <2>18, ElseJustified
  <2>19. CASE EndIf
    BY <2>3, <2>19, EndAloneJustified, EndArmsJustified
  <2>20. CASE BeginTransaction
    BY <2>3, <2>20, TransactionJustified
  <2>21. CASE EndTransaction
    BY <2>3, <2>21, EndTransactionJustified
  <2>22. CASE BeginWhile
    BY <2>3, <2>22, WhileJustified
  <2>23. CASE BeginFor
    BY <2>3, <2>23, ForJustified
  <2>24. CASE EndLoop
    BY <2>3, <2>24, EndLoopJustified
  <2>25. CASE BeginDo
    BY <2>3, <2>25, DoJustified
  <2>26. CASE EndDo
    BY <2>3, <2>26, EndDoJustified
  <2>27. CASE EndOper
    BY <2>27, EndOperJustified
  <2> QED BY <1>2, <2>4, <2>5, <2>6, <2>7, <2>8, <2>9, <2>10, <2>11, <2>12, <2>13, <2>14, <2>15, <2>16,
             <2>17, <2>18, <2>19, <2>20, <2>21, <2>22, <2>23, <2>24, <2>25, <2>26, <2>27 DEF Next
<1> QED BY <1>1, <1>2

LEMMA DeservedIsReal == Deserved => RefusalsAreReal
<1> SUFFICES ASSUME Deserved, NEW code \in Codes, RefusedFor(code)
             PROVE  Backed({code}, events)
  BY DEF RefusalsAreReal, Codes, Backed
<1> QED BY DEF Deserved, Justified, RefusedFor

\* A program refused for reading a var without a value, for reaching a public
\* relvar outside a bracket, for an effect inside one, for returning out of
\* one or for assigning what cannot be assigned has an execution that does so,
\* unless the statement stands behind a return the checker has accepted.
THEOREM RefusalsHold == Spec => []RefusalsAreReal
<1> DEFINE Inv == Ground /\ FlowInv /\ IndInv
<1>1. Spec => []Inv
  BY FlowIsReal, DepthIsReal, PTL
<1>2. Init => Deserved
  BY InitDeserved
<1>3. Inv /\ Deserved /\ [Next]_vars => Deserved'
  BY StepDeserved
<1>4. Deserved => RefusalsAreReal
  BY DeservedIsReal
<1> HIDE DEF Inv
<1> QED BY <1>1, <1>2, <1>3, <1>4, PTL DEF Spec

=============================================================================
