---- MODULE LoweringEnds_proofs ----
(***************************************************************************)
(* The theorems about Lowering, continued: the steps that close a          *)
(* transaction, an arm, an if, a loop, a function and the program; and the *)
(* theorems themselves.                                                    *)
(***************************************************************************)
EXTENDS Lowering_proofs

-----------------------------------------------------------------------------
(* Structures that end.                                                     *)

LEMMA FrontIs ==
    ASSUME NEW S, NEW s \in Seq(S), Len(s) > 0
    PROVE  /\ Front(s) \in Seq(S) /\ Len(Front(s)) = Len(s) - 1 /\ Len(s) - 1 \in Nat
           /\ \A k \in 1 .. Len(s) - 1 : Front(s)[k] = s[k]
<1> DEFINE n == Len(s) - 1
           t == SubSeq(s, 1, n)
<1>1. n \in Nat /\ \A k \in 1 .. n : s[k] \in S
  OBVIOUS
<1>2. t = [i \in 1 .. n |-> s[i]]
  BY <1>1
<1>3. t \in [1 .. n -> S] /\ \A k \in 1 .. n : t[k] = s[k]
  BY <1>1, <1>2
<1> HIDE DEF t
<1>4. t \in Seq(S) /\ Len(t) = n
  BY <1>1, <1>3
<1> QED BY <1>1, <1>3, <1>4 DEF Front, t

LEMMA FrontOf ==
    ASSUME NEW s, NEW n \in Nat, n > 0, Len(s) = n, DOMAIN s = 1 .. n, s = [i \in 1 .. n |-> s[i]]
    PROVE  /\ Len(Front(s)) = n - 1 /\ DOMAIN Front(s) = 1 .. n - 1 /\ n - 1 \in Nat
           /\ Front(s) = [i \in 1 .. n - 1 |-> Front(s)[i]]
           /\ \A i \in 1 .. n - 1 : Front(s)[i] = s[i]
<1> DEFINE S == {s[i] : i \in 1 .. n}
           t == Front(s)
<1>1. s \in [1 .. n -> S]
  <2>1. \A i \in 1 .. n : s[i] \in S
    OBVIOUS
  <2> HIDE DEF S
  <2> QED BY <2>1
<1> HIDE DEF S
<1>2. s \in Seq(S)
  BY <1>1
<1>3. t \in Seq(S) /\ Len(t) = n - 1 /\ n - 1 \in Nat /\ \A i \in 1 .. n - 1 : t[i] = s[i]
  BY <1>2, FrontIs
<1> HIDE DEF t
<1>4. t \in [1 .. n - 1 -> S]
  BY <1>3
<1>5. DOMAIN t = 1 .. n - 1 /\ t = [i \in 1 .. n - 1 |-> t[i]]
  BY <1>4
<1> QED BY <1>3, <1>5 DEF t

\* z is l but for its last layer.
Popped(l, z) ==
    /\ Len(z.locals) = Len(l.locals) - 1 /\ Len(z.pending) = Len(z.locals)
    /\ \A k \in 1 .. Len(l.locals) - 1 : z.locals[k] = l.locals[k] /\ z.pending[k] = l.pending[k]

LEMMA PopMoves ==
    ASSUME NEW D, NEW l, NEW y, Moves(D, l, y), Len(y.locals) > 0, Len(y.pending) = Len(y.locals)
    PROVE  /\ Moves(D, l, PopScope(y)) /\ Popped(y, PopScope(y)) /\ SameElse(y, PopScope(y))
           /\ PopScope(y) \in Lowerers /\ Avail(D, PopScope(y)) = Avail(D, y)
<1> DEFINE locals == Front(y.locals)
           pending == Front(y.pending)
           z == PopScope(y)
<1>1. Good(D, y) /\ y \in Lowerers /\ y.locals \in Seq(Layers) /\ y.pending \in Seq(Pendings)
      /\ Len(y.locals) \in Nat /\ Len(y.deferred) \in Nat
  BY GoodTypes DEF Moves, Lowerers
<1>2. /\ locals \in Seq(Layers) /\ Len(locals) = Len(y.locals) - 1
      /\ \A k \in 1 .. Len(y.locals) - 1 : locals[k] = y.locals[k]
  BY <1>1, FrontIs
<1>3. /\ pending \in Seq(Pendings) /\ Len(pending) = Len(y.locals) - 1
      /\ \A k \in 1 .. Len(y.locals) - 1 : pending[k] = y.pending[k]
  BY <1>1, FrontIs
<1>4. z = [y EXCEPT !.locals = locals, !.pending = pending]
  BY DEF PopScope
<1> HIDE DEF locals, pending, z
<1>5. z \in Lowerers /\ z.locals = locals /\ z.pending = pending /\ SameElse(y, z)
  BY <1>1, <1>2, <1>3, <1>4 DEF Lowerers, SameElse
<1>6. ASSUME NEW k \in 1 .. Len(z.locals), NEW n \in DOMAIN z.locals[k]
      PROVE  /\ z.locals[k][n].v \in Avail(D, y)
             /\ \A j \in 1 .. Len(z.deferred) :
                   z.deferred[j].flat = z.locals[k][n].v => z.locals[k][n].ty = "Flat"
  <2>1. k \in 1 .. Len(y.locals) /\ z.locals[k] = y.locals[k] /\ z.deferred = y.deferred
    BY <1>1, <1>2, <1>5 DEF SameElse
  <2> QED BY <1>1, <2>1 DEF Good, LocalsIn, BorrowersIn, Borrows
<1>7. Rescopes(D, y, z)
  BY <1>1, <1>5, <1>6 DEF Rescopes, SameElse
<1>8. Moves(D, l, z) /\ Avail(D, z) = Avail(D, y)
  BY <1>5, <1>7, RescopeMoves DEF SameElse, Avail
<1>9. Popped(y, z)
  BY <1>2, <1>3, <1>5 DEF Popped
<1> QED BY <1>5, <1>8, <1>9 DEF z

LEMMA LeaveScopeMoves ==
    ASSUME NEW D, NEW l, Good(D, l), NEW o, Block(D, l, o),
           Len(l.locals) > 0, Len(l.pending) = Len(l.locals)
    PROVE  LET z == LeaveScope(o.l, o)
           IN  /\ Moves(D, l, z) /\ Popped(l, z) /\ z.deferred = o.l.deferred
               /\ Avail(D, o.l) \subseteq Avail(D, z) /\ z \in Lowerers
               /\ z.diverged = l.diverged /\ z.returns = l.returns
<1> DEFINE x == RetainIfEscapingLocal(o.l, o.v, o.ty)
           y == ReleaseTopScope(x)
           z == LeaveScope(o.l, o)
<1>1. /\ Goes(D, l, o.l) /\ Good(D, o.l) /\ o.l \in Lowerers /\ l \in Lowerers
      /\ o.v \in Avail(D, o.l) \/ o.v = NoValue
  BY BlockGoes
<1>2. Emits(D, o.l, x)
  BY <1>1, RetainEmits
<1> HIDE DEF x
<1>3. Good(D, x) /\ x \in Lowerers /\ x.locals = l.locals
  BY <1>1, <1>2, EmitsGood, GoodTypes DEF Emits, Goes, SameScopes
<1>4. Emits(D, x, y)
  BY <1>3, ReleaseTopScopeEmits
<1>5. z = PopScope(y)
  BY DEF LeaveScope, x
<1> HIDE DEF y, z
<1>6. Emits(D, o.l, y)
  BY <1>1, <1>2, <1>4, EmitsOn
<1>7. Goes(D, l, y) /\ y.deferred = o.l.deferred /\ Avail(D, o.l) \subseteq Avail(D, y)
  BY <1>1, <1>6, GoesOn, EmitsGood DEF Emits
<1>8. Moves(D, l, y) /\ y.locals = l.locals /\ y.pending = l.pending /\ y.diverged = l.diverged
      /\ y.returns = l.returns
  BY <1>7 DEF Goes, SameScopes
<1>9. Moves(D, l, z) /\ Popped(y, z) /\ SameElse(y, z) /\ z \in Lowerers /\ Avail(D, z) = Avail(D, y)
  BY <1>5, <1>8, PopMoves
<1> QED BY <1>7, <1>8, <1>9 DEF Popped, SameElse, z

\* x is m, or m with a new name in its last layer.
Lets(m, x) ==
    /\ Len(x.locals) = Len(m.locals) /\ x.pending = m.pending
    /\ x.deferred = m.deferred /\ x.diverged = m.diverged /\ x.returns = m.returns
    /\ \A k \in 1 .. Len(m.locals) - 1 : x.locals[k] = m.locals[k]
    /\ Scoped(m) => Scoped(x)
    /\ \A n \in DOMAIN m.locals[Len(m.locals)] :
          n \in DOMAIN x.locals[Len(m.locals)] /\ x.locals[Len(m.locals)][n] = m.locals[Len(m.locals)][n]

\* The value b can be let.
Letable(D, m, b) ==
    b.ty # "Unit" =>
        /\ Binding(b) \in Bnds /\ b.v \in Avail(D, m)
        /\ \A j \in 1 .. Len(m.deferred) : m.deferred[j].flat = b.v => b.ty = "Flat"

LEMMA LetMoves ==
    ASSUME NEW D, NEW l, NEW m, Moves(D, l, m), NEW b, Letable(D, m, b),
           Len(m.locals) > 0, Len(m.pending) = Len(m.locals),
           Names \ DeclaredTo(m, Len(m.locals)) # {}
    PROVE  Moves(D, l, LetValue(m, b)) /\ Lets(m, LetValue(m, b)) /\ LetValue(m, b) \in Lowerers
<1> DEFINE x == LetValue(m, b)
           n == FreeName(m)
           top == Len(m.locals)
           c == Binding(b)
<1>1. m \in Lowerers /\ m.locals \in Seq(Layers) /\ m.pending \in Seq(Pendings) /\ top \in Nat /\ top \in 1 .. top
  BY GoodTypes DEF Moves, Lowerers
<1> SUFFICES Moves(D, l, x) /\ Lets(m, x) /\ x \in Lowerers
  OBVIOUS
<1>2. CASE b.ty = "Unit"
  <2>1. x = m
    BY <1>2 DEF LetValue
  <2> HIDE DEF x
  <2> QED BY <1>1, <2>1 DEF Lets
<1>3. CASE b.ty # "Unit"
  <2>1. x = BindAt(m, top, n, c)
    BY <1>3 DEF LetValue, BindLocal
  <2>2. n \in Names /\ \A k \in 1 .. top : n \notin DOMAIN m.locals[k] /\ n \notin m.pending[k]
    BY <1>1, FreeNameIsFree
  <2>3. c \in Bnds /\ c.v = b.v /\ c.ty = b.ty /\ b.v \in Avail(D, m)
        /\ \A j \in 1 .. Len(m.deferred) : m.deferred[j].flat = b.v => b.ty = "Flat"
    BY <1>3 DEF Letable, Binding
  <2> HIDE DEF n, c
  <2>4. Bindable(D, m, top, n, c)
    BY <1>1, <2>2, <2>3 DEF Bindable
  <2> HIDE DEF x, top
  <2>5. /\ Moves(D, l, x) /\ Renames(m, x, top, n)
        /\ x.deferred = m.deferred /\ x.diverged = m.diverged /\ x.returns = m.returns
    BY <2>1, <2>2, <2>4, BindFreshMoves DEF top
  <2>6. x.pending = m.pending
    BY <1>1, <2>1 DEF BindAt, Lowerers
  <2>7. x \in Lowerers
    BY <2>5, GoodTypes DEF Moves
  <2>8. Scoped(m) => Scoped(x)
    <3>1. \A k \in 1 .. Len(m.locals) : n \in DOMAIN m.locals[k] => k = top
      BY <2>2 DEF top
    <3> QED BY <1>1, <2>2, <2>5, <3>1, RenamesScoped DEF top
  <2>9. \A k \in 1 .. top - 1 : x.locals[k] = m.locals[k]
    <3> TAKE k \in 1 .. top - 1
    <3>1. k \in 1 .. top /\ k # top /\ k \in DOMAIN m.locals
      BY <1>1 DEF top
    <3> QED BY <1>1, <2>1, <3>1 DEF BindAt, Lowerers
  <2>10. \A z \in DOMAIN m.locals[top] : z \in DOMAIN x.locals[top] /\ x.locals[top][z] = m.locals[top][z]
    <3> TAKE z \in DOMAIN m.locals[top]
    <3>1. z # n
      BY <1>1, <2>2
    <3> QED BY <1>1, <2>5, <3>1 DEF Renames, top
  <2>11. \A k \in 1 .. top : Len(x.locals) = top
    BY <2>5 DEF Renames, top
  <2>12. Lets(m, x)
    BY <1>1, <2>5, <2>6, <2>8, <2>9, <2>10, <2>11 DEF Lets, top
  <2> QED BY <2>5, <2>7, <2>12
<1> QED BY <1>2, <1>3

LEMMA SameBelowKeeps ==
    ASSUME NEW l, NEW m, NEW p, \A k \in 1 .. p : m.locals[k] = l.locals[k] /\ m.pending[k] = l.pending[k],
           NEW e
    PROVE  KeepsScopes(l, m, e, p)
BY DEF KeepsScopes, DeclaredTo, BoundTo

LEMMA PoppedScoped ==
    ASSUME NEW l, NEW z, Scoped(l), Len(l.locals) \in Nat, Len(l.locals) > 1, Popped(l, z)
    PROVE  Scoped(z)
<1>1. \A k \in 1 .. Len(l.locals) - 1 : k \in 1 .. Len(l.locals)
  OBVIOUS
<1>2. ASSUME NEW i \in 1 .. Len(l.locals) - 1, NEW j \in 1 .. Len(l.locals) - 1, NEW n \in Names
      PROVE  /\ n \in DOMAIN z.locals[i] /\ n \in DOMAIN z.locals[j] => i = j
             /\ n \in z.pending[i] /\ n \in z.pending[j] => i = j
             /\ ~(n \in DOMAIN z.locals[i] /\ n \in z.pending[j])
  BY <1>1 DEF Popped, Scoped
<1> QED BY <1>2 DEF Popped, Scoped

\* The structures below one that is no if keep their deferred sources.
LEMMA PopKeepsDeferred ==
    ASSUME NEW l \in Lowerers, NEW m \in Lowerers, Prefix(l.deferred, m.deferred),
           NEW st, NEW lo, Stack(st, lo), Frame(l, st, lo, Len(st)),
           m.diverged = l.diverged,
           ~(InLoop(st) /\ Len(m.deferred) > Len(l.deferred)),
           st[Len(st)].kind # "if", NEW i \in lo + 1 .. Len(st) - 1
    PROVE  KeepsDeferred(l, m, st, i, Len(st) - 1, Len(st))
<1> DEFINE n == Len(st)
<1>1. n \in Nat /\ lo \in Nat
  BY StackTypes
<1>2. i \in lo + 1 .. n
  BY <1>1
<1>3. KeepsDeferred(l, m, st, i, n, n)
  BY <1>2, KeepsDeferredOn
<1>4. \A j \in i + 1 .. n : j \in i + 1 .. n - 1 \/ j = n
  BY <1>1
<1>5. \A j \in i + 1 .. n - 1 : j \in i + 1 .. n
  BY <1>1
<1>6. \A k : Inside(m, st, i, n, k) => Inside(m, st, i, n - 1, k)
  BY <1>4, <1>5 DEF Inside
<1> HIDE DEF n
<1> QED BY <1>3, <1>6 DEF KeepsDeferred, n

\* The structure that ends, and those around it.
LEMMA InnerBlock ==
    ASSUME NEW lo, Now(lo), Inner.kind \in {"tx", "if", "loop"}
    PROVE  LET hi == Len(open) - 1
           IN  /\ lo < Len(open) /\ lo <= hi /\ hi <= Len(open) /\ hi \in Nat /\ Len(open) = hi + 1
               /\ Inner = open[hi + 1] /\ Inner \in Blocks /\ lo \in Nat
               /\ Len(fn.locals) = hi - lo + 2 /\ Len(fn.locals) - 1 = hi - lo + 1 /\ Len(fn.locals) > 1
               /\ Len(fn.locals) - 1 \in Nat
               /\ Len(fn.pending) = Len(fn.locals)
               /\ Below(fn, Inner, Len(fn.locals) - 1) /\ Saved(Inner, There)
               /\ HeldBy(fn, open, hi + 1, Len(fn.locals) - 1, hi + 1, There)
               /\ Len(Front(open)) = hi /\ DOMAIN Front(open) = 1 .. hi
               /\ Front(open) = [i \in 1 .. hi |-> Front(open)[i]]
               /\ \A i \in 1 .. hi : Front(open)[i] = open[i]
               /\ \A i \in lo + 1 .. hi : i \in lo + 1 .. Len(open)
<1> DEFINE n == Len(open)
           hi == n - 1
<1>1. /\ Stack(open, lo) /\ lo \in Nat /\ lo \in 1 .. n /\ n \in Nat /\ n > 0
      /\ Len(fn.locals) = n - lo + 1 /\ Scoped(fn)
      /\ Frame(fn, open, lo, n) /\ Held(fn, open, lo, n, There) /\ State(fn, open, There, live, lo)
  BY NowTypes DEF Now
<1>2. /\ open[1] = Main /\ (lo > 1 => open[lo] \in CallEntries)
      /\ DOMAIN open = 1 .. n /\ open = [i \in 1 .. n |-> open[i]]
  BY <1>1 DEF Stack
<1>3. lo # n
  BY <1>1, <1>2, KindsDiffer DEF Inner
<1>4. Len(Front(open)) = hi /\ DOMAIN Front(open) = 1 .. hi
      /\ Front(open) = [i \in 1 .. hi |-> Front(open)[i]]
      /\ \A i \in 1 .. hi : Front(open)[i] = open[i]
  <2>1. Len(open) = n
    OBVIOUS
  <2>2. n \in Nat /\ n > 0 /\ DOMAIN open = 1 .. n /\ open = [i \in 1 .. n |-> open[i]]
    BY <1>1, <1>2
  <2> HIDE DEF n
  <2> QED BY <2>1, <2>2, FrontOf
<1>5. n \in lo + 1 .. n /\ n - lo = Len(fn.locals) - 1 /\ Inner = open[n]
  BY <1>1, <1>3 DEF Inner
<1>6. Below(fn, open[n], n - lo) /\ HeldBy(fn, open, n, n - lo, n, There)
  BY <1>1, <1>5 DEF Frame, Held
<1>7. Saved(open[n], There)
  BY <1>1 DEF State
<1>8. open[n] \in Blocks
  BY <1>6 DEF Below
<1>9. hi + 1 = n /\ hi \in Nat /\ lo <= hi /\ hi <= n
  BY <1>1, <1>3
<1>10. HeldBy(fn, open, hi + 1, Len(fn.locals) - 1, hi + 1, There)
  BY <1>5, <1>6, <1>9
<1>11. Len(fn.pending) = Len(fn.locals)
  BY <1>1 DEF Scoped
<1>12. /\ lo < n /\ Len(fn.locals) = hi - lo + 2 /\ Len(fn.locals) - 1 = hi - lo + 1 /\ Len(fn.locals) > 1
       /\ Len(fn.locals) - 1 \in Nat
       /\ \A i \in lo + 1 .. hi : i \in lo + 1 .. n
  BY <1>1, <1>3
<1>13. Below(fn, Inner, Len(fn.locals) - 1) /\ Saved(Inner, There) /\ Inner \in Blocks /\ Inner = open[hi + 1]
  BY <1>5, <1>6, <1>7, <1>8, <1>9
<1> QED BY <1>1, <1>4, <1>9, <1>10, <1>11, <1>12, <1>13

LEMMA LogsFront ==
    ASSUME NEW st, NEW V, Logs(st, V), NEW hi \in Nat, hi <= Len(st), Len(st) \in Nat,
           NEW st2, Len(st2) = hi, \A i \in 1 .. hi : st2[i] = st[i]
    PROVE  Logs(st2, V)
BY DEF Logs

\* What the value of a block needs to be let.
LEMMA BlockLetable ==
    ASSUME NEW D, NEW l, Good(D, l), NEW o, Block(D, l, o), NEW z, z.deferred = o.l.deferred,
           Avail(D, o.l) \subseteq Avail(D, z)
    PROVE  Letable(D, z, o)
<1>1. /\ o.v \in Avail(D, o.l) \/ (o.v = NoValue /\ o.ty = "Unit")
      /\ o.v \in Nat \cup {NoValue} /\ o.ty \in Types
      /\ \A k \in 1 .. Len(o.l.deferred) : o.l.deferred[k].flat = o.v => o.ty = "Flat"
      /\ o.v = NoValue => o.ty = "Unit"
  BY BlockGoes
<1>2. ASSUME o.ty # "Unit" PROVE Binding(o) \in Bnds
  <2>1. o.v \in Nat /\ o.ty \in Flows
    BY <1>1, <1>2 DEF Types
  <2> QED BY <2>1 DEF Binding, Bnds
<1> QED BY <1>1, <1>2 DEF Letable

LEMMA EndTransactionStep ==
    ASSUME ShapesExcluded, IInv, EndTransaction
    PROVE  IInv'
<1>1. PICK e \in Tails(fn) :
        LET o == BlockValue(fn, e)
        IN  /\ Closes("tx", e) /\ Escapes(o)
            /\ Write(LetValue(LeaveScope(o.l, o), o), Front(open))
  BY DEF EndTransaction
<1> DEFINE o == BlockValue(fn, e)
           z == LeaveScope(o.l, o)
           m == LetValue(z, o)
           hi == Len(open) - 1
           st == Front(open)
<1>2. Running /\ Inner.kind = "tx" /\ Escapes(o) /\ Write(m, st) /\ live' = live
  BY <1>1 DEF EndTransaction, Closes
<1>3. PICK lo \in Nat : Now(lo)
  BY <1>2, NowReached
<1>4. /\ lo <= hi /\ hi <= Len(open) /\ hi \in Nat /\ Len(open) = hi + 1
      /\ Inner = open[hi + 1] /\ Inner \in Blocks
      /\ Len(fn.locals) - 1 = hi - lo + 1 /\ Len(fn.locals) > 1 /\ Len(fn.locals) - 1 \in Nat
      /\ Len(fn.pending) = Len(fn.locals)
      /\ Below(fn, Inner, Len(fn.locals) - 1)
      /\ Len(st) = hi /\ DOMAIN st = 1 .. hi /\ st = [i \in 1 .. hi |-> st[i]]
      /\ \A i \in 1 .. hi : st[i] = open[i]
  BY <1>2, <1>3, InnerBlock
<1>5. /\ Good(From, fn) /\ fn \in Lowerers /\ Scoped(fn) /\ Stack(open, lo) /\ Frame(fn, open, lo, Len(open))
      /\ live \in BOOLEAN /\ Ready(fn, There, live) /\ IsMemory(memory) /\ memory.fault = NoFault
      /\ Logs(open, There) /\ Len(fn.locals) \in Nat
  BY <1>3, NowTypes DEF Now
<1>6. Block(From, fn, o)
  BY <1>5, BlockIs
<1> HIDE DEF o
<1>7. Goes(From, fn, o.l)
  BY <1>5, <1>6, BlockGoes
<1>8. /\ Moves(From, fn, z) /\ Popped(fn, z) /\ z.deferred = o.l.deferred
      /\ Avail(From, o.l) \subseteq Avail(From, z) /\ z \in Lowerers
      /\ z.diverged = fn.diverged /\ z.returns = fn.returns
  BY <1>4, <1>5, <1>6, LeaveScopeMoves
<1> HIDE DEF z
<1>9. Letable(From, z, o)
  BY <1>5, <1>6, <1>8, BlockLetable
<1>10. Len(z.locals) = Len(fn.locals) - 1 /\ Len(z.pending) = Len(z.locals) /\ Len(z.locals) > 0
  BY <1>4, <1>8 DEF Popped
<1>11. Names \ DeclaredTo(z, Len(z.locals)) # {}
  <2>1. DeclaredTo(z, Len(fn.locals) - 1) = DeclaredTo(fn, Len(fn.locals) - 1)
    BY <1>8 DEF Popped, DeclaredTo
  <2>2. Names \ DeclaredTo(fn, Len(fn.locals) - 1) # {}
    BY <1>2, <1>4 DEF Below
  <2> QED BY <1>10, <2>1, <2>2
<1>12. Moves(From, fn, m) /\ Lets(z, m) /\ m \in Lowerers
  BY <1>8, <1>9, <1>10, <1>11, LetMoves
<1> HIDE DEF m
<1>13. Scoped(m)
  <2>1. Scoped(z)
    BY <1>4, <1>5, <1>8, PoppedScoped
  <2> QED BY <1>12, <2>1 DEF Lets
<1>14. Len(m.locals) = hi - lo + 1 /\ m.deferred = o.l.deferred /\ m.diverged = fn.diverged /\ m.returns = fn.returns
  BY <1>4, <1>8, <1>10, <1>12 DEF Lets
<1>15. Keeps(fn, m, open, lo, hi, Len(open))
  <2> SUFFICES ASSUME NEW i \in lo + 1 .. hi
               PROVE  KeepsDeferred(fn, m, open, i, hi, Len(open)) /\ KeepsScopes(fn, m, open[i], i - lo)
    BY DEF Keeps
  <2>1. Prefix(fn.deferred, m.deferred)
    BY <1>7, <1>14 DEF Goes
  <2>2. ~(InLoop(open) /\ Len(m.deferred) > Len(fn.deferred))
    BY <1>2, <1>14 DEF Escapes, Excludes, DeferredInLoop, ShapesExcluded
  <2>3. open[Len(open)].kind # "if"
    BY <1>2, <1>4
  <2>4. KeepsDeferred(fn, m, open, i, hi, Len(open))
    <3>1. i \in lo + 1 .. Len(open) - 1
      OBVIOUS
    <3>2. KeepsDeferred(fn, m, open, i, Len(open) - 1, Len(open))
      BY <1>5, <1>12, <1>14, <2>1, <2>2, <2>3, <3>1, PopKeepsDeferred
    <3> QED BY <3>2
  <2>5. \A k \in 1 .. i - lo : m.locals[k] = fn.locals[k] /\ m.pending[k] = fn.pending[k]
    <3> TAKE k \in 1 .. i - lo
    <3>1. k \in 1 .. Len(fn.locals) - 1 /\ k \in 1 .. Len(z.locals) - 1
      BY <1>4, <1>10
    <3> QED BY <1>8, <1>12, <3>1 DEF Popped, Lets
  <2>6. KeepsScopes(fn, m, open[i], i - lo)
    BY <2>5, SameBelowKeeps
  <2> QED BY <2>4, <2>6
<1>16. (live => live /\ ~m.diverged) /\ (m.diverged => m.returns \in Types)
  BY <1>5, <1>14 DEF Ready
<1>17. /\ State(Ended(m), st, After(m, There, live), live', lo)
       /\ live => Sound(There, m.insts) /\ After(m, There, live) = There \cup Defs(m.insts)
  BY <1>2, <1>3, <1>4, <1>5, <1>12, <1>13, <1>14, <1>15, <1>16, StateFrom
<1>18. Logs(st, There)
  <2>1. Logs(open, There)
    BY <1>5
  <2>2. hi \in Nat /\ hi <= Len(open) /\ Len(st) = hi /\ \A i \in 1 .. hi : st[i] = open[i]
    BY <1>4
  <2>3. Len(open) \in Nat
    BY <1>4
  <2> HIDE DEF hi, st
  <2>4. \A i \in 1 .. hi : i \in 1 .. Len(open)
    BY <2>2, <2>3
  <2> QED BY <2>1, <2>2, <2>4 DEF Logs
<1> HIDE DEF st
<1> QED BY <1>2, <1>5, <1>12, <1>17, <1>18, WriteConsistent

-----------------------------------------------------------------------------
(* Arms that end.                                                           *)

ChoosingStep(p, k, f) ==
    IF k = 0 THEN << >> ELSE IF k \in p.places THEN Append(f[k - 1], p.s[k]) ELSE f[k - 1]
RChoosing == INSTANCE Recursion WITH Dom <- Nat, Depth <- Count, Step <- ChoosingStep

LEMMA ChoosingDef ==
    ASSUME NEW s, NEW places
    PROVE  /\ Choosing(s, places)[0] = << >>
           /\ \A k \in Nat :
                 /\ k + 1 \in places => Choosing(s, places)[k + 1] = Append(Choosing(s, places)[k], s[k + 1])
                 /\ k + 1 \notin places => Choosing(s, places)[k + 1] = Choosing(s, places)[k]
<1> DEFINE p == [s |-> s, places |-> places]
           c == Choosing(s, places)
<1>1. RChoosing!Local
  BY DEF RChoosing!Local, ChoosingStep, Count
<1>2. \E f : f = [k \in Nat |-> ChoosingStep(p, k, f)]
  BY <1>1, RChoosing!Defined
<1>3. c = [k \in Nat |-> ChoosingStep(p, k, c)]
  BY <1>2 DEF Choosing, ChoosingStep
<1> HIDE DEF c
<1>4. \A k \in Nat : c[k] = ChoosingStep(p, k, c)
  BY <1>3
<1>5. c[0] = << >>
  BY <1>4 DEF ChoosingStep
<1>6. ASSUME NEW k \in Nat
      PROVE  /\ k + 1 \in places => c[k + 1] = Append(c[k], s[k + 1])
             /\ k + 1 \notin places => c[k + 1] = c[k]
  <2>1. k + 1 \in Nat /\ k + 1 # 0 /\ k + 1 - 1 = k
    OBVIOUS
  <2>2. p.s = s /\ p.places = places
    OBVIOUS
  <2> HIDE DEF p
  <2> DEFINE j == k + 1
  <2>3. j \in Nat /\ j # 0 /\ j - 1 = k
    BY <2>1
  <2> HIDE DEF j
  <2>4. c[j] = IF j \in places THEN Append(c[k], s[j]) ELSE c[k]
    BY <1>4, <2>2, <2>3 DEF ChoosingStep
  <2>5. /\ j \in places => c[j] = Append(c[k], s[j])
        /\ j \notin places => c[j] = c[k]
    BY <2>4
  <2> QED BY <2>5 DEF j
<1> QED BY <1>5, <1>6 DEF c

LEMMA ChosenIs ==
    ASSUME NEW S, NEW s \in Seq(S), NEW places
    PROVE  /\ Chosen(s, places) \in Seq(S)
           /\ (\A k \in 1 .. Len(s) : k \notin places) => Chosen(s, places) = << >>
<1> DEFINE c == Choosing(s, places)
           P == {k \in Nat : k <= Len(s) => /\ c[k] \in Seq(S)
                                            /\ (\A j \in 1 .. Len(s) : j \notin places) => c[k] = << >>}
<1>0. /\ c[0] = << >>
      /\ \A k \in Nat : /\ k + 1 \in places => c[k + 1] = Append(c[k], s[k + 1])
                        /\ k + 1 \notin places => c[k + 1] = c[k]
  <2> HIDE DEF P
  <2> QED BY ChoosingDef
<1> HIDE DEF c
<1>1. 0 \in P
  <2>1. << >> \in Seq(S) /\ 0 \in Nat
    OBVIOUS
  <2> QED BY <1>0, <2>1
<1>2. ASSUME NEW k \in Nat, k \in P PROVE k + 1 \in P
  <2> SUFFICES ASSUME k + 1 <= Len(s)
               PROVE  /\ c[k + 1] \in Seq(S)
                      /\ (\A j \in 1 .. Len(s) : j \notin places) => c[k + 1] = << >>
    OBVIOUS
  <2>1. c[k] \in Seq(S) /\ ((\A j \in 1 .. Len(s) : j \notin places) => c[k] = << >>)
    BY <1>2
  <2>2. k + 1 \in 1 .. Len(s) /\ s[k + 1] \in S
    OBVIOUS
  <2>3. CASE k + 1 \in places
    <3>1. c[k + 1] = Append(c[k], s[k + 1])
      BY <1>0, <2>3
    <3>2. Append(c[k], s[k + 1]) \in Seq(S)
      BY <2>1, <2>2
    <3> QED BY <2>2, <2>3, <3>1, <3>2
  <2>4. CASE k + 1 \notin places
    <3>1. c[k + 1] = c[k]
      BY <1>0, <2>4
    <3> QED BY <2>1, <3>1
  <2> QED BY <2>3, <2>4
<1>3. \A k \in Nat : k \in P
  <2> HIDE DEF P
  <2> QED BY <1>1, <1>2, CountInduction
<1>4. Len(s) \in P
  BY <1>3
<1> QED BY <1>4 DEF Chosen, c

LEMMA SubSeqIs ==
    ASSUME NEW S, NEW s \in Seq(S), NEW a \in Nat, a <= Len(s)
    PROVE  /\ SubSeq(s, 1, a) \in Seq(S) /\ Len(SubSeq(s, 1, a)) = a
           /\ \A k \in 1 .. a : SubSeq(s, 1, a)[k] = s[k]
           /\ SubSeq(s, a + 1, Len(s)) \in Seq(S)
           /\ Len(SubSeq(s, a + 1, Len(s))) = Len(s) - a /\ Len(s) - a \in Nat
           /\ \A k \in 1 .. Len(s) - a : SubSeq(s, a + 1, Len(s))[k] = s[a + k] /\ a + k \in 1 .. Len(s)
<1> DEFINE n == Len(s)
           c == n - a
           t == SubSeq(s, 1, a)
           u == SubSeq(s, a + 1, n)
<1>1. n \in Nat /\ c \in Nat /\ \A k \in 1 .. n : s[k] \in S
  OBVIOUS
<1>2. t = [i \in 1 .. a |-> s[i]]
  BY <1>1
<1>3. t \in [1 .. a -> S] /\ \A k \in 1 .. a : t[k] = s[k]
  <2>1. \A k \in 1 .. a : s[k] \in S
    BY <1>1
  <2> HIDE DEF t
  <2> QED BY <1>2, <2>1
<1>4. u = [i \in 1 .. c |-> s[a + i]]
  <2>1. u = [i \in 1 .. (1 + n - (a + 1)) |-> s[(a + 1) + i - 1]]
    BY <1>1
  <2>2. 1 + n - (a + 1) = c
    BY <1>1
  <2>3. \A i \in 1 .. c : (a + 1) + i - 1 = a + i
    BY <1>1
  <2> HIDE DEF u, c
  <2> QED BY <2>1, <2>2, <2>3
<1> HIDE DEF t, u
<1>5. t \in Seq(S) /\ Len(t) = a
  BY <1>3
<1>6. \A k \in 1 .. c : a + k \in 1 .. n
  BY <1>1
<1>7. u \in [1 .. c -> S] /\ \A k \in 1 .. c : u[k] = s[a + k]
  BY <1>1, <1>4, <1>6
<1>8. u \in Seq(S) /\ Len(u) = c
  <2> HIDE DEF c
  <2> QED BY <1>1, <1>7
<1> QED BY <1>1, <1>3, <1>5, <1>6, <1>7, <1>8 DEF t, u

\* What was deferred since is dropped.
Cuts(y, z, mark) ==
    /\ mark \in Nat /\ mark <= Len(y.deferred)
    /\ z = [y EXCEPT !.deferred = SubSeq(y.deferred, 1, mark)]

LEMMA CutMoves ==
    ASSUME NEW D, NEW l, NEW y, Moves(D, l, y), NEW mark, NEW z, Cuts(y, z, mark)
    PROVE  /\ Moves(D, l, z) /\ z \in Lowerers /\ z.insts = y.insts
           /\ z.locals = y.locals /\ z.pending = y.pending /\ z.diverged = y.diverged /\ z.returns = y.returns
           /\ Len(z.deferred) = mark /\ \A k \in 1 .. mark : z.deferred[k] = y.deferred[k]
<1> DEFINE before == SubSeq(y.deferred, 1, mark)
<1>0. mark \in Nat /\ mark <= Len(y.deferred) /\ z = [y EXCEPT !.deferred = before]
  BY DEF Cuts
<1>1. Good(D, y) /\ y \in Lowerers /\ y.deferred \in Seq(Deferrals) /\ Len(y.deferred) \in Nat
  BY GoodTypes DEF Moves
<1>2. before \in Seq(Deferrals) /\ Len(before) = mark /\ \A k \in 1 .. mark : before[k] = y.deferred[k]
  BY <1>0, <1>1, SubSeqIs
<1> HIDE DEF before
<1>3. /\ z \in Lowerers /\ z.insts = y.insts /\ z.locals = y.locals /\ z.pending = y.pending
      /\ z.diverged = y.diverged /\ z.returns = y.returns /\ z.deferred = before
      /\ z.temps = y.temps /\ z.heads = y.heads /\ z.next = y.next
  BY <1>0, <1>1, <1>2 DEF Lowerers
<1>4. ASSUME NEW k \in 1 .. Len(z.locals), NEW n \in DOMAIN z.locals[k]
      PROVE  /\ z.locals[k][n].v \in Avail(D, y)
             /\ \A j \in 1 .. Len(z.deferred) :
                   z.deferred[j].flat = z.locals[k][n].v => z.locals[k][n].ty = "Flat"
  <2>1. \A j \in 1 .. mark : j \in 1 .. Len(y.deferred)
    BY <1>0, <1>1
  <2>2. k \in 1 .. Len(y.locals) /\ n \in DOMAIN y.locals[k] /\ z.locals[k][n] = y.locals[k][n]
    BY <1>3
  <2>3. y.locals[k][n].v \in Avail(D, y)
    BY <1>1, <2>2 DEF Good, LocalsIn
  <2>4. ASSUME NEW j \in 1 .. mark, y.deferred[j].flat = y.locals[k][n].v
        PROVE  y.locals[k][n].ty = "Flat"
    <3>1. Borrows(y, y.deferred[j].flat)
      BY <1>1, <2>1 DEF Good, BorrowersIn
    <3> QED BY <2>2, <2>4, <3>1 DEF Borrows
  <2> QED BY <1>2, <1>3, <2>2, <2>3, <2>4
<1>5. Rescopes(D, y, z)
  BY <1>0, <1>2, <1>3, <1>4 DEF Rescopes
<1>6. Moves(D, l, z)
  BY <1>5, RescopeMoves
<1> QED BY <1>2, <1>3, <1>6

LEMMA ArmMoves ==
    ASSUME ShapesExcluded, NEW lo, Now(lo), Inner.kind = "if", NEW o, Block(From, fn, o), Escapes(o)
    PROVE  LET l == LeaveArm(o)
           IN  /\ Moves(From, fn, l) /\ Popped(fn, l) /\ l \in Lowerers
               /\ l.diverged = fn.diverged /\ l.returns = fn.returns
               /\ Len(l.deferred) = Inner.mark /\ Inner.mark \in Nat /\ Inner.mark <= Len(fn.deferred)
               /\ \A k \in 1 .. Inner.mark : l.deferred[k] = fn.deferred[k]
               /\ Avail(From, o.l) \subseteq Avail(From, l) /\ o.l.diverged = fn.diverged
<1> DEFINE d == o.l.deferred
           mark == Inner.mark
           before == SubSeq(d, 1, mark)
           mine == SubSeq(d, mark + 1, Len(d))
           lent == {i \in DOMAIN mine : mine[i].flat = o.v}
           stays == Chosen(mine, lent)
           goes == Chosen(mine, DOMAIN mine \ lent)
           l == LeaveArm(o)
<1>1. /\ Good(From, fn) /\ fn \in Lowerers /\ Len(fn.locals) \in Nat
      /\ Inner \in Blocks /\ Below(fn, Inner, Len(fn.locals) - 1)
      /\ Len(fn.locals) > 0 /\ Len(fn.pending) = Len(fn.locals) /\ Len(fn.deferred) \in Nat
  BY NowTypes, InnerBlock, GoodTypes
<1>2. mark \in Nat /\ mark <= Len(fn.deferred)
  BY <1>1, BlockTypes DEF Below
<1>3. /\ Goes(From, fn, o.l) /\ Good(From, o.l) /\ o.l \in Lowerers
      /\ \A k \in 1 .. Len(d) : d[k].flat = o.v => o.ty = "Flat"
  BY <1>1, BlockGoes
<1>4. /\ d \in Seq(Deferrals) /\ Len(d) \in Nat /\ Len(fn.deferred) <= Len(d)
      /\ \A k \in 1 .. Len(fn.deferred) : d[k] = fn.deferred[k]
      /\ o.l.locals = fn.locals /\ o.l.pending = fn.pending /\ o.l.diverged = fn.diverged
      /\ o.l.returns = fn.returns /\ o.l.diverged \in BOOLEAN
  BY <1>3 DEF Goes, SameScopes, Prefix, Lowerers
<1>5. /\ before \in Seq(Deferrals)
      /\ mine \in Seq(Deferrals) /\ Len(mine) = Len(d) - mark
      /\ \A k \in 1 .. Len(mine) : mine[k] = d[mark + k] /\ mark + k \in 1 .. Len(d)
  <2>1. mark <= Len(d)
    BY <1>1, <1>2, <1>4
  <2> HIDE DEF d, mark
  <2> QED BY <1>2, <1>4, <2>1, SubSeqIs
<1>6. stays = << >>
  <2>1. OwnsCells(o.l, o.v) \/ o.ty # "Flat"
    BY DEF Escapes, Excludes, TupleEscapes, ShapesExcluded
  <2>2. ASSUME NEW k \in 1 .. Len(mine) PROVE k \notin lent
    <3>1. mine[k] = d[mark + k] /\ mark + k \in 1 .. Len(d)
      BY <1>5
    <3>2. Borrows(o.l, d[mark + k].flat)
      BY <1>3, <3>1 DEF Good, BorrowersIn
    <3>3. d[mark + k].flat # o.v
      BY <1>3, <2>1, <3>1, <3>2 DEF Borrows, OwnsCells
    <3> QED BY <3>1, <3>3
  <2> HIDE DEF lent
  <2> QED BY <1>5, <2>2, ChosenIs
<1>7. goes \in Seq(Deferrals) /\ \A k \in 1 .. Len(goes) : goes[k].src \in Avail(From, o.l)
  <2> DEFINE S == {d[k] : k \in 1 .. Len(d)}
             rest == DOMAIN mine \ lent
  <2>1. \A x \in S : x \in Deferrals /\ x.src \in Avail(From, o.l)
    BY <1>3, <1>4 DEF Good, DeferredIn
  <2>2. \A k \in 1 .. Len(mine) : mine[k] \in S
    BY <1>5
  <2> HIDE DEF S
  <2>3. mine \in Seq(S)
    <3> HIDE DEF mine
    <3>1. mine \in [1 .. Len(mine) -> S]
      BY <1>5, <2>2
    <3> QED BY <1>5, <3>1
  <2> HIDE DEF rest
  <2>4. Chosen(mine, rest) \in Seq(S)
    BY <2>3, ChosenIs
  <2>5. goes \in Seq(S)
    BY <2>4 DEF rest
  <2> HIDE DEF goes
  <2>6. goes \in Seq(Deferrals)
    BY <1>5, ChosenIs DEF goes
  <2> QED BY <2>1, <2>5, <2>6
<1>8. CASE o.l.diverged
  <2>1. l = [PopScope(o.l) EXCEPT !.deferred = before]
    BY <1>8 DEF LeaveArm
  <2> DEFINE y == PopScope(o.l)
  <2>2. Moves(From, fn, y) /\ Popped(o.l, y) /\ SameElse(o.l, y) /\ Avail(From, y) = Avail(From, o.l)
    <3>1. Moves(From, fn, o.l)
      BY <1>3 DEF Goes
    <3> HIDE DEF mine, stays, goes, lent, l, before
    <3> QED BY <1>1, <1>4, <3>1, PopMoves
  <2> HIDE DEF y
  <2>3. l = [y EXCEPT !.deferred = before] /\ before = SubSeq(y.deferred, 1, mark) /\ y.deferred = d
    BY <2>1, <2>2 DEF y, SameElse
  <2>4. mark <= Len(y.deferred)
    BY <1>1, <1>2, <1>4, <2>3
  <2> HIDE DEF before, l, d, mark
  <2>5. /\ Moves(From, fn, l) /\ l \in Lowerers /\ l.insts = y.insts
        /\ l.locals = y.locals /\ l.pending = y.pending /\ l.diverged = y.diverged /\ l.returns = y.returns
        /\ Len(l.deferred) = mark /\ \A k \in 1 .. mark : l.deferred[k] = y.deferred[k]
    <3>1. Cuts(y, l, mark)
      BY <1>2, <2>3, <2>4 DEF Cuts
    <3> QED BY <2>2, <3>1, CutMoves
  <2>6. Popped(fn, l)
    BY <1>4, <2>2, <2>5 DEF Popped
  <2>7. l.diverged = fn.diverged /\ l.returns = fn.returns
    BY <1>4, <2>2, <2>5 DEF SameElse
  <2>8. \A k \in 1 .. mark : l.deferred[k] = fn.deferred[k]
    BY <1>1, <1>2, <1>4, <2>3, <2>5
  <2>9. Avail(From, o.l) \subseteq Avail(From, l)
    BY <2>2, <2>5 DEF Avail
  <2> QED BY <1>2, <1>4, <2>5, <2>6, <2>7, <2>8, <2>9 DEF l, mark
<1>9. CASE ~o.l.diverged
  <2>1. l = [EmitAll(LeaveScope(o.l, o), "Release", Sources(goes)) EXCEPT !.deferred = before \o stays]
    BY <1>9 DEF LeaveArm
  <2> DEFINE z == LeaveScope(o.l, o)
             y == EmitAll(z, "Release", Sources(goes))
  <2>2. /\ Moves(From, fn, z) /\ Popped(fn, z) /\ z.deferred = o.l.deferred
        /\ Avail(From, o.l) \subseteq Avail(From, z)
        /\ z.diverged = fn.diverged /\ z.returns = fn.returns
    BY <1>1, LeaveScopeMoves
  <2> HIDE DEF z
  <2>3. Good(From, z) /\ z \in Lowerers
    BY <2>2, GoodTypes DEF Moves
  <2>4. \A k \in 1 .. Len(goes) : goes[k].src \in Avail(From, z)
    BY <1>7, <2>2
  <2> HIDE DEF goes
  <2>5. Emits(From, z, y)
    BY <1>7, <2>3, <2>4, DrainEmits
  <2>6. before \o stays = before
    <3> HIDE DEF before, stays
    <3> QED BY <1>5, <1>6
  <2> HIDE DEF y, stays
  <2>7. /\ Moves(From, fn, y) /\ Avail(From, z) \subseteq Avail(From, y)
        /\ y.locals = z.locals /\ y.pending = z.pending /\ y.diverged = z.diverged /\ y.returns = z.returns
        /\ y.deferred = d
    <3>1. Moves(From, z, y) /\ SameScopes(z, y) /\ y.deferred = z.deferred
      BY <2>5 DEF Emits, Goes
    <3>2. Moves(From, fn, y)
      BY <1>1, <2>2, <3>1, MovesOn
    <3> QED BY <2>2, <2>5, <3>1, <3>2, EmitsGood DEF SameScopes
  <2>8. l = [y EXCEPT !.deferred = before] /\ before = SubSeq(y.deferred, 1, mark)
    BY <2>1, <2>6, <2>7 DEF y, z
  <2>9. mark <= Len(y.deferred)
    BY <1>1, <1>2, <1>4, <2>7
  <2> HIDE DEF before, l, d, mark
  <2>10. /\ Moves(From, fn, l) /\ l \in Lowerers /\ l.insts = y.insts
        /\ l.locals = y.locals /\ l.pending = y.pending /\ l.diverged = y.diverged /\ l.returns = y.returns
        /\ Len(l.deferred) = mark /\ \A k \in 1 .. mark : l.deferred[k] = y.deferred[k]
    <3>1. Cuts(y, l, mark)
      BY <1>2, <2>8, <2>9 DEF Cuts
    <3> QED BY <2>7, <3>1, CutMoves
  <2>11. Popped(fn, l)
    BY <2>2, <2>7, <2>10 DEF Popped
  <2>12. l.diverged = fn.diverged /\ l.returns = fn.returns
    BY <2>2, <2>7, <2>10
  <2>13. \A k \in 1 .. mark : l.deferred[k] = fn.deferred[k]
    BY <1>1, <1>2, <1>4, <2>7, <2>10
  <2>14. Avail(From, o.l) \subseteq Avail(From, l)
    BY <2>2, <2>7, <2>10 DEF Avail
  <2> QED BY <1>2, <1>4, <2>10, <2>11, <2>12, <2>13, <2>14 DEF l, mark
<1> QED BY <1>4, <1>8, <1>9

\* The carried variables as they were can be named again.
LEMMA CarriedRebindable ==
    ASSUME NEW lo, Now(lo), Inner.kind \in {"if", "loop"}, NEW m, Moves(From, fn, m),
           \A k \in 1 .. Len(m.deferred) : k <= Len(fn.deferred) /\ m.deferred[k] = fn.deferred[k]
    PROVE  /\ Rebindable(From, m, Inner.carried)
           /\ Inner.live => \A n \in DOMAIN Inner.carried : Inner.carried[n].v \in There
           /\ DOMAIN Inner.carried \in SUBSET Names
<1> DEFINE c == Inner.carried
           N == Len(fn.locals)
<1>1. /\ Inner \in Blocks /\ Below(fn, Inner, N - 1) /\ Saved(Inner, There) /\ lo < Len(open)
      /\ Inner = open[Len(open)] /\ Len(open) \in Nat /\ lo \in Nat
  BY InnerBlock, NowTypes DEF Inner
<1>2. /\ Good(From, fn) /\ fn \in Lowerers /\ live \in BOOLEAN /\ Chain(open, live)
      /\ Len(fn.deferred) \in Nat /\ Len(m.deferred) \in Nat /\ Avail(From, fn) = From
  BY NowTypes, GoodTypes DEF Moves
<1>3. Carries(Inner) /\ Timed(Inner)
  BY DEF Carries, Timed
<1>4. DOMAIN c \in SUBSET Names /\ \A n \in DOMAIN c : c[n] \in Bnds /\ c[n].v \in Nat
  BY <1>1, <1>3, BlockTypes
<1>5. ASSUME NEW n \in DOMAIN c
      PROVE  /\ c[n].v < fn.next /\ c[n].ty = "Text"
             /\ \A k \in 1 .. Len(fn.deferred) : fn.deferred[k].flat # c[n].v
  BY <1>1, <1>3 DEF Below
<1>6. Inner.live => \A n \in DOMAIN c : c[n].v \in There
  BY <1>1, <1>3 DEF Saved, CarriedIn
<1>7. ASSUME NEW n \in DOMAIN c PROVE c[n].v \in Avail(From, m)
  <2>1. c[n].v \in From
    <3>1. CASE live
      <4>1. Inner.live
        BY <1>1, <1>2, <1>3, <3>1 DEF Chain, LiveIn
      <4> QED BY <1>6, <3>1, <4>1 DEF From, Basis
    <3>2. CASE ~live
      BY <1>2, <1>4, <1>5, <3>2 DEF From, Basis, Values, Lowerers
    <3> QED BY <3>1, <3>2
  <2> QED BY <2>1 DEF Moves, AvailFrom, Avail
<1>8. ASSUME NEW n \in DOMAIN c, NEW j \in 1 .. Len(m.deferred) PROVE m.deferred[j].flat # c[n].v
  <2>1. j \in 1 .. Len(fn.deferred) /\ m.deferred[j] = fn.deferred[j]
    BY <1>2
  <2> QED BY <1>5, <2>1
<1> QED BY <1>4, <1>6, <1>7, <1>8 DEF Rebindable

\* What there is after a move, where the path it leaves is given.
LEMMA MovesNow ==
    ASSUME NEW lo, Now(lo), NEW x, Moves(From, fn, x),
           NEW lv2 \in BOOLEAN, lv2 => live /\ ~x.diverged, x.diverged => x.returns \in Types
    PROVE  LET W == After(x, There, live)
           IN  /\ Ready(x, W, lv2) /\ Numbered(W, x.next) /\ fn.next <= x.next
               /\ There \subseteq W /\ \A d \in W : d \in There \/ d >= fn.next
               /\ live => Sound(There, x.insts) /\ W = There \cup Defs(x.insts)
               /\ x \in Lowerers
<1> DEFINE W == After(x, There, live)
<1>1. /\ Ready(fn, There, live) /\ Numbered(There, fn.next) /\ fn.insts = << >> /\ live \in BOOLEAN
  BY NowTypes
<1> QED BY <1>1, MovesReady DEF From

\* A lowerer that follows fn where the innermost structure ends.
LEMMA StateFront ==
    ASSUME NEW lo, Now(lo), Inner.kind \in {"tx", "if", "loop"}, NEW x \in Lowerers, NEW W, NEW lv2,
           Ready(x, W, lv2), Numbered(W, x.next), fn.next <= x.next,
           There \subseteq W, \A d \in W : d \in There \/ d >= fn.next,
           BorrowersFrom(fn, x), Scoped(x), Len(x.locals) = Len(fn.locals) - 1,
           Keeps(fn, x, open, lo, Len(open) - 1, Len(open)),
           lv2 => \A i \in 1 .. Len(open) - 1 : LiveIn(open[i])
    PROVE  State(Ended(x), Front(open), W, lv2, lo)
<1> DEFINE f == Ended(x)
           hi == Len(open) - 1
           st == Front(open)
<1>1. /\ lo \in Nat /\ lo <= hi /\ hi <= Len(open) /\ hi \in Nat
      /\ Len(fn.locals) - 1 = hi - lo + 1
      /\ Len(st) = hi /\ DOMAIN st = 1 .. hi /\ st = [i \in 1 .. hi |-> st[i]]
      /\ \A i \in 1 .. hi : st[i] = open[i]
  BY InnerBlock
<1>2. State(fn, open, There, live, lo)
  BY DEF Now
<1>3. Ready(f, W, lv2) /\ Numbered(W, f.next) /\ fn.next <= f.next /\ f.locals = x.locals
  BY EndedReady, EndedTypes
<1>4. BorrowersFrom(fn, f) /\ Scoped(f) /\ Keeps(fn, f, open, lo, hi, Len(open))
  BY EndedKeeps
<1>5. \A i \in 1 .. hi : Alike(open[i], st[i])
  BY <1>1 DEF Alike
<1>6. Len(f.locals) = hi - lo + 1
  BY <1>1, <1>3
<1>7. lv2 => \A i \in 1 .. hi : LiveIn(open[i])
  OBVIOUS
<1> HIDE DEF f, hi, st
<1>8. State(f, st, W, lv2, lo)
  BY <1>1, <1>2, <1>3, <1>4, <1>5, <1>6, <1>7, StateTo
<1> QED BY <1>8 DEF f, st

\* The end of an arm, in the function as the other arm, or what follows, finds it.
ArmEnd(lo, o, l, x, lv0) ==
    /\ Now(lo) /\ Inner.kind = "if" /\ Block(From, fn, o) /\ Escapes(o)
    /\ l = LeaveArm(o) /\ x = [RebindAll(l, Inner.carried) EXCEPT !.diverged = FALSE]
    /\ lv0 \in BOOLEAN /\ (lv0 => Inner.live)
ArmAfter(lo, l, x, lv0) ==
    LET W == After(l, There, live)
        N == Len(fn.locals)
    IN  /\ State(Ended(x), Front(open), W, lv0, lo) /\ There \subseteq W
        /\ live => Sound(There, l.insts) /\ W = There \cup Defs(l.insts)
        /\ x \in Lowerers /\ x.insts = l.insts /\ x.diverged = FALSE
        /\ Moves(From, fn, x) /\ Scoped(x) /\ Len(x.locals) = N - 1 /\ Len(x.pending) = N - 1
        /\ \A k \in 1 .. N - 1 :
              /\ x.pending[k] = fn.pending[k] /\ DOMAIN x.locals[k] = DOMAIN fn.locals[k]
              /\ \A n \in DOMAIN fn.locals[k] :
                    n \in DOMAIN Inner.carried \/ x.locals[k][n] = fn.locals[k][n]
        /\ \A p \in 0 .. N - 1 : DeclaredTo(x, p) = DeclaredTo(fn, p) /\ BoundTo(x, p) = BoundTo(fn, p)
        /\ Len(x.deferred) = Inner.mark /\ \A k \in 1 .. Inner.mark : x.deferred[k] = fn.deferred[k]

\* After an arm: the carried variables are what they were, and nothing that was
\* there is gone, whether the arm was on the path or not.
LEMMA ArmLeft ==
    ASSUME ShapesExcluded, NEW lo, NEW o, NEW l, NEW x, NEW lv0, ArmEnd(lo, o, l, x, lv0)
    PROVE  ArmAfter(lo, l, x, lv0)
<1>0. /\ Now(lo) /\ Inner.kind = "if" /\ Block(From, fn, o) /\ Escapes(o)
      /\ l = LeaveArm(o) /\ x = [RebindAll(l, Inner.carried) EXCEPT !.diverged = FALSE]
      /\ lv0 \in BOOLEAN /\ (lv0 => Inner.live)
  BY DEF ArmEnd
<1> USE <1>0
<1> DEFINE c == Inner.carried
           N == Len(fn.locals)
           hi == Len(open) - 1
           st == Front(open)
           r == RebindAll(l, c)
           W == After(l, There, live)
           mark == Inner.mark
<1>1. /\ lo \in Nat /\ lo <= hi /\ hi <= Len(open) /\ hi \in Nat /\ Len(open) = hi + 1
      /\ Inner = open[hi + 1] /\ Inner \in Blocks
      /\ N = hi - lo + 2 /\ N - 1 = hi - lo + 1 /\ N > 1 /\ N - 1 \in Nat
      /\ Len(fn.pending) = N
      /\ Below(fn, Inner, N - 1) /\ Saved(Inner, There)
      /\ HeldBy(fn, open, hi + 1, N - 1, hi + 1, There)
      /\ Len(st) = hi /\ DOMAIN st = 1 .. hi /\ st = [i \in 1 .. hi |-> st[i]]
      /\ \A i \in 1 .. hi : st[i] = open[i]
  BY InnerBlock
<1>2. /\ Good(From, fn) /\ fn \in Lowerers /\ Scoped(fn) /\ Stack(open, lo) /\ Frame(fn, open, lo, Len(open))
      /\ live \in BOOLEAN /\ Ready(fn, There, live) /\ Numbered(There, fn.next) /\ fn.insts = << >>
      /\ Len(fn.locals) \in Nat /\ Chain(open, live) /\ State(fn, open, There, live, lo)
      /\ Len(fn.deferred) \in Nat
  BY NowTypes, GoodTypes DEF Now
<1>3. /\ Moves(From, fn, l) /\ Popped(fn, l) /\ l \in Lowerers
      /\ Len(l.deferred) = mark /\ mark \in Nat /\ mark <= Len(fn.deferred)
      /\ \A k \in 1 .. mark : l.deferred[k] = fn.deferred[k]
  BY ArmMoves
<1>4. /\ Rebindable(From, l, c) /\ DOMAIN c \in SUBSET Names
      /\ Inner.live => \A n \in DOMAIN c : c[n].v \in There
  <2>1. \A k \in 1 .. Len(l.deferred) : k <= Len(fn.deferred) /\ l.deferred[k] = fn.deferred[k]
    BY <1>2, <1>3
  <2> QED BY <1>3, <2>1, CarriedRebindable
<1> HIDE DEF c
<1>5. Moves(From, fn, r) /\ Rebound(l, r, c) /\ SameElse(l, r) /\ r \in Lowerers
  BY <1>3, <1>4, RebindMoves
<1>6. x = [r EXCEPT !.diverged = FALSE]
  BY DEF c
<1> HIDE DEF r, hi, N, st
<1>7. /\ x \in Lowerers /\ x.insts = l.insts /\ x.diverged = FALSE
      /\ x.locals = r.locals /\ x.pending = r.pending /\ x.deferred = l.deferred /\ x.next = l.next
      /\ x.temps = r.temps /\ x.heads = r.heads /\ x.insts = r.insts /\ x.next = r.next
  BY <1>5, <1>6 DEF Lowerers, SameElse
<1>8. Moves(From, fn, x)
  <2>1. Good(From, r) /\ x.deferred = r.deferred
    BY <1>5, <1>7 DEF Moves, SameElse
  <2>2. Len(x.deferred) <= Len(r.deferred)
    BY <1>5, <2>1 DEF Lowerers
  <2>3. \A k \in 1 .. Len(x.locals) : \A n \in DOMAIN x.locals[k] :
          /\ x.locals[k][n].v \in Avail(From, r)
          /\ \A j \in 1 .. Len(x.deferred) :
                x.deferred[j].flat = x.locals[k][n].v => x.locals[k][n].ty = "Flat"
    BY <1>7, <2>1 DEF Good, LocalsIn, BorrowersIn, Borrows
  <2>4. Rescopes(From, r, x)
    BY <1>7, <2>1, <2>2, <2>3 DEF Rescopes
  <2> QED BY <1>5, <2>4, RescopeMoves
<1>9. W = After(x, There, live)
  BY <1>7 DEF After, Avail
<1>10. /\ Ready(x, W, FALSE) /\ Numbered(W, x.next) /\ fn.next <= x.next
       /\ There \subseteq W /\ \A d \in W : d \in There \/ d >= fn.next
       /\ live => Sound(There, x.insts) /\ W = There \cup Defs(x.insts)
  <2> DEFINE V == After(x, There, live)
             lv2 == FALSE
  <2>1. lv2 \in BOOLEAN /\ (lv2 => live /\ ~x.diverged) /\ (x.diverged => x.returns \in Types)
    BY <1>7
  <2>2. ~lv2
    OBVIOUS
  <2> HIDE DEF lv2
  <2>3. /\ Ready(x, V, lv2) /\ Numbered(V, x.next) /\ fn.next <= x.next
        /\ There \subseteq V /\ \A d \in V : d \in There \/ d >= fn.next
        /\ live => Sound(There, x.insts) /\ V = There \cup Defs(x.insts)
    BY <1>8, <2>1, MovesNow
  <2> QED BY <1>9, <2>3 DEF lv2
<1>11. /\ Len(x.locals) = N - 1 /\ Len(x.pending) = N - 1
       /\ \A k \in 1 .. N - 1 :
             /\ x.pending[k] = fn.pending[k] /\ DOMAIN x.locals[k] = DOMAIN fn.locals[k]
             /\ \A n \in DOMAIN fn.locals[k] :
                   x.locals[k][n] = IF n \in DOMAIN c THEN c[n] ELSE fn.locals[k][n]
  <2>1. Len(l.locals) = N - 1 /\ Len(l.pending) = N - 1
        /\ \A k \in 1 .. N - 1 : l.locals[k] = fn.locals[k] /\ l.pending[k] = fn.pending[k]
    BY <1>3 DEF Popped, N
  <2>2. Len(x.locals) = N - 1 /\ x.pending = l.pending
    BY <1>5, <1>7, <2>1 DEF Rebound
  <2>3. ASSUME NEW k \in 1 .. N - 1
        PROVE  /\ x.pending[k] = fn.pending[k] /\ DOMAIN x.locals[k] = DOMAIN fn.locals[k]
               /\ \A n \in DOMAIN fn.locals[k] :
                     x.locals[k][n] = IF n \in DOMAIN c THEN c[n] ELSE fn.locals[k][n]
    <3>1. l.locals[k] = fn.locals[k] /\ l.pending[k] = fn.pending[k] /\ k \in 1 .. Len(l.locals)
      BY <2>1
    <3> QED BY <1>5, <1>7, <2>2, <3>1 DEF Rebound
  <2> QED BY <2>1, <2>2, <2>3
<1>12. Carries(Inner) /\ Timed(Inner)
  BY DEF Carries, Timed
<1>13. Ready(x, W, lv0)
  <2> SUFFICES ASSUME lv0 PROVE LocalsIn(x, W) /\ DeferredIn(x, W) /\ ~x.diverged
    BY <1>10 DEF Ready
  <2>1. Inner.live
    OBVIOUS
  <2>2. /\ \A k \in 1 .. N - 1 : \A n \in DOMAIN fn.locals[k] :
              n \in DOMAIN c \/ fn.locals[k][n].v \in There
        /\ \A k \in 1 .. mark : fn.deferred[k].src \in There
    BY <1>1, <1>12, <2>1 DEF HeldBy, c
  <2>3. LocalsIn(x, W)
    <3> SUFFICES ASSUME NEW k \in 1 .. N - 1, NEW n \in DOMAIN x.locals[k] PROVE x.locals[k][n].v \in W
      BY <1>11 DEF LocalsIn
    <3>1. n \in DOMAIN fn.locals[k] /\ x.locals[k][n] = IF n \in DOMAIN c THEN c[n] ELSE fn.locals[k][n]
      BY <1>11
    <3> QED BY <1>4, <1>10, <2>1, <2>2, <3>1
  <2>4. DeferredIn(x, W)
    BY <1>3, <1>7, <1>10, <2>2 DEF DeferredIn
  <2> QED BY <1>7, <2>3, <2>4
<1>14. Scoped(x)
  <2>1. Scoped(l)
    BY <1>1, <1>2, <1>3, PoppedScoped DEF N
  <2>2. SameShape(l, x)
    BY <1>5, <1>7 DEF Rebound, SameShape
  <2> QED BY <2>1, <2>2, SameShapeScoped
<1>15. \A p \in 0 .. N - 1 : DeclaredTo(x, p) = DeclaredTo(fn, p) /\ BoundTo(x, p) = BoundTo(fn, p)
  <2> TAKE p \in 0 .. N - 1
  <2>1. \A k \in 1 .. p : k \in 1 .. N - 1
    BY <1>1
  <2> QED BY <1>11, <2>1 DEF DeclaredTo, BoundTo
<1>16. Keeps(fn, x, open, lo, hi, hi + 1)
  <2> SUFFICES ASSUME NEW i \in lo + 1 .. hi
               PROVE  KeepsDeferred(fn, x, open, i, hi, hi + 1) /\ KeepsScopes(fn, x, open[i], i - lo)
    BY DEF Keeps
  <2>1. i \in lo + 1 .. hi + 1 /\ hi + 1 \in lo + 1 .. hi + 1 /\ i < hi + 1 /\ hi + 1 = Len(open)
    BY <1>1
  <2>2. Nested(fn, open[i], i - lo, Inner) /\ Below(fn, open[i], i - lo)
    BY <1>1, <1>2, <2>1 DEF Frame
  <2>3. open[i] \in Blocks /\ (open[i].kind = "if" => open[i].mark \in Nat)
    BY <2>2, BlockTypes DEF Below
  <2>4. open[i].kind = "if" => open[i].mark <= mark /\ \A k \in 1 .. open[i].mark : k \in 1 .. mark
    BY <1>3, <2>2, <2>3 DEF Nested
  <2>5. ASSUME open[i].kind = "loop", NEW k \in 1 .. mark
        PROVE  Inside(x, open, i, hi, k) \/ ~Inside(fn, open, i, hi + 1, k)
    <3> SUFFICES ASSUME Inside(fn, open, i, hi + 1, k) PROVE Inside(x, open, i, hi, k)
      OBVIOUS
    <3>1. hi + 1 \in i + 1 .. hi + 1 /\ open[hi + 1].kind = "if" /\ open[hi + 1].mark = mark
      BY <1>1, <2>1
    <3>2. PICK j \in i + 1 .. hi + 1 : open[j].kind = "if" /\ open[j].mark < k
      BY <3>1 DEF Inside
    <3>3. j # hi + 1
      BY <1>3, <3>1, <3>2
    <3>4. j \in i + 1 .. hi
      BY <1>1, <3>2, <3>3
    <3> QED BY <3>2, <3>4 DEF Inside
  <2>6. KeepsDeferred(fn, x, open, i, hi, hi + 1)
    <3>1. Len(x.deferred) = mark /\ \A k \in 1 .. mark : x.deferred[k] = fn.deferred[k] /\ k <= Len(fn.deferred)
      BY <1>2, <1>3, <1>7
    <3> QED BY <2>4, <2>5, <3>1 DEF KeepsDeferred
  <2>7. i - lo \in 0 .. N - 1 /\ \A k \in 1 .. i - lo : k \in 1 .. N - 1
    BY <1>1
  <2>8. ASSUME Carries(open[i]), NEW k \in 1 .. i - lo, NEW n \in DOMAIN x.locals[k]
        PROVE  n \in DOMAIN open[i].carried \/ (n \in DOMAIN fn.locals[k] /\ x.locals[k][n] = fn.locals[k][n])
    <3>1. k \in 1 .. N - 1 /\ n \in DOMAIN fn.locals[k]
          /\ x.locals[k][n] = IF n \in DOMAIN c THEN c[n] ELSE fn.locals[k][n]
      BY <1>11, <2>7
    <3>2. n \in DOMAIN c => n \in DOMAIN open[i].carried
      <4> SUFFICES ASSUME n \in DOMAIN c PROVE n \in DOMAIN open[i].carried
        OBVIOUS
      <4>1. n \in BoundTo(fn, i - lo)
        BY <1>4, <3>1 DEF BoundTo
      <4> QED BY <1>12, <2>2, <2>8, <4>1 DEF Nested, c
    <3> QED BY <3>1, <3>2
  <2>9. KeepsScopes(fn, x, open[i], i - lo)
    BY <1>15, <2>7, <2>8 DEF KeepsScopes
  <2> QED BY <2>6, <2>9
<1>17. lv0 => \A i \in 1 .. hi : LiveIn(open[i])
  <2> SUFFICES ASSUME lv0, NEW i \in 1 .. hi PROVE LiveIn(open[i])
    OBVIOUS
  <2>1. i \in 1 .. Len(open) /\ Len(open) \in 1 .. Len(open) /\ i < Len(open) /\ open[Len(open)] = Inner
    BY <1>1
  <2> QED BY <1>2, <1>12, <2>1 DEF Chain
<1> HIDE DEF W
<1>18. /\ BorrowersFrom(fn, x) /\ Len(x.locals) = Len(fn.locals) - 1
       /\ Keeps(fn, x, open, lo, Len(open) - 1, Len(open))
       /\ lv0 => \A i \in 1 .. Len(open) - 1 : LiveIn(open[i])
  <2>1. hi = Len(open) - 1 /\ hi + 1 = Len(open) /\ N = Len(fn.locals)
    BY <1>1 DEF N
  <2> QED BY <1>8, <1>11, <1>16, <1>17, <2>1 DEF Moves
<1>19. State(Ended(x), Front(open), W, lv0, lo)
  BY <1>7, <1>10, <1>13, <1>14, <1>18, StateFront
<1>20. \A k \in 1 .. N - 1 : \A n \in DOMAIN fn.locals[k] :
          n \in DOMAIN Inner.carried \/ x.locals[k][n] = fn.locals[k][n]
  BY <1>11 DEF c
<1>21. N = Len(fn.locals)
  BY DEF N
<1> QED BY <1>3, <1>7, <1>8, <1>10, <1>11, <1>14, <1>15, <1>19, <1>20, <1>21 DEF W, ArmAfter

\* What is kept of an arm.
LEMMA ArmIs ==
    ASSUME ShapesExcluded, NEW lo, Now(lo), Inner.kind = "if", NEW o, Block(From, fn, o), Escapes(o),
           NEW l, l = LeaveArm(o), NEW t, t = Arm(o, l)
    PROVE  /\ t \in Arms /\ t.v = o.v /\ t.ty = o.ty /\ t.diverged = fn.diverged
           /\ DOMAIN t.carried = DOMAIN Inner.carried
           /\ t.ty # "Unit" => t.v \in Avail(From, l)
           /\ \A n \in DOMAIN t.carried : t.carried[n].v \in Avail(From, l)
           /\ live => (t.ty # "Unit" => t.v \in After(l, There, live)) /\ CarriedIn(t.carried, After(l, There, live))
<1> DEFINE S == DOMAIN Inner.carried
           N == Len(fn.locals)
<1>1. /\ Moves(From, fn, l) /\ Popped(fn, l) /\ l \in Lowerers
      /\ Avail(From, o.l) \subseteq Avail(From, l) /\ o.l.diverged = fn.diverged
  BY ArmMoves
<1>2. /\ Inner \in Blocks /\ Below(fn, Inner, N - 1) /\ N - 1 \in Nat
  BY InnerBlock
<1>3. Good(From, fn) /\ fn \in Lowerers /\ live \in BOOLEAN
  BY NowTypes
<1>4. /\ o.v \in Avail(From, o.l) \/ (o.v = NoValue /\ o.ty = "Unit")
      /\ o.v \in Nat \cup {NoValue} /\ o.ty \in Types
  BY <1>3, BlockGoes
<1>5. S \in SUBSET Names /\ S \subseteq BoundTo(fn, N - 1)
  BY <1>2, BlockTypes DEF Carries, Below
<1>6. ASSUME NEW n \in S PROVE Lookup(l, n) \in Bnds /\ Lookup(l, n).v \in Avail(From, l)
  <2>1. PICK k \in 1 .. N - 1 : n \in DOMAIN fn.locals[k]
    BY <1>5 DEF BoundTo
  <2>2. k \in DOMAIN l.locals /\ n \in DOMAIN l.locals[k]
    BY <1>1, <2>1 DEF Popped, Lowerers
  <2>3. IsLocal(l, n)
    BY <2>2 DEF IsLocal
  <2>4. Good(From, l)
    BY <1>1 DEF Moves
  <2> QED BY <2>3, <2>4, LookupNames
<1>7. /\ Bindings(l, S) \in Layers /\ DOMAIN Bindings(l, S) = S
      /\ \A n \in S : Bindings(l, S)[n] = Lookup(l, n)
  BY <1>5, <1>6, BindingsLayer
<1>8. /\ t.v = o.v /\ t.ty = o.ty /\ t.diverged = o.l.diverged /\ t.carried = Bindings(l, S)
  BY DEF Arm
<1>9. t \in Arms
  <2>1. (~o.l.diverged /\ OwnsCells(o.l, o.v)) \in BOOLEAN
    BY DEF OwnsCells
  <2>2. fn.diverged \in BOOLEAN
    BY <1>3 DEF Lowerers
  <2> QED BY <1>1, <1>4, <1>7, <2>1, <2>2 DEF Arm, Arms
<1>10. t.ty # "Unit" => t.v \in Avail(From, l)
  BY <1>1, <1>4, <1>8
<1>11. \A n \in DOMAIN t.carried : t.carried[n].v \in Avail(From, l)
  BY <1>6, <1>7, <1>8
<1>12. live => After(l, There, live) = Avail(From, l)
  BY DEF After, From, Basis
<1> QED BY <1>1, <1>7, <1>8, <1>9, <1>10, <1>11, <1>12 DEF CarriedIn

\* The else arm begins.
ElseEntry(t) == [Inner EXCEPT !.arm = "else", !.then = t, !.ended = live]

LEMMA ElseEntryIs ==
    ASSUME Inner \in IfEntries, live \in BOOLEAN, NEW t \in Arms
    PROVE  LET e == ElseEntry(t)
           IN  /\ e \in IfEntries /\ e \in Blocks /\ e.kind = "if" /\ e.arm = "else" /\ e.then = t
               /\ e.ended = live /\ e.live = Inner.live /\ e.taken = Inner.taken /\ e.depth = Inner.depth
               /\ e.mark = Inner.mark /\ e.pending = Inner.pending /\ e.carried = Inner.carried
BY DEF ElseEntry, IfEntries, Blocks

LEMMA ElseBegins ==
    ASSUME ShapesExcluded, NEW lo, Inner.arm = "then",
           NEW o, NEW l, NEW x, ArmEnd(lo, o, l, x, FALSE)
    PROVE  Begins(Ended(x), Front(open), After(l, There, live), lo, ElseEntry(Arm(o, l)))
<1>0. /\ Now(lo) /\ Inner.kind = "if" /\ Block(From, fn, o) /\ Escapes(o) /\ l = LeaveArm(o)
  BY DEF ArmEnd
<1> USE <1>0
<1> DEFINE t == Arm(o, l)
           e == ElseEntry(t)
           W == After(l, There, live)
           N == Len(fn.locals)
           hi == Len(open) - 1
           f == Ended(x)
<1>1. /\ lo <= hi /\ hi \in Nat /\ Len(open) = hi + 1 /\ lo \in Nat
      /\ Inner = open[hi + 1] /\ Inner \in Blocks
      /\ N - 1 = hi - lo + 1 /\ N - 1 \in Nat
      /\ Below(fn, Inner, N - 1) /\ Saved(Inner, There)
      /\ HeldBy(fn, open, hi + 1, N - 1, hi + 1, There)
      /\ Len(Front(open)) = hi /\ \A i \in 1 .. hi : Front(open)[i] = open[i]
  BY <1>0, InnerBlock
<1>2. /\ t \in Arms /\ t.v = o.v /\ t.ty = o.ty /\ t.diverged = fn.diverged
      /\ DOMAIN t.carried = DOMAIN Inner.carried
      /\ t.ty # "Unit" => t.v \in Avail(From, l)
      /\ \A n \in DOMAIN t.carried : t.carried[n].v \in Avail(From, l)
      /\ live => (t.ty # "Unit" => t.v \in W) /\ CarriedIn(t.carried, W)
  BY <1>0, ArmIs
<1>3. /\ fn \in Lowerers /\ Frame(fn, open, lo, Len(open)) /\ live \in BOOLEAN /\ Chain(open, live)
      /\ Ready(fn, There, live)
  BY <1>0, NowTypes
<1>4. Inner \in IfEntries
  BY <1>0, <1>1, BlockTypes
<1> HIDE DEF t
<1>5. /\ e \in IfEntries /\ e \in Blocks /\ e.kind = "if" /\ e.arm = "else" /\ e.then = t
      /\ e.ended = live /\ e.live = Inner.live /\ e.taken = Inner.taken /\ e.depth = Inner.depth
      /\ e.mark = Inner.mark /\ e.carried = Inner.carried
  BY <1>2, <1>3, <1>4, ElseEntryIs
<1>6. ArmAfter(lo, l, x, FALSE)
  BY ArmLeft
<1>7. /\ There \subseteq W /\ x \in Lowerers /\ x.diverged = FALSE /\ x.insts = l.insts
      /\ Moves(From, fn, x) /\ Len(x.locals) = N - 1
      /\ Len(x.pending) = N - 1
      /\ \A k \in 1 .. N - 1 :
            /\ x.pending[k] = fn.pending[k] /\ DOMAIN x.locals[k] = DOMAIN fn.locals[k]
            /\ \A n \in DOMAIN fn.locals[k] :
                  n \in DOMAIN Inner.carried \/ x.locals[k][n] = fn.locals[k][n]
      /\ \A p \in 0 .. N - 1 : DeclaredTo(x, p) = DeclaredTo(fn, p) /\ BoundTo(x, p) = BoundTo(fn, p)
      /\ Len(x.deferred) = Inner.mark /\ \A k \in 1 .. Inner.mark : x.deferred[k] = fn.deferred[k]
  BY <1>6 DEF ArmAfter
<1>8. /\ f \in Lowerers /\ f.locals = x.locals /\ f.pending = x.pending /\ f.deferred = x.deferred
      /\ f.diverged = FALSE /\ f.next = x.next
  BY <1>7, EndedTypes
<1> HIDE DEF e, f, W
<1>9. /\ Len(f.locals) = N - 1
      /\ \A k \in 1 .. N - 1 :
            /\ DOMAIN f.locals[k] = DOMAIN fn.locals[k]
            /\ \A n \in DOMAIN fn.locals[k] :
                  n \in DOMAIN e.carried \/ f.locals[k][n] = fn.locals[k][n]
      /\ \A p \in 0 .. N - 1 : DeclaredTo(f, p) = DeclaredTo(fn, p) /\ BoundTo(f, p) = BoundTo(fn, p)
      /\ Len(f.deferred) = e.mark /\ \A k \in 1 .. e.mark : f.deferred[k] = fn.deferred[k]
  <2>1. \A p : DeclaredTo(f, p) = DeclaredTo(x, p) /\ BoundTo(f, p) = BoundTo(x, p)
    BY <1>8 DEF DeclaredTo, BoundTo
  <2> HIDE DEF N
  <2> QED BY <1>5, <1>7, <1>8, <2>1
<1>10. BorrowersFrom(fn, f) /\ fn.next <= f.next
  BY <1>7, <1>8 DEF Moves, BorrowersFrom
<1>11. Carries(Inner) /\ Carries(e) /\ Timed(e) /\ Timed(Inner)
  BY <1>0, <1>5 DEF Carries, Timed
<1>12. Below(f, e, N - 1)
  <2>1. KeepsScopes(fn, f, Inner, N - 1)
    <3>1. N - 1 \in 0 .. N - 1
      BY <1>1
    <3>2. DeclaredTo(f, N - 1) = DeclaredTo(fn, N - 1) /\ BoundTo(f, N - 1) = BoundTo(fn, N - 1)
      BY <1>9, <3>1
    <3> HIDE DEF N
    <3> QED BY <1>5, <1>9, <3>2 DEF KeepsScopes
  <2>2. Inner.kind = "if" => Inner.mark <= Len(f.deferred)
    BY <1>4, <1>5, <1>9 DEF IfEntries
  <2>3. Below(f, Inner, N - 1)
    BY <1>1, <1>3, <1>8, <1>10, <2>1, <2>2, BelowKept
  <2>4. Good(From, x) /\ Avail(From, x) = Avail(From, l)
    BY <1>7 DEF Moves, Avail
  <2>5. \A d \in Avail(From, l) : d \in Nat /\ d < f.next
    BY <1>8, <2>4, GoodTypes
  <2>6. /\ t.ty # "Unit" => t.v # NoValue /\ t.v < f.next
        /\ \A n \in DOMAIN t.carried : t.carried[n].v < f.next
    BY <1>2, <2>5 DEF NoValue
  <2> QED BY <1>5, <1>11, <2>3, <2>6 DEF Below
<1>13. ASSUME NEW i \in lo + 1 .. hi PROVE Nested(f, Front(open)[i], i - lo, e)
  <2>1. i \in lo + 1 .. Len(open) /\ Len(open) \in lo + 1 .. Len(open) /\ i < Len(open) /\ i \in 1 .. hi
        /\ i - lo \in 0 .. N - 1
    BY <1>1
  <2>2. Nested(fn, open[i], i - lo, Inner)
    BY <1>1, <1>3, <2>1 DEF Frame
  <2>3. BoundTo(f, i - lo) = BoundTo(fn, i - lo) /\ Front(open)[i] = open[i]
    BY <1>1, <1>9, <2>1
  <2> QED BY <1>5, <1>11, <2>2, <2>3 DEF Nested
<1>14. Reached(f, e, W)
  <2> SUFFICES ASSUME Inner.live
               PROVE  /\ \A k \in 1 .. N - 1 : \A n \in DOMAIN f.locals[k] :
                            n \in DOMAIN e.carried \/ f.locals[k][n].v \in W
                      /\ \A k \in 1 .. e.mark : f.deferred[k].src \in W
    BY <1>5, <1>9 DEF Reached
  <2>1. /\ \A k \in 1 .. N - 1 : \A n \in DOMAIN fn.locals[k] :
              n \in DOMAIN e.carried \/ fn.locals[k][n].v \in There
        /\ \A k \in 1 .. e.mark : fn.deferred[k].src \in There
    BY <1>1, <1>5, <1>11 DEF HeldBy
  <2>2. There \subseteq W
    BY <1>7
  <2> HIDE DEF N
  <2>3. \A k \in 1 .. e.mark : f.deferred[k].src \in W
    BY <1>9, <2>1, <2>2
  <2>4. ASSUME NEW k \in 1 .. N - 1, NEW n \in DOMAIN f.locals[k]
        PROVE  n \in DOMAIN e.carried \/ f.locals[k][n].v \in W
    <3>1. n \in DOMAIN fn.locals[k] /\ (n \in DOMAIN e.carried \/ f.locals[k][n] = fn.locals[k][n])
      BY <1>9
    <3>2. n \in DOMAIN e.carried \/ fn.locals[k][n].v \in There
      BY <2>1, <3>1
    <3> QED BY <2>2, <3>1, <3>2
  <2> QED BY <2>3, <2>4
<1>15. live => Inner.live /\ Inner.taken /\ ~fn.diverged
  <2>1. Len(open) \in 1 .. Len(open)
    BY <1>1
  <2>2. live => LiveIn(Inner)
    BY <1>1, <1>3, <2>1 DEF Chain
  <2> QED BY <1>3, <1>11, <2>2 DEF LiveIn, Ready
<1>16. Saved(e, W)
  <2>1. e.live => CarriedIn(e.carried, W)
    BY <1>1, <1>5, <1>7, <1>11 DEF Saved, CarriedIn
  <2> QED BY <1>2, <1>5, <1>15, <2>1 DEF Saved
<1>17. e.live => \A i \in 1 .. hi : LiveIn(Front(open)[i])
  <2> SUFFICES ASSUME e.live, NEW i \in 1 .. hi PROVE LiveIn(open[i])
    BY <1>1
  <2>1. i \in 1 .. Len(open) /\ Len(open) \in 1 .. Len(open) /\ i < Len(open) /\ open[Len(open)] = Inner
    BY <1>1
  <2> QED BY <1>3, <1>5, <1>11, <2>1 DEF Chain
<1>18. Begins(f, Front(open), W, lo, e)
  BY <1>1, <1>8, <1>9, <1>12, <1>13, <1>14, <1>16, <1>17 DEF Begins
<1> QED BY <1>18 DEF f, W, e, t

LEMMA ElseStep ==
    ASSUME ShapesExcluded, IInv, Else
    PROVE  IInv'
<1>1. PICK e \in Tails(fn) :
        LET o == BlockValue(fn, e)
            l == LeaveArm(o)
            entry == [Inner EXCEPT !.arm = "else", !.then = Arm(o, l), !.ended = live]
        IN /\ Closes("if", e)
           /\ Escapes(o)
           /\ Write([PushScope(RebindAll(l, Inner.carried)) EXCEPT !.diverged = FALSE],
                    Append(Front(open), entry))
           /\ live' = (Inner.live /\ ~Inner.taken)
  BY DEF Else
<1>2. Running /\ Inner.kind = "if" /\ Inner.arm = "then"
  BY DEF Else
<1>3. PICK lo \in Nat : Now(lo)
  BY <1>2, NowReached
<1> DEFINE o == BlockValue(fn, e)
           l == LeaveArm(o)
           x == [RebindAll(l, Inner.carried) EXCEPT !.diverged = FALSE]
           m == [PushScope(RebindAll(l, Inner.carried)) EXCEPT !.diverged = FALSE]
           entry == ElseEntry(Arm(o, l))
           lv0 == Inner.live /\ ~Inner.taken
           st == Append(Front(open), entry)
<1>4. Block(From, fn, o)
  BY <1>3, NowTypes, BlockIs
<1>5. Escapes(o) /\ Write(m, st) /\ live' = lv0
  BY <1>1 DEF ElseEntry
<1>6. /\ Good(From, fn) /\ live \in BOOLEAN
      /\ IsMemory(memory) /\ memory.fault = NoFault /\ Logs(open, There)
  BY <1>3, NowTypes DEF Now
<1> HIDE DEF o
<1>7. /\ Inner \in IfEntries /\ Len(open) - 1 \in Nat /\ Len(open) \in Nat
      /\ Len(Front(open)) = Len(open) - 1
      /\ \A i \in 1 .. Len(open) - 1 : Front(open)[i] = open[i]
      /\ DOMAIN Front(open) = 1 .. Len(open) - 1
      /\ Front(open) = [i \in 1 .. Len(open) - 1 |-> Front(open)[i]]
  BY <1>2, <1>3, InnerBlock, BlockTypes
<1>8. lv0 \in BOOLEAN /\ (lv0 => Inner.live)
  BY <1>7 DEF IfEntries
<1>9. ArmEnd(lo, o, l, x, lv0) /\ ArmEnd(lo, o, l, x, FALSE)
  BY <1>2, <1>3, <1>4, <1>5, <1>8 DEF ArmEnd
<1> HIDE DEF l, x
<1>19. ArmAfter(lo, l, x, lv0)
  BY <1>9, ArmLeft
<1>20. /\ State(Ended(x), Front(open), After(l, There, live), lv0, lo)
       /\ live => Sound(There, l.insts) /\ After(l, There, live) = There \cup Defs(l.insts)
       /\ x \in Lowerers /\ x.insts = l.insts
       /\ Len(x.locals) = Len(fn.locals) - 1 /\ Len(x.pending) = Len(fn.locals) - 1
  BY <1>19 DEF ArmAfter
<1>10. Begins(Ended(x), Front(open), After(l, There, live), lo, entry)
  BY <1>2, <1>9, ElseBegins
<1>11. entry \in IfEntries /\ entry.kind = "if" /\ entry.arm = "else" /\ entry.live = Inner.live /\ entry.taken = Inner.taken
  <2>1. Arm(o, l) \in Arms
    BY <1>2, <1>3, <1>4, <1>5, ArmIs DEF l
  <2> QED BY <1>6, <1>7, <2>1, ElseEntryIs
<1>12. LiveIn(entry) \/ ~lv0
  <2>1. Inner.taken \in BOOLEAN
    BY <1>7 DEF IfEntries
  <2>2. lv0 => Inner.live /\ Inner.taken = FALSE
    BY <2>1 DEF lv0
  <2> HIDE DEF entry, lv0
  <2> QED BY <1>11, <2>2 DEF LiveIn
<1> HIDE DEF lv0
<1>13. State(PushScope(Ended(x)), st, After(l, There, live), lv0, lo)
  <2> HIDE DEF entry
  <2> QED BY <1>8, <1>20, <1>10, <1>12, StatePush
<1>14. m \in Lowerers /\ m.insts = x.insts /\ Ended(m) = PushScope(Ended(x))
  <2> DEFINE r == RebindAll(l, Inner.carried)
  <2>1. r \in Lowerers /\ Len(r.locals) = Len(r.pending)
    <3>1. /\ l \in Lowerers /\ Moves(From, fn, l) /\ \A k \in 1 .. Len(l.deferred) : k <= Len(fn.deferred) /\ l.deferred[k] = fn.deferred[k]
      <4>1. /\ l \in Lowerers /\ Moves(From, fn, l) /\ Len(l.deferred) = Inner.mark
            /\ Inner.mark \in Nat /\ Inner.mark <= Len(fn.deferred)
            /\ \A k \in 1 .. Inner.mark : l.deferred[k] = fn.deferred[k]
        BY <1>2, <1>3, <1>4, <1>5, ArmMoves DEF l
      <4>2. Len(fn.deferred) \in Nat
        BY <1>6, GoodTypes
      <4> QED BY <4>1, <4>2
    <3>2. Rebindable(From, l, Inner.carried)
      BY <1>2, <1>3, <3>1, CarriedRebindable
    <3>3. r \in Lowerers
      BY <3>1, <3>2, RebindMoves
    <3>4. x.locals = r.locals /\ x.pending = r.pending
      BY <3>3 DEF Lowerers, x
    <3> QED BY <1>20, <3>3, <3>4
  <2> HIDE DEF r
  <2>2. m = [PushScope(r) EXCEPT !.diverged = FALSE] /\ x = [r EXCEPT !.diverged = FALSE]
    BY DEF r, x
  <2> HIDE DEF m
  <2>3. PushScope(r) \in Lowerers
    BY <2>1, PushIs
  <2>4. PushScope(r).insts = r.insts
    BY <2>1, PushIs
  <2>5. m \in Lowerers /\ m.insts = x.insts
    BY <2>1, <2>2, <2>3, <2>4 DEF Lowerers
  <2>6. Ended(m) = PushScope(Ended(x))
    BY <2>1, <2>2 DEF Ended, PushScope, Lowerers
  <2> QED BY <2>5, <2>6
<1>15. Logs(st, There)
  <2>1. Len(st) = Len(open) /\ st[Len(open)] = entry /\ \A i \in 1 .. Len(open) - 1 : st[i] = open[i]
    <3> HIDE DEF entry
    <3>1. Len(Front(open)) = Len(open) - 1 /\ Len(open) - 1 + 1 = Len(open)
      BY <1>7
    <3> QED BY <1>7, <3>1, AppendIs
  <2>2. \A i \in 1 .. Len(open) : i = Len(open) \/ i \in 1 .. Len(open) - 1
    BY <1>7
  <2> HIDE DEF st, entry
  <2> QED BY <1>6, <1>7, <1>11, <2>1, <2>2 DEF Logs
<1>16. After(m, There, live) = After(l, There, live)
  BY <1>20, <1>14 DEF After, Avail
<1>17. live => Sound(There, m.insts) /\ After(m, There, live) = There \cup Defs(m.insts)
  BY <1>20, <1>14, <1>16
<1>18. State(Ended(m), st, After(m, There, live), live', lo) /\ live' \in BOOLEAN
  BY <1>5, <1>8, <1>13, <1>14, <1>16
<1> HIDE DEF m, st
<1> QED BY <1>3, <1>5, <1>6, <1>14, <1>15, <1>17, <1>18, WriteConsistent

\* z is m but for the names that may not be read.
Unsets(m, z, U) == U \in SUBSET Names /\ z = [m EXCEPT !.unset = U]

LEMMA UnsetMoves ==
    ASSUME NEW D, NEW l, NEW m, Moves(D, l, m), NEW U, NEW z, Unsets(m, z, U)
    PROVE  /\ Moves(D, l, z) /\ z \in Lowerers /\ z.locals = m.locals /\ z.pending = m.pending
           /\ z.deferred = m.deferred /\ z.diverged = m.diverged /\ z.returns = m.returns
           /\ z.insts = m.insts /\ z.next = m.next
<1>1. Good(D, m) /\ m \in Lowerers
  BY GoodTypes DEF Moves
<1>2. /\ z \in Lowerers /\ z.locals = m.locals /\ z.pending = m.pending /\ z.temps = m.temps
      /\ z.deferred = m.deferred /\ z.diverged = m.diverged /\ z.returns = m.returns
      /\ z.insts = m.insts /\ z.next = m.next /\ z.heads = m.heads
  BY <1>1 DEF Lowerers, Unsets
<1>3. Len(z.deferred) <= Len(m.deferred)
  BY <1>1, <1>2 DEF Lowerers
<1>4. \A k \in 1 .. Len(m.locals) : \A n \in DOMAIN m.locals[k] :
        /\ m.locals[k][n].v \in Avail(D, m)
        /\ \A j \in 1 .. Len(m.deferred) :
              m.deferred[j].flat = m.locals[k][n].v => m.locals[k][n].ty = "Flat"
  BY <1>1 DEF Good, LocalsIn, BorrowersIn, Borrows
<1>5. Rescopes(D, m, z)
  BY <1>2, <1>3, <1>4 DEF Rescopes
<1>6. Moves(D, l, z)
  BY <1>5, RescopeMoves
<1> QED BY <1>2, <1>6

LEMMA ArmKeepsDeferred ==
    ASSUME NEW lo, Now(lo), Inner.kind = "if", NEW x, Len(x.deferred) = Inner.mark,
           \A k \in 1 .. Inner.mark : x.deferred[k] = fn.deferred[k],
           NEW i \in lo + 1 .. Len(open) - 1
    PROVE  KeepsDeferred(fn, x, open, i, Len(open) - 1, Len(open))
<1> DEFINE hi == Len(open) - 1
           mark == Inner.mark
<1>1. /\ lo \in Nat /\ lo <= hi /\ hi \in Nat /\ Len(open) = hi + 1
      /\ Inner = open[hi + 1] /\ Inner \in Blocks /\ Below(fn, Inner, Len(fn.locals) - 1)
  BY InnerBlock
<1>2. fn \in Lowerers /\ Frame(fn, open, lo, Len(open)) /\ Len(fn.deferred) \in Nat
  BY NowTypes, GoodTypes
<1>3. mark \in Nat /\ mark <= Len(fn.deferred)
  BY <1>1, BlockTypes DEF Below
<1>4. i \in lo + 1 .. hi + 1 /\ hi + 1 \in lo + 1 .. hi + 1 /\ i < hi + 1 /\ i \in Int
  BY <1>1
<1>5. Nested(fn, open[i], i - lo, Inner) /\ Below(fn, open[i], i - lo)
  BY <1>1, <1>2, <1>4 DEF Frame
<1>6. open[i] \in Blocks /\ (open[i].kind = "if" => open[i].mark \in Nat)
  BY <1>5, BlockTypes DEF Below
<1>7. open[i].kind = "if" => open[i].mark <= mark /\ \A k \in 1 .. open[i].mark : k \in 1 .. mark
  BY <1>3, <1>5, <1>6 DEF Nested
<1>8. ASSUME NEW k \in 1 .. mark PROVE Inside(x, open, i, hi, k) \/ ~Inside(fn, open, i, hi + 1, k)
  <2> SUFFICES ASSUME Inside(fn, open, i, hi + 1, k) PROVE Inside(x, open, i, hi, k)
    OBVIOUS
  <2>1. hi + 1 \in i + 1 .. hi + 1 /\ open[hi + 1].kind = "if" /\ open[hi + 1].mark = mark
    BY <1>1, <1>4
  <2>2. PICK j \in i + 1 .. hi + 1 : open[j].kind = "if" /\ open[j].mark < k
    BY <2>1 DEF Inside
  <2>3. j # hi + 1
    BY <1>3, <2>1, <2>2
  <2>4. j \in i + 1 .. hi
    <3> HIDE DEF hi
    <3> QED BY <1>1, <1>4, <2>2, <2>3
  <2> QED BY <2>2, <2>4 DEF Inside
<1>9. Len(x.deferred) = mark /\ \A k \in 1 .. mark : x.deferred[k] = fn.deferred[k] /\ k <= Len(fn.deferred)
  BY <1>2, <1>3
<1> QED BY <1>1, <1>7, <1>8, <1>9 DEF KeepsDeferred

\* Where neither arm goes on, nor does the function.
LEMMA IfDiverges ==
    ASSUME ShapesExcluded, NEW lo, Now(lo), Inner.kind = "if", NEW o, Block(From, fn, o), Escapes(o),
           NEW l, l = LeaveArm(o), ~live, NEW U \in SUBSET Names, NEW z, z = [l EXCEPT !.unset = U]
    PROVE  State(Ended(z), Front(open), There, FALSE, lo)
<1> DEFINE hi == Len(open) - 1
           N == Len(fn.locals)
<1>1. /\ Moves(From, fn, l) /\ Popped(fn, l) /\ l.diverged = fn.diverged /\ l.returns = fn.returns
      /\ Len(l.deferred) = Inner.mark
      /\ \A k \in 1 .. Inner.mark : l.deferred[k] = fn.deferred[k]
  BY ArmMoves
<1>2. /\ Moves(From, fn, z) /\ z \in Lowerers /\ z.locals = l.locals /\ z.pending = l.pending
      /\ z.deferred = l.deferred /\ z.diverged = l.diverged /\ z.returns = l.returns
  <2>1. Unsets(l, z, U)
    BY DEF Unsets
  <2> QED BY <1>1, <2>1, UnsetMoves
<1>3. /\ lo \in Nat /\ hi \in Nat /\ N > 1 /\ N - 1 = hi - lo + 1 /\ hi + 1 = Len(open)
  BY InnerBlock
<1>4. /\ fn \in Lowerers /\ Scoped(fn) /\ N \in Nat /\ Ready(fn, There, live) /\ live \in BOOLEAN
  BY NowTypes
<1>5. After(z, There, live) = There
  BY DEF After
<1> DEFINE lv2 == FALSE
<1>6. lv2 \in BOOLEAN /\ (lv2 => live /\ ~z.diverged) /\ (z.diverged => z.returns \in Types) /\ ~lv2
  BY <1>1, <1>2, <1>4 DEF Ready
<1> HIDE DEF lv2
<1>7. /\ Ready(z, There, lv2) /\ Numbered(There, z.next) /\ fn.next <= z.next
      /\ There \subseteq There /\ \A d \in There : d \in There \/ d >= fn.next
  BY <1>2, <1>5, <1>6, MovesNow
<1>8. Popped(fn, z)
  BY <1>1, <1>2 DEF Popped
<1>9. Scoped(z)
  BY <1>3, <1>4, <1>8, PoppedScoped
<1>10. Len(z.locals) = N - 1 /\ BorrowersFrom(fn, z)
  BY <1>2, <1>8 DEF Popped, Moves
<1>11. Keeps(fn, z, open, lo, hi, Len(open))
  <2> SUFFICES ASSUME NEW i \in lo + 1 .. hi
               PROVE  KeepsDeferred(fn, z, open, i, hi, Len(open)) /\ KeepsScopes(fn, z, open[i], i - lo)
    BY DEF Keeps
  <2>1. KeepsDeferred(fn, z, open, i, hi, Len(open))
    BY <1>1, <1>2, ArmKeepsDeferred
  <2>2. \A k \in 1 .. i - lo : k \in 1 .. N - 1
    BY <1>3
  <2>3. \A k \in 1 .. i - lo : z.locals[k] = fn.locals[k] /\ z.pending[k] = fn.pending[k]
    BY <1>8, <2>2 DEF Popped
  <2> QED BY <2>1, <2>3, SameBelowKeeps
<1>12. lv2 => \A i \in 1 .. hi : LiveIn(open[i])
  BY <1>6
<1>13. State(Ended(z), Front(open), There, lv2, lo)
  BY <1>2, <1>7, <1>9, <1>10, <1>11, <1>12, StateFront
<1> QED BY <1>13 DEF lv2

-----------------------------------------------------------------------------
(* Two runs, one after the other.                                           *)

LEMMA ConcatTwice ==
    ASSUME NEW S, NEW x \in Seq(S), NEW y \in Seq(S), NEW z \in Seq(S)
    PROVE  (x \o y) \o z = x \o (y \o z)
<1> DEFINE n == Len(x) + Len(y) + Len(z)
           u == (x \o y) \o z
           v == x \o (y \o z)
<1>1. /\ x \o y \in Seq(S) /\ y \o z \in Seq(S) /\ u \in Seq(S) /\ v \in Seq(S)
      /\ Len(x \o y) = Len(x) + Len(y) /\ Len(y \o z) = Len(y) + Len(z)
      /\ Len(x) \in Nat /\ Len(y) \in Nat /\ Len(z) \in Nat
  OBVIOUS
<1>2. Len(u) = n /\ Len(v) = n
  BY <1>1
<1>3. ASSUME NEW i \in 1 .. n PROVE u[i] = v[i]
  <2>1. u[i] = IF i <= Len(x) + Len(y) THEN (x \o y)[i] ELSE z[i - (Len(x) + Len(y))]
    BY <1>1
  <2>2. v[i] = IF i <= Len(x) THEN x[i] ELSE (y \o z)[i - Len(x)]
    BY <1>1
  <2>3. i <= Len(x) + Len(y) => (x \o y)[i] = IF i <= Len(x) THEN x[i] ELSE y[i - Len(x)]
    BY <1>1
  <2>4. i > Len(x) => (y \o z)[i - Len(x)] = IF i - Len(x) <= Len(y) THEN y[i - Len(x)] ELSE z[i - Len(x) - Len(y)]
    BY <1>1
  <2> QED BY <1>1, <2>1, <2>2, <2>3, <2>4
<1> HIDE DEF u, v
<1> QED BY <1>1, <1>2, <1>3 DEF u, v

LEMMA LoggedTwice ==
    ASSUME NEW st, NEW lo, Stack(st, lo), NEW a \in Seq(Insts), NEW b \in Seq(Insts)
    PROVE  Logged(Logged(st, a), b) = Logged(st, a \o b)
<1> DEFINE s == Logged(st, a)
           n == Len(st)
<1>1. n \in Nat /\ DOMAIN st = 1 .. n /\ DOMAIN s = 1 .. n
      /\ \A i \in 1 .. n : st[i].kind = "loop" => st[i] \in LoopEntries
  BY StackTypes, LoggedStack, LoopsOf DEF Stack
<1>2. Logged(s, b) = [i \in 1 .. n |-> IF s[i].kind = "loop" THEN [s[i] EXCEPT !.log = @ \o b] ELSE s[i]]
  BY <1>1 DEF Logged
<1>3. Logged(st, a \o b) =
        [i \in 1 .. n |-> IF st[i].kind = "loop" THEN [st[i] EXCEPT !.log = @ \o (a \o b)] ELSE st[i]]
  BY <1>1 DEF Logged
<1>4. ASSUME NEW i \in 1 .. n
      PROVE  (IF s[i].kind = "loop" THEN [s[i] EXCEPT !.log = @ \o b] ELSE s[i])
               = IF st[i].kind = "loop" THEN [st[i] EXCEPT !.log = @ \o (a \o b)] ELSE st[i]
  <2>1. s[i] = IF st[i].kind = "loop" THEN [st[i] EXCEPT !.log = @ \o a] ELSE st[i]
    BY <1>1 DEF Logged
  <2> HIDE DEF s
  <2>2. CASE st[i].kind # "loop"
    BY <2>1, <2>2
  <2>3. CASE st[i].kind = "loop"
    <3> DEFINE e == st[i]
    <3>1. e \in LoopEntries /\ e.log \in Seq(Insts)
      BY <1>1, <2>3 DEF LoopEntries
    <3>2. (e.log \o a) \o b = e.log \o (a \o b)
      <4> DEFINE x == e.log
      <4>1. x \in Seq(Insts)
        BY <3>1
      <4> HIDE DEF x
      <4>2. (x \o a) \o b = x \o (a \o b)
        BY <4>1, ConcatTwice
      <4> QED BY <4>2 DEF x
    <3>3. s[i] = [e EXCEPT !.log = e.log \o a]
      BY <2>1, <2>3
    <3> HIDE DEF e
    <3>4. s[i].kind = "loop" /\ s[i].log = e.log \o a
      BY <3>1, <3>3 DEF LoopEntries
    <3>5. [s[i] EXCEPT !.log = s[i].log \o b] = [e EXCEPT !.log = e.log \o (a \o b)]
      BY <3>1, <3>2, <3>3, <3>4 DEF LoopEntries
    <3> QED BY <2>3, <3>4, <3>5 DEF e
  <2> QED BY <2>2, <2>3
<1> QED BY <1>2, <1>3, <1>4

LEMMA TwoRuns ==
    ASSUME IsMemory(memory), memory.fault = NoFault,
           NEW a \in Seq(Insts), Sound(There, a), NEW W, W = There \cup Defs(a),
           NEW b \in Seq(Insts), Sound(W, b), NEW W2, W2 = W \cup Defs(b),
           NEW z, z.insts = << >>, NEW st, NEW lv \in BOOLEAN, NEW lo \in Nat,
           State(z, st, W2, lv, lo), Logs(st, There)
    PROVE  Consistent(z, Logged(st, a \o b), Run(Run(memory, a), b), lv)
<1> DEFINE first == Run(memory, a)
           s == Logged(st, a)
<1>1. IsMemory(first) /\ (first.fault = NoFault => DOMAIN first.env = W)
  BY Afterwards
<1>2. Stack(st, lo)
  BY DEF State
<1>3. Len(b) \in Nat
  OBVIOUS
<1> HIDE DEF first
<1>4. CASE first.fault # NoFault
  <2>1. Run(first, b) = first
    BY <1>3, <1>4, RunStopped
  <2> QED BY <1>1, <1>4, <2>1 DEF Consistent, first
<1>5. CASE first.fault = NoFault
  <2>1. State(z, s, W2, lv, lo)
    BY LoggedState
  <2>2. There \subseteq W /\ W \subseteq W2 /\ Defs(a) \subseteq W
    OBVIOUS
  <2>3. Known(W, a)
    BY SoundKnown
  <2>4. Logs(st, W)
    BY <2>2, LogsMore
  <2>5. Logs(s, W)
    BY <1>2, <2>2, <2>3, <2>4, LoggedLogs
  <2>6. Logs(s, W2)
    BY <2>2, <2>5, LogsMore
  <2> HIDE DEF s
  <2>7. Sound(DOMAIN first.env, b) /\ W2 = DOMAIN first.env \cup Defs(b)
    BY <1>1, <1>5
  <2>8. Consistent(z, Logged(s, b), Run(first, b), lv)
    BY <1>1, <1>5, <2>1, <2>6, <2>7, RunConsistent
  <2>9. Logged(s, b) = Logged(st, a \o b)
    BY <1>2, LoggedTwice DEF s
  <2> QED BY <2>8, <2>9 DEF first
<1> QED BY <1>4, <1>5

-----------------------------------------------------------------------------
(* A merge binds the carried variables anew: what they stood for is of no    *)
(* account.                                                                 *)

IsLowerer(m) ==
    m = [locals |-> m.locals, pending |-> m.pending, unset |-> m.unset,
         params |-> m.params, borrowed |-> m.borrowed, owned |-> m.owned, temps |-> m.temps,
         heads |-> m.heads, deferred |-> m.deferred, next |-> m.next, diverged |-> m.diverged,
         returns |-> m.returns, insts |-> m.insts]

\* m and o are the same but for what the names of S stand for.
Agree(m, o, S) ==
    /\ IsLowerer(m) /\ o = [m EXCEPT !.locals = o.locals]
    /\ DOMAIN o.locals = DOMAIN m.locals /\ Len(o.locals) = Len(m.locals)
    /\ \A k \in DOMAIN m.locals :
          /\ DOMAIN o.locals[k] = DOMAIN m.locals[k]
          /\ \A n \in DOMAIN m.locals[k] \ S : o.locals[k][n] = m.locals[k][n]

LEMMA AgreeFields ==
    ASSUME NEW m, NEW o, NEW S, Agree(m, o, S)
    PROVE  /\ o = [locals |-> o.locals, pending |-> m.pending, unset |-> m.unset,
                   params |-> m.params, borrowed |-> m.borrowed, owned |-> m.owned, temps |-> m.temps,
                   heads |-> m.heads, deferred |-> m.deferred, next |-> m.next, diverged |-> m.diverged,
                   returns |-> m.returns, insts |-> m.insts]
           /\ o.pending = m.pending /\ o.unset = m.unset /\ o.params = m.params
           /\ o.borrowed = m.borrowed /\ o.owned = m.owned /\ o.temps = m.temps
           /\ o.heads = m.heads /\ o.deferred = m.deferred /\ o.next = m.next
           /\ o.diverged = m.diverged /\ o.returns = m.returns /\ o.insts = m.insts
BY DEF Agree, IsLowerer

\* a is m with the instructions T, the owned values O and the next value K.
Sets(m, a, T, O, K) == a = [m EXCEPT !.insts = T, !.owned = O, !.next = K]

LEMMA WithInsts ==
    ASSUME NEW m, IsLowerer(m), NEW T, NEW O, NEW K, NEW a, Sets(m, a, T, O, K)
    PROVE  /\ a.locals = m.locals /\ IsLowerer(a) /\ a.next = K
           /\ a = [locals |-> m.locals, pending |-> m.pending, unset |-> m.unset,
                   params |-> m.params, borrowed |-> m.borrowed, owned |-> O, temps |-> m.temps,
                   heads |-> m.heads, deferred |-> m.deferred, next |-> K, diverged |-> m.diverged,
                   returns |-> m.returns, insts |-> T]
<1>1. a = [locals |-> m.locals, pending |-> m.pending, unset |-> m.unset,
           params |-> m.params, borrowed |-> m.borrowed, owned |-> O, temps |-> m.temps,
           heads |-> m.heads, deferred |-> m.deferred, next |-> K, diverged |-> m.diverged,
           returns |-> m.returns, insts |-> T]
  <2> DEFINE p == m.locals
             p1 == m.pending
             p2 == m.unset
             p3 == m.params
             p4 == m.borrowed
             p5 == m.owned
             p6 == m.temps
             p7 == m.heads
             p8 == m.deferred
             p9 == m.next
             pa == m.diverged
             pb == m.returns
             pc == m.insts
  <2>1. m = [locals |-> p, pending |-> p1, unset |-> p2, params |-> p3, borrowed |-> p4, owned |-> p5,
             temps |-> p6, heads |-> p7, deferred |-> p8, next |-> p9, diverged |-> pa,
             returns |-> pb, insts |-> pc]
    BY DEF IsLowerer
  <2> HIDE DEF p, p1, p2, p3, p4, p5, p6, p7, p8, p9, pa, pb, pc
  <2>2. a = [locals |-> p, pending |-> p1, unset |-> p2, params |-> p3, borrowed |-> p4, owned |-> O,
             temps |-> p6, heads |-> p7, deferred |-> p8, next |-> K, diverged |-> pa,
             returns |-> pb, insts |-> T]
    BY <2>1 DEF Sets
  <2> QED BY <2>2 DEF p, p1, p2, p3, p4, p5, p6, p7, p8, p9, pa, pb, pc
<1> QED BY <1>1 DEF IsLowerer

\* o is m with the scopes f.
Scopes(m, o, f) == o = [m EXCEPT !.locals = f]

LEMMA WithInstsToo ==
    ASSUME NEW m, IsLowerer(m), NEW T, NEW O, NEW K, NEW a, Sets(m, a, T, O, K),
           NEW f, NEW o, Scopes(m, o, f), NEW b, Sets(o, b, T, O, K)
    PROVE  b = [a EXCEPT !.locals = f] /\ b.locals = f
  <1>0. o = [locals |-> f, pending |-> m.pending, unset |-> m.unset,
             params |-> m.params, borrowed |-> m.borrowed, owned |-> m.owned, temps |-> m.temps,
             heads |-> m.heads, deferred |-> m.deferred, next |-> m.next, diverged |-> m.diverged,
             returns |-> m.returns, insts |-> m.insts]
    BY DEF IsLowerer, Scopes
  <1>5. b = [locals |-> f, pending |-> m.pending, unset |-> m.unset,
             params |-> m.params, borrowed |-> m.borrowed, owned |-> O, temps |-> m.temps,
             heads |-> m.heads, deferred |-> m.deferred, next |-> K, diverged |-> m.diverged,
             returns |-> m.returns, insts |-> T]
    <2>1. IsLowerer(o) /\ o.locals = f
      BY <1>0 DEF IsLowerer
    <2>2. b = [locals |-> o.locals, pending |-> o.pending, unset |-> o.unset,
             params |-> o.params, borrowed |-> o.borrowed, owned |-> O, temps |-> o.temps,
             heads |-> o.heads, deferred |-> o.deferred, next |-> K, diverged |-> o.diverged,
             returns |-> o.returns, insts |-> T]
      BY <2>1, WithInsts
    <2> QED BY <1>0, <2>2
  <1> DEFINE p == m.locals
             p1 == m.pending
             p2 == m.unset
             p3 == m.params
             p4 == m.borrowed
             p5 == m.owned
             p6 == m.temps
             p7 == m.heads
             p8 == m.deferred
             p9 == m.next
             pa == m.diverged
             pb == m.returns
             pc == m.insts
  <1>1. m = [locals |-> p, pending |-> p1, unset |-> p2, params |-> p3, borrowed |-> p4, owned |-> p5,
             temps |-> p6, heads |-> p7, deferred |-> p8, next |-> p9, diverged |-> pa,
             returns |-> pb, insts |-> pc]
    BY DEF IsLowerer
  <1> HIDE DEF p, p1, p2, p3, p4, p5, p6, p7, p8, p9, pa, pb, pc
  <1>2. a = [locals |-> p, pending |-> p1, unset |-> p2, params |-> p3, borrowed |-> p4, owned |-> O,
             temps |-> p6, heads |-> p7, deferred |-> p8, next |-> K, diverged |-> pa,
             returns |-> pb, insts |-> T]
    BY <1>1 DEF Sets
  <1>4. b = [locals |-> f, pending |-> p1, unset |-> p2, params |-> p3, borrowed |-> p4, owned |-> O,
             temps |-> p6, heads |-> p7, deferred |-> p8, next |-> K, diverged |-> pa,
             returns |-> pb, insts |-> T]
    BY <1>5 DEF p, p1, p2, p3, p4, p5, p6, p7, p8, p9, pa, pb, pc
  <1> QED BY <1>2, <1>4

LEMMA DefineSets ==
    ASSUME NEW m, IsLowerer(m), NEW op, NEW v
    PROVE  Sets(m, Define(m, op, v), Append(m.insts, [op |-> op, src |-> v, dst |-> m.next]), m.owned, m.next + 1)
<1> DEFINE T == Append(m.insts, [op |-> op, src |-> v, dst |-> m.next])
           K == m.next + 1
           O == m.owned
<1>1. Define(m, op, v) = [m EXCEPT !.insts = T, !.next = K]
  BY DEF Define
<1> HIDE DEF T, K
<1>2. m = [m EXCEPT !.owned = O]
  BY DEF IsLowerer
<1>3. [m EXCEPT !.insts = T, !.next = K] = [[m EXCEPT !.owned = O] EXCEPT !.insts = T, !.next = K]
  BY <1>2
<1>4. [[m EXCEPT !.owned = O] EXCEPT !.insts = T, !.next = K] = [m EXCEPT !.insts = T, !.owned = O, !.next = K]
  BY DEF IsLowerer
<1> QED BY <1>1, <1>3, <1>4 DEF Sets, T, K

LEMMA DefineAgrees ==
    ASSUME NEW m, NEW o, NEW S, Agree(m, o, S), NEW op, NEW v
    PROVE  Agree(Define(m, op, v), Define(o, op, v), S)
<1> DEFINE T == Append(m.insts, [op |-> op, src |-> v, dst |-> m.next])
           K == m.next + 1
           a == Define(m, op, v)
           b == Define(o, op, v)
<1>1. /\ o = [m EXCEPT !.locals = o.locals] /\ IsLowerer(m)
  BY DEF Agree
<1>2. o.insts = m.insts /\ o.next = m.next
  BY AgreeFields
<1>3. Sets(m, a, T, m.owned, K) /\ Sets(o, b, T, m.owned, K)
  <2>1. IsLowerer(o) /\ o.owned = m.owned
    BY <1>1, AgreeFields DEF IsLowerer
  <2> QED BY <1>1, <1>2, <2>1, DefineSets
<1> HIDE DEF a, b, T, K
<1>4. a.locals = m.locals /\ IsLowerer(a)
  BY <1>1, <1>3, WithInsts
<1>5. b = [a EXCEPT !.locals = o.locals] /\ b.locals = o.locals
  BY <1>1, <1>3, WithInstsToo DEF Scopes
<1>6. Agree(a, b, S)
  BY <1>4, <1>5 DEF Agree
<1> QED BY <1>6 DEF a, b

LEMMA MarkAgrees ==
    ASSUME NEW m, NEW o, NEW S, Agree(m, o, S), NEW v
    PROVE  /\ Agree(MarkOwned(m, v), MarkOwned(o, v), S)
           /\ Agree([m EXCEPT !.heads = @ \cup {v}], [o EXCEPT !.heads = @ \cup {v}], S)
<1> DEFINE a == MarkOwned(m, v)
           b == MarkOwned(o, v)
           c == [m EXCEPT !.heads = @ \cup {v}]
           d == [o EXCEPT !.heads = @ \cup {v}]
<1>1. /\ o = [m EXCEPT !.locals = o.locals] /\ IsLowerer(m)
  BY DEF Agree
<1>2. o.owned = m.owned /\ o.heads = m.heads
  BY AgreeFields
<1>3. a.locals = m.locals /\ b.locals = o.locals /\ c.locals = m.locals /\ d.locals = o.locals
  BY <1>1, AgreeFields DEF MarkOwned, IsLowerer
<1>4. IsLowerer(a) /\ IsLowerer(c)
  BY <1>1 DEF MarkOwned, IsLowerer
<1>5. b = [a EXCEPT !.locals = b.locals]
  BY <1>1, <1>2, <1>3 DEF MarkOwned, IsLowerer
<1>6. d = [c EXCEPT !.locals = d.locals]
  BY <1>1, <1>2, <1>3 DEF IsLowerer
<1> HIDE DEF a, b, c, d
<1>7. Agree(a, b, S)
  BY <1>3, <1>4, <1>5 DEF Agree
<1>8. Agree(c, d, S)
  BY <1>3, <1>4, <1>6 DEF Agree
<1> QED BY <1>7, <1>8 DEF a, b, c, d

LEMMA LetAgrees ==
    ASSUME NEW m, NEW o, NEW S, Agree(m, o, S), NEW b, Len(m.locals) \in DOMAIN m.locals
    PROVE  LET p == LetValue(m, b)
               q == LetValue(o, b)
           IN  /\ q = [p EXCEPT !.locals = q.locals] /\ IsLowerer(p)
               /\ DOMAIN q.locals = DOMAIN p.locals
               /\ \A k \in DOMAIN p.locals :
                     /\ DOMAIN q.locals[k] = DOMAIN p.locals[k]
                     /\ \A n \in DOMAIN p.locals[k] \ S : q.locals[k][n] = p.locals[k][n]
<1> DEFINE p == LetValue(m, b)
           q == LetValue(o, b)
           n == FreeName(m)
           N == Len(m.locals)
           c == Binding(b)
<1>1. CASE b.ty = "Unit"
  BY <1>1 DEF Agree, LetValue
<1>2. CASE b.ty # "Unit"
  <2>1. o.pending = m.pending
    BY AgreeFields
  <2>2. Declared(o) = Declared(m)
    <3>1. {DOMAIN o.locals[i] : i \in DOMAIN o.locals} = {DOMAIN m.locals[i] : i \in DOMAIN m.locals}
      BY DEF Agree
    <3> QED BY <2>1, <3>1 DEF Declared
  <2>3. FreeName(o) = n /\ Len(o.locals) = N
    BY <2>2 DEF FreeName, Agree
  <2>4. /\ p = [m EXCEPT !.locals[N] = Put(@, n, c)]
        /\ q = [o EXCEPT !.locals[N] = Put(@, n, c)]
    BY <1>2, <2>3 DEF LetValue, BindLocal, BindAt
  <2> DEFINE f == [m.locals EXCEPT ![N] = Put(m.locals[N], n, c)]
             g == [o.locals EXCEPT ![N] = Put(o.locals[N], n, c)]
  <2>5. p = [m EXCEPT !.locals = f] /\ q = [o EXCEPT !.locals = g]
    BY <2>4
  <2> HIDE DEF p, q, n, c, N
  <2>6. /\ DOMAIN f = DOMAIN m.locals /\ DOMAIN g = DOMAIN m.locals
        /\ \A k \in DOMAIN m.locals :
              /\ k = N => f[k] = Put(m.locals[k], n, c) /\ g[k] = Put(o.locals[k], n, c)
              /\ k # N => f[k] = m.locals[k] /\ g[k] = o.locals[k]
    BY DEF Agree
  <2> HIDE DEF f, g
  <2>7. p.locals = f /\ q.locals = g /\ IsLowerer(p) /\ q = [p EXCEPT !.locals = g]
    BY <2>5, AgreeFields DEF Agree, IsLowerer
  <2>8. ASSUME NEW k \in DOMAIN m.locals
        PROVE  DOMAIN g[k] = DOMAIN f[k] /\ \A x \in DOMAIN f[k] \ S : g[k][x] = f[k][x]
    <3>1. DOMAIN o.locals[k] = DOMAIN m.locals[k] /\ \A x \in DOMAIN m.locals[k] \ S : o.locals[k][x] = m.locals[k][x]
      BY DEF Agree
    <3>2. CASE k # N
      BY <2>6, <3>1, <3>2
    <3>3. CASE k = N
      <4>1. f[k] = Put(m.locals[k], n, c) /\ g[k] = Put(o.locals[k], n, c)
        BY <2>6, <3>3
      <4>2. /\ DOMAIN f[k] = DOMAIN m.locals[k] \cup {n} /\ DOMAIN g[k] = DOMAIN o.locals[k] \cup {n}
            /\ \A x \in DOMAIN m.locals[k] \cup {n} : f[k][x] = IF x = n THEN c ELSE m.locals[k][x]
            /\ \A x \in DOMAIN o.locals[k] \cup {n} : g[k][x] = IF x = n THEN c ELSE o.locals[k][x]
        BY <4>1 DEF Put
      <4> QED BY <3>1, <4>2
    <3> QED BY <3>2, <3>3
  <2> QED BY <2>6, <2>7, <2>8 DEF p, q
<1> QED BY <1>1, <1>2

LEMMA BlockParamsSame ==
    ASSUME NEW p, NEW q, NEW from, q = [p EXCEPT !.locals = q.locals], IsLowerer(p),
           DOMAIN q.locals = DOMAIN p.locals,
           \A k \in DOMAIN p.locals :
              /\ DOMAIN q.locals[k] = DOMAIN p.locals[k]
              /\ \A n \in DOMAIN p.locals[k] \ DOMAIN from : q.locals[k][n] = p.locals[k][n]
    PROVE  BlockParams(q, from) = BlockParams(p, from)
<1> DEFINE names == SetToSeq(DOMAIN from)
           at(n) == CHOOSE i \in DOMAIN names : names[i] = n
           Par(l, n) == l.next - 1 + at(n)
           t(l) == [i \in DOMAIN names |-> [op |-> "Param", src |-> from[names[i]].v, dst |-> Par(l, names[i])]]
           h(l) == [l EXCEPT !.insts = @ \o t(l), !.owned = @ \cup {Par(l, n) : n \in DOMAIN from},
                             !.next = @ + Len(names)]
           b(l) == [n \in DOMAIN from |-> [v |-> Par(l, n), ty |-> "Text"]]
<1>1. \A l : BlockParams(l, from) = RebindAll(h(l), b(l))
  BY DEF BlockParams
<1>2. q.next = p.next /\ q.insts = p.insts /\ q.owned = p.owned
  BY DEF IsLowerer
<1> HIDE DEF names, at
<1>3. t(q) = t(p) /\ b(q) = b(p) /\ {Par(q, n) : n \in DOMAIN from} = {Par(p, n) : n \in DOMAIN from}
  BY <1>2
<1> DEFINE T == t(p)
           B == b(p)
           O == {Par(p, n) : n \in DOMAIN from}
           f == [i \in DOMAIN p.locals |-> [n \in DOMAIN p.locals[i] |->
                    IF n \in DOMAIN B THEN B[n] ELSE p.locals[i][n]]]
           g == [i \in DOMAIN q.locals |-> [n \in DOMAIN q.locals[i] |->
                    IF n \in DOMAIN B THEN B[n] ELSE q.locals[i][n]]]
           I == p.insts \o T
           W == p.owned \cup O
           X == p.next + Len(names)
           hp == [p EXCEPT !.insts = I, !.owned = W, !.next = X]
           hq == [q EXCEPT !.insts = I, !.owned = W, !.next = X]
<1>4. hp = h(p) /\ hq = h(q)
  BY <1>2, <1>3
<1>5. DOMAIN B = DOMAIN from
  OBVIOUS
<1> HIDE DEF T, B, O, I, W, X
<1>6. f = g
  BY <1>5
<1> HIDE DEF f, g
<1>7. hq = [hp EXCEPT !.locals = q.locals] /\ hp.locals = p.locals /\ hq.locals = q.locals /\ IsLowerer(hp)
  <2>1. hp.locals = p.locals /\ IsLowerer(hp) /\ hq = [hp EXCEPT !.locals = q.locals]
    <3>1. Sets(p, hp, I, W, X) /\ Sets(q, hq, I, W, X)
      BY DEF Sets
    <3> HIDE DEF hp, hq
    <3>2. hp.locals = p.locals /\ IsLowerer(hp)
      BY <3>1, WithInsts
    <3> DEFINE there == q.locals
    <3>3. Scopes(p, q, there)
      BY DEF Scopes
    <3> HIDE DEF there
    <3>4. hq = [hp EXCEPT !.locals = there]
      BY <3>1, <3>3, WithInstsToo
    <3> QED BY <3>2, <3>4 DEF there
  <2> HIDE DEF hp, hq
  <2> QED BY <2>1 DEF IsLowerer
<1> HIDE DEF hp, hq
<1>8. RebindAll(hp, B) = [hp EXCEPT !.locals = f] /\ RebindAll(hq, B) = [hq EXCEPT !.locals = g]
  BY <1>7 DEF RebindAll, f, g
<1>9. [hq EXCEPT !.locals = g] = [hp EXCEPT !.locals = f]
  BY <1>6, <1>7 DEF IsLowerer
<1>10. BlockParams(p, from) = RebindAll(hp, B)
  BY <1>1, <1>4 DEF B
<1>11. BlockParams(q, from) = RebindAll(hq, B)
  BY <1>1, <1>3, <1>4 DEF B
<1> QED BY <1>8, <1>9, <1>10, <1>11

\* The arm a merge takes its values from.
Fed(then, els) == IF els.diverged \/ (Inner.taken /\ ~then.diverged) THEN then ELSE els
JoinOf(l, then, els) ==
    LET from == Fed(then, els)
        r == Define(l, "Param", from.v)
    IN CASE from.ty = "Text" -> MarkOwned(r, l.next)
         [] from.ty = "Flat" /\ (then.owns \/ els.owns) -> [r EXCEPT !.heads = @ \cup {l.next}]
         [] OTHER -> r
Joined(l, then, els) ==
    LET from == Fed(then, els)
    IN IF from.ty = "Unit" THEN l ELSE LetValue(JoinOf(l, then, els), [v |-> l.next, ty |-> from.ty])

LEMMA MergeIs ==
    ASSUME NEW l, NEW then, NEW els
    PROVE  Merge(l, then, els) = BlockParams(Joined(l, then, els), Fed(then, els).carried)
BY DEF Merge, Joined, JoinOf, Fed

LEMMA MergeSame ==
    ASSUME NEW m, NEW o, NEW then, NEW els, Agree(m, o, DOMAIN Fed(then, els).carried),
           Len(m.locals) \in DOMAIN m.locals
    PROVE  Merge(o, then, els) = Merge(m, then, els)
<1> DEFINE from == Fed(then, els)
           S == DOMAIN from.carried
           p == Joined(m, then, els)
           q == Joined(o, then, els)
<1>1. o.next = m.next
  BY AgreeFields
<1>2. Agree(Define(m, "Param", from.v), Define(o, "Param", from.v), S)
  BY DefineAgrees
<1>3. Agree(JoinOf(m, then, els), JoinOf(o, then, els), S)
  <2> DEFINE a == Define(m, "Param", from.v)
             b == Define(o, "Param", from.v)
  <2> HIDE DEF a, b
  <2>1. /\ Agree(a, b, S) /\ Agree(MarkOwned(a, m.next), MarkOwned(b, o.next), S)
        /\ Agree([a EXCEPT !.heads = @ \cup {m.next}], [b EXCEPT !.heads = @ \cup {o.next}], S)
    BY <1>1, <1>2, MarkAgrees DEF a, b
  <2>2. CASE from.ty = "Text"
    BY <2>1, <2>2 DEF JoinOf, a, b
  <2>3. CASE from.ty = "Flat" /\ (then.owns \/ els.owns)
    BY <2>1, <2>3 DEF JoinOf, a, b
  <2>4. CASE ~(from.ty = "Text") /\ ~(from.ty = "Flat" /\ (then.owns \/ els.owns))
    BY <2>1, <2>4 DEF JoinOf, a, b
  <2> QED BY <2>2, <2>3, <2>4
<1>4. Len(JoinOf(m, then, els).locals) \in DOMAIN JoinOf(m, then, els).locals
  <2>1. JoinOf(m, then, els).locals = m.locals
    <3>1. IsLowerer(m)
      BY DEF Agree
    <3> DEFINE a == Define(m, "Param", from.v)
    <3>2. a.locals = m.locals /\ IsLowerer(a)
      <4>1. Sets(m, a, Append(m.insts, [op |-> "Param", src |-> from.v, dst |-> m.next]), m.owned, m.next + 1)
        BY <3>1, DefineSets
      <4> HIDE DEF a
      <4> QED BY <3>1, <4>1, WithInsts
    <3> HIDE DEF a
    <3>3. /\ MarkOwned(a, m.next).locals = m.locals
          /\ [a EXCEPT !.heads = @ \cup {m.next}].locals = m.locals
      BY <3>2 DEF MarkOwned, IsLowerer
    <3> QED BY <3>2, <3>3 DEF JoinOf, a
  <2> QED BY <2>1
<1>5. /\ q = [p EXCEPT !.locals = q.locals] /\ IsLowerer(p)
      /\ DOMAIN q.locals = DOMAIN p.locals
      /\ \A k \in DOMAIN p.locals :
            /\ DOMAIN q.locals[k] = DOMAIN p.locals[k]
            /\ \A n \in DOMAIN p.locals[k] \ S : q.locals[k][n] = p.locals[k][n]
  <2>1. CASE from.ty = "Unit"
    BY <2>1 DEF Joined, Agree
  <2>2. CASE from.ty # "Unit"
    BY <1>1, <1>3, <1>4, <2>2, LetAgrees DEF Joined
  <2> QED BY <2>1, <2>2
<1> HIDE DEF p, q
<1>6. BlockParams(q, from.carried) = BlockParams(p, from.carried)
  BY <1>5, BlockParamsSame
<1> QED BY <1>6, MergeIs DEF p, q

LEMMA JoinEmits ==
    ASSUME NEW D, NEW x, Good(D, x), NEW then, NEW els, Fed(then, els).v \in Avail(D, x)
    PROVE  LET j == JoinOf(x, then, els)
           IN  Emits(D, x, j) /\ x.next \in Avail(D, j) /\ x.next \in Nat
<1> DEFINE v == Fed(then, els).v
           r == Define(x, "Param", v)
           h == [r EXCEPT !.heads = @ \cup {x.next}]
<1>1. /\ Good(D, r) /\ Emits(D, x, r) /\ x.next \in Avail(D, r) /\ x.next \in Nat /\ r.next = x.next + 1
  <2>1. "Param" \in DefiningOps
    BY DEF DefiningOps
  <2>2. v \in Avail(D, x)
    OBVIOUS
  <2> HIDE DEF h, v
  <2> QED BY <2>1, <2>2, FreshGoes
<1>2. r.heads \in SUBSET Nat /\ r \in Lowerers
  BY <1>1, GoodTypes
<1> HIDE DEF r
<1>3. Emits(D, x, MarkOwned(r, x.next)) /\ x.next \in Avail(D, MarkOwned(r, x.next))
  <2>1. Goes(D, x, MarkOwned(r, x.next))
    BY <1>1, OwnGoes DEF Emits
  <2>2. MarkOwned(r, x.next).deferred = r.deferred /\ MarkOwned(r, x.next).insts = r.insts
    BY <1>2 DEF MarkOwned, Lowerers
  <2> QED BY <1>1, <2>1, <2>2 DEF Emits, Avail
<1>4. Emits(D, x, h) /\ x.next \in Avail(D, h)
  <2> DEFINE H == r.heads \cup {x.next}
  <2>1. H \in SUBSET Nat /\ \A y \in H : y \in r.heads \/ y \in x.next .. r.next - 1
    BY <1>1, <1>2
  <2> HIDE DEF H
  <2>2. Goes(D, x, [r EXCEPT !.heads = H])
    BY <1>1, <2>1, HeadGoes DEF Emits
  <2>3. h = [r EXCEPT !.heads = H]
    BY DEF H
  <2>4. h.deferred = r.deferred /\ h.insts = r.insts
    BY <1>2, <2>3 DEF Lowerers
  <2> HIDE DEF h
  <2> QED BY <1>1, <2>2, <2>3, <2>4 DEF Emits, Avail
<1> QED BY <1>1, <1>3, <1>4 DEF JoinOf, r

\* What a merge leaves of the scopes.
Merged(x, m, names) ==
    /\ m.deferred = x.deferred /\ m.diverged = x.diverged /\ m.returns = x.returns
    /\ Len(m.locals) = Len(x.locals) /\ Scoped(m) /\ m.pending = x.pending
    /\ \A k \in 1 .. Len(x.locals) - 1 :
          /\ DOMAIN m.locals[k] = DOMAIN x.locals[k]
          /\ \A n \in DOMAIN x.locals[k] : n \in names \/ m.locals[k][n] = x.locals[k][n]

\* What a merge takes from an arm is there.
Feeds(D, x, then, els) ==
    LET from == Fed(then, els)
    IN  /\ from \in Arms
        /\ from.ty # "Unit" => from.v \in Avail(D, x)
        /\ \A n \in DOMAIN from.carried : from.carried[n].v \in Avail(D, x)

LEMMA MergeMoves ==
    ASSUME NEW D, NEW x, Good(D, x), Scoped(x), Names \ DeclaredTo(x, Len(x.locals)) # {},
           NEW then, NEW els, Feeds(D, x, then, els)
    PROVE  LET m == Merge(x, then, els)
           IN  /\ Moves(D, x, m) /\ Merged(x, m, DOMAIN Fed(then, els).carried)
               /\ m \in Lowerers
<1> DEFINE from == Fed(then, els)
           j == Joined(x, then, els)
           m == Merge(x, then, els)
           N == Len(x.locals)
<1>1. /\ x \in Lowerers /\ x.next \in Nat /\ N \in Nat /\ N > 0 /\ Len(x.pending) = N
  BY GoodTypes DEF Scoped, Lowerers
<1>2. /\ from \in Arms /\ from.ty \in Types
      /\ from.ty # "Unit" => from.v \in Avail(D, x)
      /\ \A n \in DOMAIN from.carried : from.carried[n].v \in Avail(D, x)
      /\ DOMAIN from.carried \in SUBSET Names
  BY ArmTypes DEF Feeds
<1> HIDE DEF from
<1>3. Moves(D, x, j) /\ Lets(x, j)
  <2>1. CASE from.ty = "Unit"
    <3>1. j = x
      BY <2>1 DEF Joined, from
    <3>2. Moves(D, x, x)
      BY GoesSame DEF Goes
    <3> QED BY <3>1, <3>2 DEF Lets
  <2>2. CASE from.ty # "Unit"
    <3> DEFINE w == JoinOf(x, then, els)
               b == [v |-> x.next, ty |-> from.ty]
    <3>1. Emits(D, x, w) /\ x.next \in Avail(D, w)
      BY <1>2, <2>2, JoinEmits DEF from
    <3>2. j = LetValue(w, b)
      BY <2>2 DEF Joined, from
    <3> HIDE DEF w
    <3>3. Good(D, w) /\ Moves(D, x, w) /\ SameScopes(x, w) /\ w.deferred = x.deferred
      BY <3>1, EmitsGood DEF Emits, Goes
    <3>4. Letable(D, w, b)
      <4>1. Binding(b) \in Bnds
        BY <1>1, <1>2, <2>2 DEF Binding, Bnds, Types
      <4>2. ASSUME NEW k \in 1 .. Len(w.deferred) PROVE w.deferred[k].flat # x.next
        <5>1. k \in 1 .. Len(x.deferred) /\ w.deferred[k] = x.deferred[k]
          BY <3>3
        <5>2. x.deferred[k].flat < x.next
          BY <5>1 DEF Good, BorrowersIn, Borrows
        <5> QED BY <1>1, <5>1, <5>2
      <4> QED BY <3>1, <4>1, <4>2 DEF Letable
    <3>5. w.locals = x.locals /\ w.pending = x.pending
      BY <3>3 DEF SameScopes
    <3>6. Len(w.locals) > 0 /\ Len(w.pending) = Len(w.locals) /\ Names \ DeclaredTo(w, Len(w.locals)) # {}
      BY <1>1, <3>5 DEF DeclaredTo
    <3> HIDE DEF b
    <3>7. Moves(D, x, LetValue(w, b)) /\ Lets(w, LetValue(w, b))
      BY <3>3, <3>4, <3>6, LetMoves
    <3>8. Lets(x, LetValue(w, b))
      <4>1. Scoped(x) => Scoped(w)
        BY <3>5 DEF Scoped
      <4>2. w.diverged = x.diverged /\ w.returns = x.returns
        BY <3>3 DEF SameScopes
      <4> QED BY <3>3, <3>5, <3>7, <4>1, <4>2 DEF Lets
    <3> QED BY <3>2, <3>7, <3>8
  <2> QED BY <2>1, <2>2
<1>4. m = BlockParams(j, from.carried)
  BY MergeIs DEF from
<1> HIDE DEF j, m
<1>5. Good(D, j) /\ Avail(D, x) \subseteq Avail(D, j)
  BY <1>3 DEF Moves, AvailFrom
<1>6. Moves(D, j, m) /\ Params(D, j, m, DOMAIN from.carried)
  <2> DEFINE c == from.carried
  <2>1. DOMAIN c \in SUBSET Names /\ \A n \in DOMAIN c : c[n].v \in Avail(D, j)
    BY <1>2, <1>5
  <2> HIDE DEF c
  <2>2. Moves(D, j, BlockParams(j, c)) /\ Params(D, j, BlockParams(j, c), DOMAIN c)
    BY <1>5, <2>1, BlockParamsMoves
  <2> QED BY <1>4, <2>2 DEF c
<1>7. Moves(D, x, m)
  BY <1>1, <1>3, <1>6, MovesOn
<1>8. Scoped(m)
  <2>1. SameShape(j, m)
    BY <1>6 DEF Params, SameShape
  <2> QED BY <1>3, <2>1, SameShapeScoped DEF Lets
<1>9. Merged(x, m, DOMAIN from.carried)
  <2> SUFFICES ASSUME NEW k \in 1 .. N - 1
               PROVE  /\ DOMAIN m.locals[k] = DOMAIN x.locals[k]
                      /\ \A n \in DOMAIN x.locals[k] :
                            n \in DOMAIN from.carried \/ m.locals[k][n] = x.locals[k][n]
    BY <1>3, <1>6, <1>8 DEF Merged, Lets, Params
  <2>1. j.locals[k] = x.locals[k] /\ Len(j.locals) = N /\ k \in 1 .. N
    BY <1>1, <1>3 DEF Lets
  <2> QED BY <1>6, <2>1 DEF Params
<1>10. m \in Lowerers
  BY <1>7, GoodTypes DEF Moves
<1> QED BY <1>7, <1>9, <1>10 DEF from, m

\* The merge follows the arms.
Merges(x, st, W, lv, lo, then, els, U, z) ==
    /\ State(x, st, W, lv, lo) /\ x.insts = << >> /\ lv \in BOOLEAN /\ ~x.diverged
    /\ Names \ DeclaredTo(x, Len(x.locals)) # {}
    /\ Feeds(Basis(x, W, lv), x, then, els)
    /\ \A i \in lo + 1 .. Len(st) :
          Carries(st[i]) =>
             DOMAIN Fed(then, els).carried \cap BoundTo(x, i - lo) \subseteq DOMAIN st[i].carried
    /\ Unsets(Merge(x, then, els), z, U)

LEMMA MergedState ==
    ASSUME NEW x, NEW st, NEW W, NEW lv, NEW lo, NEW then, NEW els, NEW U, NEW z,
           Merges(x, st, W, lv, lo, then, els, U, z)
    PROVE  LET W2 == After(z, W, lv)
           IN  /\ State(Ended(z), st, W2, lv, lo) /\ z \in Lowerers
               /\ lv => Sound(W, z.insts) /\ W2 = W \cup Defs(z.insts)
<1> DEFINE D == Basis(x, W, lv)
           m == Merge(x, then, els)
           S == DOMAIN Fed(then, els).carried
           hi == Len(st)
           N == Len(x.locals)
           W2 == After(z, W, lv)
           f == Ended(z)
<1>1. /\ State(x, st, W, lv, lo) /\ x.insts = << >> /\ lv \in BOOLEAN /\ ~x.diverged
      /\ Names \ DeclaredTo(x, N) # {} /\ Feeds(D, x, then, els) /\ Unsets(m, z, U)
      /\ \A i \in lo + 1 .. hi : Carries(st[i]) => S \cap BoundTo(x, i - lo) \subseteq DOMAIN st[i].carried
  BY DEF Merges
<1>2. /\ Stack(st, lo) /\ Ready(x, W, lv) /\ Numbered(W, x.next) /\ Frame(x, st, lo, hi) /\ Chain(st, lv)
      /\ Scoped(x) /\ N = hi - lo + 1
  BY <1>1 DEF State, Frame
<1>3. /\ hi \in Nat /\ lo \in Nat /\ lo \in 1 .. hi /\ lo <= hi
      /\ DOMAIN st = 1 .. hi /\ st = [i \in 1 .. hi |-> st[i]] /\ hi <= Len(st)
  BY <1>2, StackTypes DEF Stack
<1>4. Good(D, x) /\ x \in Lowerers
  BY <1>1, <1>2, BasisIsGood DEF Ready
<1>5. Moves(D, x, m) /\ Merged(x, m, S)
  BY <1>1, <1>2, <1>4, MergeMoves
<1> HIDE DEF m, S
<1>6. /\ Moves(D, x, z) /\ z \in Lowerers /\ z.locals = m.locals /\ z.pending = m.pending
      /\ z.deferred = m.deferred /\ z.diverged = m.diverged
  BY <1>1, <1>5, UnsetMoves
<1>7. /\ z.deferred = x.deferred /\ z.diverged = x.diverged
      /\ Len(z.locals) = N /\ z.pending = x.pending
      /\ \A k \in 1 .. N - 1 :
            /\ DOMAIN z.locals[k] = DOMAIN x.locals[k]
            /\ \A n \in DOMAIN x.locals[k] : n \in S \/ z.locals[k][n] = x.locals[k][n]
  BY <1>5, <1>6 DEF Merged
<1>8. Scoped(z)
  BY <1>5, <1>6 DEF Merged, Scoped
<1>9. (lv => lv) /\ (lv => ~z.diverged) /\ (z.diverged => z.returns \in Types)
  BY <1>1, <1>7
<1>10. /\ Ready(z, W2, lv) /\ Numbered(W2, z.next) /\ x.next <= z.next
       /\ W \subseteq W2 /\ \A d \in W2 : d \in W \/ d >= x.next
       /\ lv => Sound(W, z.insts) /\ W2 = W \cup Defs(z.insts)
  BY <1>1, <1>2, <1>6, <1>9, MovesReady
<1> HIDE DEF W2, D
<1>11. Keeps(x, z, st, lo, hi, hi)
  <2> SUFFICES ASSUME NEW i \in lo + 1 .. hi
               PROVE  KeepsDeferred(x, z, st, i, hi, hi) /\ KeepsScopes(x, z, st[i], i - lo)
    BY DEF Keeps
  <2>1. Below(x, st[i], i - lo) /\ st[i] \in Blocks
    BY <1>2 DEF Frame, Below
  <2>2. \A k : Inside(z, st, i, hi, k) = Inside(x, st, i, hi, k)
    BY <1>1, <1>7 DEF Inside
  <2>3. KeepsDeferred(x, z, st, i, hi, hi)
    <3>1. st[i].kind = "if" => st[i].mark <= Len(x.deferred)
      BY <2>1 DEF Below
    <3>2. Len(x.deferred) \in Nat
      BY <1>4 DEF Lowerers
    <3> QED BY <1>7, <2>2, <3>1, <3>2 DEF KeepsDeferred
  <2>4. \A k \in 1 .. i - lo : k \in 1 .. N - 1
    BY <1>2, <1>3
  <2>5. DeclaredTo(z, i - lo) = DeclaredTo(x, i - lo) /\ BoundTo(z, i - lo) = BoundTo(x, i - lo)
    BY <1>7, <2>4 DEF DeclaredTo, BoundTo
  <2>6. ASSUME Carries(st[i]), NEW k \in 1 .. i - lo, NEW n \in DOMAIN z.locals[k]
        PROVE  n \in DOMAIN st[i].carried \/ (n \in DOMAIN x.locals[k] /\ z.locals[k][n] = x.locals[k][n])
    <3>1. k \in 1 .. N - 1 /\ n \in DOMAIN x.locals[k] /\ (n \in S \/ z.locals[k][n] = x.locals[k][n])
      BY <1>7, <2>4
    <3>2. n \in Names
      <4>1. k \in 1 .. N
        BY <1>2, <1>3, <3>1
      <4> QED BY <1>4, <3>1, <4>1, LayerTypes
    <3>3. n \in BoundTo(x, i - lo)
      BY <3>1, <3>2 DEF BoundTo
    <3> QED BY <1>1, <2>6, <3>1, <3>3
  <2>7. KeepsScopes(x, z, st[i], i - lo)
    BY <2>5, <2>6 DEF KeepsScopes
  <2> QED BY <2>3, <2>7
<1>12. /\ Ready(f, W2, lv) /\ Numbered(W2, f.next) /\ x.next <= f.next /\ f.locals = z.locals
       /\ BorrowersFrom(x, f) /\ Scoped(f) /\ Keeps(x, f, st, lo, hi, hi)
  <2>1. BorrowersFrom(x, z)
    BY <1>6 DEF Moves
  <2> QED BY <1>6, <1>8, <1>10, <1>11, <2>1, EndedReady, EndedTypes, EndedKeeps
<1>13. Len(f.locals) = hi - lo + 1
  BY <1>2, <1>7, <1>12
<1>14. lv => \A i \in 1 .. hi : LiveIn(st[i])
  BY <1>2 DEF Chain
<1>15. \A i \in 1 .. hi : Alike(st[i], st[i])
  BY DEF Alike
<1> HIDE DEF f, N
<1>16. State(f, st, W2, lv, lo)
  BY <1>1, <1>3, <1>10, <1>12, <1>13, <1>14, <1>15, StateTo
<1> QED BY <1>6, <1>10, <1>16 DEF f, W2

\* The path goes on after the if.
Alive == Inner.ended \/ live

LEMMA AliveIs ==
    ASSUME NEW lo, Now(lo), Inner.kind = "if", Inner.arm = "else"
    PROVE  /\ Alive \in BOOLEAN /\ (Alive => Inner.live)
           /\ Inner.ended => /\ Inner.taken /\ ~Inner.then.diverged
                             /\ Inner.then.ty # "Unit" => Inner.then.v \in There
                             /\ CarriedIn(Inner.then.carried, There)
           /\ live => ~Inner.taken /\ ~fn.diverged
           /\ Inner \in IfEntries /\ Inner.then \in Arms /\ DOMAIN Inner.then.carried = DOMAIN Inner.carried
<1>1. /\ Inner \in Blocks /\ Saved(Inner, There) /\ Len(open) \in 1 .. Len(open) /\ Inner = open[Len(open)]
  <2>1. \E hi \in Nat : Len(open) = hi + 1 /\ Inner = open[hi + 1] /\ Inner \in Blocks /\ Saved(Inner, There)
    BY InnerBlock
  <2> QED BY <2>1
<1>2. live \in BOOLEAN /\ Chain(open, live) /\ Ready(fn, There, live)
  BY NowTypes
<1>3. Inner \in IfEntries /\ Inner.then \in Arms
  BY <1>1, BlockTypes
<1>4. live => LiveIn(Inner)
  BY <1>1, <1>2 DEF Chain
<1>5. live => Inner.live /\ ~Inner.taken /\ ~fn.diverged
  BY <1>2, <1>4 DEF LiveIn, Timed, Ready
<1>6. Inner.ended \in BOOLEAN
  BY <1>3 DEF IfEntries
<1> QED BY <1>1, <1>2, <1>3, <1>5, <1>6 DEF Alive, Saved

\* els is what is kept of the else arm.
ElseArm(o, l, els) == els = Arm(o, l)

\* What the merge takes from the arm that was on the path is there.
LEMMA IfFeeds ==
    ASSUME ShapesExcluded, NEW lo, Inner.arm = "else",
           NEW o, NEW l, NEW x, ArmEnd(lo, o, l, x, Alive), NEW els, ElseArm(o, l, els)
    PROVE  /\ Feeds(Basis(Ended(x), After(l, There, live), Alive), Ended(x), Inner.then, els)
           /\ DOMAIN Fed(Inner.then, els).carried = DOMAIN Inner.carried
           /\ Inner.then.diverged /\ els.diverged => ~Alive
<1>0. /\ Now(lo) /\ Inner.kind = "if" /\ Block(From, fn, o) /\ Escapes(o) /\ l = LeaveArm(o)
  BY DEF ArmEnd
<1> DEFINE then == Inner.then
           W == After(l, There, live)
           f == Ended(x)
           D == Basis(f, W, Alive)
           from == Fed(then, els)
<1>1. /\ Alive \in BOOLEAN /\ (Alive => Inner.live)
      /\ Inner.ended => /\ Inner.taken /\ ~then.diverged
                        /\ then.ty # "Unit" => then.v \in There
                        /\ CarriedIn(then.carried, There)
      /\ live => ~Inner.taken /\ ~fn.diverged
      /\ then \in Arms /\ DOMAIN then.carried = DOMAIN Inner.carried
  BY <1>0, AliveIs
<1>2. /\ els \in Arms /\ els.diverged = fn.diverged
      /\ DOMAIN els.carried = DOMAIN Inner.carried
      /\ els.ty # "Unit" => els.v \in Avail(From, l)
      /\ \A n \in DOMAIN els.carried : els.carried[n].v \in Avail(From, l)
      /\ live => (els.ty # "Unit" => els.v \in W) /\ CarriedIn(els.carried, W)
  BY <1>0, ArmIs DEF ElseArm
<1>3. ArmAfter(lo, l, x, Alive)
  BY ArmLeft
<1>4. There \subseteq W /\ x \in Lowerers /\ x.insts = l.insts /\ Moves(From, fn, x)
  BY <1>3 DEF ArmAfter
<1>5. f \in Lowerers /\ f.insts = << >> /\ f.next = x.next
  BY <1>4, EndedTypes
<1>6. Avail(D, f) = D
  BY <1>5, NoInsts DEF Avail
<1>7. /\ then.ty # "Unit" => then.v \in Nat /\ then.v < fn.next
      /\ \A n \in DOMAIN then.carried : then.carried[n].v \in Nat /\ then.carried[n].v < fn.next
  <2>1. Below(fn, Inner, Len(fn.locals) - 1)
    BY <1>0, InnerBlock
  <2>2. then.v \in Nat \cup {NoValue}
    BY <1>1 DEF Arms
  <2> QED BY <1>0, <1>1, <2>1, <2>2, ArmTypes DEF Below
<1>8. \A d \in Avail(From, l) : d \in Nat /\ d < x.next
  <2>1. Good(From, x) /\ Avail(From, x) = Avail(From, l)
    BY <1>4 DEF Moves, Avail
  <2> QED BY <2>1, GoodTypes
<1>9. fn.next <= x.next /\ x.next \in Nat /\ fn.next \in Nat
  <2>1. fn \in Lowerers
    BY <1>0, NowTypes
  <2> QED BY <1>4, <2>1 DEF Moves, Lowerers
<1> HIDE DEF then, f, W
<1>10. from \in Arms /\ DOMAIN from.carried = DOMAIN Inner.carried /\ from \in {then, els}
  BY <1>1, <1>2 DEF Fed
<1>11. Feeds(D, f, then, els)
  <2>1. CASE Inner.ended
    <3>1. from = then /\ D = W
      BY <1>1, <2>1 DEF Fed, Alive, Basis
    <3> HIDE DEF D, from
    <3>2. Fed(then, els) = from
      BY DEF from
    <3> QED BY <1>1, <1>4, <1>6, <1>10, <2>1, <3>1, <3>2 DEF Feeds, CarriedIn
  <2>2. CASE live
    <3>1. from = els /\ D = W
      BY <1>1, <1>2, <2>2 DEF Fed, Alive, Basis
    <3> HIDE DEF D, from
    <3>2. Fed(then, els) = from
      BY DEF from
    <3> QED BY <1>1, <1>2, <1>6, <1>10, <2>2, <3>1, <3>2 DEF Feeds, CarriedIn
  <2>3. CASE ~Alive
    <3>1. D = 0 .. x.next - 1
      BY <1>5, <2>3 DEF Basis, Values
    <3>2. /\ then.ty # "Unit" => then.v \in D
          /\ \A n \in DOMAIN then.carried : then.carried[n].v \in D
      BY <1>7, <1>9, <3>1
    <3>3. /\ els.ty # "Unit" => els.v \in D
          /\ \A n \in DOMAIN els.carried : els.carried[n].v \in D
      BY <1>2, <1>8, <1>9, <3>1
    <3>4. Fed(then, els) = from
      BY DEF from
    <3> HIDE DEF D, from
    <3> QED BY <1>6, <1>10, <3>2, <3>3, <3>4 DEF Feeds
  <2> QED BY <2>1, <2>2, <2>3 DEF Alive
<1>12. then.diverged /\ els.diverged => ~Alive
  BY <1>1, <1>2 DEF Alive
<1> QED BY <1>10, <1>11, <1>12 DEF then, f, W

LEMMA IfMerges ==
    ASSUME ShapesExcluded, NEW lo, Inner.arm = "else",
           NEW o, NEW l, NEW x, ArmEnd(lo, o, l, x, Alive), NEW els, ElseArm(o, l, els),
           NEW U, NEW z, Unsets(Merge(Ended(x), Inner.then, els), z, U)
    PROVE  Merges(Ended(x), Front(open), After(l, There, live), Alive, lo, Inner.then, els, U, z)
<1>0. /\ Now(lo) /\ Inner.kind = "if" /\ Alive \in BOOLEAN
  BY DEF ArmEnd
<1> DEFINE W == After(l, There, live)
           N == Len(fn.locals)
           hi == Len(open) - 1
           f == Ended(x)
<1>1. /\ lo <= hi /\ hi \in Nat /\ Len(open) = hi + 1 /\ lo \in Nat
      /\ Inner = open[hi + 1] /\ Inner \in Blocks
      /\ N - 1 = hi - lo + 1 /\ N - 1 \in Nat
      /\ Below(fn, Inner, N - 1)
      /\ Len(Front(open)) = hi /\ \A i \in 1 .. hi : Front(open)[i] = open[i]
  BY <1>0, InnerBlock
<1>2. ArmAfter(lo, l, x, Alive)
  BY ArmLeft
<1>3. /\ State(f, Front(open), W, Alive, lo) /\ x \in Lowerers /\ x.diverged = FALSE
      /\ Len(x.locals) = N - 1
      /\ \A p \in 0 .. N - 1 : DeclaredTo(x, p) = DeclaredTo(fn, p) /\ BoundTo(x, p) = BoundTo(fn, p)
  BY <1>2 DEF ArmAfter
<1>4. f.locals = x.locals /\ f.pending = x.pending /\ f.insts = << >> /\ f.diverged = FALSE
  BY <1>3, EndedTypes
<1>5. \A p : DeclaredTo(f, p) = DeclaredTo(x, p) /\ BoundTo(f, p) = BoundTo(x, p)
  BY <1>4 DEF DeclaredTo, BoundTo
<1>6. Names \ DeclaredTo(f, Len(f.locals)) # {}
  <2>1. N - 1 \in 0 .. N - 1
    BY <1>1
  <2>2. DeclaredTo(x, N - 1) = DeclaredTo(fn, N - 1)
    BY <1>3, <2>1
  <2> HIDE DEF N
  <2> QED BY <1>0, <1>1, <1>3, <1>4, <1>5, <2>2 DEF Below
<1>7. /\ Feeds(Basis(f, W, Alive), f, Inner.then, els)
      /\ DOMAIN Fed(Inner.then, els).carried = DOMAIN Inner.carried
  BY IfFeeds
<1>8. ASSUME NEW i \in lo + 1 .. hi, Carries(Front(open)[i])
      PROVE  DOMAIN Inner.carried \cap BoundTo(f, i - lo) \subseteq DOMAIN Front(open)[i].carried
  <2>1. i \in lo + 1 .. Len(open) /\ Len(open) \in lo + 1 .. Len(open) /\ i < Len(open) /\ i \in 1 .. hi
        /\ i - lo \in 0 .. N - 1
    BY <1>1
  <2>2. Frame(fn, open, lo, Len(open))
    BY <1>0, NowTypes
  <2>3. Nested(fn, open[i], i - lo, Inner)
    BY <1>1, <2>1, <2>2 DEF Frame
  <2>4. BoundTo(f, i - lo) = BoundTo(fn, i - lo) /\ Front(open)[i] = open[i]
    BY <1>1, <1>3, <1>5, <2>1
  <2>5. Carries(Inner)
    BY <1>0 DEF Carries
  <2> QED BY <1>8, <2>3, <2>4, <2>5 DEF Nested
<1> HIDE DEF f, W
<1> QED BY <1>0, <1>1, <1>3, <1>4, <1>6, <1>7, <1>8 DEF Merges, f, W

\* What a merge starts from: the arm's lowerer, without its instructions.
ArmOnly(l, m) == m = [l EXCEPT !.diverged = FALSE, !.insts = << >>]

\* The merge is as it is where the arm's instructions and values are left out.
LEMMA IfMergeSame ==
    ASSUME ShapesExcluded, NEW lo, Inner.arm = "else",
           NEW o, NEW l, NEW x, ArmEnd(lo, o, l, x, Alive), NEW els, ElseArm(o, l, els),
           NEW m, ArmOnly(l, m)
    PROVE  Merge(m, Inner.then, els) = Merge(Ended(x), Inner.then, els)
<1>0. /\ Now(lo) /\ Inner.kind = "if" /\ Block(From, fn, o) /\ Escapes(o) /\ l = LeaveArm(o)
      /\ x = [RebindAll(l, Inner.carried) EXCEPT !.diverged = FALSE]
  BY DEF ArmEnd
<1> DEFINE f == Ended(x)
           S == DOMAIN Inner.carried
           r == RebindAll(l, Inner.carried)
           N == Len(fn.locals)
<1>1. Inner \in Blocks /\ N - 1 \in Nat /\ N > 1 /\ N \in Nat
  BY <1>0, InnerBlock, NowTypes
<1>2. l \in Lowerers /\ Popped(fn, l)
  BY <1>0, ArmMoves
<1>3. \A n \in S : Inner.carried[n] \in Bnds
  BY <1>0, <1>1, BlockTypes DEF Carries
<1>4. r \in Lowerers /\ Rebound(l, r, Inner.carried) /\ SameElse(l, r)
  BY <1>2, <1>3, RebindIs
<1>5. x = [r EXCEPT !.diverged = FALSE] /\ m = [l EXCEPT !.diverged = FALSE, !.insts = << >>]
  BY <1>0 DEF ArmOnly
<1> HIDE DEF r, S
<1>6. r = [l EXCEPT !.locals = r.locals]
  BY DEF r, RebindAll
<1>7. f = [m EXCEPT !.locals = r.locals] /\ IsLowerer(m) /\ f.locals = r.locals /\ m.locals = l.locals
  <2> DEFINE E == << >>
             No == FALSE
             R == r.locals
             p == l.locals
             p1 == l.pending
             p2 == l.unset
             p3 == l.params
             p4 == l.borrowed
             p5 == l.owned
             p6 == l.temps
             p7 == l.heads
             p8 == l.deferred
             p9 == l.next
             pa == l.diverged
             pb == l.returns
             pc == l.insts
  <2>1. l = [locals |-> p, pending |-> p1, unset |-> p2, params |-> p3, borrowed |-> p4,
            owned |-> p5, temps |-> p6, heads |-> p7, deferred |-> p8, next |-> p9,
            diverged |-> pa, returns |-> pb, insts |-> pc]
    BY <1>2 DEF Lowerers
  <2>2. r = [l EXCEPT !.locals = R]
    BY <1>6
  <2>9. x = [r EXCEPT !.diverged = No]
    BY <1>5
  <2>10. m = [l EXCEPT !.diverged = No, !.insts = E]
    BY <1>5
  <2>11. f = [x EXCEPT !.insts = E]
    BY DEF Ended
  <2> HIDE DEF E, No, f, R, p, p1, p2, p3, p4, p5, p6, p7, p8, p9, pa, pb, pc
  <2>3. r = [locals |-> R, pending |-> p1, unset |-> p2, params |-> p3, borrowed |-> p4,
            owned |-> p5, temps |-> p6, heads |-> p7, deferred |-> p8, next |-> p9,
            diverged |-> pa, returns |-> pb, insts |-> pc]
    BY <2>1, <2>2
  <2>4. x = [locals |-> R, pending |-> p1, unset |-> p2, params |-> p3, borrowed |-> p4,
            owned |-> p5, temps |-> p6, heads |-> p7, deferred |-> p8, next |-> p9,
            diverged |-> No, returns |-> pb, insts |-> pc]
    BY <2>3, <2>9
  <2>5. f = [locals |-> R, pending |-> p1, unset |-> p2, params |-> p3, borrowed |-> p4,
            owned |-> p5, temps |-> p6, heads |-> p7, deferred |-> p8, next |-> p9,
            diverged |-> No, returns |-> pb, insts |-> E]
    BY <2>4, <2>11
  <2>6. m = [locals |-> p, pending |-> p1, unset |-> p2, params |-> p3, borrowed |-> p4,
            owned |-> p5, temps |-> p6, heads |-> p7, deferred |-> p8, next |-> p9,
            diverged |-> No, returns |-> pb, insts |-> E]
    BY <2>1, <2>10
  <2>7. IsLowerer(m)
    BY <2>6 DEF IsLowerer
  <2>8. f = [m EXCEPT !.locals = R] /\ f.locals = R /\ m.locals = p
    BY <2>5, <2>6
  <2> QED BY <2>7, <2>8 DEF R, p
<1>8. DOMAIN l.locals = 1 .. Len(l.locals) /\ DOMAIN r.locals = 1 .. Len(r.locals) /\ Len(l.locals) \in Nat
  BY <1>2, <1>4 DEF Lowerers
<1>9. Len(l.locals) = N - 1
  BY <1>2 DEF Popped
<1> HIDE DEF f, N
<1>10. Agree(m, f, S)
  BY <1>4, <1>7, <1>8 DEF Agree, Rebound, S
<1>11. DOMAIN Fed(Inner.then, els).carried = S
  BY IfFeeds DEF S
<1>12. Len(m.locals) \in DOMAIN m.locals
  BY <1>1, <1>7, <1>8, <1>9
<1>13. Merge(f, Inner.then, els) = Merge(m, Inner.then, els)
  BY <1>10, <1>11, <1>12, MergeSame
<1> QED BY <1>13 DEF f

\* What an if becomes: l leaves its else arm, and z is what follows.
IfBecomes(l, merged, els) ==
    merged = IF Inner.then.diverged /\ els.diverged THEN l
             ELSE Merge([l EXCEPT !.diverged = FALSE, !.insts = << >>], Inner.then, els)
IfUnsets(l, merged, z) ==
    z = [merged EXCEPT !.unset = @ \cup (Inner.pending \ UNION Range(l.pending))]

LEMMA IfState ==
    ASSUME ShapesExcluded, NEW lo, Inner.arm = "else",
           NEW o, NEW l, NEW x, ArmEnd(lo, o, l, x, Alive), NEW els, ElseArm(o, l, els),
           NEW merged, IfBecomes(l, merged, els), NEW z, IfUnsets(l, merged, z)
    PROVE  LET W == After(l, There, live)
               b == IF Alive THEN merged.insts ELSE << >>
           IN  /\ b \in Seq(Insts) /\ Sound(W, b)
               /\ State(Ended(z), Front(open), W \cup Defs(b), Alive, lo)
               /\ Ended(z).insts = << >>
<1>0. /\ Now(lo) /\ Inner.kind = "if" /\ Block(From, fn, o) /\ Escapes(o) /\ l = LeaveArm(o)
      /\ Alive \in BOOLEAN
  BY DEF ArmEnd
<1> DEFINE W == After(l, There, live)
           then == Inner.then
           b == IF Alive THEN merged.insts ELSE << >>
           U == merged.unset \cup (Inner.pending \ UNION Range(l.pending))
<1>1. Inner \in IfEntries /\ Inner.then \in Arms
  BY <1>0, AliveIs
<1>2. Inner.pending \in SUBSET Names
  BY <1>1 DEF IfEntries
<1>3. z = [merged EXCEPT !.unset = U]
  BY DEF IfUnsets
<1>4. /\ DOMAIN Fed(then, els).carried = DOMAIN Inner.carried
      /\ then.diverged /\ els.diverged => ~Alive
  BY IfFeeds
<1>5. l \in Lowerers
  BY <1>0, ArmMoves
<1>6. CASE then.diverged /\ els.diverged
  <2>1. merged = l
    BY <1>6 DEF IfBecomes
  <2>2. ~Alive /\ ~live /\ Alive = FALSE
    BY <1>0, <1>4, <1>6 DEF Alive
  <2>3. U \in SUBSET Names
    BY <1>2, <1>5, <2>1 DEF Lowerers
  <2> HIDE DEF U
  <2>4. State(Ended(z), Front(open), There, FALSE, lo)
    BY <1>0, <1>3, <2>1, <2>2, <2>3, IfDiverges
  <2>5. z \in Lowerers
    BY <1>3, <1>5, <2>1, <2>3 DEF Lowerers
  <2>6. b = << >> /\ W = There
    BY <2>2 DEF After
  <2>7. There \cup Defs(<< >>) = There /\ << >> \in Seq(Insts) /\ Sound(There, << >>)
    BY NoInsts
  <2> HIDE DEF b, W
  <2>8. State(Ended(z), Front(open), W \cup Defs(b), Alive, lo)
    BY <2>2, <2>4, <2>6, <2>7
  <2> QED BY <2>5, <2>6, <2>7, <2>8, EndedTypes DEF b, W
<1>7. CASE ~(then.diverged /\ els.diverged)
  <2> DEFINE m == Merge(Ended(x), then, els)
  <2>1. merged = m
    <3> DEFINE l0 == [l EXCEPT !.diverged = FALSE, !.insts = << >>]
    <3>0. ArmOnly(l, l0)
      BY DEF ArmOnly
    <3> HIDE DEF l0
    <3>1. Merge(l0, Inner.then, els) = m
      BY <3>0, IfMergeSame
    <3>2. IfBecomes(l, merged, els) => merged = Merge(l0, Inner.then, els)
      BY <1>7 DEF IfBecomes, l0
    <3> HIDE DEF m
    <3> QED BY <3>1, <3>2
  <2>2. U \in SUBSET Names
    <3>1. Merges(Ended(x), Front(open), W, Alive, lo, then, els, {}, [m EXCEPT !.unset = {}])
      <4>1. Unsets(m, [m EXCEPT !.unset = {}], {})
        BY DEF Unsets
      <4> HIDE DEF m
      <4> QED BY <4>1, IfMerges DEF m
    <3>2. m \in Lowerers
      <4>1. /\ State(Ended(x), Front(open), W, Alive, lo) /\ Ended(x).insts = << >>
            /\ Names \ DeclaredTo(Ended(x), Len(Ended(x).locals)) # {}
            /\ Feeds(Basis(Ended(x), W, Alive), Ended(x), then, els)
        BY <3>1 DEF Merges
      <4>2. /\ Ready(Ended(x), W, Alive) /\ Numbered(W, Ended(x).next) /\ Scoped(Ended(x))
        BY <4>1 DEF State, Frame
      <4>3. Good(Basis(Ended(x), W, Alive), Ended(x))
        BY <1>0, <4>1, <4>2, BasisIsGood
      <4> QED BY <4>1, <4>2, <4>3, MergeMoves
    <3> HIDE DEF m
    <3> QED BY <1>2, <2>1, <3>2 DEF Lowerers
  <2> HIDE DEF m, U
  <2>3. Unsets(m, z, U)
    BY <1>3, <2>1, <2>2 DEF Unsets
  <2>4. Merges(Ended(x), Front(open), W, Alive, lo, then, els, U, z)
    BY <2>3, IfMerges DEF m
  <2> DEFINE W2 == After(z, W, Alive)
  <2>5. /\ State(Ended(z), Front(open), W2, Alive, lo) /\ z \in Lowerers
        /\ Alive => Sound(W, z.insts) /\ W2 = W \cup Defs(z.insts)
    BY <2>4, MergedState
  <2>6. z.insts = merged.insts
    <3>1. m \in Lowerers \/ TRUE
      OBVIOUS
    <3> QED BY <1>3
  <2>7. b \in Seq(Insts) /\ Sound(W, b) /\ W2 = W \cup Defs(b)
    <3>1. CASE Alive
      <4>1. z.insts \in Seq(Insts)
        BY <2>5 DEF Lowerers
      <4> QED BY <2>5, <2>6, <3>1, <4>1
    <3>2. CASE ~Alive
      BY <3>2, NoInsts DEF After
    <3> QED BY <3>1, <3>2
  <2> HIDE DEF b, W, W2
  <2> QED BY <2>5, <2>7, EndedTypes DEF b, W
<1> QED BY <1>6, <1>7

LEMMA EndIfStep ==
    ASSUME ShapesExcluded, IInv, EndIf
    PROVE  IInv'
<1>1. Running /\ Inner.kind = "if" /\ Inner.arm = "else"
  BY DEF EndIf
<1>2. PICK lo \in Nat : Now(lo)
  BY <1>1, NowReached
<1>3. PICK e \in Tails(fn) :
        LET o == BlockValue(fn, e)
            l == LeaveArm(o)
            then == Inner.then
            els == Arm(o, l)
            divergent == then.diverged /\ els.diverged
            merged == IF divergent THEN l ELSE Merge([l EXCEPT !.diverged = FALSE, !.insts = << >>], then, els)
            alive == Inner.ended \/ live
            first == IF live THEN Run(memory, l.insts) ELSE memory
        IN /\ Escapes(o)
           /\ Lowered([merged EXCEPT !.unset = @ \cup (Inner.pending \ UNION Range(l.pending))])
           /\ memory' = IF alive THEN Run(first, merged.insts) ELSE first
           /\ open' = Logged(Front(open), (IF live THEN l.insts ELSE << >>)
                                          \o (IF alive THEN merged.insts ELSE << >>))
           /\ live' = alive
  BY DEF EndIf
<1> DEFINE o == BlockValue(fn, e)
           l == LeaveArm(o)
           els == Arm(o, l)
           x == [RebindAll(l, Inner.carried) EXCEPT !.diverged = FALSE]
           merged == IF Inner.then.diverged /\ els.diverged THEN l
                     ELSE Merge([l EXCEPT !.diverged = FALSE, !.insts = << >>], Inner.then, els)
           z == [merged EXCEPT !.unset = @ \cup (Inner.pending \ UNION Range(l.pending))]
           a == IF live THEN l.insts ELSE << >>
           b == IF Alive THEN merged.insts ELSE << >>
           W == After(l, There, live)
<1>4. /\ Escapes(o) /\ fn' = Ended(z)
      /\ memory' = IF Alive THEN Run(IF live THEN Run(memory, l.insts) ELSE memory, merged.insts)
                   ELSE IF live THEN Run(memory, l.insts) ELSE memory
      /\ open' = Logged(Front(open), a \o b) /\ live' = Alive
  BY <1>3 DEF Lowered, Alive, Ended
<1>5. Block(From, fn, o)
  BY <1>2, NowTypes, BlockIs
<1>6. IsMemory(memory) /\ memory.fault = NoFault /\ Logs(open, There)
  BY <1>2 DEF Now
<1>7. Alive \in BOOLEAN /\ (Alive => Inner.live)
  BY <1>1, <1>2, AliveIs
<1> HIDE DEF o
<1>8. ArmEnd(lo, o, l, x, Alive)
  BY <1>1, <1>2, <1>4, <1>5, <1>7 DEF ArmEnd
<1> HIDE DEF l, x
<1>9. ArmAfter(lo, l, x, Alive)
  BY <1>8, ArmLeft
<1>10. /\ live => Sound(There, l.insts) /\ W = There \cup Defs(l.insts)
       /\ x \in Lowerers /\ x.insts = l.insts
  BY <1>9 DEF ArmAfter
<1>11. a \in Seq(Insts) /\ Sound(There, a) /\ W = There \cup Defs(a)
  <2>1. l.insts \in Seq(Insts)
    BY <1>10 DEF Lowerers
  <2>2. CASE live
    BY <1>10, <2>1, <2>2
  <2>3. CASE ~live
    BY <2>3, NoInsts DEF After
  <2> QED BY <2>2, <2>3
<1> HIDE DEF els
<1>12. IfBecomes(l, merged, els) /\ IfUnsets(l, merged, z)
  BY DEF IfBecomes, IfUnsets
<1> HIDE DEF merged, z
<1>13. /\ b \in Seq(Insts) /\ Sound(W, b)
       /\ State(Ended(z), Front(open), W \cup Defs(b), Alive, lo)
       /\ Ended(z).insts = << >>
  <2>1. ElseArm(o, l, els)
    BY DEF els, ElseArm
  <2> QED BY <1>1, <1>8, <1>12, <2>1, IfState
<1>14. memory' = Run(Run(memory, a), b)
  <2>1. Run(memory, a) = IF live THEN Run(memory, l.insts) ELSE memory
    BY RunNothing
  <2> DEFINE first == Run(memory, a)
  <2>2. Run(first, b) = IF Alive THEN Run(first, merged.insts) ELSE first
    BY RunNothing
  <2> HIDE DEF a, b
  <2> QED BY <1>4, <2>1, <2>2
<1>15. Logs(Front(open), There)
  <2>1. /\ Len(open) - 1 \in Nat /\ Len(open) \in Nat /\ Len(open) - 1 <= Len(open)
        /\ Len(Front(open)) = Len(open) - 1
        /\ \A i \in 1 .. Len(open) - 1 : Front(open)[i] = open[i]
    BY <1>1, <1>2, InnerBlock
  <2> QED BY <1>6, <2>1, LogsFront
<1> HIDE DEF a, b, W
<1>16. Consistent(Ended(z), Logged(Front(open), a \o b), Run(Run(memory, a), b), Alive)
  <2> DEFINE W2 == W \cup Defs(b)
             f == Ended(z)
  <2>1. State(f, Front(open), W2, Alive, lo) /\ f.insts = << >>
    BY <1>13
  <2>2. W2 = W \cup Defs(b)
    OBVIOUS
  <2>3. b \in Seq(Insts) /\ Sound(W, b)
    BY <1>13
  <2> HIDE DEF W2, f
  <2>4. Consistent(f, Logged(Front(open), a \o b), Run(Run(memory, a), b), Alive)
    BY <1>6, <1>7, <1>11, <1>15, <2>1, <2>2, <2>3, TwoRuns
  <2> QED BY <2>4 DEF f
<1> QED BY <1>4, <1>13, <1>14, <1>16 DEF IInv

-----------------------------------------------------------------------------
(* What a loop repeats.                                                     *)

\* Instructions that can be executed again where they have been.
Steady(W, s) == s \in Seq(Insts) /\ Known(W, s) /\ Defs(s) \subseteq W
Repeats(r, n, again) == again = [i \in 1 .. n * Len(r) |-> r[1 + ((i - 1) % Len(r))]]

LEMMA SteadyConcat ==
    ASSUME NEW W, NEW s, NEW t, Steady(W, s), Steady(W, t)
    PROVE  Steady(W, s \o t)
<1>1. s \in Seq(Insts) /\ t \in Seq(Insts) /\ Known(W, s) /\ Known(W, t)
  BY DEF Steady
<1>2. s \o t \in Seq(Insts) /\ Known(W, s \o t)
  BY <1>1, KnownConcat
<1>3. Sound(W, s) /\ Sound(W \cup Defs(s), t)
  <2>1. Known(W \cup Defs(s), t)
    BY <1>1 DEF Known
  <2> QED BY <1>1, <2>1, KnownSound
<1>4. Defs(s \o t) = Defs(s) \cup Defs(t)
  BY <1>1, <1>3, SoundConcat
<1> QED BY <1>2, <1>4 DEF Steady

LEMMA SteadyMore ==
    ASSUME NEW V, NEW W, V \subseteq W, NEW s, Steady(V, s)
    PROVE  Steady(W, s)
BY DEF Steady, Known

LEMMA SteadyRepeats ==
    ASSUME NEW W, NEW r, Steady(W, r), NEW n \in Nat, NEW again, Repeats(r, n, again)
    PROVE  Steady(W, again)
<1> DEFINE L == Len(r)
           M == n * L
<1>1. r \in Seq(Insts) /\ L \in Nat /\ DOMAIN r = 1 .. L
  BY DEF Steady
<1>2. again = [i \in 1 .. M |-> r[1 + ((i - 1) % L)]]
  BY DEF Repeats
<1>3. M \in Nat
  BY <1>1
<1>4. L = 0 => M = 0
  BY <1>1
<1> HIDE DEF M
<1>5. ASSUME NEW i \in 1 .. M PROVE 1 + ((i - 1) % L) \in 1 .. L /\ again[i] = r[1 + ((i - 1) % L)]
  <2>1. L > 0 /\ i - 1 \in Nat
    BY <1>1, <1>3, <1>4
  <2> HIDE DEF L
  <2>2. (i - 1) % L \in 0 .. L - 1
    BY <1>1, <2>1
  <2>3. 1 + ((i - 1) % L) \in 1 .. L
    BY <1>1, <2>1, <2>2
  <2> QED BY <1>2, <2>3
<1> HIDE DEF L
<1>6. \A i \in 1 .. M : \E j \in 1 .. L : again[i] = r[j]
  BY <1>5
<1>7. again \in Seq(Insts) /\ Len(again) = M
  <2>1. again \in [1 .. M -> Insts]
    <3>1. \A j \in 1 .. L : r[j] \in Insts
      BY <1>1
    <3> QED BY <1>2, <1>6, <3>1
  <2> QED BY <1>3, <2>1
<1>8. Known(W, again)
  BY <1>6, <1>7 DEF Steady, Known, L
<1>9. Defs(again) \subseteq W
  BY <1>6, <1>7 DEF Steady, Defs, DefinedBy, L
<1> QED BY <1>7, <1>8, <1>9 DEF Steady

\* The back edge of a loop feeds values that are there to parameters that are.
LEMMA BackIsSteady ==
    ASSUME NEW lo, Now(lo), Inner.kind = "loop", live, NEW l \in Lowerers, Popped(fn, l)
    PROVE  Steady(There, BackEdge(Bindings(l, DOMAIN Inner.carried)))
<1> DEFINE S == DOMAIN Inner.carried
           N == Len(fn.locals)
           now == Bindings(l, S)
           ns == SetToSeq(S)
           c == Cardinality(S)
           back == BackEdge(now)
<1>1. /\ Inner \in Blocks /\ Below(fn, Inner, N - 1) /\ N - 1 \in Nat /\ Saved(Inner, There)
      /\ Len(open) \in 1 .. Len(open)
  <2>1. \E hi \in Nat : Len(open) = hi + 1
    BY InnerBlock
  <2> QED BY <2>1, InnerBlock
<1>2. /\ Chain(open, live) /\ Ready(fn, There, live) /\ Good(From, fn) /\ N \in Nat /\ From = There
  BY NowTypes DEF From, Basis
<1>3. Carries(Inner) /\ Timed(Inner) /\ Inner.live
  <2>1. LiveIn(Inner)
    BY <1>1, <1>2 DEF Chain, Inner
  <2> QED BY <2>1 DEF Carries, Timed, LiveIn
<1>4. /\ S \in SUBSET Names /\ \A n \in S : Inner.carried[n].v \in Nat /\ Inner.carried[n].v \in There
  BY <1>1, <1>3, BlockTypes DEF Saved, CarriedIn
<1>5. ASSUME NEW n \in S PROVE now[n].v \in There /\ now[n].v \in Nat
  <2>1. PICK k \in 1 .. N - 1 : n \in DOMAIN fn.locals[k]
    BY <1>1, <1>3 DEF Below, BoundTo
  <2>2. l.locals[k] = fn.locals[k] /\ k \in 1 .. Len(l.locals) /\ k \in 1 .. N
    <3>1. Len(l.locals) = N - 1 /\ \A j \in 1 .. N - 1 : l.locals[j] = fn.locals[j]
      BY DEF Popped
    <3> HIDE DEF N, S, now, ns, c, back
    <3>2. k \in 1 .. N
      BY <1>1, <1>2
    <3> QED BY <3>1, <3>2
  <2>3. DOMAIN l.locals = 1 .. Len(l.locals)
    BY DEF Lowerers
  <2>4. LayerOf(l, n) \in DOMAIN l.locals /\ n \in DOMAIN l.locals[LayerOf(l, n)]
    BY <2>1, <2>2, <2>3 DEF LayerOf
  <2>5. LayerOf(l, n) \in 1 .. N - 1 /\ LayerOf(l, n) \in 1 .. N
    BY <1>1, <1>2, <2>3, <2>4 DEF Popped
  <2>6. Lookup(l, n) = fn.locals[LayerOf(l, n)][n] /\ n \in DOMAIN fn.locals[LayerOf(l, n)]
    BY <2>4, <2>5 DEF Lookup, Popped
  <2>7. Lookup(l, n).v \in There
    BY <1>2, <2>5, <2>6 DEF Ready, LocalsIn
  <2>8. Lookup(l, n).v \in Nat
    BY <1>2, <2>5, <2>6, LayerTypes DEF Bnds
  <2>9. now[n] = Lookup(l, n)
    BY DEF Bindings
  <2> QED BY <2>7, <2>8, <2>9
<1>6. DOMAIN now = S
  BY DEF Bindings
<1>7. /\ ns \in [1 .. c -> S] /\ c \in Nat /\ DOMAIN ns = 1 .. c
  BY <1>4, NamesAreFinite, SetToSeqLists
<1>8. back = [i \in 1 .. c |-> [op |-> "Param", src |-> now[ns[i]].v, dst |-> Inner.carried[ns[i]].v]]
  BY <1>6, <1>7 DEF BackEdge
<1> HIDE DEF now, back
<1>9. ASSUME NEW i \in 1 .. c
      PROVE  back[i] \in Insts /\ back[i].src \in There /\ back[i].dst \in There
  <2>1. ns[i] \in S
    BY <1>7
  <2>2. back[i] = [op |-> "Param", src |-> now[ns[i]].v, dst |-> Inner.carried[ns[i]].v]
    BY <1>8
  <2>3. /\ now[ns[i]].v \in There /\ now[ns[i]].v \in Int
        /\ Inner.carried[ns[i]].v \in Nat /\ Inner.carried[ns[i]].v \in There
    BY <1>4, <1>5, <2>1
  <2>4. "Param" \in Ops
    BY DEF Ops, DefiningOps
  <2> QED BY <2>2, <2>3, <2>4 DEF Insts
<1>10. back \in Seq(Insts) /\ Len(back) = c
  <2>1. back \in [1 .. c -> Insts]
    BY <1>8, <1>9
  <2> QED BY <1>7, <2>1
<1> QED BY <1>7, <1>9, <1>10 DEF Steady, Known, Defs, DefinedBy, back, now

\* What a loop executes after its first round's statements: l ends the body.
LoopRuns(l, back, again, all) ==
    /\ back = BackEdge(Bindings(l, DOMAIN Inner.carried))
    /\ Repeats(back \o Inner.log \o l.insts, Inner.rounds - 1, again)
    /\ all = IF live THEN l.insts \o again \o (IF Inner.form = "while" THEN back ELSE << >>) ELSE << >>

LEMMA LoopRunsSound ==
    ASSUME NEW lo, Now(lo), Inner.kind = "loop", NEW l, Moves(From, fn, l), Popped(fn, l),
           NEW back, NEW again, NEW all, LoopRuns(l, back, again, all)
    PROVE  /\ all \in Seq(Insts) /\ Sound(There, all)
           /\ There \cup Defs(all) = After(l, There, live)
<1>1. live \in BOOLEAN /\ Chain(open, live) /\ From = Basis(fn, There, live)
  BY NowTypes DEF From
<1>2. CASE ~live
  <2>1. all = << >>
    BY <1>2 DEF LoopRuns
  <2> QED BY <1>2, <2>1, NoInsts DEF After
<1>3. CASE live
  <2> DEFINE W == There \cup Defs(l.insts)
             last == IF Inner.form = "while" THEN back ELSE << >>
             round == back \o Inner.log \o l.insts
  <2>1. From = There /\ After(l, There, live) = W
    BY <1>1, <1>3 DEF Basis, After, Avail
  <2>2. l \in Lowerers /\ l.insts \in Seq(Insts) /\ Sound(There, l.insts)
    BY <2>1, GoodTypes DEF Moves, Good
  <2>3. Steady(There, back)
    BY <1>3, <2>2, BackIsSteady DEF LoopRuns
  <2>4. /\ Inner \in LoopEntries /\ Inner = open[Len(open)] /\ Len(open) \in 1 .. Len(open)
    <3>1. \E hi \in Nat : Len(open) = hi + 1 /\ Inner = open[hi + 1] /\ Inner \in Blocks
      BY InnerBlock
    <3> QED BY <3>1, BlockTypes
  <2>5. Steady(There, Inner.log)
    <3>1. Logs(open, There)
      BY DEF Now
    <3>2. Inner.log \in Seq(Insts)
      BY <2>4 DEF LoopEntries
    <3>3. Known(There, Inner.log) /\ Defs(Inner.log) \subseteq There
      BY <2>4, <3>1 DEF Logs
    <3> QED BY <3>2, <3>3 DEF Steady
  <2>6. Steady(W, l.insts)
    <3>1. Known(W, l.insts)
      BY <2>2, SoundKnown
    <3> QED BY <2>2, <3>1 DEF Steady
  <2> HIDE DEF W
  <2>7. There \subseteq W
    BY DEF W
  <2>8. Steady(W, back) /\ Steady(W, Inner.log)
    BY <2>3, <2>5, <2>7, SteadyMore
  <2>9. Steady(W, back \o Inner.log)
    BY <2>8, SteadyConcat
  <2>10. Steady(W, round)
    BY <2>6, <2>9, SteadyConcat
  <2>11. Inner.rounds - 1 \in Nat
    <3>1. LiveIn(Inner)
      BY <1>1, <1>3, <2>4 DEF Chain
    <3>2. Inner.rounds > 0
      BY <3>1 DEF LiveIn
    <3>3. Inner.rounds \in Nat
      BY <2>4, ConstantsAssumption DEF LoopEntries
    <3> QED BY <3>2, <3>3
  <2> DEFINE k == Inner.rounds - 1
  <2>12. Repeats(round, k, again)
    BY DEF LoopRuns
  <2> HIDE DEF round, k
  <2>13. k \in Nat
    BY <2>11 DEF k
  <2>14. Steady(W, again)
    BY <2>10, <2>12, <2>13, SteadyRepeats
  <2>15. Steady(W, last)
    <3>1. Steady(W, << >>)
      BY NoInsts DEF Steady
    <3> QED BY <2>8, <3>1
  <2>16. all = (l.insts \o again) \o last
    BY <1>3 DEF LoopRuns
  <2> HIDE DEF last
  <2>17. again \in Seq(Insts) /\ last \in Seq(Insts)
    BY <2>14, <2>15 DEF Steady
  <2>18. all = l.insts \o (again \o last)
    <3> DEFINE li == l.insts
    <3>1. li \in Seq(Insts)
      BY <2>2
    <3> HIDE DEF li
    <3>2. (li \o again) \o last = li \o (again \o last)
      BY ONLY <2>17, <3>1, ConcatTwice
    <3> QED BY <2>16, <3>2 DEF li
  <2>19. Steady(W, again \o last)
    BY <2>14, <2>15, SteadyConcat
  <2> DEFINE rest == again \o last
  <2>20. rest \in Seq(Insts) /\ Sound(There \cup Defs(l.insts), rest) /\ Defs(rest) \subseteq W
    BY <2>19, KnownSound DEF Steady, W
  <2> HIDE DEF rest
  <2>21. all = l.insts \o rest
    BY <2>18 DEF rest
  <2>22. /\ all \in Seq(Insts) /\ Sound(There, all)
         /\ Defs(all) = Defs(l.insts) \cup Defs(rest)
    <3> DEFINE li == l.insts
               two == li \o rest
    <3>1. li \in Seq(Insts) /\ Sound(There, li) /\ Sound(There \cup Defs(li), rest)
      BY <2>2, <2>20
    <3> HIDE DEF li
    <3>2. two \in Seq(Insts) /\ Sound(There, two) /\ Defs(two) = Defs(li) \cup Defs(rest)
      BY <2>20, <3>1, SoundConcat
    <3>3. all = two
      BY <2>21 DEF li
    <3> HIDE DEF two
    <3> QED BY <3>2, <3>3 DEF li
  <2>23. There \cup Defs(all) = W
    BY <2>20, <2>22 DEF W
  <2> QED BY <2>1, <2>22, <2>23
<1> QED BY <1>1, <1>2, <1>3

\* The end of a loop: l ends its body, b is what its carried variables stand for after it.
LoopEnd(lo, l, b, U, z, lv0) ==
    /\ Now(lo) /\ Inner.kind = "loop" /\ ~fn.diverged
    /\ l = PopScope(ReleaseTopScope(fn))
    /\ b = IF Inner.form = "while" THEN Inner.carried ELSE Bindings(l, DOMAIN Inner.carried)
    /\ Unsets(RebindAll(l, b), z, U)
    /\ lv0 = (live \/ (Inner.live /\ Inner.rounds = 0))

LEMMA BodyMoves ==
    ASSUME NEW lo, Now(lo), Inner.kind = "loop", ~fn.diverged, NEW l, l = PopScope(ReleaseTopScope(fn))
    PROVE  /\ Moves(From, fn, l) /\ Popped(fn, l) /\ l \in Lowerers
           /\ l.deferred = fn.deferred /\ ~l.diverged /\ l.returns = fn.returns
<1> DEFINE y == ReleaseTopScope(fn)
<1>1. /\ Good(From, fn) /\ fn \in Lowerers /\ Scoped(fn)
  BY NowTypes
<1>2. Len(fn.locals) > 0 /\ Len(fn.pending) = Len(fn.locals)
  BY <1>1 DEF Scoped
<1>3. Emits(From, fn, y)
  BY <1>1, <1>2, ReleaseTopScopeEmits
<1> HIDE DEF y
<1>4. /\ Moves(From, fn, y) /\ y.locals = fn.locals /\ y.pending = fn.pending /\ y.diverged = fn.diverged
      /\ y.deferred = fn.deferred /\ y.returns = fn.returns
  BY <1>3 DEF Emits, Goes, SameScopes
<1>5. /\ Moves(From, fn, PopScope(y)) /\ Popped(y, PopScope(y)) /\ SameElse(y, PopScope(y))
      /\ PopScope(y) \in Lowerers
  BY <1>2, <1>4, PopMoves
<1>6. l = PopScope(y)
  BY DEF y
<1> QED BY <1>4, <1>5, <1>6 DEF Popped, SameElse

LEMMA LoopRebindable ==
    ASSUME NEW lo, NEW l, NEW b, NEW U, NEW z, NEW lv0, LoopEnd(lo, l, b, U, z, lv0)
    PROVE  /\ Rebindable(From, l, b) /\ DOMAIN b = DOMAIN Inner.carried /\ DOMAIN b \in SUBSET Names
           /\ Inner.live /\ Inner.form = "while" => \A n \in DOMAIN b : b[n].v \in There
<1>0. /\ Now(lo) /\ Inner.kind = "loop" /\ ~fn.diverged /\ l = PopScope(ReleaseTopScope(fn))
      /\ b = IF Inner.form = "while" THEN Inner.carried ELSE Bindings(l, DOMAIN Inner.carried)
  BY DEF LoopEnd
<1>1. /\ Moves(From, fn, l) /\ Popped(fn, l) /\ l \in Lowerers /\ l.deferred = fn.deferred
  BY <1>0, BodyMoves
<1>2. fn \in Lowerers /\ Len(fn.deferred) \in Nat /\ Len(fn.locals) \in Nat
  <2>1. fn \in Lowerers /\ Len(fn.locals) \in Nat
    BY <1>0, NowTypes
  <2>2. fn.deferred \in Seq(Deferrals)
    BY <2>1 DEF Lowerers
  <2> QED BY <2>1, <2>2
<1>3. \A k \in 1 .. Len(l.deferred) : k <= Len(fn.deferred) /\ l.deferred[k] = fn.deferred[k]
  BY <1>1, <1>2
<1>4. /\ Rebindable(From, l, Inner.carried) /\ DOMAIN Inner.carried \in SUBSET Names
      /\ Inner.live => \A n \in DOMAIN Inner.carried : Inner.carried[n].v \in There
  BY <1>0, <1>1, <1>3, CarriedRebindable
<1>5. CASE Inner.form = "while"
  BY <1>0, <1>4, <1>5
<1>6. CASE Inner.form # "while"
  <2> DEFINE S == DOMAIN Inner.carried
  <2>1. b = Bindings(l, S)
    BY <1>0, <1>6
  <2>2. DOMAIN b = S /\ \A n \in S : b[n] = Lookup(l, n)
    BY <2>1 DEF Bindings
  <2>3. ASSUME NEW n \in S
        PROVE  /\ Lookup(l, n) \in Bnds /\ Lookup(l, n).v \in Avail(From, l)
               /\ \A j \in 1 .. Len(l.deferred) : l.deferred[j].flat = Lookup(l, n).v => Lookup(l, n).ty = "Flat"
    <3>1. n \in BoundTo(fn, Len(fn.locals) - 1)
      <4>1. Below(fn, Inner, Len(fn.locals) - 1)
        BY <1>0, InnerBlock
      <4> QED BY <1>0, <4>1 DEF Below, Carries
    <3>2. PICK k \in 1 .. Len(fn.locals) - 1 : n \in DOMAIN fn.locals[k]
      BY <3>1 DEF BoundTo
    <3>3. k \in DOMAIN l.locals /\ n \in DOMAIN l.locals[k]
      <4>1. DOMAIN l.locals = 1 .. Len(l.locals)
        BY <1>1 DEF Lowerers
      <4>2. k \in 1 .. Len(l.locals) /\ l.locals[k] = fn.locals[k]
        BY <1>1, <1>2, <3>2 DEF Popped
      <4> QED BY <3>2, <4>1, <4>2
    <3>4. IsLocal(l, n)
      BY <3>3 DEF IsLocal
    <3>5. Good(From, l)
      BY <1>1 DEF Moves
    <3>6. Lookup(l, n) \in Bnds /\ Lookup(l, n).v \in Avail(From, l) /\ NamedBy(l, Lookup(l, n).v, Lookup(l, n).ty)
      BY <3>4, <3>5, LookupNames
    <3>7. \A j \in 1 .. Len(l.deferred) : l.deferred[j].flat = Lookup(l, n).v => Lookup(l, n).ty = "Flat"
      BY <3>5, <3>6 DEF NamedBy, Good, BorrowersIn, Borrows
    <3> QED BY <3>6, <3>7
  <2> HIDE DEF S
  <2>4. Rebindable(From, l, b)
    BY <2>2, <2>3 DEF Rebindable
  <2> QED BY <1>4, <1>6, <2>2, <2>4 DEF S
<1> QED BY <1>5, <1>6

LEMMA LoopLeft ==
    ASSUME NEW lo, NEW l, NEW b, NEW U, NEW z, NEW lv0, LoopEnd(lo, l, b, U, z, lv0)
    PROVE  /\ State(Ended(z), Front(open), After(l, There, live), lv0, lo)
           /\ lv0 \in BOOLEAN /\ z \in Lowerers
<1>0. /\ Now(lo) /\ Inner.kind = "loop" /\ ~fn.diverged /\ l = PopScope(ReleaseTopScope(fn))
      /\ Unsets(RebindAll(l, b), z, U) /\ lv0 = (live \/ (Inner.live /\ Inner.rounds = 0))
      /\ b = IF Inner.form = "while" THEN Inner.carried ELSE Bindings(l, DOMAIN Inner.carried)
  BY DEF LoopEnd
<1> DEFINE N == Len(fn.locals)
           hi == Len(open) - 1
           st == Front(open)
           r == RebindAll(l, b)
           W == After(l, There, live)
<1>1. /\ lo \in Nat /\ lo <= hi /\ hi <= Len(open) /\ hi \in Nat /\ Len(open) = hi + 1
      /\ Inner = open[hi + 1] /\ Inner \in Blocks
      /\ N = hi - lo + 2 /\ N - 1 = hi - lo + 1 /\ N > 1 /\ N - 1 \in Nat
      /\ Len(fn.pending) = N
      /\ Below(fn, Inner, N - 1) /\ Saved(Inner, There)
      /\ HeldBy(fn, open, hi + 1, N - 1, hi + 1, There)
      /\ Len(st) = hi /\ DOMAIN st = 1 .. hi /\ st = [i \in 1 .. hi |-> st[i]]
      /\ \A i \in 1 .. hi : st[i] = open[i]
  BY <1>0, InnerBlock
<1>2. /\ Good(From, fn) /\ fn \in Lowerers /\ Scoped(fn) /\ Stack(open, lo) /\ Frame(fn, open, lo, Len(open))
      /\ live \in BOOLEAN /\ Ready(fn, There, live) /\ Numbered(There, fn.next) /\ fn.insts = << >>
      /\ Len(fn.locals) \in Nat /\ Chain(open, live)
      /\ Len(fn.deferred) \in Nat
  BY <1>0, NowTypes, GoodTypes
<1>3. /\ Moves(From, fn, l) /\ Popped(fn, l) /\ l \in Lowerers
      /\ l.deferred = fn.deferred /\ ~l.diverged /\ l.returns = fn.returns
  BY <1>0, BodyMoves
<1>4. /\ Rebindable(From, l, b) /\ DOMAIN b = DOMAIN Inner.carried /\ DOMAIN b \in SUBSET Names
      /\ Inner.live /\ Inner.form = "while" => \A n \in DOMAIN b : b[n].v \in There
  BY LoopRebindable
<1>5. Moves(From, fn, r) /\ Rebound(l, r, b) /\ SameElse(l, r) /\ r \in Lowerers
  BY <1>3, <1>4, RebindMoves
<1> HIDE DEF r, hi, N, st
<1>6. /\ Moves(From, fn, z) /\ z \in Lowerers /\ z.locals = r.locals /\ z.pending = r.pending
      /\ z.deferred = r.deferred /\ z.diverged = r.diverged /\ z.returns = r.returns
      /\ z.insts = r.insts /\ z.next = r.next
  BY <1>0, <1>5, UnsetMoves DEF r
<1>7. z.deferred = fn.deferred /\ ~z.diverged /\ z.insts = l.insts /\ z.pending = l.pending
  BY <1>3, <1>5, <1>6 DEF SameElse, Rebound
<1>8. W = After(z, There, live)
  BY <1>7 DEF After, Avail
<1>9. lv0 \in BOOLEAN
  BY <1>0, <1>2
<1>10. /\ Ready(z, W, live) /\ Numbered(W, z.next) /\ fn.next <= z.next
       /\ There \subseteq W /\ \A d \in W : d \in There \/ d >= fn.next
  <2>1. live \in BOOLEAN /\ (live => live /\ ~z.diverged) /\ (z.diverged => z.returns \in Types)
    BY <1>2, <1>7
  <2> QED BY <1>0, <1>6, <1>8, <2>1, MovesNow
<1>11. /\ Len(z.locals) = N - 1 /\ Len(z.pending) = N - 1
       /\ \A k \in 1 .. N - 1 :
             /\ z.pending[k] = fn.pending[k] /\ DOMAIN z.locals[k] = DOMAIN fn.locals[k]
             /\ \A n \in DOMAIN fn.locals[k] :
                   z.locals[k][n] = IF n \in DOMAIN b THEN b[n] ELSE fn.locals[k][n]
  <2>1. Len(l.locals) = N - 1 /\ Len(l.pending) = N - 1
        /\ \A k \in 1 .. N - 1 : l.locals[k] = fn.locals[k] /\ l.pending[k] = fn.pending[k]
    BY <1>3 DEF Popped, N
  <2>2. Len(z.locals) = N - 1 /\ z.pending = l.pending
    BY <1>5, <1>6, <1>7, <2>1 DEF Rebound
  <2>3. ASSUME NEW k \in 1 .. N - 1
        PROVE  /\ z.pending[k] = fn.pending[k] /\ DOMAIN z.locals[k] = DOMAIN fn.locals[k]
               /\ \A n \in DOMAIN fn.locals[k] :
                     z.locals[k][n] = IF n \in DOMAIN b THEN b[n] ELSE fn.locals[k][n]
    <3>1. l.locals[k] = fn.locals[k] /\ l.pending[k] = fn.pending[k] /\ k \in 1 .. Len(l.locals)
      BY <2>1
    <3> QED BY <1>5, <1>6, <2>2, <3>1 DEF Rebound
  <2> QED BY <2>1, <2>2, <2>3
<1>12. Carries(Inner) /\ Timed(Inner)
  BY <1>0 DEF Carries, Timed
<1>13. Ready(z, W, lv0)
  <2>1. CASE live
    BY <1>0, <1>10, <2>1
  <2>2. CASE ~live
    <3> SUFFICES ASSUME lv0 PROVE LocalsIn(z, W) /\ DeferredIn(z, W) /\ ~z.diverged
      BY <1>10 DEF Ready
    <3>1. Inner.live /\ Inner.rounds = 0
      BY <1>0, <2>2
    <3>2. Inner.form = "while"
      <4>1. Inner.form = "do" => Inner.rounds > 0
        BY <1>0, <1>1 DEF Saved
      <4>2. Inner.form \in {"while", "do"}
        BY <1>0, <1>1, BlockTypes DEF LoopEntries
      <4> QED BY <3>1, <4>1, <4>2
    <3>3. /\ \A k \in 1 .. N - 1 : \A n \in DOMAIN fn.locals[k] :
                n \in DOMAIN b \/ fn.locals[k][n].v \in There
          /\ \A k \in 1 .. Len(fn.deferred) : fn.deferred[k].src \in There
      <4>1. \A k : ~Inside(fn, open, hi + 1, hi + 1, k)
        BY <1>0, <1>1 DEF Inside
      <4> QED BY <1>0, <1>1, <1>4, <1>12, <3>1, <4>1 DEF HeldBy
    <3>4. LocalsIn(z, W)
      <4> SUFFICES ASSUME NEW k \in 1 .. N - 1, NEW n \in DOMAIN z.locals[k] PROVE z.locals[k][n].v \in W
        BY <1>11 DEF LocalsIn
      <4>1. n \in DOMAIN fn.locals[k] /\ z.locals[k][n] = IF n \in DOMAIN b THEN b[n] ELSE fn.locals[k][n]
        BY <1>11
      <4> QED BY <1>4, <1>10, <3>1, <3>2, <3>3, <4>1
    <3>5. DeferredIn(z, W)
      BY <1>7, <1>10, <3>3 DEF DeferredIn
    <3> QED BY <1>7, <3>4, <3>5
  <2> QED BY <2>1, <2>2
<1>14. Scoped(z)
  <2>1. Scoped(l)
    BY <1>1, <1>2, <1>3, PoppedScoped DEF N
  <2>2. SameShape(l, z)
    BY <1>5, <1>6 DEF Rebound, SameShape
  <2> QED BY <2>1, <2>2, SameShapeScoped
<1>15. \A p \in 0 .. N - 1 : DeclaredTo(z, p) = DeclaredTo(fn, p) /\ BoundTo(z, p) = BoundTo(fn, p)
  <2> TAKE p \in 0 .. N - 1
  <2>1. \A k \in 1 .. p : k \in 1 .. N - 1
    BY <1>1
  <2> QED BY <1>11, <2>1 DEF DeclaredTo, BoundTo
<1>16. Keeps(fn, z, open, lo, hi, hi + 1)
  <2> SUFFICES ASSUME NEW i \in lo + 1 .. hi
               PROVE  KeepsDeferred(fn, z, open, i, hi, hi + 1) /\ KeepsScopes(fn, z, open[i], i - lo)
    BY DEF Keeps
  <2>1. i \in lo + 1 .. hi + 1 /\ hi + 1 \in lo + 1 .. hi + 1 /\ i < hi + 1 /\ hi + 1 = Len(open)
        /\ i \in lo + 1 .. Len(open) - 1 /\ Len(open) - 1 = hi
    BY <1>1
  <2>2. Nested(fn, open[i], i - lo, Inner)
    BY <1>1, <1>2, <2>1 DEF Frame
  <2>6. KeepsDeferred(fn, z, open, i, hi, hi + 1)
    <3>1. Prefix(fn.deferred, z.deferred) /\ ~(InLoop(open) /\ Len(z.deferred) > Len(fn.deferred))
      BY <1>2, <1>7 DEF Prefix
    <3>2. open[Len(open)].kind # "if" /\ z.diverged = fn.diverged
      <4>1. fn.diverged \in BOOLEAN /\ z.diverged \in BOOLEAN
        BY <1>2, <1>6 DEF Lowerers
      <4> QED BY <1>0, <1>1, <1>7, <4>1
    <3>3. KeepsDeferred(fn, z, open, i, Len(open) - 1, Len(open))
      BY <1>2, <1>6, <2>1, <3>1, <3>2, PopKeepsDeferred
    <3> QED BY <2>1, <3>3
  <2>7. i - lo \in 0 .. N - 1 /\ \A k \in 1 .. i - lo : k \in 1 .. N - 1
    BY <1>1
  <2>8. ASSUME Carries(open[i]), NEW k \in 1 .. i - lo, NEW n \in DOMAIN z.locals[k]
        PROVE  n \in DOMAIN open[i].carried \/ (n \in DOMAIN fn.locals[k] /\ z.locals[k][n] = fn.locals[k][n])
    <3>1. k \in 1 .. N - 1 /\ n \in DOMAIN fn.locals[k]
          /\ z.locals[k][n] = IF n \in DOMAIN b THEN b[n] ELSE fn.locals[k][n]
      BY <1>11, <2>7
    <3>2. n \in DOMAIN b => n \in DOMAIN open[i].carried
      <4> SUFFICES ASSUME n \in DOMAIN b PROVE n \in DOMAIN open[i].carried
        OBVIOUS
      <4>1. n \in BoundTo(fn, i - lo)
        BY <1>4, <3>1 DEF BoundTo
      <4> QED BY <1>4, <1>12, <2>2, <2>8, <4>1 DEF Nested
    <3> QED BY <3>1, <3>2
  <2>9. KeepsScopes(fn, z, open[i], i - lo)
    BY <1>15, <2>7, <2>8 DEF KeepsScopes
  <2> QED BY <2>6, <2>9
<1>17. lv0 => \A i \in 1 .. hi : LiveIn(open[i])
  <2> SUFFICES ASSUME lv0, NEW i \in 1 .. hi PROVE LiveIn(open[i])
    OBVIOUS
  <2>1. i \in 1 .. Len(open) /\ Len(open) \in 1 .. Len(open) /\ i < Len(open) /\ open[Len(open)] = Inner
    BY <1>1
  <2>2. live \/ Inner.live
    BY <1>0
  <2> QED BY <1>2, <1>12, <2>1, <2>2 DEF Chain
<1> HIDE DEF W
<1>18. /\ BorrowersFrom(fn, z) /\ Len(z.locals) = Len(fn.locals) - 1
       /\ Keeps(fn, z, open, lo, Len(open) - 1, Len(open))
       /\ lv0 => \A i \in 1 .. Len(open) - 1 : LiveIn(open[i])
  <2>1. hi = Len(open) - 1 /\ hi + 1 = Len(open) /\ N = Len(fn.locals)
    BY <1>1 DEF N
  <2> QED BY <1>6, <1>11, <1>16, <1>17, <2>1 DEF Moves
<1>19. State(Ended(z), Front(open), W, lv0, lo)
  BY <1>0, <1>6, <1>10, <1>13, <1>14, <1>18, StateFront
<1> QED BY <1>6, <1>9, <1>19 DEF W

LEMMA EndLoopStep ==
    ASSUME IInv, EndLoop
    PROVE  IInv'
<1> DEFINE l == PopScope(ReleaseTopScope(fn))
           now == Bindings(l, DOMAIN Inner.carried)
           back == BackEdge(now)
           round == back \o Inner.log \o l.insts
           again == [i \in 1 .. (Inner.rounds - 1) * Len(round) |-> round[1 + ((i - 1) % Len(round))]]
           all == IF live THEN l.insts \o again \o (IF Inner.form = "while" THEN back ELSE << >>) ELSE << >>
           b == IF Inner.form = "while" THEN Inner.carried ELSE now
           r == RebindAll(l, b)
           U == r.unset \cup (Inner.pending \ UNION Range(l.pending))
           z == [r EXCEPT !.unset = U]
           lv0 == live \/ (Inner.live /\ Inner.rounds = 0)
<1>1. /\ Running /\ Inner.kind = "loop" /\ ~fn.diverged
      /\ fn' = Ended(z) /\ memory' = Run(memory, all) /\ open' = Logged(Front(open), all)
      /\ live' = lv0
  BY DEF EndLoop, Closes, Lowered, Ended
<1>2. PICK lo \in Nat : Now(lo)
  BY <1>1, NowReached
<1>3. Moves(From, fn, l) /\ Popped(fn, l) /\ l \in Lowerers
  BY <1>1, <1>2, BodyMoves
<1>4. LoopRuns(l, back, again, all)
  BY DEF LoopRuns, Repeats
<1> HIDE DEF again, all, round, back
<1>5. /\ all \in Seq(Insts) /\ Sound(There, all)
      /\ There \cup Defs(all) = After(l, There, live)
  BY <1>1, <1>2, <1>3, <1>4, LoopRunsSound
<1>6. r \in Lowerers
  <2>1. \A n \in DOMAIN b : b[n] \in Bnds
    <3>1. Unsets(r, [r EXCEPT !.unset = {}], {})
      BY DEF Unsets
    <3>2. LoopEnd(lo, l, b, {}, [r EXCEPT !.unset = {}], lv0)
      BY <1>1, <1>2, <3>1 DEF LoopEnd
    <3> HIDE DEF l, b, r, lv0
    <3>3. Rebindable(From, l, b)
      BY <3>2, LoopRebindable
    <3> QED BY <3>3 DEF Rebindable
  <2> HIDE DEF l, b
  <2> QED BY <1>3, <2>1, RebindIs
<1>7. U \in SUBSET Names
  <2>1. Inner \in Blocks
    BY <1>1, <1>2, InnerBlock
  <2>2. Inner.pending \in SUBSET Names
    BY <1>1, <2>1, BlockTypes DEF Carries
  <2> HIDE DEF r
  <2> QED BY <1>6, <2>2 DEF Lowerers
<1> HIDE DEF U
<1>8. LoopEnd(lo, l, b, U, z, lv0)
  BY <1>1, <1>2, <1>7 DEF LoopEnd, Unsets
<1> HIDE DEF l, b, z, lv0
<1>9. State(Ended(z), Front(open), After(l, There, live), lv0, lo) /\ lv0 \in BOOLEAN /\ z \in Lowerers
  BY <1>8, LoopLeft
<1>10. Ended(z).insts = << >>
  BY <1>9, EndedTypes
<1>11. IsMemory(memory) /\ memory.fault = NoFault /\ Logs(open, There)
  BY <1>2 DEF Now
<1>12. Logs(Front(open), There)
  <2>1. /\ Len(open) - 1 \in Nat /\ Len(open) \in Nat /\ Len(open) - 1 <= Len(open)
        /\ Len(Front(open)) = Len(open) - 1
        /\ \A i \in 1 .. Len(open) - 1 : Front(open)[i] = open[i]
    BY <1>1, <1>2, InnerBlock
  <2> QED BY <1>11, <2>1, LogsFront
<1> DEFINE W == After(l, There, live)
<1>13. W = DOMAIN memory.env \cup Defs(all) /\ There \subseteq W
  BY <1>5 DEF There
<1> HIDE DEF W
<1>14. Logs(Front(open), W)
  BY <1>12, <1>13, LogsMore
<1>15. Sound(DOMAIN memory.env, all)
  BY <1>5 DEF There
<1>16. State(Ended(z), Front(open), W, lv0, lo)
  BY <1>9 DEF W
<1>17. Consistent(Ended(z), Logged(Front(open), all), Run(memory, all), lv0)
  <2> DEFINE f == Ended(z)
  <2> HIDE DEF f
  <2>1. State(f, Front(open), W, lv0, lo) /\ f.insts = << >>
    BY <1>10, <1>16 DEF f
  <2>2. Consistent(f, Logged(Front(open), all), Run(memory, all), lv0)
    BY <1>2, <1>5, <1>9, <1>11, <1>13, <1>14, <1>15, <2>1, RunConsistent
  <2> QED BY <2>2 DEF f
<1> QED BY <1>1, <1>17 DEF IInv

-----------------------------------------------------------------------------
(* Calls.                                                                   *)

\* c begins to lower a function whose parameter is v.
Callee(c, v, ty, next) ==
    c = Function([n \in {ParamName} |-> [v |-> v, ty |-> ty]], next, AnyType)

LEMMA CalleeIs ==
    ASSUME NEW v \in Nat, NEW ty \in Flows, NEW next \in Nat \ {0}, NEW c, Callee(c, v, ty, next)
    PROVE  /\ c \in Lowerers /\ c.insts = << >> /\ c.next = next /\ c.diverged = FALSE
           /\ c.deferred = << >> /\ DOMAIN c.temps = {} /\ c.heads = {}
           /\ Len(c.locals) = 1 /\ DOMAIN c.locals[1] = {ParamName} /\ c.locals[1][ParamName] = [v |-> v, ty |-> ty]
           /\ Len(c.pending) = 1 /\ c.pending[1] = {}
<1> DEFINE params == [n \in {ParamName} |-> [v |-> v, ty |-> ty]]
<1>1. c = [locals |-> <<params>>, pending |-> <<{}>>, unset |-> {},
           params |-> DOMAIN params, borrowed |-> {params[n].v : n \in DOMAIN params},
           owned |-> {}, temps |-> << >>, heads |-> {}, deferred |-> << >>,
           next |-> next, diverged |-> FALSE, returns |-> AnyType, insts |-> << >>]
  BY DEF Callee, Function
<1>2. params \in Layers /\ DOMAIN params = {ParamName} /\ DOMAIN params \in SUBSET Names
      /\ params[ParamName] = [v |-> v, ty |-> ty]
  <2>1. [v |-> v, ty |-> ty] \in Bnds
    BY DEF Bnds
  <2>2. {ParamName} \in SUBSET Names
    BY ConstantsAssumption DEF ParamName
  <2>3. params \in [{ParamName} -> Bnds]
    BY <2>1
  <2> QED BY <2>2, <2>3 DEF Layers
<1>3. {params[n].v : n \in DOMAIN params} \in SUBSET Nat
  BY <1>2
<1> DEFINE B == {params[n].v : n \in DOMAIN params}
<1> HIDE DEF params
<1>4. <<params>> \in Seq(Layers) /\ Len(<<params>>) = 1 /\ <<params>>[1] = params
  BY <1>2
<1>5. <<{}>> \in Seq(Pendings) /\ Len(<<{}>>) = 1 /\ <<{}>>[1] = {}
  BY DEF Pendings
<1>6. << >> \in Seq(Deferrals) /\ << >> \in Seq(Insts)
  BY NoInsts
<1>7. << >> \in UNION {[S -> Nat] : S \in SUBSET Nat} /\ DOMAIN << >> = {}
  <2>1. << >> \in [{} -> Nat] /\ {} \in SUBSET Nat
    BY EmptyLayer
  <2> QED BY <2>1, EmptyLayer
<1>8. AnyType \in Types \cup {AnyType}
  OBVIOUS
<1> DEFINE P == DOMAIN params
           L == <<params>>
           K == <<{}>>
           T == << >>
<1>9. c = [locals |-> L, pending |-> K, unset |-> {},
           params |-> P, borrowed |-> B,
           owned |-> {}, temps |-> T, heads |-> {}, deferred |-> << >>,
           next |-> next, diverged |-> FALSE, returns |-> AnyType, insts |-> << >>]
  BY <1>1
<1>10. L \in Seq(Layers) /\ K \in Seq(Pendings) /\ P \in SUBSET Names /\ B \in SUBSET Nat
       /\ T \in UNION {[S -> Nat] : S \in SUBSET Nat} /\ DOMAIN T = {}
  BY <1>2, <1>3, <1>4, <1>5, <1>7
<1> HIDE DEF B, P, L, K, T
<1>11. c \in Lowerers
  BY <1>6, <1>8, <1>9, <1>10 DEF Lowerers
<1>12. /\ c.insts = << >> /\ c.next = next /\ c.diverged = FALSE
       /\ c.deferred = << >> /\ c.temps = T /\ c.heads = {} /\ c.locals = L /\ c.pending = K
  BY <1>9
<1> QED BY <1>2, <1>4, <1>5, <1>10, <1>11, <1>12 DEF L, K

\* The function is entered with its parameter there.
Entered(c, v, ty, next, W, lv, lo) ==
    /\ v \in Nat /\ ty \in Flows /\ next \in Nat \ {0} /\ v < next
    /\ Callee(c, v, ty, next) /\ (lv => v \in W) /\ lo \in Nat

LEMMA CalleeReady ==
    ASSUME NEW c, NEW v, NEW ty, NEW next, NEW W, NEW lv, NEW lo, Entered(c, v, ty, next, W, lv, lo),
           NEW st
    PROVE  /\ Ready(c, W, lv) /\ Frame(c, st, lo, lo) /\ Held(c, st, lo, lo, W) /\ c.next = next
           /\ c.insts = << >>
<1> USE DEF Entered
<1>1. /\ c \in Lowerers /\ c.insts = << >> /\ c.next = next /\ c.diverged = FALSE
      /\ c.deferred = << >> /\ DOMAIN c.temps = {} /\ c.heads = {}
      /\ Len(c.locals) = 1 /\ DOMAIN c.locals[1] = {ParamName} /\ c.locals[1][ParamName] = [v |-> v, ty |-> ty]
      /\ Len(c.pending) = 1 /\ c.pending[1] = {}
  BY CalleeIs
<1>2. c.locals[1][ParamName].v = v
  BY <1>1
<1>3. TempsIn(c, W) /\ TempsIn(c, Values(c)) /\ HeadsIn(c)
  BY <1>1 DEF TempsIn, HeadsIn
<1>4. BorrowersIn(c) /\ \A D : DeferredIn(c, D)
  BY <1>1 DEF BorrowersIn, DeferredIn
<1>5. LocalsIn(c, Values(c)) /\ (lv => LocalsIn(c, W))
  <2>1. v \in Values(c)
    BY <1>1 DEF Values
  <2> QED BY <1>1, <1>2, <2>1 DEF LocalsIn
<1>6. Ready(c, W, lv)
  BY <1>1, <1>3, <1>4, <1>5 DEF Ready
<1>7. Scoped(c)
  BY <1>1 DEF Scoped
<1>8. Frame(c, st, lo, lo) /\ Held(c, st, lo, lo, W)
  BY <1>1, <1>7 DEF Frame, Held
<1> QED BY <1>1, <1>6, <1>8

\* The function l calls another.
Calls(l, st, V, lv, arg, W, next, ty, c, e) ==
    /\ State(l, st, V, lv, 1) /\ lv \in BOOLEAN /\ l.insts = << >> /\ ~l.diverged
    /\ Names \ DeclaredTo(l, Len(l.locals)) # {}
    /\ arg \in Bnds /\ arg.v < l.next /\ (lv => arg.v \in V)
    /\ V \subseteq W /\ Numbered(W, next) /\ \A d \in W : d \in V \/ d >= l.next
    /\ ty \in Flows /\ next \in Nat /\ l.next < next /\ (lv => l.next \in W)
    /\ Callee(c, l.next, ty, next)
    /\ e = [kind |-> "call", fn |-> l, arg |-> arg, live |-> lv]

LEMMA StateCall ==
    ASSUME NEW l, NEW st, NEW V, NEW lv, NEW arg, NEW W, NEW next, NEW ty, NEW c, NEW e,
           Calls(l, st, V, lv, arg, W, next, ty, c, e)
    PROVE  State(c, Append(st, e), W, lv, Len(st) + 1)
<1> DEFINE hi == Len(st)
           st2 == Append(st, e)
<1>1. /\ State(l, st, V, lv, 1) /\ lv \in BOOLEAN /\ l.insts = << >> /\ ~l.diverged
      /\ Names \ DeclaredTo(l, Len(l.locals)) # {}
      /\ arg \in Bnds /\ arg.v < l.next /\ (lv => arg.v \in V)
      /\ V \subseteq W /\ Numbered(W, next) /\ \A d \in W : d \in V \/ d >= l.next
      /\ ty \in Flows /\ next \in Nat /\ l.next < next /\ (lv => l.next \in W)
      /\ Callee(c, l.next, ty, next)
  BY DEF Calls
<1>2. e.kind = "call" /\ e.fn = l /\ e.arg = arg /\ e.live = lv
  BY DEF Calls
<1>3. /\ Stack(st, 1) /\ Ready(l, V, lv) /\ Frame(l, st, 1, hi) /\ Held(l, st, 1, hi, V)
      /\ \A i \in 1 .. hi : Saved(st[i], V)
      /\ Chain(st, lv)
  BY <1>1 DEF State
<1>4. /\ hi \in Nat /\ 1 <= hi /\ DOMAIN st = 1 .. hi /\ st = [i \in 1 .. hi |-> st[i]] /\ st[1] = Main
      /\ \A i \in 2 .. hi : st[i] \in Blocks
  BY <1>3 DEF Stack
<1>0. Len(st) = hi /\ st2 = Append(st, e)
  OBVIOUS
<1> HIDE DEF hi, st2
<1>5. /\ Len(st2) = hi + 1 /\ DOMAIN st2 = 1 .. hi + 1 /\ st2 = [i \in 1 .. hi + 1 |-> st2[i]]
      /\ st2[hi + 1] = e /\ \A i \in 1 .. hi : st2[i] = st[i]
  <2>1. hi \in Nat /\ Len(st) = hi /\ DOMAIN st = 1 .. hi /\ st = [i \in 1 .. hi |-> st[i]]
    BY <1>0, <1>4
  <2> QED BY <1>0, <2>1, AppendIs
<1>6. l \in Lowerers /\ l.next \in Nat
  BY <1>3, ReadyTypes
<1>7. e \in CallEntries
  <2> DEFINE k == "call"
  <2>1. e = [kind |-> k, fn |-> l, arg |-> arg, live |-> lv]
    BY DEF Calls
  <2> QED BY <1>1, <1>6, <2>1 DEF CallEntries
<1>8. Stack(st2, hi + 1)
  <2>1. hi + 1 \in 1 .. hi + 1 /\ 1 \in 1 .. hi /\ hi + 1 \in Nat
    BY <1>4
  <2>2. \A i \in 2 .. hi + 1 : i # hi + 1 => i \in 2 .. hi /\ i \in 1 .. hi
    BY <1>4
  <2> QED BY <1>4, <1>5, <1>7, <2>1, <2>2 DEF Stack
<1>9. Ready(c, W, lv) /\ Frame(c, st2, hi + 1, hi + 1) /\ Held(c, st2, hi + 1, hi + 1, W) /\ c.next = next
  <2> DEFINE lo2 == hi + 1
             v == l.next
  <2>1. lo2 \in Nat
    BY <1>4
  <2>2. next \in Nat \ {0} /\ v \in Nat /\ v < next
    BY <1>1, <1>6
  <2>3. ty \in Flows /\ (lv => v \in W) /\ Callee(c, v, ty, next)
    BY <1>1
  <2> HIDE DEF lo2, v
  <2>4. Ready(c, W, lv) /\ Frame(c, st2, lo2, lo2) /\ Held(c, st2, lo2, lo2, W) /\ c.next = next
    <3>1. Entered(c, v, ty, next, W, lv, lo2)
      BY <2>1, <2>2, <2>3 DEF Entered
    <3> QED BY <3>1, CalleeReady
  <2> QED BY <2>4 DEF lo2
<1>10. \A i \in 1 .. hi + 1 : Saved(st2[i], W)
  <2> SUFFICES ASSUME NEW i \in 1 .. hi + 1 PROVE Saved(st2[i], W)
    OBVIOUS
  <2>1. CASE i = hi + 1
    BY <1>2, <1>5, <2>1 DEF Saved, Carries
  <2>2. CASE i # hi + 1
    <3>1. i \in 1 .. hi
      BY <1>4, <2>2
    <3> QED BY <1>1, <1>3, <1>5, <3>1, SavedMore
  <2> QED BY <2>1, <2>2
<1>11. Chain(st2, lv)
  <2>1. LiveIn(e) = lv /\ Timed(e)
    BY <1>1, <1>2 DEF LiveIn, Timed
  <2>2. ASSUME lv, NEW i \in 1 .. hi + 1 PROVE LiveIn(st2[i])
    <3>1. i = hi + 1 \/ i \in 1 .. hi
      BY <1>4
    <3> QED BY <1>3, <1>5, <2>1, <2>2, <3>1 DEF Chain, hi
  <2>3. ASSUME NEW i \in 1 .. hi + 1, NEW j \in 1 .. hi + 1, i < j, Timed(st2[j]), st2[j].live
        PROVE  LiveIn(st2[i])
    <3>1. CASE j = hi + 1
      BY <1>2, <1>5, <2>2, <2>3, <3>1
    <3>2. CASE j # hi + 1
      <4>1. i \in 1 .. hi /\ j \in 1 .. hi
        BY <1>4, <2>3, <3>2
      <4> QED BY <1>3, <1>5, <2>3, <4>1 DEF Chain, hi
    <3> QED BY <3>1, <3>2
  <2> QED BY <1>5, <2>2, <2>3 DEF Chain
<1>12. Caller(e, st2, hi + 1, W, next)
  <2>1. Ready(l, W, lv)
    BY <1>1, <1>3, <1>6, ReadyMore
  <2>2. hi + 1 - 1 = hi /\ 1 \in Nat
    BY <1>4
  <2>3. \A i \in 1 + 1 .. hi : Alike(st[i], st2[i])
    <3>1. \A i \in 1 + 1 .. hi : i \in 1 .. hi
      BY <1>4
    <3> QED BY <1>5, <3>1 DEF Alike
  <2>4. Frame(l, st2, 1, hi) /\ Held(l, st2, 1, hi, V)
    BY <1>3, <1>4, <2>2, <2>3, AlikeFrame
  <2>5. Held(l, st2, 1, hi, W)
    BY <1>1, <2>4, HeldMore
  <2>6. Frame(l, st2, 1, hi + 1 - 1) /\ Held(l, st2, 1, hi + 1 - 1, W)
    BY <2>2, <2>4, <2>5
  <2>7. l.next <= next /\ (lv => arg.v \in W)
    BY <1>1, <1>6
  <2>8. Ready(e.fn, W, e.live) /\ e.fn.next <= next /\ ~e.fn.diverged /\ e.fn.insts = << >>
    BY <1>1, <1>2, <2>1, <2>7
  <2> DEFINE lo2 == hi + 1
  <2>9. Frame(e.fn, st2, 1, lo2 - 1) /\ Held(e.fn, st2, 1, lo2 - 1, W)
    <3>1. e.fn = l
      BY <1>2
    <3>2. Frame(e.fn, st2, 1, hi) /\ Held(e.fn, st2, 1, hi, W)
      BY <2>4, <2>5, <3>1, Zenon
    <3>3. lo2 - 1 = hi
      BY <1>4
    <3> HIDE DEF lo2
    <3> QED BY <3>2, <3>3
  <2>10. Names \ DeclaredTo(e.fn, Len(e.fn.locals)) # {}
    BY <1>1, <1>2
  <2>11. e.arg.v < e.fn.next /\ (e.live => e.arg.v \in W)
    BY <1>1, <1>2, <2>7
  <2> HIDE DEF lo2
  <2>12. Caller(e, st2, lo2, W, next)
    BY <2>8, <2>9, <2>10, <2>11 DEF Caller
  <2> QED BY <2>12 DEF lo2
<1>13. State(c, st2, W, lv, hi + 1)
  BY <1>1, <1>5, <1>8, <1>9, <1>10, <1>11, <1>12 DEF State
<1> QED BY <1>13 DEF hi, st2

\* A lowering of the argument: o, and p defines the parameter's value.
Argument(o, p) ==
    /\ Lowers(From, fn, o) /\ o.l.deferred = fn.deferred
    /\ p = Define(o.l, "Param", o.v)

LEMMA ArgumentNow ==
    ASSUME NEW lo, Now(lo), ~fn.diverged, NEW o, NEW p, Argument(o, p)
    PROVE  LET V == After(o.l, There, live)
               W == After(p, There, live)
           IN  /\ State(Ended(o.l), open, V, live, lo) /\ o.l \in Lowerers /\ ~o.l.diverged
               /\ o.l.locals = fn.locals /\ o.l.pending = fn.pending
               /\ V \subseteq W /\ Numbered(W, p.next) /\ \A d \in W : d \in V \/ d >= o.l.next
               /\ p.next \in Nat /\ o.l.next \in Nat /\ p.next = o.l.next + 1
               /\ live => o.v \in V /\ o.l.next \in W
               /\ live => Sound(There, p.insts) /\ W = There \cup Defs(p.insts)
               /\ p \in Lowerers /\ o.v < o.l.next /\ o.ty \in Flows /\ o.v \in Nat
<1>1. /\ Lowers(From, fn, o) /\ o.l.deferred = fn.deferred /\ p = Define(o.l, "Param", o.v)
  BY DEF Argument
<1>2. /\ Good(From, fn) /\ fn \in Lowerers /\ Stack(open, lo) /\ Frame(fn, open, lo, Len(open))
      /\ live \in BOOLEAN /\ Scoped(fn) /\ Len(fn.locals) = Len(open) - lo + 1
      /\ Len(open) \in Nat /\ lo \in Nat /\ lo \in 1 .. Len(open) /\ DOMAIN open = 1 .. Len(open)
      /\ open = [i \in 1 .. Len(open) |-> open[i]]
  BY NowTypes DEF Stack
<1>3. /\ Goes(From, fn, o.l) /\ o.v \in Avail(From, o.l) /\ o.ty \in Flows /\ o.v < o.l.next
  BY <1>1 DEF Lowers
<1>4. Good(From, o.l) /\ o.l \in Lowerers /\ o.v \in Nat /\ o.l.next \in Nat
  BY <1>3, GoesGood, GoodTypes
<1>5. /\ Moves(From, fn, o.l) /\ o.l.locals = fn.locals /\ o.l.pending = fn.pending
      /\ o.l.diverged = fn.diverged /\ Prefix(fn.deferred, o.l.deferred)
  BY <1>3 DEF Goes, SameScopes
<1> DEFINE l == o.l
           V == After(l, There, live)
           W == After(p, There, live)
<1>6. State(Ended(l), open, V, live, lo)
  <2>1. Scoped(l) /\ Len(l.locals) = Len(open) - lo + 1
    BY <1>2, <1>5 DEF Scoped
  <2>2. Len(l.deferred) = Len(fn.deferred) /\ Len(fn.deferred) \in Nat
    BY <1>1, <1>2, GoodTypes
  <2>3. ~(InLoop(open) /\ Len(l.deferred) > Len(fn.deferred))
    BY <2>2
  <2>4. l \in Lowerers /\ Moves(From, fn, l) /\ Prefix(fn.deferred, l.deferred)
        /\ l.locals = fn.locals /\ l.pending = fn.pending /\ l.diverged = fn.diverged
    BY <1>4, <1>5
  <2> HIDE DEF l
  <2>5. Keeps(fn, l, open, lo, Len(open), Len(open))
    BY <1>2, <2>3, <2>4, KeepsDeferredOn, SameKeepsScopes DEF Keeps
  <2>6. lo <= Len(open) /\ (live => live /\ ~l.diverged) /\ (l.diverged => l.returns \in Types)
    BY <1>2, <2>4
  <2> QED BY <1>2, <2>1, <2>4, <2>5, <2>6, StateFrom
<1>7. /\ Goes(From, l, p) /\ l.next \in Avail(From, p) /\ p.next = l.next + 1
  <2> DEFINE op == "Param"
             v == o.v
  <2>1. op \in DefiningOps
    BY DEF DefiningOps
  <2>2. p = Define(l, op, v) /\ Good(From, l) /\ v \in Avail(From, l) /\ v \in Int
    BY <1>1, <1>3, <1>4
  <2> HIDE DEF op, v, l
  <2>3. Goes(From, l, Define(l, op, v)) /\ l.next \in Avail(From, Define(l, op, v))
        /\ Define(l, op, v).next = l.next + 1
    BY <2>1, <2>2, DefineGoes
  <2> QED BY <2>2, <2>3
<1>8. Moves(From, fn, p) /\ p.diverged = fn.diverged /\ AvailFrom(From, l, p)
  BY <1>2, <1>5, <1>7, MovesOn DEF Goes, SameScopes, Moves
<1>9. /\ Numbered(W, p.next) /\ p \in Lowerers
      /\ live => Sound(There, p.insts) /\ W = There \cup Defs(p.insts)
  BY <1>2, <1>8, MovesNow
<1>10. live => From = There
  BY DEF From, Basis
<1>11. V \subseteq W /\ (\A d \in W : d \in V \/ d >= l.next)
  <2>1. CASE live
    BY <1>8, <1>10, <2>1 DEF After, AvailFrom
  <2>2. CASE ~live
    BY <2>2 DEF After
  <2> QED BY <2>1, <2>2
<1>12. live => o.v \in V /\ l.next \in W
  BY <1>3, <1>7, <1>10 DEF After
<1> QED BY <1>3, <1>4, <1>5, <1>6, <1>7, <1>9, <1>11, <1>12

LEMMA CallOperStep ==
    ASSUME ShapesExcluded, IInv, CallOper
    PROVE  IInv'
<1>1. Running /\ ~fn.diverged /\ HasFreeName(fn) /\ \A i \in DOMAIN open : open[i].kind # "call"
  BY StatementDef DEF CallOper, Opens
<1>2. PICK lo \in Nat : Now(lo)
  BY <1>1, NowReached
<1>3. PICK e \in Arguments(fn) :
        LET o == LowerExpr(fn, e)
            p == Define(o.l, "Param", o.v)
            callee == Function([n \in {ParamName} |-> [v |-> o.l.next, ty |-> o.ty]],
                               p.next, AnyType)
        IN /\ Write([callee EXCEPT !.insts = p.insts],
                 Append(open, [kind |-> "call", fn |-> [o.l EXCEPT !.insts = << >>],
                               arg |-> Binding(o), live |-> live]))
           /\ live' = live
  BY DEF CallOper
<1> DEFINE o == LowerExpr(fn, e)
           p == Define(o.l, "Param", o.v)
           c == Function([n \in {ParamName} |-> [v |-> o.l.next, ty |-> o.ty]], p.next, AnyType)
           m == [c EXCEPT !.insts = p.insts]
           entry == [kind |-> "call", fn |-> Ended(o.l), arg |-> Binding(o), live |-> live]
           st == Append(open, entry)
           V == After(o.l, There, live)
           W == After(p, There, live)
<1>4. Write(m, st) /\ live' = live
  BY <1>3 DEF Ended
<1>5. lo = 1
  <2>1. Stack(open, lo)
    BY <1>2, NowTypes
  <2>2. lo \in DOMAIN open /\ (lo > 1 => open[lo] \in CallEntries) /\ lo >= 1
    BY <2>1 DEF Stack
  <2> QED BY <1>1, <2>2, KindsDiffer
<1>6. Argument(o, p)
  <2>1. Good(From, fn)
    BY <1>2, NowTypes
  <2>2. Lowers(From, fn, o) /\ o.l.deferred = fn.deferred
    BY <2>1, PlainExprsDeferNothing
  <2> QED BY <2>2 DEF Argument
<1> HIDE DEF o
<1>7. /\ fn \in Lowerers /\ live \in BOOLEAN /\ Len(fn.pending) = Len(fn.locals)
      /\ IsMemory(memory) /\ memory.fault = NoFault /\ Logs(open, There)
      /\ Len(open) \in Nat /\ DOMAIN open = 1 .. Len(open) /\ open = [i \in 1 .. Len(open) |-> open[i]]
  BY <1>2, NowTypes DEF Now, Stack, Scoped
<1> HIDE DEF p
<1>8. /\ State(Ended(o.l), open, V, live, 1) /\ o.l \in Lowerers /\ ~o.l.diverged
      /\ o.l.locals = fn.locals /\ o.l.pending = fn.pending
      /\ V \subseteq W /\ Numbered(W, p.next) /\ \A d \in W : d \in V \/ d >= o.l.next
      /\ p.next \in Nat /\ o.l.next \in Nat /\ p.next = o.l.next + 1
      /\ live => o.v \in V /\ o.l.next \in W
      /\ live => Sound(There, p.insts) /\ W = There \cup Defs(p.insts)
      /\ p \in Lowerers /\ o.v < o.l.next /\ o.ty \in Flows /\ o.v \in Nat
  <2>1. Now(1)
    BY <1>2, <1>5
  <2> QED BY <1>1, <1>6, <2>1, ArgumentNow
<1> DEFINE l == Ended(o.l)
           arg == Binding(o)
           ty == o.ty
           next == p.next
<1>9. /\ l.next = o.l.next /\ l.insts = << >> /\ l.diverged = o.l.diverged
      /\ l.locals = o.l.locals /\ l.pending = o.l.pending
  BY <1>8, EndedTypes
<1>10. arg \in Bnds /\ arg.v = o.v
  BY <1>8 DEF Binding, Bnds
<1>11. Names \ DeclaredTo(l, Len(l.locals)) # {}
  <2>1. Names \ DeclaredTo(fn, Len(fn.locals)) # {}
    BY <1>1, <1>7, HasFreeNameDef
  <2>2. DeclaredTo(l, Len(l.locals)) = DeclaredTo(fn, Len(fn.locals))
    BY <1>8, <1>9 DEF DeclaredTo
  <2> QED BY <2>1, <2>2
<1>12. Callee(c, l.next, ty, next)
  BY <1>9 DEF Callee
<1>13. entry = [kind |-> "call", fn |-> l, arg |-> arg, live |-> live]
  OBVIOUS
<1>15. State(c, st, W, live, Len(open) + 1)
  <2>1. /\ State(l, open, V, live, 1) /\ live \in BOOLEAN /\ l.insts = << >> /\ ~l.diverged
        /\ arg.v < l.next /\ (live => arg.v \in V)
        /\ V \subseteq W /\ Numbered(W, next) /\ \A d \in W : d \in V \/ d >= l.next
        /\ ty \in Flows /\ next \in Nat /\ l.next < next /\ (live => l.next \in W)
    BY <1>7, <1>8, <1>9, <1>10
  <2> HIDE DEF c, l, next, ty, arg, V, W, entry
  <2>2. Calls(l, open, V, live, arg, W, next, ty, c, entry)
    BY <1>10, <1>11, <1>12, <1>13, <2>1 DEF Calls
  <2> QED BY <2>2, StateCall
<1>21. c.insts = << >>
  BY DEF Function
<1> HIDE DEF c
<1>14. c \in Lowerers /\ c.insts = << >>
  <2>1. Ready(c, W, live)
    BY <1>15 DEF State
  <2> QED BY <1>21, <2>1, ReadyTypes
<1>16. m \in Lowerers /\ m.insts = p.insts /\ Ended(m) = c
  BY <1>8, <1>14 DEF Lowerers, Ended
<1>17. After(m, There, live) = W
  BY <1>16 DEF After, Avail
<1>18. Logs(st, There)
  <2> DEFINE hi == Len(open)
  <2>1. hi \in Nat /\ Len(open) = hi /\ DOMAIN open = 1 .. hi /\ open = [i \in 1 .. hi |-> open[i]]
    BY <1>7
  <2>2. entry.kind = "call"
    OBVIOUS
  <2> HIDE DEF entry, hi
  <2>3. Len(st) = hi + 1 /\ st[hi + 1] = entry /\ \A i \in 1 .. hi : st[i] = open[i]
    BY <2>1, AppendIs
  <2>4. \A i \in 1 .. hi + 1 : i = hi + 1 \/ i \in 1 .. hi
    BY <2>1
  <2> HIDE DEF st
  <2> QED BY <1>7, <2>1, <2>2, <2>3, <2>4 DEF Logs
<1>19. /\ live => Sound(There, m.insts) /\ After(m, There, live) = There \cup Defs(m.insts)
  BY <1>8, <1>16, <1>17
<1>20. State(Ended(m), st, After(m, There, live), live', Len(open) + 1) /\ live' \in BOOLEAN /\ Len(open) + 1 \in Nat
  BY <1>4, <1>7, <1>15, <1>16, <1>17
<1> HIDE DEF m, st
<1> QED BY <1>4, <1>7, <1>16, <1>18, <1>19, <1>20, WriteConsistent

\* m goes on from l but for what is deferred, which is forgotten.
LEMMA DrainedMoves ==
    ASSUME NEW D, NEW l, NEW x, Goes(D, l, x), NEW m, m = [x EXCEPT !.deferred = << >>]
    PROVE  Moves(D, l, m) /\ Good(D, m) /\ Avail(D, m) = Avail(D, x) /\ SameScopes(l, m) /\ m.next = x.next
           /\ m.deferred = << >>
<1>1. /\ Good(D, x) /\ Moves(D, l, x) /\ SameScopes(l, x) /\ x \in Lowerers
  BY DEF Goes, Moves, Good
<1>2. /\ m \in Lowerers /\ m.insts = x.insts /\ m.temps = x.temps /\ m.heads = x.heads /\ m.next = x.next
      /\ m.locals = x.locals /\ m.pending = x.pending /\ m.diverged = x.diverged
      /\ m.params = x.params /\ m.unset = x.unset /\ m.borrowed = x.borrowed /\ m.returns = x.returns
      /\ m.deferred = << >>
  <2>1. << >> \in Seq(Deferrals)
    OBVIOUS
  <2> QED BY <1>1, <2>1 DEF Lowerers
<1>3. Len(m.deferred) = 0 /\ Len(x.deferred) \in Nat
  BY <1>1, <1>2 DEF Lowerers
<1>4. \A k \in 1 .. Len(x.locals) : \A n \in DOMAIN x.locals[k] : x.locals[k][n].v \in Avail(D, x)
  BY <1>1 DEF Good, LocalsIn
<1>5. /\ Len(m.deferred) <= Len(x.deferred) /\ \A k \in 1 .. Len(m.deferred) : FALSE
  BY <1>3
<1>6. Rescopes(D, x, m)
  BY <1>2, <1>4, <1>5 DEF Rescopes
<1>7. Moves(D, l, m)
  BY <1>1, <1>6, RescopeMoves
<1> QED BY <1>1, <1>2, <1>7 DEF Moves, Avail, SameScopes

LEMMA EpilogueMoves ==
    ASSUME NEW D, NEW l, Good(D, l), Len(l.locals) > 0, NEW o, Block(D, l, o)
    PROVE  LET x == Epilogue(o)
           IN  /\ Moves(D, l, x) /\ x \in Lowerers /\ x.diverged = l.diverged /\ x.returns = l.returns
<1> DEFINE x == Epilogue(o)
<1>1. /\ l \in Lowerers /\ o.l \in Lowerers /\ Goes(D, l, o.l) /\ Good(D, o.l)
      /\ Moves(D, l, o.l) /\ SameScopes(l, o.l)
  BY BlockGoes DEF Goes
<1>2. CASE o.l.diverged
  <2>1. x = o.l
    BY <1>2 DEF Epilogue
  <2> HIDE DEF x
  <2> QED BY <1>1, <2>1 DEF SameScopes, x
<1>3. CASE ~o.l.diverged
  <2> DEFINE b == BoxReturnValue(o.l, o.v, o.ty)
             kept == RetainIfEscapingLocal(b.l, b.v, b.ty)
             r == ReleaseTopScope(kept)
             d == EmitAll(r, "Release", Sources(r.deferred))
             y == [d EXCEPT !.deferred = << >>]
             z == Emit(y, "Return", b.v)
  <2>1. x = z
    BY <1>3 DEF Epilogue, DrainDeferred
  <2> HIDE DEF x
  <2>2. Emits(D, o.l, kept) /\ Good(D, kept) /\ (b.v \in Avail(D, kept) \/ b.v = NoValue)
    BY EscapeEmits
  <2> HIDE DEF b, kept
  <2>3. kept.locals = l.locals /\ kept \in Lowerers
    BY <1>1, <2>2, GoodTypes DEF Emits, Goes, SameScopes
  <2>4. Emits(D, kept, r) /\ Good(D, r) /\ Avail(D, kept) \subseteq Avail(D, r)
    <3>1. Len(kept.locals) > 0
      BY <2>3
    <3> QED BY <2>2, <3>1, ReleaseTopScopeEmits, EmitsGood
  <2> HIDE DEF r
  <2>5. Emits(D, r, d) /\ Good(D, d) /\ Avail(D, r) \subseteq Avail(D, d) /\ r \in Lowerers
    <3>1. r.deferred \in Seq(Deferrals) /\ r \in Lowerers
      BY <2>4, GoodTypes
    <3>2. \A k \in 1 .. Len(r.deferred) : r.deferred[k].src \in Avail(D, r)
      BY <2>4 DEF Good, DeferredIn
    <3>3. Emits(D, r, d)
      BY <2>4, <3>1, <3>2, DrainEmits
    <3> HIDE DEF d
    <3> QED BY <3>1, <3>3, EmitsGood
  <2> HIDE DEF d
  <2>6. Goes(D, l, d)
    <3>1. Goes(D, o.l, kept) /\ Goes(D, kept, r) /\ Goes(D, r, d)
      BY <2>2, <2>4, <2>5 DEF Emits
    <3>2. Goes(D, l, kept)
      BY <1>1, <3>1, GoesOn
    <3>3. Goes(D, l, r)
      BY <1>1, <3>1, <3>2, GoesOn
    <3> QED BY <1>1, <3>1, <3>3, GoesOn
  <2>7. /\ Moves(D, l, y) /\ Good(D, y) /\ Avail(D, y) = Avail(D, d) /\ SameScopes(l, y)
    BY <2>6, DrainedMoves
  <2> HIDE DEF y
  <2>8. b.v \in Avail(D, y) \/ b.v = NoValue
    BY <2>2, <2>4, <2>5, <2>7
  <2>9. Emits(D, y, z)
    BY <2>7, <2>8, ReturnEmits
  <2> HIDE DEF z
  <2>10. Moves(D, y, z) /\ SameScopes(y, z) /\ z \in Lowerers
    BY <2>9, EmitsGood, GoodTypes DEF Emits, Goes
  <2>11. Moves(D, l, z)
    BY <1>1, <2>7, <2>10, MovesOn
  <2> QED BY <2>1, <2>7, <2>10, <2>11 DEF SameScopes, x
<1> QED BY <1>2, <1>3

-----------------------------------------------------------------------------
(* Functions that end.                                                     *)

\* c is l, where values are numbered from next on.
Numbers(l, next, c) == next \in Nat /\ l.next <= next /\ c = [l EXCEPT !.next = next]

LEMMA NumbersReady ==
    ASSUME NEW l, NEW V, NEW lv, Ready(l, V, lv), NEW next, NEW c, Numbers(l, next, c)
    PROVE  Ready(c, V, lv) /\ c \in Lowerers /\ c.next = next
           /\ c.locals = l.locals /\ c.pending = l.pending /\ c.deferred = l.deferred
           /\ c.diverged = l.diverged /\ c.returns = l.returns /\ c.insts = l.insts
<1>1. /\ l \in Lowerers /\ l.next \in Nat \ {0} /\ next \in Nat /\ l.next <= next
      /\ \A t \in DOMAIN l.temps : t \in Nat /\ l.temps[t] \in Nat
  BY ReadyTypes DEF Numbers
<1>2. /\ c \in Lowerers /\ c.next = next /\ c.temps = l.temps /\ c.heads = l.heads
      /\ c.locals = l.locals /\ c.pending = l.pending /\ c.deferred = l.deferred
      /\ c.diverged = l.diverged /\ c.returns = l.returns /\ c.insts = l.insts
  <2>1. next \in Nat \ {0} /\ c = [l EXCEPT !.next = next]
    BY <1>1 DEF Numbers
  <2> QED BY <1>1, <2>1 DEF Lowerers
<1>3. Values(l) \subseteq Values(c)
  BY <1>1, <1>2 DEF Values
<1>4. TempsIn(c, V) /\ TempsIn(c, Values(c))
  <2>1. TempsIn(l, V)
    BY DEF Ready
  <2>2. \A t \in DOMAIN l.temps : t < next /\ l.temps[t] < next /\ l.temps[t] \in Values(c)
    BY <1>1, <1>2, <2>1 DEF TempsIn, Values
  <2> QED BY <1>2, <2>1, <2>2 DEF TempsIn
<1>5. HeadsIn(c)
  <2>1. HeadsIn(l) /\ \A h \in l.heads : h \in Nat
    BY <1>1 DEF Ready, Lowerers
  <2> QED BY <1>1, <1>2, <2>1 DEF HeadsIn
<1>6. BorrowersIn(c)
  <2> SUFFICES ASSUME NEW k \in 1 .. Len(c.deferred) PROVE Borrows(c, c.deferred[k].flat)
    BY DEF BorrowersIn
  <2>1. Borrows(l, l.deferred[k].flat)
    BY <1>2 DEF Ready, BorrowersIn
  <2>2. l.deferred[k].flat \in Nat \cup {ExtractSource}
    <3>1. l.deferred \in Seq(Deferrals) /\ k \in 1 .. Len(l.deferred)
      BY <1>1, <1>2 DEF Lowerers
    <3>2. l.deferred[k] \in Deferrals
      BY <3>1
    <3> DEFINE d == l.deferred[k]
    <3>3. d \in Deferrals
      BY <3>2
    <3> HIDE DEF d
    <3>4. d.flat \in Nat \cup {ExtractSource}
      BY <3>3 DEF Deferrals
    <3> QED BY <3>4 DEF d
  <2>3. l.deferred[k].flat < next
    BY <1>1, <2>1, <2>2 DEF Borrows, ExtractSource
  <2> QED BY <1>2, <2>1, <2>3 DEF Borrows
<1>7. LocalsIn(c, Values(c)) /\ DeferredIn(c, Values(c))
  BY <1>2, <1>3 DEF Ready, LocalsIn, DeferredIn
<1>8. lv => LocalsIn(c, V) /\ DeferredIn(c, V) /\ ~c.diverged
  BY <1>2 DEF Ready, LocalsIn, DeferredIn
<1> QED BY <1>2, <1>4, <1>5, <1>6, <1>7, <1>8 DEF Ready

LEMMA InnerCall ==
    ASSUME NEW lo, Now(lo), Inner.kind = "call"
    PROVE  LET hi == Len(open) - 1
           IN  /\ lo = hi + 1 /\ Len(open) = lo /\ hi \in Nat /\ hi >= 1 /\ lo > 1
               /\ Inner = open[lo] /\ Inner \in CallEntries
               /\ Caller(Inner, open, lo, There, fn.next)
               /\ Len(Front(open)) = hi /\ DOMAIN Front(open) = 1 .. hi
               /\ Front(open) = [i \in 1 .. hi |-> Front(open)[i]]
               /\ \A i \in 1 .. hi : Front(open)[i] = open[i]
               /\ Len(fn.locals) = 1
<1>1. /\ lo \in Nat /\ lo \in 1 .. Len(open) /\ Len(open) \in Nat /\ Stack(open, lo)
      /\ Len(fn.locals) = Len(open) - lo + 1
  BY NowTypes
<1>2. /\ DOMAIN open = 1 .. Len(open) /\ open = [i \in 1 .. Len(open) |-> open[i]]
      /\ open[1] = Main /\ (lo > 1 => open[lo] \in CallEntries)
      /\ \A i \in 2 .. Len(open) : i # lo => open[i] \in Blocks
  BY <1>1 DEF Stack
<1>3. Inner = open[Len(open)]
  BY DEF Inner
<1>4. Len(open) # 1
  BY <1>2, <1>3, KindsDiffer
<1>5. lo = Len(open)
  <2> DEFINE k == Len(open)
  <2>0. k \in Nat /\ lo \in Nat /\ lo \in 1 .. k /\ k # 1
    BY <1>1, <1>4
  <2> HIDE DEF k
  <2>3. k \in 2 .. k
    BY <2>0
  <2>1. Len(open) \in 2 .. Len(open)
    BY <2>3 DEF k
  <2>2. Inner \notin Blocks
    BY BlockTypes
  <2> QED BY <1>2, <1>3, <2>1, <2>2
<1>6. lo > 1 /\ Inner \in CallEntries
  BY <1>1, <1>2, <1>3, <1>4, <1>5
<1>7. Caller(Inner, open, lo, There, fn.next)
  <2>1. State(fn, open, There, live, lo)
    BY DEF Now
  <2> QED BY <1>3, <1>5, <1>6, <2>1 DEF State
<1> DEFINE n == Len(open)
<1>8. n \in Nat /\ n > 0 /\ Len(open) = n /\ DOMAIN open = 1 .. n /\ open = [i \in 1 .. n |-> open[i]]
  BY <1>1, <1>2
<1> HIDE DEF n
<1>9. /\ Len(Front(open)) = n - 1 /\ DOMAIN Front(open) = 1 .. n - 1 /\ n - 1 \in Nat
      /\ Front(open) = [i \in 1 .. n - 1 |-> Front(open)[i]]
      /\ \A i \in 1 .. n - 1 : Front(open)[i] = open[i]
  BY <1>8, FrontOf
<1>10. n - 1 >= 1 /\ lo = n - 1 + 1 /\ Len(fn.locals) = 1
  BY <1>1, <1>5, <1>6, <1>8
<1> QED BY <1>3, <1>5, <1>6, <1>7, <1>9, <1>10 DEF n

\* The caller goes on: what has been computed since is W.
GoesBack(lo, W, next, c) ==
    /\ Now(lo) /\ Inner.kind = "call"
    /\ There \subseteq W /\ Numbered(W, next) /\ \A d \in W : d \in There \/ d >= fn.next
    /\ next \in Nat /\ fn.next <= next /\ Numbers(Inner.fn, next, c)

LEMMA CallerState ==
    ASSUME NEW lo, NEW W, NEW next, NEW c, GoesBack(lo, W, next, c)
    PROVE  /\ State(c, Front(open), W, Inner.live, 1) /\ c.insts = << >> /\ ~c.diverged
           /\ Names \ DeclaredTo(c, Len(c.locals)) # {} /\ Inner.live \in BOOLEAN
           /\ Inner.arg.v \in Nat /\ Inner.arg.v < c.next /\ (Inner.live => Inner.arg.v \in W)
<1> DEFINE l == Inner.fn
           lv == Inner.live
           st == Front(open)
           hi == Len(open) - 1
<1>1. /\ Now(lo) /\ Inner.kind = "call"
      /\ There \subseteq W /\ Numbered(W, next) /\ \A d \in W : d \in There \/ d >= fn.next
      /\ next \in Nat /\ fn.next <= next /\ Numbers(l, next, c)
  BY DEF GoesBack
<1>2. /\ lo = hi + 1 /\ Len(open) = lo /\ hi \in Nat /\ hi >= 1 /\ lo > 1
      /\ Inner = open[lo] /\ Inner \in CallEntries
      /\ Caller(Inner, open, lo, There, fn.next)
      /\ Len(st) = hi /\ DOMAIN st = 1 .. hi
      /\ st = [i \in 1 .. hi |-> st[i]]
      /\ \A i \in 1 .. hi : st[i] = open[i]
  BY <1>1, InnerCall
<1>3. /\ Ready(l, There, lv) /\ l.next <= fn.next /\ ~l.diverged /\ l.insts = << >>
      /\ Frame(l, open, 1, lo - 1) /\ Held(l, open, 1, lo - 1, There)
      /\ Names \ DeclaredTo(l, Len(l.locals)) # {}
      /\ Inner.arg.v < l.next /\ (lv => Inner.arg.v \in There)
  BY <1>2 DEF Caller
<1>4. lv \in BOOLEAN /\ Inner.arg.v \in Nat /\ l \in Lowerers
  BY <1>2 DEF CallEntries, Bnds
<1>5. fn.next \in Nat /\ l.next \in Nat
  <2>1. fn \in Lowerers
    BY <1>1, NowTypes
  <2> QED BY <1>4, <2>1 DEF Lowerers
<1>6. lo - 1 = hi
  BY <1>2
<1>7. Frame(l, open, 1, hi) /\ Held(l, open, 1, hi, There)
  BY <1>3, <1>6
<1> HIDE DEF l, lv, hi
<1>8. Ready(l, W, lv)
  BY <1>1, <1>3, <1>5, ReadyMore
<1>9. /\ Ready(c, W, lv) /\ c \in Lowerers /\ c.next = next
      /\ c.locals = l.locals /\ c.pending = l.pending /\ c.deferred = l.deferred
      /\ c.diverged = l.diverged /\ c.returns = l.returns /\ c.insts = l.insts
  BY <1>1, <1>8, NumbersReady
<1>10. Keeps(l, c, open, 1, hi, hi)
  <2>1. Keeps(l, l, open, 1, hi, hi)
    BY <1>7, KeepsSelf
  <2>2. \A i, k : Inside(c, open, i, hi, k) <=> Inside(l, open, i, hi, k)
    BY <1>9 DEF Inside
  <2>3. \A i : KeepsDeferred(l, l, open, i, hi, hi) => KeepsDeferred(l, c, open, i, hi, hi)
    BY <1>9, <2>2 DEF KeepsDeferred
  <2>4. \A i : KeepsScopes(l, l, open[i], i - 1) => KeepsScopes(l, c, open[i], i - 1)
    BY <1>9 DEF KeepsScopes, DeclaredTo, BoundTo
  <2> QED BY <2>1, <2>3, <2>4 DEF Keeps
<1>11. BorrowersFrom(l, c)
  <2>1. Len(l.deferred) \in Nat
    BY <1>4 DEF Lowerers
  <2> QED BY <1>9, <2>1 DEF BorrowersFrom
<1>12. Scoped(c) /\ Len(c.locals) = hi - 1 + 1
  BY <1>7, <1>9 DEF Frame, Scoped
<1>13. l.next <= c.next /\ 1 \in Nat /\ hi \in Nat /\ hi <= hi
  BY <1>1, <1>2, <1>3, <1>5, <1>9
<1>14. Frame(c, open, 1, hi)
  BY <1>4, <1>7, <1>9, <1>10, <1>11, <1>12, <1>13, FrameKept
<1>15. Held(c, open, 1, hi, W)
  <2>1. Held(l, open, 1, hi, W)
    BY <1>1, <1>7, HeldMore
  <2> QED BY <1>4, <1>7, <1>9, <1>10, <1>13, <2>1, HeldKept
<1>16. Frame(c, st, 1, hi) /\ Held(c, st, 1, hi, W)
  <2>1. \A i \in 1 + 1 .. hi : i \in 1 .. hi
    BY <1>2
  <2>2. \A i \in 1 + 1 .. hi : Alike(open[i], st[i])
    BY <1>2, <2>1 DEF Alike
  <2> HIDE DEF st
  <2> QED BY <1>13, <1>14, <1>15, <2>2, AlikeFrame
<1>17. /\ State(fn, open, There, live, lo) /\ Stack(open, lo) /\ Chain(open, live)
       /\ \A i \in 1 .. Len(open) : Saved(open[i], There)
  BY <1>1 DEF Now, State
<1>18. \A i \in 1 .. hi : i \in 1 .. Len(open) /\ i < lo
  BY <1>2
<1> HIDE DEF st
<1>19. \A i \in 1 .. hi : Saved(st[i], W)
  BY <1>1, <1>2, <1>17, <1>18, SavedMore
<1>20. Chain(st, lv)
  <2>1. lo \in 1 .. Len(open)
    BY <1>2
  <2>2. Timed(open[lo]) /\ open[lo].live = lv
    BY <1>1, <1>2 DEF Timed, lv
  <2>3. lv => \A i \in 1 .. hi : LiveIn(open[i])
    BY <1>17, <1>18, <2>1, <2>2 DEF Chain
  <2>4. \A i, j \in 1 .. hi : i < j /\ Timed(open[j]) /\ open[j].live => LiveIn(open[i])
    BY <1>17, <1>18 DEF Chain
  <2> QED BY <1>2, <2>3, <2>4 DEF Chain
<1>21. Stack(st, 1)
  <2>1. /\ open[1] = Main /\ \A i \in 2 .. Len(open) : i # lo => open[i] \in Blocks
    BY <1>17 DEF Stack
  <2>2. \A i \in 2 .. hi : i \in 2 .. Len(open) /\ i # lo /\ i \in 1 .. hi
    BY <1>2
  <2>3. 1 \in 1 .. hi
    BY <1>2
  <2>4. \A i \in 2 .. hi : st[i] \in Blocks
    BY <1>2, <2>1, <2>2
  <2> QED BY <1>2, <2>1, <2>3, <2>4 DEF Stack
<1>22. Numbered(W, c.next)
  BY <1>1, <1>9
<1>23. State(c, st, W, lv, 1)
  BY <1>2, <1>9, <1>16, <1>19, <1>20, <1>21, <1>22 DEF State
<1>24. Names \ DeclaredTo(c, Len(c.locals)) # {}
  BY <1>3, <1>9 DEF DeclaredTo
<1>25. Inner.arg.v < c.next /\ (lv => Inner.arg.v \in W)
  BY <1>1, <1>3, <1>4, <1>5, <1>9
<1> QED BY <1>3, <1>4, <1>9, <1>23, <1>24, <1>25 DEF st, lv

\* f is a tuple nothing else is known of: it may borrow from a source.
Borrower(l, m, f) ==
    /\ f \in Nat /\ l.next <= f /\ f < m.next /\ f \notin m.heads \cup DOMAIN m.temps
    /\ \A k \in 1 .. Len(m.locals) : \A n \in DOMAIN m.locals[k] : m.locals[k][n].v # f

LEMMA BorrowerMoves ==
    ASSUME NEW D, NEW l \in Lowerers, NEW x, Goes(D, l, x), NEW v \in Avail(D, x), NEW f, Borrower(l, x, f)
    PROVE  LET m == Defer(x, v, f)
           IN  /\ Moves(D, l, m) /\ SameScopes(l, m) /\ Prefix(l.deferred, m.deferred)
               /\ Avail(D, m) = Avail(D, x)
               /\ \A k \in 1 .. Len(m.deferred) :
                     m.deferred[k].flat = f \/ (k \in 1 .. Len(x.deferred) /\ m.deferred[k] = x.deferred[k])
<1> DEFINE d == [src |-> v, flat |-> f]
           s == Append(x.deferred, d)
           m == Defer(x, v, f)
<1>1. /\ Good(D, x) /\ Moves(D, l, x) /\ SameScopes(l, x) /\ x \in Lowerers /\ Prefix(l.deferred, x.deferred)
  BY DEF Goes, Moves, Good
<1>2. v \in Nat /\ x.deferred \in Seq(Deferrals) /\ Len(x.deferred) \in Nat
  BY <1>1, GoodTypes
<1>3. d \in Deferrals /\ d.src = v /\ d.flat = f
  BY <1>2 DEF Deferrals, Borrower
<1>4. m = [x EXCEPT !.deferred = s]
  BY DEF Defer
<1> HIDE DEF d, m
<1>5. /\ s \in Seq(Deferrals) /\ Len(s) = Len(x.deferred) + 1
      /\ s[Len(x.deferred) + 1] = d
      /\ \A k \in 1 .. Len(x.deferred) : s[k] = x.deferred[k]
  BY <1>2, <1>3
<1> HIDE DEF s
<1>6. /\ m \in Lowerers /\ m.insts = x.insts /\ m.heads = x.heads /\ m.temps = x.temps
      /\ m.deferred = s /\ m.next = x.next /\ m.locals = x.locals /\ SameScopes(x, m)
  BY <1>1, <1>4, <1>5 DEF Lowerers, SameScopes
<1>7. Avail(D, m) = Avail(D, x)
  BY <1>6 DEF Avail
<1>8. \A k \in 1 .. Len(s) : k = Len(x.deferred) + 1 \/ k \in 1 .. Len(x.deferred)
  BY <1>2, <1>5
<1>9. Good(D, m)
  <2>1. DeferredIn(m, Avail(D, m))
    <3> SUFFICES ASSUME NEW k \in 1 .. Len(s) PROVE s[k].src \in Avail(D, x)
      BY <1>6, <1>7 DEF DeferredIn
    <3> QED BY <1>1, <1>3, <1>5, <1>8 DEF Good, DeferredIn
  <2>2. BorrowersIn(m)
    <3> SUFFICES ASSUME NEW k \in 1 .. Len(s) PROVE Borrows(m, s[k].flat)
      BY <1>6 DEF BorrowersIn
    <3>1. CASE k = Len(x.deferred) + 1
      BY <1>3, <1>5, <1>6, <3>1 DEF Borrows, Borrower
    <3>2. CASE k \in 1 .. Len(x.deferred)
      <4>1. Borrows(x, s[k].flat)
        BY <1>1, <1>5, <3>2 DEF Good, BorrowersIn
      <4> QED BY <1>6, <4>1 DEF Borrows
    <3> QED BY <1>8, <3>1, <3>2
  <2>3. /\ Sound(D, m.insts) /\ Numbered(Avail(D, m), m.next) /\ TempsIn(m, Avail(D, m))
        /\ HeadsIn(m) /\ LocalsIn(m, Avail(D, m))
    BY <1>1, <1>6, <1>7 DEF Good, TempsIn, HeadsIn, LocalsIn
  <2> QED BY <1>6, <2>1, <2>2, <2>3 DEF Good
<1>10. BorrowersFrom(l, m)
  <2> SUFFICES ASSUME NEW k \in 1 .. Len(s)
               PROVE  \/ k <= Len(l.deferred) /\ s[k] = l.deferred[k]
                      \/ s[k].flat = ExtractSource
                      \/ s[k].flat >= l.next
    BY <1>6 DEF BorrowersFrom
  <2>1. CASE k = Len(x.deferred) + 1
    <3>1. l.next <= f /\ s[k].flat = f
      BY <1>3, <1>5, <2>1 DEF Borrower
    <3>2. f \in Nat /\ l.next \in Int
      BY DEF Borrower, Lowerers
    <3> QED BY <3>1, <3>2
  <2>2. CASE k \in 1 .. Len(x.deferred)
    BY <1>1, <1>5, <2>2 DEF Moves, BorrowersFrom
  <2> QED BY <1>8, <2>1, <2>2
<1>11. Moves(D, l, m)
  BY <1>1, <1>6, <1>7, <1>9, <1>10 DEF Moves, AvailFrom, TempsFrom, HeadsFrom
<1>12. SameScopes(l, m)
  BY <1>1, <1>6 DEF SameScopes
<1>13. Prefix(l.deferred, m.deferred)
  <2>1. Len(l.deferred) <= Len(x.deferred) /\ \A k \in 1 .. Len(l.deferred) : x.deferred[k] = l.deferred[k]
    BY <1>1 DEF Prefix
  <2>2. Len(l.deferred) <= Len(s)
    BY <1>2, <1>5, <2>1
  <2>3. \A k \in 1 .. Len(l.deferred) : k \in 1 .. Len(x.deferred)
    BY <1>2, <2>1
  <2> QED BY <1>5, <1>6, <2>1, <2>2, <2>3 DEF Prefix
<1>14. \A k \in 1 .. Len(m.deferred) :
          m.deferred[k].flat = f \/ (k \in 1 .. Len(x.deferred) /\ m.deferred[k] = x.deferred[k])
  BY <1>3, <1>5, <1>6, <1>8
<1> QED BY <1>7, <1>11, <1>12, <1>13, <1>14 DEF m

\* The caller goes on from c to z, and lets the result.
Resumes(c, z) ==
    /\ Len(z.locals) = Len(c.locals) /\ z.pending = c.pending /\ Scoped(z)
    /\ z.diverged = c.diverged /\ z.returns = c.returns
    /\ \A k \in 1 .. Len(c.locals) - 1 : z.locals[k] = c.locals[k]
    /\ Prefix(c.deferred, z.deferred)

LEMMA LetResumes ==
    ASSUME NEW D, NEW c, Scoped(c), Names \ DeclaredTo(c, Len(c.locals)) # {},
           NEW m, Moves(D, c, m), SameScopes(c, m), Prefix(c.deferred, m.deferred),
           NEW b, Letable(D, m, b)
    PROVE  LET z == LetValue(m, b)
           IN  Moves(D, c, z) /\ Resumes(c, z) /\ z.deferred = m.deferred
<1> DEFINE z == LetValue(m, b)
<1>1. m.locals = c.locals /\ m.pending = c.pending /\ m.diverged = c.diverged /\ m.returns = c.returns
  BY DEF SameScopes
<1>2. Len(m.locals) > 0 /\ Len(m.pending) = Len(m.locals) /\ Scoped(m)
  BY <1>1 DEF Scoped
<1>3. Names \ DeclaredTo(m, Len(m.locals)) # {}
  BY <1>1 DEF DeclaredTo
<1>4. Moves(D, c, z) /\ Lets(m, z)
  BY <1>2, <1>3, LetMoves
<1> HIDE DEF z
<1>5. Resumes(c, z) /\ z.deferred = m.deferred
  BY <1>1, <1>2, <1>4 DEF Lets, Resumes
<1> QED BY <1>4, <1>5 DEF z

LEMMA ReturnedMoves ==
    ASSUME NEW D, NEW c, Good(D, c), Scoped(c), Names \ DeclaredTo(c, Len(c.locals)) # {},
           Inner.arg.v \in Avail(D, c), NEW ret \in Types
    PROVE  LET z == Returned(c, ret)
           IN  Moves(D, c, z) /\ Resumes(c, z) /\ (ret # "Flat" => z.deferred = c.deferred)
<1> DEFINE z == Returned(c, ret)
           a == Inner.arg.v
           ty == Inner.arg.ty
           w == c.next
           d == Define(c, "Result", Immortal)
           r == ReleaseCallArgTemp(d, a, ty)
<1> SUFFICES Moves(D, c, z) /\ Resumes(c, z) /\ (ret # "Flat" => z.deferred = c.deferred)
  OBVIOUS
<1>1. c \in Lowerers /\ w \in Nat /\ Len(c.locals) \in Nat
  BY GoodTypes DEF Lowerers
<1>2. a \in Avail(D, c)
  OBVIOUS
<1>3. /\ Goes(D, c, d) /\ w \in Avail(D, d) /\ d.deferred = c.deferred /\ d.next = w + 1
  <2> DEFINE op == "Result"
             v == Immortal
  <2>1. op \in DefiningOps /\ op \in SourcelessOps /\ v \in Int
    BY DEF DefiningOps, SourcelessOps, Immortal
  <2>2. d = Define(c, op, v)
    OBVIOUS
  <2> HIDE DEF op, v, d
  <2>3. /\ Goes(D, c, Define(c, op, v)) /\ c.next \in Avail(D, Define(c, op, v))
        /\ Define(c, op, v).deferred = c.deferred /\ Define(c, op, v).next = c.next + 1
    BY <2>1, DefineGoes
  <2> QED BY <2>2, <2>3
<1>4. CASE ret = "Unit"
  <2> DEFINE u == ReleaseCallArgTemp(c, a, ty)
  <2>1. z = u
    BY <1>4 DEF Returned
  <2> HIDE DEF a, ty, z
  <2>2. Emits(D, c, u)
    BY <1>2, ReleaseEmits
  <2> HIDE DEF u
  <2>3. Moves(D, c, u) /\ SameScopes(c, u) /\ Prefix(c.deferred, u.deferred) /\ u.deferred = c.deferred
    BY <2>2 DEF Emits, Goes
  <2> QED BY <2>1, <2>3 DEF Resumes, SameScopes, Scoped
<1> HIDE DEF d
<1>5. Good(D, d) /\ Avail(D, c) \subseteq Avail(D, d)
  BY <1>3, GoesGood
<1>6. Emits(D, d, r)
  <2> HIDE DEF a, ty
  <2> QED BY <1>2, <1>5, ReleaseEmits
<1>7. /\ Goes(D, c, r) /\ r.deferred = c.deferred /\ w \in Avail(D, r) /\ Good(D, r)
      /\ w < r.next /\ r \in Lowerers /\ r.next \in Nat
  <2> HIDE DEF r
  <2>1. Goes(D, d, r) /\ r.deferred = d.deferred
    BY <1>6 DEF Emits
  <2>2. Goes(D, c, r)
    BY <1>1, <1>3, <2>1, GoesOn
  <2>3. Good(D, r) /\ Avail(D, d) \subseteq Avail(D, r) /\ d.next <= r.next
    BY <2>1, GoesGood
  <2>4. r \in Lowerers /\ r.next \in Nat
    BY <2>3, GoodTypes
  <2> QED BY <1>1, <1>3, <2>1, <2>2, <2>3, <2>4
<1>8. \A k \in 1 .. Len(c.deferred) : c.deferred[k].flat < w /\ c.deferred[k].flat # w
  <2>1. \A k \in 1 .. Len(c.deferred) : c.deferred[k].flat < w
    BY DEF Good, BorrowersIn, Borrows
  <2> QED BY <1>1, <2>1
<1> HIDE DEF r
<1>9. CASE ret = "Text"
  <2> DEFINE m == MarkOwned(r, w)
             b == [v |-> w, ty |-> ret]
  <2>1. z = LetValue(m, b)
    BY <1>9 DEF Returned, r, d
  <2> HIDE DEF z
  <2>2. Goes(D, c, m)
    <3> HIDE DEF w
    <3> QED BY <1>1, <1>7, OwnGoes
  <2>3. m.deferred = c.deferred /\ Avail(D, m) = Avail(D, r)
    BY <1>7 DEF MarkOwned, Lowerers, Avail
  <2> HIDE DEF m, w
  <2>4. Letable(D, m, b)
    <3>1. Binding(b) \in Bnds
      BY <1>1, <1>9 DEF Binding, Bnds, Flows
    <3> QED BY <1>7, <1>8, <2>3, <3>1 DEF Letable
  <2>5. Moves(D, c, m) /\ SameScopes(c, m) /\ Prefix(c.deferred, m.deferred)
    BY <2>2 DEF Goes
  <2> HIDE DEF b
  <2> QED BY <2>1, <2>3, <2>4, <2>5, LetResumes
<1>10. CASE ret = "Rel"
  <2> DEFINE b == [v |-> w, ty |-> ret]
  <2>1. z = LetValue(r, b)
    BY <1>10 DEF Returned, r, d
  <2> HIDE DEF z, w
  <2>4. Letable(D, r, b)
    <3>1. Binding(b) \in Bnds
      BY <1>1, <1>10 DEF Binding, Bnds, Flows
    <3> QED BY <1>7, <1>8, <3>1 DEF Letable
  <2>5. Moves(D, c, r) /\ SameScopes(c, r) /\ Prefix(c.deferred, r.deferred)
    BY <1>7 DEF Goes
  <2> HIDE DEF b
  <2> QED BY <1>7, <2>1, <2>4, <2>5, LetResumes
<1>11. CASE ret = "Flat"
  <2> DEFINE f == r.next
             t == Define(r, "TupleUnbox", w)
             m == Defer(t, w, f)
             b == [v |-> f, ty |-> "Flat"]
  <2>1. z = LetValue(m, b)
    BY <1>11 DEF Returned, r, d
  <2> HIDE DEF z
  <2>2. /\ Goes(D, r, t) /\ f \in Avail(D, t) /\ t.next = f + 1 /\ t.heads = r.heads /\ t.temps = r.temps
        /\ t.deferred = r.deferred
    <3> DEFINE op == "TupleUnbox"
    <3>1. op \in DefiningOps /\ t = Define(r, op, w)
      BY DEF DefiningOps
    <3> HIDE DEF op, w, t
    <3>2. w \in Int /\ w \in Avail(D, r) /\ Good(D, r)
      BY <1>1, <1>7
    <3>3. /\ Goes(D, r, Define(r, op, w)) /\ r.next \in Avail(D, Define(r, op, w))
          /\ Define(r, op, w).deferred = r.deferred /\ Define(r, op, w).next = r.next + 1
          /\ Define(r, op, w).heads = r.heads /\ Define(r, op, w).temps = r.temps
      BY <3>1, <3>2, DefineGoes
    <3> QED BY <3>1, <3>3
  <2> HIDE DEF t
  <2>3. Goes(D, c, t) /\ w \in Avail(D, t) /\ Good(D, t)
    <3>1. Goes(D, c, t)
      BY <1>1, <1>7, <2>2, GoesOn
    <3> QED BY <1>7, <2>2, <3>1, GoesGood
  <2>4. Borrower(c, t, f)
    <3>1. f \in Nat /\ w <= f /\ f < t.next
      BY <1>1, <1>7, <2>2
    <3>2. f \notin t.heads \cup DOMAIN t.temps
      <4>1. HeadsIn(r) /\ TempsIn(r, Avail(D, r))
        BY <1>7 DEF Good
      <4> QED BY <1>7, <2>2, <4>1 DEF HeadsIn, TempsIn
    <3>3. ASSUME NEW k \in 1 .. Len(t.locals), NEW n \in DOMAIN t.locals[k] PROVE t.locals[k][n].v # f
      <4>1. t.locals = c.locals
        BY <2>3 DEF Goes, SameScopes
      <4>2. c.locals[k][n].v \in Avail(D, c)
        BY <4>1 DEF Good, LocalsIn
      <4>3. c.locals[k][n].v \in Nat /\ c.locals[k][n].v < w
        BY <4>2, GoodTypes
      <4> QED BY <1>1, <1>7, <4>1, <4>3
    <3> HIDE DEF f
    <3> QED BY <3>1, <3>2, <3>3 DEF Borrower
  <2>5. /\ Moves(D, c, m) /\ SameScopes(c, m) /\ Prefix(c.deferred, m.deferred)
        /\ Avail(D, m) = Avail(D, t)
    <3> HIDE DEF f, w, m
    <3> QED BY <1>1, <2>3, <2>4, BorrowerMoves DEF m
  <2>6. Letable(D, m, b)
    <3>1. Binding(b) \in Bnds
      BY <1>7 DEF Binding, Bnds, Flows
    <3>2. b.ty = "Flat" /\ b.v = f
      OBVIOUS
    <3> HIDE DEF b, m, f
    <3> QED BY <2>2, <2>5, <3>1, <3>2 DEF Letable
  <2> HIDE DEF b, m
  <2> QED BY <1>11, <2>1, <2>5, <2>6, LetResumes
<1> QED BY <1>4, <1>9, <1>10, <1>11 DEF Types, Flows

\* The caller has let the result.
Resumed(c, st, W, lv, lo, z) ==
    /\ State(c, st, W, lv, lo) /\ c.insts = << >> /\ lv \in BOOLEAN /\ ~c.diverged
    /\ Moves(Basis(c, W, lv), c, z) /\ Resumes(c, z)
    /\ z.deferred = c.deferred \/ ~InLoop(st)

LEMMA ResumedState ==
    ASSUME NEW c, NEW st, NEW W, NEW lv, NEW lo, NEW z, Resumed(c, st, W, lv, lo, z)
    PROVE  LET W2 == After(z, W, lv)
           IN  /\ State(Ended(z), st, W2, lv, lo) /\ z \in Lowerers
               /\ lv => Sound(W, z.insts) /\ W2 = W \cup Defs(z.insts)
<1> DEFINE D == Basis(c, W, lv)
           hi == Len(st)
           N == Len(c.locals)
           W2 == After(z, W, lv)
           f == Ended(z)
<1>1. /\ State(c, st, W, lv, lo) /\ c.insts = << >> /\ lv \in BOOLEAN /\ ~c.diverged
      /\ Moves(D, c, z) /\ Resumes(c, z) /\ (z.deferred = c.deferred \/ ~InLoop(st))
  BY DEF Resumed
<1>2. /\ Stack(st, lo) /\ Ready(c, W, lv) /\ Numbered(W, c.next) /\ Frame(c, st, lo, hi) /\ Chain(st, lv)
      /\ Scoped(c) /\ N = hi - lo + 1
  BY <1>1 DEF State, Frame
<1>3. /\ hi \in Nat /\ lo \in Nat /\ lo \in 1 .. hi /\ lo <= hi
      /\ DOMAIN st = 1 .. hi /\ st = [i \in 1 .. hi |-> st[i]] /\ hi <= Len(st)
  BY <1>2, StackTypes DEF Stack
<1>4. z \in Lowerers /\ c \in Lowerers
  BY <1>1, <1>2, ReadyTypes DEF Moves, Good
<1>5. /\ Len(z.locals) = N /\ z.pending = c.pending /\ Scoped(z)
      /\ z.diverged = c.diverged /\ z.returns = c.returns
      /\ \A k \in 1 .. N - 1 : z.locals[k] = c.locals[k]
      /\ Prefix(c.deferred, z.deferred)
  BY <1>1 DEF Resumes
<1>6. (lv => lv) /\ (lv => ~z.diverged) /\ (z.diverged => z.returns \in Types)
  BY <1>1, <1>5
<1>7. /\ Ready(z, W2, lv) /\ Numbered(W2, z.next) /\ c.next <= z.next
      /\ W \subseteq W2 /\ \A d \in W2 : d \in W \/ d >= c.next
      /\ lv => Sound(W, z.insts) /\ W2 = W \cup Defs(z.insts)
  BY <1>1, <1>2, <1>6, MovesReady
<1> HIDE DEF W2, D
<1>8. Keeps(c, z, st, lo, hi, hi)
  <2> SUFFICES ASSUME NEW i \in lo + 1 .. hi
               PROVE  KeepsDeferred(c, z, st, i, hi, hi) /\ KeepsScopes(c, z, st[i], i - lo)
    BY DEF Keeps
  <2>1. ~(InLoop(st) /\ Len(z.deferred) > Len(c.deferred))
    <3>1. Len(c.deferred) \in Nat
      BY <1>4 DEF Lowerers
    <3> QED BY <1>1, <3>1
  <2>2. KeepsDeferred(c, z, st, i, Len(st), Len(st))
    BY <1>2, <1>4, <1>5, <2>1, KeepsDeferredOn
  <2>3. \A k \in 1 .. i - lo : k \in 1 .. N - 1
    BY <1>2, <1>3
  <2>4. \A k \in 1 .. i - lo : z.locals[k] = c.locals[k] /\ z.pending[k] = c.pending[k]
    BY <1>5, <2>3
  <2> DEFINE p == i - lo
             e == st[i]
  <2>5. \A k \in 1 .. p : z.locals[k] = c.locals[k] /\ z.pending[k] = c.pending[k]
    BY <2>4
  <2> HIDE DEF p, e
  <2>6. KeepsScopes(c, z, e, p)
    BY <2>5, SameBelowKeeps
  <2> QED BY <2>2, <2>6 DEF p, e
<1>9. /\ BorrowersFrom(c, f) /\ Scoped(f) /\ Keeps(c, f, st, lo, hi, Len(st))
      /\ f.next = z.next /\ f.locals = z.locals /\ Ready(f, W2, lv)
  BY <1>1, <1>4, <1>5, <1>7, <1>8, EndedKeeps, EndedTypes, EndedReady DEF Moves
<1>10. \A i \in 1 .. hi : Alike(st[i], st[i])
  BY DEF Alike
<1>11. lv => \A i \in 1 .. hi : LiveIn(st[i])
  BY <1>2 DEF Chain
<1>12. Numbered(W2, f.next) /\ c.next <= f.next /\ Len(f.locals) = hi - lo + 1
  BY <1>2, <1>5, <1>7, <1>9
<1> HIDE DEF f
<1>13. State(f, st, W2, lv, lo)
  <2> DEFINE h == hi
  <2>1. h \in Nat /\ lo <= h /\ h <= Len(st) /\ Len(st) = h /\ DOMAIN st = 1 .. h /\ st = [i \in 1 .. h |-> st[i]]
    BY <1>3
  <2>2. /\ \A i \in 1 .. h : Alike(st[i], st[i])
        /\ lv => \A i \in 1 .. h : LiveIn(st[i])
        /\ Len(f.locals) = h - lo + 1 /\ Keeps(c, f, st, lo, h, Len(st))
    BY <1>9, <1>10, <1>11, <1>12
  <2> HIDE DEF h, hi
  <2> QED BY <1>1, <1>7, <1>9, <1>12, <2>1, <2>2, StateTo
<1> QED BY <1>4, <1>7, <1>13 DEF f, W2

\* What the end of a call executes: the callee's epilogue, then the caller.
CallEnd(l, W, z, lv, W2) ==
    /\ W = After(l, There, live) /\ l.insts \in Seq(Insts) /\ live \in BOOLEAN
    /\ live => Sound(There, l.insts) /\ W = There \cup Defs(l.insts)
    /\ lv \in BOOLEAN /\ z.insts \in Seq(Insts) /\ W2 = After(z, W, lv)
    /\ lv => Sound(W, z.insts) /\ W2 = W \cup Defs(z.insts)

LEMMA CallRuns ==
    ASSUME NEW l, NEW W, NEW z, NEW lv, NEW W2, CallEnd(l, W, z, lv, W2)
    PROVE  LET s == (IF live THEN l.insts ELSE << >>) \o (IF lv THEN z.insts ELSE << >>)
           IN  s \in Seq(Insts) /\ Sound(There, s) /\ W2 = There \cup Defs(s) /\ There \subseteq W2
<1> DEFINE a == IF live THEN l.insts ELSE << >>
           b == IF lv THEN z.insts ELSE << >>
           s == a \o b
<1>1. /\ W = After(l, There, live) /\ l.insts \in Seq(Insts) /\ live \in BOOLEAN
      /\ live => Sound(There, l.insts) /\ W = There \cup Defs(l.insts)
      /\ lv \in BOOLEAN /\ z.insts \in Seq(Insts) /\ W2 = After(z, W, lv)
      /\ lv => Sound(W, z.insts) /\ W2 = W \cup Defs(z.insts)
  BY DEF CallEnd
<1>2. a \in Seq(Insts) /\ Sound(There, a) /\ W = There \cup Defs(a)
  <2>1. CASE live
    BY <1>1, <2>1
  <2>2. CASE ~live
    <3>1. a = << >> /\ W = There
      BY <1>1, <2>2 DEF After
    <3> HIDE DEF a
    <3> QED BY <3>1, NoInsts
  <2> QED BY <1>1, <2>1, <2>2
<1>3. b \in Seq(Insts) /\ Sound(W, b) /\ W2 = W \cup Defs(b)
  <2>1. CASE lv
    BY <1>1, <2>1
  <2>2. CASE ~lv
    <3>1. b = << >> /\ W2 = W
      BY <1>1, <2>2 DEF After
    <3> HIDE DEF b
    <3> QED BY <3>1, NoInsts
  <2> QED BY <1>1, <2>1, <2>2
<1> HIDE DEF a, b
<1>4. Sound(There \cup Defs(a), b)
  BY <1>2, <1>3
<1>5. s \in Seq(Insts) /\ Sound(There, s) /\ Defs(s) = Defs(a) \cup Defs(b)
  <2> DEFINE d == There
  <2>1. a \in Seq(Insts) /\ b \in Seq(Insts) /\ Sound(d, a) /\ Sound(d \cup Defs(a), b)
    BY <1>2, <1>3, <1>4
  <2> HIDE DEF d
  <2>2. a \o b \in Seq(Insts) /\ Sound(d, a \o b) /\ Defs(a \o b) = Defs(a) \cup Defs(b)
    BY <2>1, SoundConcat
  <2> QED BY <2>2 DEF d
<1>6. W2 = There \cup Defs(s)
  BY <1>2, <1>3, <1>5
<1> HIDE DEF s
<1> QED BY <1>5, <1>6 DEF s, a, b

\* The callee's last instructions, l, and the caller that goes on: c, then z.
CallEnds(lo, o, l, c, ret, z) ==
    /\ Now(lo) /\ Inner.kind = "call" /\ Block(From, fn, o) /\ l = Epilogue(o)
    /\ ret = IF fn.diverged THEN fn.returns ELSE o.ty
    /\ Numbers(Inner.fn, l.next, c) /\ z = Returned(c, ret)
    /\ ~(ret = "Flat" /\ InLoop(Front(open)))

LEMMA CalleeLeft ==
    ASSUME NEW lo, NEW o, NEW l, NEW c, NEW ret, NEW z, CallEnds(lo, o, l, c, ret, z)
    PROVE  LET W == After(l, There, live)
           IN  /\ GoesBack(lo, W, l.next, c) /\ ret \in Types /\ live \in BOOLEAN
               /\ l \in Lowerers /\ l.insts \in Seq(Insts)
               /\ live => Sound(There, l.insts) /\ W = There \cup Defs(l.insts)
<1> DEFINE W == After(l, There, live)
<1>1. /\ Now(lo) /\ Inner.kind = "call" /\ Block(From, fn, o) /\ l = Epilogue(o)
      /\ ret = (IF fn.diverged THEN fn.returns ELSE o.ty)
      /\ Numbers(Inner.fn, l.next, c)
  BY DEF CallEnds
<1>2. /\ Good(From, fn) /\ live \in BOOLEAN /\ Scoped(fn) /\ Ready(fn, There, live)
  BY <1>1, NowTypes
<1>3. /\ Moves(From, fn, l) /\ l \in Lowerers /\ l.diverged = fn.diverged /\ l.returns = fn.returns
  <2> DEFINE x == Epilogue(o)
  <2>1. x = l /\ Len(fn.locals) > 0
    BY <1>1, <1>2 DEF Scoped
  <2>2. /\ Moves(From, fn, x) /\ x \in Lowerers /\ x.diverged = fn.diverged /\ x.returns = fn.returns
    BY <1>1, <1>2, <2>1, EpilogueMoves
  <2> HIDE DEF x
  <2> QED BY <2>1, <2>2
<1>4. l.diverged => l.returns \in Types
  BY <1>2, <1>3 DEF Ready
<1>5. /\ Numbered(W, l.next) /\ fn.next <= l.next
      /\ There \subseteq W /\ \A d \in W : d \in There \/ d >= fn.next
      /\ live => Sound(There, l.insts) /\ W = There \cup Defs(l.insts)
  <2> DEFINE lv2 == FALSE
  <2>1. lv2 \in BOOLEAN /\ (lv2 => live /\ ~l.diverged)
    OBVIOUS
  <2> HIDE DEF lv2
  <2> QED BY <1>1, <1>3, <1>4, <2>1, MovesNow
<1>6. ret \in Types
  <2>1. o.ty \in Types
    BY <1>1, <1>2, BlockGoes
  <2> QED BY <1>1, <1>3, <1>4, <2>1
<1>7. l.next \in Nat /\ l.insts \in Seq(Insts)
  BY <1>3 DEF Lowerers
<1>8. GoesBack(lo, W, l.next, c)
  BY <1>1, <1>5, <1>7 DEF GoesBack
<1> QED BY <1>2, <1>3, <1>5, <1>6, <1>7, <1>8

LEMMA CallerGoesOn ==
    ASSUME NEW lo, NEW o, NEW l, NEW c, NEW ret, NEW z, CallEnds(lo, o, l, c, ret, z)
    PROVE  LET W == After(l, There, live)
           IN  /\ Resumed(c, Front(open), W, Inner.live, 1, z)
               /\ Inner.live \in BOOLEAN
<1> DEFINE W == After(l, There, live)
           lv == Inner.live
           D == Basis(c, W, lv)
           st == Front(open)
<1>1. z = Returned(c, ret) /\ ~(ret = "Flat" /\ InLoop(st))
  BY DEF CallEnds
<1>2. GoesBack(lo, W, l.next, c) /\ ret \in Types
  BY CalleeLeft
<1> HIDE DEF W
<1>3. /\ State(c, st, W, lv, 1) /\ c.insts = << >> /\ ~c.diverged
      /\ Names \ DeclaredTo(c, Len(c.locals)) # {} /\ lv \in BOOLEAN
      /\ Inner.arg.v \in Nat /\ Inner.arg.v < c.next /\ (lv => Inner.arg.v \in W)
  <2> DEFINE next == l.next
  <2>1. GoesBack(lo, W, next, c)
    BY <1>2
  <2> HIDE DEF next
  <2> QED BY <2>1, CallerState
<1> HIDE DEF lv, st
<1>4. Ready(c, W, lv) /\ Numbered(W, c.next) /\ Frame(c, st, 1, Len(st))
  BY <1>3 DEF State
<1>5. Good(D, c) /\ Avail(D, c) = D /\ Scoped(c)
  BY <1>3, <1>4, BasisIsGood DEF Frame
<1>6. Inner.arg.v \in Avail(D, c)
  <2>1. c.next \in Nat
    BY <1>4, ReadyTypes
  <2>2. Inner.arg.v \in Values(c)
    BY <1>3, <2>1 DEF Values
  <2> QED BY <1>3, <1>5, <2>2 DEF Basis
<1> HIDE DEF D
<1>7. Moves(D, c, z) /\ Resumes(c, z) /\ (ret # "Flat" => z.deferred = c.deferred)
  <2> DEFINE x == Returned(c, ret)
  <2>1. Moves(D, c, x) /\ Resumes(c, x) /\ (ret # "Flat" => x.deferred = c.deferred)
    BY <1>2, <1>3, <1>5, <1>6, ReturnedMoves
  <2>2. x = z
    BY <1>1
  <2> HIDE DEF x
  <2> QED BY <2>1, <2>2
<1>8. z.deferred = c.deferred \/ ~InLoop(st)
  BY <1>1, <1>7
<1>9. Resumed(c, st, W, lv, 1, z)
  BY <1>3, <1>7, <1>8 DEF Resumed, D
<1> QED BY <1>3, <1>9 DEF W, lv, st

LEMMA EndOperStep ==
    ASSUME ShapesExcluded, IInv, EndOper
    PROVE  IInv'
<1>1. PICK e \in Tails(fn) :
        LET o == BlockValue(fn, e)
            l == Epilogue(o)
            ret == IF fn.diverged THEN fn.returns ELSE o.ty
            caller == Returned([Inner.fn EXCEPT !.next = l.next], ret)
            insts == (IF live THEN l.insts ELSE << >>)
                        \o (IF Inner.live THEN caller.insts ELSE << >>)
        IN /\ Closes("call", e)
           /\ Excludes("DeferredInLoop", ret = "Flat" /\ InLoop(Front(open)))
           /\ Lowered(caller)
           /\ memory' = Run(memory, insts)
           /\ open' = Logged(Front(open), insts)
  BY DEF EndOper
<1>2. Running /\ Inner.kind = "call" /\ live' = Inner.live
  BY <1>1 DEF EndOper, Closes
<1>3. PICK lo \in Nat : Now(lo)
  BY <1>2, NowReached
<1> DEFINE o == BlockValue(fn, e)
           l == Epilogue(o)
           ret == IF fn.diverged THEN fn.returns ELSE o.ty
           c == [Inner.fn EXCEPT !.next = l.next]
           z == Returned(c, ret)
           s == (IF live THEN l.insts ELSE << >>) \o (IF Inner.live THEN z.insts ELSE << >>)
           W == After(l, There, live)
           lv == Inner.live
           st == Front(open)
           W2 == After(z, W, lv)
<1>4. /\ fn' = Ended(z) /\ memory' = Run(memory, s) /\ open' = Logged(st, s) /\ live' = lv
      /\ Excludes("DeferredInLoop", ret = "Flat" /\ InLoop(st))
  BY <1>1, <1>2 DEF Lowered, Ended
<1>5. ~(ret = "Flat" /\ InLoop(st))
  <2> HIDE DEF ret, st
  <2> QED BY <1>4 DEF ShapesExcluded, Excludes
<1>6. Block(From, fn, o) /\ fn \in Lowerers
  BY <1>3, NowTypes, BlockIs
<1> HIDE DEF o
<1>7. Numbers(Inner.fn, l.next, c)
  <2>1. Caller(Inner, open, lo, There, fn.next)
    BY <1>2, <1>3, InnerCall
  <2>2. Inner.fn.next <= fn.next /\ Inner \in CallEntries
    BY <1>2, <1>3, <2>1, InnerCall DEF Caller
  <2>3. Inner.fn.next \in Nat /\ fn.next \in Nat
    BY <1>6, <2>2 DEF CallEntries, Lowerers
  <2>4. Moves(From, fn, l) /\ l \in Lowerers
    <3>1. Good(From, fn) /\ Len(fn.locals) > 0
      BY <1>3, NowTypes DEF Scoped
    <3> QED BY <1>6, <3>1, EpilogueMoves
  <2> HIDE DEF l
  <2>5. fn.next <= l.next /\ l.next \in Nat
    BY <2>4 DEF Moves, Lowerers
  <2> QED BY <2>2, <2>3, <2>5 DEF Numbers
<1>8. CallEnds(lo, o, l, c, ret, z)
  BY <1>2, <1>3, <1>5, <1>6, <1>7 DEF CallEnds
<1> HIDE DEF l, c, ret, z
<1>9. /\ live \in BOOLEAN /\ l \in Lowerers /\ l.insts \in Seq(Insts)
      /\ live => Sound(There, l.insts) /\ W = There \cup Defs(l.insts)
  BY <1>8, CalleeLeft
<1>10. Resumed(c, st, W, lv, 1, z) /\ lv \in BOOLEAN
  BY <1>8, CallerGoesOn
<1> HIDE DEF lv, st
<1>11. /\ State(Ended(z), st, W2, lv, 1) /\ z \in Lowerers
       /\ lv => Sound(W, z.insts) /\ W2 = W \cup Defs(z.insts)
  <2> HIDE DEF W
  <2> QED BY <1>10, ResumedState
<1>12. CallEnd(l, W, z, lv, W2)
  <2>1. z.insts \in Seq(Insts)
    BY <1>11 DEF Lowerers
  <2> QED BY <1>9, <1>10, <1>11, <2>1 DEF CallEnd
<1> HIDE DEF W, W2
<1>13. s \in Seq(Insts) /\ Sound(There, s) /\ W2 = There \cup Defs(s) /\ There \subseteq W2
  BY <1>12, CallRuns DEF lv
<1> HIDE DEF s
<1>14. IsMemory(memory) /\ memory.fault = NoFault /\ Logs(open, There)
  BY <1>3 DEF Now
<1>15. Logs(st, W2)
  <2>1. Logs(st, There)
    <3> DEFINE hi == Len(open) - 1
    <3>1. hi \in Nat /\ hi <= Len(open) /\ Len(open) \in Nat /\ Len(st) = hi /\ \A i \in 1 .. hi : st[i] = open[i]
      BY <1>2, <1>3, InnerCall, NowTypes DEF st
    <3> HIDE DEF hi
    <3> QED BY <1>14, <3>1, LogsFront
  <2> QED BY <1>13, <2>1, LogsMore
<1>16. Ended(z).insts = << >>
  BY <1>11, EndedTypes
<1> DEFINE f == Ended(z)
           lo1 == 1
<1>17. State(f, st, W2, lv, lo1) /\ f.insts = << >> /\ lo1 \in Nat
  BY <1>11, <1>16
<1> HIDE DEF f, lo1
<1>18. Consistent(f, Logged(st, s), Run(memory, s), lv)
  BY <1>10, <1>13, <1>14, <1>15, <1>17, RunConsistent DEF There
<1> QED BY <1>4, <1>18 DEF IInv, f

-----------------------------------------------------------------------------
(* Main.                                                                    *)

LEMMA EndMainStep ==
    ASSUME IInv, EndMain
    PROVE  IInv'
<1> DEFINE o == BlockValue(fn, NoTail)
           l == Epilogue(o)
           m == IF live THEN Run(memory, l.insts) ELSE memory
<1>1. Running /\ memory' = [m EXCEPT !.env = << >>] /\ open' = << >> /\ live' = live
  BY DEF EndMain, Closes
<1>2. PICK lo \in Nat : Now(lo)
  BY <1>1, NowReached
<1>3. /\ Good(From, fn) /\ live \in BOOLEAN /\ Len(fn.locals) > 0 /\ Ready(fn, There, live)
      /\ IsMemory(memory) /\ memory.fault = NoFault
  BY <1>2, NowTypes DEF Now, Scoped
<1>4. Block(From, fn, o)
  BY DEF Block, BlockValue
<1> HIDE DEF o
<1>5. Moves(From, fn, l) /\ l \in Lowerers /\ l.diverged = fn.diverged /\ l.returns = fn.returns
  BY <1>3, <1>4, EpilogueMoves
<1> HIDE DEF l
<1>6. live => Sound(There, l.insts)
  <2> DEFINE lv2 == FALSE
  <2>1. lv2 \in BOOLEAN /\ (lv2 => live /\ ~l.diverged) /\ (l.diverged => l.returns \in Types)
    BY <1>3, <1>5 DEF Ready
  <2> HIDE DEF lv2
  <2> QED BY <1>2, <1>5, <2>1, MovesNow
<1>7. IsMemory(m)
  <2>1. l.insts \in Seq(Insts)
    BY <1>5 DEF Lowerers
  <2>2. live => IsMemory(Run(memory, l.insts))
    <3> DEFINE s == l.insts
    <3>1. s \in Seq(Insts) /\ (live => Sound(There, s))
      BY <1>6, <2>1
    <3> HIDE DEF s
    <3>2. live => IsMemory(Run(memory, s))
      BY <1>3, <3>1, Afterwards
    <3> QED BY <3>2 DEF s
  <2> QED BY <1>3, <2>2
<1> HIDE DEF m
<1>8. IsMemory(memory')
  BY <1>1, <1>7 DEF IsMemory
<1> QED BY <1>1, <1>3, <1>8 DEF IInv, Consistent

-----------------------------------------------------------------------------
(* The invariant.                                                           *)

IsMain(c) == c = Function(<< >>, 1, "Unit")

LEMMA MainIs ==
    ASSUME NEW c, IsMain(c)
    PROVE  /\ c \in Lowerers /\ c.insts = << >> /\ c.next = 1 /\ c.diverged = FALSE
           /\ Len(c.deferred) = 0 /\ DOMAIN c.temps = {} /\ c.heads = {}
           /\ Len(c.locals) = 1 /\ DOMAIN c.locals[1] = {}
           /\ Len(c.pending) = 1 /\ c.pending[1] = {}
<1> DEFINE e == << >>
           P == DOMAIN e
           B == {e[n].v : n \in P}
           L == <<e>>
           K == <<{}>>
<1>1. c = [locals |-> L, pending |-> K, unset |-> {}, params |-> P, borrowed |-> B,
           owned |-> {}, temps |-> e, heads |-> {}, deferred |-> << >>,
           next |-> 1, diverged |-> FALSE, returns |-> "Unit", insts |-> << >>]
  BY DEF IsMain, Function
<1>2. e \in Layers /\ P = {}
  BY EmptyLayer
<1>3. B = {}
  BY <1>2
<1>4. e \in UNION {[S -> Nat] : S \in SUBSET Nat}
  <2>1. << >> \in [{} -> Nat] /\ {} \in SUBSET Nat
    BY EmptyLayer
  <2> QED BY <2>1, EmptyLayer
<1> HIDE DEF e
<1>5. L \in Seq(Layers) /\ Len(L) = 1 /\ L[1] = e /\ DOMAIN L[1] = {}
  BY <1>2
<1>6. K \in Seq(Pendings) /\ Len(K) = 1 /\ K[1] = {}
  BY DEF Pendings
<1>7. << >> \in Seq(Deferrals) /\ << >> \in Seq(Insts)
  BY NoInsts
<1>8. "Unit" \in Types \cup {AnyType} /\ 1 \in Nat \ {0} /\ P \in SUBSET Names /\ B \in SUBSET Nat
  BY <1>2, <1>3 DEF Types
<1> HIDE DEF L, K, B, P
<1>9. c \in Lowerers
  <2> DEFINE u == "Unit"
             k == 1
  <2>1. c = [locals |-> L, pending |-> K, unset |-> {}, params |-> P, borrowed |-> B,
             owned |-> {}, temps |-> e, heads |-> {}, deferred |-> << >>,
             next |-> k, diverged |-> FALSE, returns |-> u, insts |-> << >>]
    BY <1>1
  <2>2. u \in Types \cup {AnyType} /\ k \in Nat \ {0}
    BY <1>8
  <2> HIDE DEF u, k
  <2> QED BY <1>4, <1>5, <1>6, <1>7, <1>8, <2>1, <2>2 DEF Lowerers
<1>10. /\ c.insts = << >> /\ c.next = 1 /\ c.diverged = FALSE /\ c.deferred = << >>
       /\ c.temps = e /\ c.heads = {} /\ c.locals = L /\ c.pending = K
  BY <1>1
<1>11. Len(c.deferred) = 0
  BY <1>10
<1>12. DOMAIN c.temps = {}
  BY <1>2, <1>10 DEF P
<1> QED BY <1>5, <1>6, <1>9, <1>10, <1>11, <1>12

LEMMA InitIsConsistent ==
    ASSUME Init
    PROVE  IInv
<1> DEFINE V == DOMAIN memory.env
           st == open
           c == fn
<1>1. /\ c = Function(<< >>, 1, "Unit") /\ st = <<Main>> /\ live = TRUE
      /\ memory = [heap |-> <<[rc |-> 1, cell |-> Immortal]>>, env |-> << >>, slot |-> Slot,
                   result |-> Immortal, fault |-> NoFault]
  BY DEF Init
<1>2. IsMemory(memory) /\ V = {}
  <2>1. memory.env = << >> /\ memory.fault = NoFault
    BY <1>1
  <2>2. IsMemory(memory)
    BY <1>1, <2>1 DEF IsMemory, NoFault
  <2>3. V = {}
    BY <2>1, EmptyLayer
  <2> QED BY <2>2, <2>3
<1> HIDE DEF V, c
<1>3. /\ c \in Lowerers /\ c.insts = << >> /\ c.next = 1 /\ c.diverged = FALSE
      /\ Len(c.deferred) = 0 /\ DOMAIN c.temps = {} /\ c.heads = {}
      /\ Len(c.locals) = 1 /\ DOMAIN c.locals[1] = {}
      /\ Len(c.pending) = 1 /\ c.pending[1] = {}
  BY <1>1, MainIs DEF IsMain
<1>4. /\ Len(st) = 1 /\ DOMAIN st = 1 .. 1 /\ st = [i \in 1 .. 1 |-> st[i]] /\ st[1] = Main
  BY <1>1
<1> HIDE DEF st
<1>5. Stack(st, 1)
  <2>1. 1 \in 1 .. 1 /\ 1 \in Nat /\ ~(1 > 1) /\ \A i \in 2 .. 1 : FALSE
    OBVIOUS
  <2> QED BY <1>4, <2>1 DEF Stack
<1>6. /\ \A k \in 1 .. Len(c.deferred) : FALSE
      /\ \A k \in 1 .. Len(c.locals) : \A n \in DOMAIN c.locals[k] : FALSE
  BY <1>3
<1>7. Ready(c, V, TRUE)
  BY <1>3, <1>6 DEF Ready, TempsIn, HeadsIn, BorrowersIn, LocalsIn, DeferredIn
<1>8. Scoped(c)
  <2>1. \A i \in 1 .. Len(c.locals) : i = 1
    BY <1>3
  <2> QED BY <1>3, <2>1 DEF Scoped
<1>9. \A i \in 1 + 1 .. 1 : FALSE
  OBVIOUS
<1>10. Frame(c, st, 1, Len(st))
  <2>1. Len(c.locals) = Len(st) - 1 + 1
    BY <1>3, <1>4
  <2> QED BY <1>4, <1>8, <1>9, <2>1 DEF Frame
<1>11. Held(c, st, 1, Len(st), V)
  BY <1>4, <1>9 DEF Held
<1>12. \A i \in 1 .. Len(st) : st[i] = Main /\ st[i].kind = "main"
  BY <1>4, KindsDiffer
<1>13. \A i \in 1 .. Len(st) : Saved(st[i], V) /\ LiveIn(st[i])
  BY <1>12 DEF Saved, Carries, LiveIn, Timed
<1>14. Chain(st, TRUE)
  BY <1>13 DEF Chain
<1>15. State(c, st, V, TRUE, 1)
  <2>1. Numbered(V, c.next) /\ ~(1 > 1)
    BY <1>2 DEF Numbered
  <2> QED BY <1>5, <1>7, <1>10, <1>11, <1>13, <1>14, <2>1 DEF State
<1>16. Logs(st, V)
  BY <1>12 DEF Logs
<1>17. State(c, st, V, live, 1) /\ live \in BOOLEAN /\ 1 \in Nat
  BY <1>1, <1>15
<1> QED BY <1>2, <1>3, <1>16, <1>17 DEF IInv, Consistent, V, st, c

LEMMA NextIsConsistent ==
    ASSUME ShapesExcluded, IInv, [Next]_vars
    PROVE  IInv'
<1>1. CASE UNCHANGED vars
  BY <1>1 DEF vars, IInv, Consistent
<1>2. CASE Next
  BY <1>2, LetStep, VarStep, AssignStep, AssignPendingStep, StoreRelvarStep, CallBuiltinStep,
     ReturnStep, BeginTransactionStep, EndTransactionStep, BeginIfStep, ElseStep, EndIfStep,
     BeginLoopStep, EndLoopStep, CallOperStep, EndOperStep, EndMainStep DEF Next
<1> QED BY <1>1, <1>2

\* However the statements of a program are nested, the lowering keeps IInv: what
\* a name, a deferred source, a carried variable or the log of a loop stands for
\* on the path that is taken has been computed on it.
THEOREM LoweringIsConsistent ==
    ASSUME ShapesExcluded
    PROVE  Spec => []IInv
<1>1. Init => IInv
  BY InitIsConsistent
<1>2. IInv /\ [Next]_vars => IInv'
  BY NextIsConsistent
<1> QED BY <1>1, <1>2, PTL DEF Spec

\* Every release, also the deferred ones and those at the end of a scope, is
\* executed only where the value it releases has been computed, for every nesting
\* of ifs, loops, transactions and calls.
THEOREM ReleasesAreAlwaysDominated ==
    ASSUME ShapesExcluded
    PROVE  Spec => []ReleasesAreDominated
<1>1. IInv => ReleasesAreDominated
  BY DEF IInv, Consistent, IsMemory, ReleasesAreDominated
<1>2. Spec => []IInv
  BY LoweringIsConsistent
<1> QED BY <1>1, <1>2, PTL

\* On the path that is taken every name in scope stands for a value that has been
\* computed, whatever arms and rounds the path has passed through.
NamesHaveValues ==
    Running /\ live =>
        \A i \in 1 .. Len(fn.locals) : \A n \in DOMAIN fn.locals[i] :
            fn.locals[i][n].v \in DOMAIN memory.env

THEOREM NamesAlwaysHaveValues ==
    ASSUME ShapesExcluded
    PROVE  Spec => []NamesHaveValues
<1>1. IInv => NamesHaveValues
  <2> SUFFICES ASSUME IInv, Running, live PROVE LocalsIn(fn, There)
    BY DEF NamesHaveValues, LocalsIn, There
  <2>1. PICK lo \in Nat : Now(lo)
    BY NowReached
  <2>2. Ready(fn, There, live)
    BY <2>1, NowTypes
  <2> QED BY <2>2 DEF Ready
<1>2. Spec => []IInv
  BY LoweringIsConsistent
<1> QED BY <1>1, <1>2, PTL

====
