------------------------------- MODULE Recursion -------------------------------
(***************************************************************************)
(* Recursion and induction over trees.  A tree e of Dom has the height     *)
(* Depth[e], and its operands are lower.  Step(p, e, f) is the value of a  *)
(* function at e, made of the values f[o] at lower trees o; p is whatever  *)
(* else it depends on.                                                     *)
(*                                                                         *)
(* tlapm cannot instantiate a theorem that takes an operator, but it can   *)
(* take one from an instance of this module, whose constants are replaced. *)
(***************************************************************************)
EXTENDS Integers, WellFoundedInduction, TLAPS

CONSTANTS Dom, Depth, Step(_, _, _)

\* Every set of naturals that is not empty has a least member.
LEMMA LeastOf ==
    ASSUME NEW S \in SUBSET Nat, S # {}
    PROVE  \E n \in S : \A m \in S : n <= m
<1>1. \E n \in S : \A m \in S : ~(<<m, n>> \in OpToRel(<, Nat))
  <2> DEFINE R == OpToRel(<, Nat)
  <2>1. IsWellFoundedOn(R, Nat)
    BY NatLessThanWellFounded
  <2> HIDE DEF R
  <2>2. \E n \in S : \A m \in S : ~(<<m, n>> \in R)
    BY <2>1, WFMin
  <2> QED BY <2>2 DEF R
<1>2. \A m, n \in S : m < n => <<m, n>> \in OpToRel(<, Nat)
  BY DEF OpToRel
<1>3. PICK n \in S : \A m \in S : ~(<<m, n>> \in OpToRel(<, Nat))
  BY <1>1
<1>4. \A m \in S : ~(m < n)
  BY <1>2, <1>3
<1> QED BY <1>4

\* What holds of a tree when it holds of all lower ones holds of every tree.
LEMMA Induction ==
    ASSUME NEW D, NEW h, \A e \in D : h[e] \in Nat,
           NEW S, \A e \in D : (\A o \in D : h[o] < h[e] => o \in S) => e \in S
    PROVE  \A e \in D : e \in S
<1> SUFFICES ASSUME NEW b \in D, b \notin S PROVE FALSE
  OBVIOUS
<1> DEFINE Bad == {h[e] : e \in {d \in D : d \notin S}}
<1>1. Bad \in SUBSET Nat /\ Bad # {}
  OBVIOUS
<1>2. PICK n \in Bad : \A m \in Bad : n <= m
  BY <1>1, LeastOf
<1>3. PICK e \in D : e \notin S /\ h[e] = n
  BY <1>2
<1>4. \A o \in D : h[o] < h[e] => o \in S
  <2> SUFFICES ASSUME NEW o \in D, h[o] < h[e], o \notin S PROVE FALSE
    OBVIOUS
  <2>1. h[o] \in Bad
    OBVIOUS
  <2>2. n <= h[o]
    BY <1>2, <2>1
  <2> QED BY <1>3, <2>2
<1> QED BY <1>3, <1>4

Local == /\ \A e \in Dom : Depth[e] \in Nat
         /\ \A p : \A e \in Dom : \A f, g :
              (\A o \in Dom : Depth[o] < Depth[e] => f[o] = g[o]) => Step(p, e, f) = Step(p, e, g)

\* f is the function, as far as the trees up to e.
Upto(e) == {o \in Dom : Depth[o] <= Depth[e]}
Follows(p, e, f) == \A o \in Upto(e) : f[o] = Step(p, o, f)

\* Two of them agree where both are the function.
LEMMA Coherent ==
    ASSUME Local, NEW p, NEW d \in Dom, NEW e \in Dom, NEW f, NEW g,
           Follows(p, d, f), Follows(p, e, g)
    PROVE  \A o \in Upto(d) \cap Upto(e) : f[o] = g[o]
<1> DEFINE S == {o \in Dom : o \in Upto(d) \cap Upto(e) => f[o] = g[o]}
<1>1. \A o \in Dom : (\A q \in Dom : Depth[q] < Depth[o] => q \in S) => o \in S
  <2> SUFFICES ASSUME NEW o \in Dom, \A q \in Dom : Depth[q] < Depth[o] => q \in S,
                      o \in Upto(d) \cap Upto(e)
               PROVE  f[o] = g[o]
    OBVIOUS
  <2>1. \A q \in Dom : Depth[q] < Depth[o] => f[q] = g[q]
    BY DEF Upto, Local
  <2>2. Step(p, o, f) = Step(p, o, g)
    BY <2>1 DEF Local
  <2> QED BY <2>2 DEF Follows
<1>2. \A o \in Dom : o \in S
  <2> HIDE DEF S
  <2> QED BY <1>1, Induction DEF Local
<1> QED BY <1>2 DEF Upto

\* A function on trees defined from its values on lower trees exists.
THEOREM Defined ==
    ASSUME Local, NEW p
    PROVE  \E f : f = [e \in Dom |-> Step(p, e, f)]
<1> DEFINE S == {e \in Dom : \E f : Follows(p, e, f)}
           Fun(e) == CHOOSE f : Follows(p, e, f)
           F == [e \in Dom |-> Step(p, e, Fun(e))]
<1>1. ASSUME NEW e \in Dom, \A o \in Dom : Depth[o] < Depth[e] => o \in S
      PROVE  e \in S
  <2> DEFINE G == [o \in Dom |-> Step(p, o, Fun(o))]
             H == [o \in Dom |-> Step(p, o, G)]
  <2>1. \A o \in Dom : Depth[o] < Depth[e] => Follows(p, o, Fun(o))
    BY <1>1
  <2>2. \A o, q \in Dom : Depth[o] < Depth[e] /\ Depth[q] < Depth[o] => Fun(o)[q] = G[q]
    <3> SUFFICES ASSUME NEW o \in Dom, NEW q \in Dom, Depth[o] < Depth[e], Depth[q] < Depth[o]
                 PROVE  Fun(o)[q] = G[q]
      OBVIOUS
    <3> HIDE DEF Fun
    <3>1. Depth[q] < Depth[e] /\ q \in Upto(o) \cap Upto(q)
      BY DEF Local, Upto
    <3>2. Fun(o)[q] = Fun(q)[q]
      BY <3>1, <2>1, Coherent
    <3>3. Fun(q)[q] = Step(p, q, Fun(q))
      BY <3>1, <2>1 DEF Follows
    <3> QED BY <3>2, <3>3
  <2>3. \A o \in Dom : Depth[o] < Depth[e] => G[o] = Step(p, o, G)
    <3> SUFFICES ASSUME NEW o \in Dom, Depth[o] < Depth[e] PROVE G[o] = Step(p, o, G)
      OBVIOUS
    <3>1. \A q \in Dom : Depth[q] < Depth[o] => Fun(o)[q] = G[q]
      BY <2>2
    <3> HIDE DEF Fun
    <3>2. G[o] = Step(p, o, Fun(o))
      OBVIOUS
    <3> HIDE DEF G
    <3> QED BY <3>1, <3>2 DEF Local
  <2>4. \A o \in Dom : Depth[o] < Depth[e] => H[o] = G[o]
    BY <2>3
  <2>5. \A o \in Upto(e) : H[o] = Step(p, o, H)
    <3> SUFFICES ASSUME NEW o \in Upto(e) PROVE H[o] = Step(p, o, H)
      OBVIOUS
    <3>1. o \in Dom /\ \A q \in Dom : Depth[q] < Depth[o] => H[q] = G[q]
      <4> HIDE DEF H, G
      <4> QED BY <2>4 DEF Upto, Local
    <3>2. H[o] = Step(p, o, G)
      BY <3>1
    <3> HIDE DEF H, G
    <3> QED BY <3>1, <3>2 DEF Local
  <2> HIDE DEF H
  <2> QED BY <2>5 DEF Follows
<1>2. \A e \in Dom : e \in S
  <2> HIDE DEF S
  <2> QED BY <1>1, Induction DEF Local
<1>3. \A e \in Dom : Follows(p, e, Fun(e))
  BY <1>2
<1>4. \A e, o \in Dom : Depth[o] < Depth[e] => Fun(e)[o] = F[o]
  <2> SUFFICES ASSUME NEW e \in Dom, NEW o \in Dom, Depth[o] < Depth[e]
               PROVE  Fun(e)[o] = F[o]
    OBVIOUS
  <2> HIDE DEF Fun
  <2>1. o \in Upto(e) \cap Upto(o)
    BY DEF Local, Upto
  <2>2. Fun(e)[o] = Fun(o)[o]
    BY <2>1, <1>3, Coherent
  <2>3. Fun(o)[o] = Step(p, o, Fun(o))
    BY <2>1, <1>3 DEF Follows
  <2> QED BY <2>2, <2>3
<1>5. \A e \in Dom : Step(p, e, Fun(e)) = Step(p, e, F)
  <2> HIDE DEF Fun, F
  <2> QED BY <1>4 DEF Local
<1>6. F = [e \in Dom |-> Step(p, e, F)]
  BY <1>5
<1> QED BY <1>6
=============================================================================
