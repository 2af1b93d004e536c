---- MODULE Lowering_proofs ----
(***************************************************************************)
(* Theorems about Lowering for every choice of names and bounds: what an   *)
(* instruction reads has been computed on the path that reaches it,        *)
(* however ifs, loops, transactions and calls are nested. This module:     *)
(* what executing instructions does, what the lowering of an expression or *)
(* a statement adds to the instructions, the inductive invariant, and the  *)
(* steps that lower statements and open structures.                        *)
(***************************************************************************)
EXTENDS Lowering, TLAPS, FiniteSetTheorems

-----------------------------------------------------------------------------
(* Execution: an instruction reads one value and may define another.        *)

DefiningOps == {"Const", "TupleLit", "TupleField", "Param", "Concat", "RelationLit",
                "TupleBox", "Where", "Extract", "TupleUnbox", "RelvarRead", "Result"}
SourcelessOps == {"Const", "RelvarRead", "Result"}
Ops == DefiningOps \cup {"RelvarSlotStore", "Use", "Return", "Retain", "Release"}

Insts == [op : Ops, src : Int] \cup [op : Ops, src : Int, dst : Nat]

Defines(i) == i.op \in DefiningOps
Reads(i) == i.op \notin SourcelessOps /\ ~(i.op = "Return" /\ i.src = NoValue)

\* The values s defines in its first k instructions, and in all.
DefinedBy(s, k) == {s[j].dst : j \in {h \in 1 .. k : Defines(s[h])}}
Defs(s) == DefinedBy(s, Len(s))

\* Where the values of D are there, every instruction finds what it reads.
Sound(D, s) == \A k \in 1 .. Len(s) : Reads(s[k]) => s[k].src \in D \cup DefinedBy(s, k - 1)

IsMemory(m) ==
    /\ m = [heap |-> m.heap, env |-> m.env, slot |-> m.slot,
            result |-> m.result, fault |-> m.fault]
    /\ m.fault # "undefined"

\* n is what memory m becomes by an instruction that defines the values of S.
Leads(m, n, S) ==
    /\ IsMemory(n)
    /\ DOMAIN m.env \subseteq DOMAIN n.env
    /\ n.fault = NoFault => DOMAIN n.env = DOMAIN m.env \cup S

LEMMA PutDomain ==
    ASSUME NEW f, NEW d, NEW a
    PROVE  /\ DOMAIN Put(f, d, a) = DOMAIN f \cup {d}
           /\ \A x \in DOMAIN f \cup {d} : Put(f, d, a)[x] = IF x = d THEN a ELSE f[x]
BY DEF Put

LEMMA BindLeads ==
    ASSUME NEW m, IsMemory(m), NEW d, NEW a
    PROVE  Leads(m, Bind(m, d, a), {d})
<1>1. /\ IsMemory(Bind(m, d, a))
      /\ Bind(m, d, a).env = Put(m.env, d, a)
  BY DEF Bind, IsMemory
<1>2. DOMAIN Put(m.env, d, a) = DOMAIN m.env \cup {d}
  BY PutDomain
<1> QED BY <1>1, <1>2 DEF Leads

\* What holds the environment and the fault of n leads where n leads.
LEMMA LikeLeads ==
    ASSUME NEW m, NEW n, NEW S, Leads(m, n, S), NEW o, IsMemory(o), o.env = n.env, o.fault = n.fault
    PROVE  Leads(m, o, S)
BY DEF Leads

LEMMA PayloadLeads ==
    ASSUME NEW m, IsMemory(m), NEW d, NEW cell
    PROVE  Leads(m, Payload(m, d, cell), {d})
<1> DEFINE b == Bind(m, d, Len(m.heap) + 1)
<1>1. Leads(m, b, {d})
  BY BindLeads
<1> DEFINE h == Append(RcRetain(b.heap, cell), [rc |-> 1, cell |-> cell])
           n == [b EXCEPT !.heap = h]
<1>2. Payload(m, d, cell) = n
  BY DEF Payload
<1> HIDE DEF b, h
<1>3. IsMemory(n) /\ n.env = b.env /\ n.fault = b.fault
  BY <1>1 DEF Leads, IsMemory
<1> QED BY <1>1, <1>2, <1>3, LikeLeads

LEMMA SameLeads ==
    ASSUME NEW m, IsMemory(m)
    PROVE  Leads(m, m, {})
BY DEF Leads

LEMMA FaultLeads ==
    ASSUME NEW m, IsMemory(m), NEW S
    PROVE  Leads(m, [m EXCEPT !.fault = "freed"], S)
<1>1. [m EXCEPT !.fault = "freed"] = [heap |-> m.heap, env |-> m.env, slot |-> m.slot,
                                      result |-> m.result, fault |-> "freed"]
  BY DEF IsMemory
<1> QED BY <1>1 DEF Leads, IsMemory, NoFault

DefinedBy1(i) == IF Defines(i) THEN {i.dst} ELSE {}

LEMMA ExecLeads ==
    ASSUME NEW m, IsMemory(m), NEW i, i.op \in Ops, Reads(i) => i.src \in DOMAIN m.env
    PROVE  Leads(m, Exec(m, i), DefinedBy1(i))
<1> DEFINE a == m.env[i.src]
           S == DefinedBy1(i)
           n == Exec(m, i)
<1>0. Leads(m, [m EXCEPT !.fault = "freed"], S) /\ Leads(m, m, {})
  BY FaultLeads, SameLeads
<1>a. ASSUME i.op \in DefiningOps PROVE S = {i.dst}
  BY <1>a DEF DefinedBy1, Defines
<1>b. ASSUME i.op \notin DefiningOps PROVE S = {}
  BY <1>b DEF DefinedBy1, Defines
<1>c. ASSUME i.op \notin SourcelessOps, i.op # "Return" \/ i.src # NoValue PROVE i.src \in DOMAIN m.env
  BY <1>c DEF Reads
<1>d. \A d, x : Leads(m, Bind(m, d, x), {d}) /\ Leads(m, Payload(m, d, x), {d})
  BY BindLeads, PayloadLeads
<1> SUFFICES Leads(m, n, S)
  OBVIOUS
<1> HIDE DEF S
<1>1. CASE i.op \in {"Const", "Result"}
  <2>1. n = Bind(m, i.dst, Immortal) \/ n = Bind(m, i.dst, m.result)
    BY <1>1 DEF Exec
  <2> QED BY <2>1, <1>1, <1>a, <1>d DEF DefiningOps
<1>2. CASE i.op \in {"TupleLit", "TupleField", "Param"}
  <2>1. n = Bind(m, i.dst, a)
    BY <1>2, <1>c DEF Exec, SourcelessOps
  <2> QED BY <2>1, <1>2, <1>a, <1>d DEF DefiningOps
<1>3. CASE i.op = "Concat"
  <2>1. n = [m EXCEPT !.fault = "freed"] \/ n = Payload(m, i.dst, Immortal)
    BY <1>3, <1>c DEF Exec, Touch, SourcelessOps
  <2> QED BY <2>1, <1>3, <1>0, <1>a, <1>d DEF DefiningOps
<1>4. CASE i.op \in {"RelationLit", "TupleBox"}
  <2>1. n = [m EXCEPT !.fault = "freed"] \/ n = Payload(m, i.dst, a)
    BY <1>4, <1>c DEF Exec, Touch, SourcelessOps
  <2> QED BY <2>1, <1>4, <1>0, <1>a, <1>d DEF DefiningOps
<1>5. CASE i.op = "Where"
  <2>1. n = [m EXCEPT !.fault = "freed"] \/ n = Payload(m, i.dst, m.heap[a].cell)
    BY <1>5, <1>c DEF Exec, Touch, SourcelessOps
  <2> QED BY <2>1, <1>5, <1>0, <1>a, <1>d DEF DefiningOps
<1>6. CASE i.op \in {"Extract", "TupleUnbox"}
  <2>1. n = [m EXCEPT !.fault = "freed"] \/ n = Bind(m, i.dst, m.heap[a].cell)
    BY <1>6, <1>c DEF Exec, Touch, SourcelessOps
  <2> QED BY <2>1, <1>6, <1>0, <1>a, <1>d DEF DefiningOps
<1>7. CASE i.op = "RelvarRead"
  <2> DEFINE o == [m EXCEPT !.heap = RcRetain(m.heap, m.slot)]
  <2>1. IsMemory(o) /\ o.env = m.env
    BY DEF IsMemory
  <2>2. n = Bind(o, i.dst, m.slot)
    BY <1>7 DEF Exec
  <2> HIDE DEF o
  <2>3. Leads(o, Bind(o, i.dst, m.slot), {i.dst})
    BY <2>1, BindLeads
  <2> QED BY <1>7, <1>a, <2>1, <2>2, <2>3 DEF Leads, DefiningOps
<1>8. CASE i.op = "RelvarSlotStore"
  <2>1. n = [m EXCEPT !.fault = "freed"] \/ n = Stored(m, a)
    BY <1>8, <1>c DEF Exec, Touch, SourcelessOps
  <2>2. IsMemory(Stored(m, a)) /\ Stored(m, a).env = m.env /\ Stored(m, a).fault = m.fault
    <3> DEFINE h == RcRelease(m.heap, m.slot)
               k == [m EXCEPT !.heap = h]
               o == [k EXCEPT !.slot = a]
    <3>1. Stored(m, a) = o
      BY DEF Stored
    <3> HIDE DEF h
    <3>2. IsMemory(k) /\ k.env = m.env /\ k.fault = m.fault
      BY DEF IsMemory
    <3> HIDE DEF k
    <3>3. IsMemory(o) /\ o.env = k.env /\ o.fault = k.fault
      BY <3>2 DEF IsMemory
    <3> QED BY <3>1, <3>2, <3>3
  <2> QED BY <1>8, <1>0, <1>b, <2>1, <2>2, LikeLeads DEF DefiningOps
<1>9. CASE i.op = "Use"
  <2>1. n = [m EXCEPT !.fault = "freed"] \/ n = m
    BY <1>9, <1>c DEF Exec, Touch, SourcelessOps
  <2> QED BY <2>1, <1>9, <1>0, <1>b DEF DefiningOps
<1>10. CASE i.op = "Return"
  <2> DEFINE o == [m EXCEPT !.result = a]
  <2>1. n = [m EXCEPT !.fault = "freed"] \/ n = m \/ n = o
    <3>1. CASE i.src = NoValue
      BY <1>10, <3>1 DEF Exec, Touch
    <3>2. CASE i.src # NoValue
      BY <1>10, <1>c, <3>2 DEF Exec, Touch, SourcelessOps
    <3> QED BY <3>1, <3>2
  <2>2. IsMemory(o) /\ o.env = m.env /\ o.fault = m.fault
    BY DEF IsMemory
  <2> HIDE DEF o, n
  <2> QED BY <1>10, <1>0, <1>b, <2>1, <2>2, LikeLeads DEF DefiningOps
<1>11. CASE i.op \in {"Retain", "Release"}
  <2> DEFINE o == [m EXCEPT !.heap = RcRetain(m.heap, a)]
             q == [m EXCEPT !.heap = RcRelease(m.heap, a)]
  <2>1. n = [m EXCEPT !.fault = "freed"] \/ n = o \/ n = q
    BY <1>11, <1>c DEF Exec, Touch, SourcelessOps
  <2>2. /\ IsMemory(o) /\ o.env = m.env /\ o.fault = m.fault
        /\ IsMemory(q) /\ q.env = m.env /\ q.fault = m.fault
    BY DEF IsMemory
  <2> HIDE DEF o, q, n
  <2> QED BY <1>11, <1>0, <1>b, <2>1, <2>2, LikeLeads DEF DefiningOps
<1> QED BY <1>1, <1>2, <1>3, <1>4, <1>5, <1>6, <1>7, <1>8, <1>9, <1>10, <1>11
        DEF Ops, DefiningOps
Count == [k \in Nat |-> k]
RunStep(p, k, f) == IF k = 0 THEN p.m ELSE Continue(f[k - 1], p.s[k])
RRun == INSTANCE Recursion WITH Dom <- Nat, Depth <- Count, Step <- RunStep

LEMMA ExecutionDef ==
    ASSUME NEW m, NEW s
    PROVE  /\ Execution(m, s)[0] = m
           /\ \A k \in Nat : Execution(m, s)[k + 1] = Continue(Execution(m, s)[k], s[k + 1])
<1> DEFINE p == [m |-> m, s |-> s]
<1>1. RRun!Local
  BY DEF RRun!Local, RunStep, Count
<1>2. \E f : f = [k \in Nat |-> RunStep(p, k, f)]
  BY <1>1, RRun!Defined
<1>3. Execution(m, s) = [k \in Nat |-> RunStep(p, k, Execution(m, s))]
  BY <1>2 DEF Execution, RunStep
<1>4. \A k \in Nat : Execution(m, s)[k] = RunStep(p, k, Execution(m, s))
  BY <1>3
<1>5. Execution(m, s)[0] = m
  BY <1>4 DEF RunStep
<1>6. ASSUME NEW k \in Nat
      PROVE  Execution(m, s)[k + 1] = Continue(Execution(m, s)[k], s[k + 1])
  <2>1. k + 1 \in Nat /\ k + 1 # 0 /\ k + 1 - 1 = k
    OBVIOUS
  <2> QED BY <1>4, <2>1 DEF RunStep
<1> QED BY <1>5, <1>6

LEMMA CountInduction ==
    ASSUME NEW S, 0 \in S, \A k \in Nat : k \in S => k + 1 \in S
    PROVE  \A k \in Nat : k \in S
<1>1. ASSUME NEW k \in Nat, \A o \in Nat : Count[o] < Count[k] => o \in S
      PROVE  k \in S
  <2>1. CASE k = 0
    BY <2>1
  <2>2. CASE k # 0
    <3>1. k - 1 \in Nat /\ k - 1 + 1 = k /\ Count[k - 1] < Count[k]
      BY <2>2 DEF Count
    <3>2. k - 1 + 1 \in S
      BY <1>1, <3>1
    <3> QED BY <3>1, <3>2
  <2> QED BY <2>1, <2>2
<1>2. \A k \in Nat : Count[k] \in Nat
  BY DEF Count
<1> QED BY <1>1, <1>2, RRun!Induction

LEMMA DefinedByNext ==
    ASSUME NEW s, NEW k \in Nat
    PROVE  DefinedBy(s, k + 1) = DefinedBy(s, k) \cup DefinedBy1(s[k + 1])
BY DEF DefinedBy, DefinedBy1

\* Instructions that find what they read fault only where a payload was freed,
\* and leave what they define.
LEMMA RunIsSound ==
    ASSUME NEW m, IsMemory(m), NEW s \in Seq(Insts), Sound(DOMAIN m.env, s)
    PROVE  Leads(m, Run(m, s), Defs(s))
<1> DEFINE e == Execution(m, s)
           S == {k \in Nat : k <= Len(s) => Leads(m, e[k], DefinedBy(s, k))}
<1>0. e[0] = m /\ \A k \in Nat : e[k + 1] = Continue(e[k], s[k + 1])
  BY ExecutionDef
<1> HIDE DEF e
<1>1. 0 \in S
  <2>1. DefinedBy(s, 0) = {}
    BY DEF DefinedBy
  <2> QED BY <1>0, <2>1, SameLeads
<1>2. ASSUME NEW k \in Nat, k \in S PROVE k + 1 \in S
  <2> SUFFICES ASSUME k + 1 <= Len(s) PROVE Leads(m, e[k + 1], DefinedBy(s, k + 1))
    OBVIOUS
  <2>1. Leads(m, e[k], DefinedBy(s, k))
    BY <1>2
  <2>2. DefinedBy(s, k + 1) = DefinedBy(s, k) \cup DefinedBy1(s[k + 1])
    BY DefinedByNext
  <2>3. e[k + 1] = Continue(e[k], s[k + 1])
    BY <1>0
  <2>4. CASE e[k].fault # NoFault
    BY <2>1, <2>3, <2>4 DEF Continue, Leads
  <2>5. CASE e[k].fault = NoFault
    <3>1. s[k + 1].op \in Ops
      <4>1. s[k + 1] \in Insts
        OBVIOUS
      <4> QED BY <4>1 DEF Insts
    <3>2. Reads(s[k + 1]) => s[k + 1].src \in DOMAIN m.env \cup DefinedBy(s, k)
      BY DEF Sound
    <3>3. Leads(e[k], Exec(e[k], s[k + 1]), DefinedBy1(s[k + 1]))
      BY <2>1, <2>5, <3>1, <3>2, ExecLeads DEF Leads
    <3> QED BY <2>1, <2>2, <2>3, <2>5, <3>3 DEF Continue, Leads
  <2> QED BY <2>4, <2>5
<1>3. \A k \in Nat : k \in S
  <2> HIDE DEF S
  <2> QED BY <1>1, <1>2, CountInduction
<1>4. Leads(m, e[Len(s)], DefinedBy(s, Len(s)))
  <2>1. Len(s) \in Nat
    OBVIOUS
  <2> QED BY <1>3, <2>1
<1> QED BY <1>4 DEF Run, Defs, e
LEMMA RunStopped ==
    ASSUME NEW m, m.fault # NoFault, NEW s, Len(s) \in Nat
    PROVE  Run(m, s) = m
<1> DEFINE e == Execution(m, s)
           S == {k \in Nat : e[k] = m}
<1>0. e[0] = m /\ \A k \in Nat : e[k + 1] = Continue(e[k], s[k + 1])
  BY ExecutionDef
<1> HIDE DEF e
<1>1. 0 \in S
  BY <1>0
<1>a. \A x : Continue(m, x) = m
  BY DEF Continue
<1>b. ASSUME NEW k \in Nat, k \in S PROVE k + 1 \in S
  <2>1. e[k + 1] = Continue(m, s[k + 1])
    BY <1>0, <1>b
  <2> QED BY <2>1, <1>a
<1>2. \A k \in Nat : k \in S
  <2> HIDE DEF S
  <2> QED BY <1>1, <1>b, CountInduction
<1> QED BY <1>2 DEF Run, e

-----------------------------------------------------------------------------
(* Sequences of instructions.                                               *)

LEMMA SoundAppend ==
    ASSUME NEW D, NEW s \in Seq(Insts), NEW i \in Insts, Sound(D, s),
           Reads(i) => i.src \in D \cup Defs(s)
    PROVE  /\ Append(s, i) \in Seq(Insts)
           /\ Sound(D, Append(s, i))
           /\ Defs(Append(s, i)) = Defs(s) \cup DefinedBy1(i)
<1> DEFINE t == Append(s, i)
<1>1. t \in Seq(Insts) /\ Len(t) = Len(s) + 1 /\ Len(s) \in Nat
      /\ t[Len(s) + 1] = i /\ \A k \in 1 .. Len(s) : t[k] = s[k]
  OBVIOUS
<1> HIDE DEF t
<1>2. \A k \in 0 .. Len(s) : DefinedBy(t, k) = DefinedBy(s, k)
  BY <1>1 DEF DefinedBy
<1>3. DefinedBy(t, Len(s) + 1) = DefinedBy(t, Len(s)) \cup DefinedBy1(i)
  BY <1>1, DefinedByNext
<1>4. Sound(D, t)
  <2> SUFFICES ASSUME NEW k \in 1 .. Len(s) + 1, Reads(t[k])
               PROVE  t[k].src \in D \cup DefinedBy(t, k - 1)
    BY <1>1 DEF Sound
  <2>1. CASE k = Len(s) + 1
    BY <2>1, <1>1, <1>2 DEF Defs
  <2>2. CASE k # Len(s) + 1
    BY <2>2, <1>1, <1>2 DEF Sound
  <2> QED BY <2>1, <2>2
<1> QED BY <1>1, <1>2, <1>3, <1>4 DEF t, Defs

LEMMA SoundConcat ==
    ASSUME NEW D, NEW s \in Seq(Insts), NEW t \in Seq(Insts),
           Sound(D, s), Sound(D \cup Defs(s), t)
    PROVE  /\ s \o t \in Seq(Insts)
           /\ Sound(D, s \o t)
           /\ Defs(s \o t) = Defs(s) \cup Defs(t)
<1> DEFINE u == s \o t
           n == Len(s)
<1>1. /\ u \in Seq(Insts) /\ Len(u) = n + Len(t) /\ n \in Nat /\ Len(t) \in Nat
      /\ \A k \in 1 .. n : u[k] = s[k]
      /\ \A k \in 1 .. Len(t) : u[n + k] = t[k]
  OBVIOUS
<1> HIDE DEF u, n
<1>2. \A k \in 0 .. n : DefinedBy(u, k) = DefinedBy(s, k)
  BY <1>1 DEF DefinedBy
<1>3. ASSUME NEW k \in 0 .. Len(t)
      PROVE  DefinedBy(u, n + k) = DefinedBy(s, n) \cup DefinedBy(t, k)
  <2>1. ASSUME NEW d \in DefinedBy(u, n + k) PROVE d \in DefinedBy(s, n) \cup DefinedBy(t, k)
    <3>1. PICK j \in 1 .. n + k : Defines(u[j]) /\ d = u[j].dst
      BY <2>1 DEF DefinedBy
    <3>2. CASE j <= n
      <4>1. j \in 1 .. n /\ u[j] = s[j]
        BY <3>2, <1>1
      <4> QED BY <3>1, <4>1 DEF DefinedBy
    <3>3. CASE j > n
      <4>1. j - n \in 1 .. k /\ u[j] = t[j - n]
        <5>1. j - n \in 1 .. Len(t) /\ j - n \in 1 .. k /\ n + (j - n) = j
          BY <3>3, <1>1
        <5> QED BY <5>1, <1>1
      <4> QED BY <3>1, <4>1 DEF DefinedBy
    <3> QED BY <3>2, <3>3, <1>1
  <2>2. ASSUME NEW d \in DefinedBy(s, n) PROVE d \in DefinedBy(u, n + k)
    BY <2>2, <1>1 DEF DefinedBy
  <2>3. ASSUME NEW d \in DefinedBy(t, k) PROVE d \in DefinedBy(u, n + k)
    <3>1. PICK j \in 1 .. k : Defines(t[j]) /\ d = t[j].dst
      BY <2>3 DEF DefinedBy
    <3>2. n + j \in 1 .. n + k /\ u[n + j] = t[j]
      BY <1>1
    <3> QED BY <3>1, <3>2 DEF DefinedBy
  <2> QED BY <2>1, <2>2, <2>3
<1>4. Sound(D, u)
  <2> SUFFICES ASSUME NEW k \in 1 .. n + Len(t), Reads(u[k])
               PROVE  u[k].src \in D \cup DefinedBy(u, k - 1)
    BY <1>1 DEF Sound
  <2>1. CASE k <= n
    <3>1. k \in 1 .. n /\ k - 1 \in 0 .. n /\ u[k] = s[k] /\ DefinedBy(u, k - 1) = DefinedBy(s, k - 1)
      BY <2>1, <1>1, <1>2
    <3>2. s[k].src \in D \cup DefinedBy(s, k - 1)
      BY <3>1 DEF Sound, n
    <3> QED BY <3>1, <3>2
  <2>2. CASE k > n
    <3>1. k - n \in 1 .. Len(t) /\ k - n - 1 \in 0 .. Len(t) /\ n + (k - n) = k /\ n + (k - n - 1) = k - 1
      BY <2>2, <1>1
    <3>2. u[k] = t[k - n]
      BY <3>1, <1>1
    <3>3. t[k - n].src \in D \cup Defs(s) \cup DefinedBy(t, k - n - 1)
      BY <3>1, <3>2 DEF Sound
    <3>4. DefinedBy(u, k - 1) = DefinedBy(s, n) \cup DefinedBy(t, k - n - 1)
      BY <3>1, <1>3
    <3> QED BY <3>2, <3>3, <3>4 DEF Defs, n
  <2> QED BY <2>1, <2>2, <1>1
<1>5. Defs(u) = Defs(s) \cup Defs(t)
  BY <1>1, <1>3 DEF Defs, n
<1> QED BY <1>1, <1>4, <1>5 DEF u

\* u is s and then t, each of which finds what it reads.
Follows(D, s, t, u) ==
    /\ s \in Seq(Insts) /\ t \in Seq(Insts) /\ u = s \o t
    /\ Sound(D, s) /\ Sound(D \cup Defs(s), t)

LEMMA FollowsSound ==
    ASSUME NEW D, NEW s, NEW t, NEW u, Follows(D, s, t, u)
    PROVE  u \in Seq(Insts) /\ Sound(D, u) /\ Defs(u) = Defs(s) \cup Defs(t)
<1> USE DEF Follows
<1>1. s \o t \in Seq(Insts) /\ Sound(D, s \o t) /\ Defs(s \o t) = Defs(s) \cup Defs(t)
  BY SoundConcat
<1> QED BY <1>1

\* Where every source is there already.
Known(D, s) == \A k \in 1 .. Len(s) : Reads(s[k]) => s[k].src \in D

LEMMA KnownSound ==
    ASSUME NEW D, NEW s, Known(D, s)
    PROVE  Sound(D, s)
BY DEF Known, Sound

LEMMA SoundKnown ==
    ASSUME NEW D, NEW s \in Seq(Insts), Sound(D, s)
    PROVE  Known(D \cup Defs(s), s)
<1>1. \A k \in 1 .. Len(s) : DefinedBy(s, k - 1) \subseteq Defs(s)
  BY DEF DefinedBy, Defs
<1> QED BY <1>1 DEF Known, Sound

LEMMA KnownConcat ==
    ASSUME NEW D, NEW s \in Seq(Insts), NEW t \in Seq(Insts), Known(D, s), Known(D, t)
    PROVE  s \o t \in Seq(Insts) /\ Known(D, s \o t)
<1>1. s \o t \in Seq(Insts) /\ Len(s \o t) = Len(s) + Len(t) /\ Len(s) \in Nat /\ Len(t) \in Nat
  OBVIOUS
<1>2. ASSUME NEW k \in 1 .. Len(s) + Len(t)
      PROVE  Reads((s \o t)[k]) => (s \o t)[k].src \in D
  <2>1. CASE k <= Len(s)
    <3>1. (s \o t)[k] = s[k]
      BY <2>1
    <3> QED BY <3>1, <2>1 DEF Known
  <2>2. CASE k > Len(s)
    <3>1. (s \o t)[k] = t[k - Len(s)] /\ k - Len(s) \in 1 .. Len(t)
      BY <2>2
    <3> QED BY <3>1 DEF Known
  <2> QED BY <2>1, <2>2
<1> QED BY <1>1, <1>2 DEF Known

-----------------------------------------------------------------------------
(* A function being lowered: the values it names are there.                 *)

Types == Flows \cup {"Unit"}
Bnds == [v : Nat, ty : Flows]
Layers == UNION {[S -> Bnds] : S \in SUBSET Names}
Pendings == SUBSET Names
Deferrals == [src : Nat, flat : Nat \cup {ExtractSource}]
Lowerers ==
    [locals : Seq(Layers), pending : Seq(Pendings), unset : SUBSET Names,
     params : SUBSET Names, borrowed : SUBSET Nat,
     owned : SUBSET Nat, temps : UNION {[S -> Nat] : S \in SUBSET Nat}, heads : SUBSET Nat,
     deferred : Seq(Deferrals), next : Nat \ {0}, diverged : BOOLEAN,
     returns : Types \cup {AnyType}, insts : Seq(Insts)]

\* The values that are there where those of D are and l's instructions ran.
Avail(D, l) == D \cup Defs(l.insts)

\* Values are numbered in order.
Numbered(D, next) == \A d \in D : d \in Nat /\ d < next
\* With a tuple of D there is the Text in its cell.
TempsIn(l, D) ==
    \A t \in DOMAIN l.temps : t < l.next /\ l.temps[t] < l.next /\ (t \in D => l.temps[t] \in D)
HeadsIn(l) == \A h \in l.heads : h < l.next
DeferredIn(l, D) == \A k \in 1 .. Len(l.deferred) : l.deferred[k].src \in D
LocalsIn(l, D) == \A k \in 1 .. Len(l.locals) : \A n \in DOMAIN l.locals[k] : l.locals[k][n].v \in D

\* The tuples that borrow from a deferred source own no cells, and are tuples.
Borrows(l, f) ==
    /\ f < l.next /\ f \notin l.heads \cup DOMAIN l.temps
    /\ \A k \in 1 .. Len(l.locals) : \A n \in DOMAIN l.locals[k] :
          l.locals[k][n].v = f => l.locals[k][n].ty = "Flat"
BorrowersIn(l) == \A k \in 1 .. Len(l.deferred) : Borrows(l, l.deferred[k].flat)

Good(D, l) ==
    /\ l \in Lowerers
    /\ Sound(D, l.insts)
    /\ Numbered(Avail(D, l), l.next)
    /\ TempsIn(l, Avail(D, l))
    /\ HeadsIn(l)
    /\ DeferredIn(l, Avail(D, l))
    /\ LocalsIn(l, Avail(D, l))
    /\ BorrowersIn(l)

Prefix(s, t) == Len(s) <= Len(t) /\ \A k \in 1 .. Len(s) : t[k] = s[k]

\* What m has that l has not is newer.
TempsFrom(l, m) ==
    \A t \in DOMAIN m.temps : \/ t \in DOMAIN l.temps /\ m.temps[t] = l.temps[t]
                              \/ t >= l.next
HeadsFrom(l, m) == \A h \in m.heads : h \in l.heads \/ h >= l.next
BorrowersFrom(l, m) ==
    \A k \in 1 .. Len(m.deferred) :
        \/ k <= Len(l.deferred) /\ m.deferred[k] = l.deferred[k]
        \/ m.deferred[k].flat = ExtractSource
        \/ m.deferred[k].flat >= l.next
AvailFrom(D, l, m) ==
    /\ Avail(D, l) \subseteq Avail(D, m)
    /\ \A d \in Avail(D, m) : d \in Avail(D, l) \/ d >= l.next

\* m goes on from l: of what l has, m keeps the values.
Moves(D, l, m) ==
    /\ Good(D, m)
    /\ l.next <= m.next
    /\ AvailFrom(D, l, m)
    /\ TempsFrom(l, m)
    /\ HeadsFrom(l, m)
    /\ BorrowersFrom(l, m)

\* m goes on from l within a statement.
SameScopes(l, m) ==
    /\ m.locals = l.locals /\ m.pending = l.pending /\ m.diverged = l.diverged
    /\ m.params = l.params /\ m.unset = l.unset /\ m.borrowed = l.borrowed
    /\ m.returns = l.returns
Goes(D, l, m) ==
    /\ Moves(D, l, m)
    /\ SameScopes(l, m)
    /\ Prefix(l.deferred, m.deferred)
    /\ \A k \in 1 .. Len(m.deferred) :
          k <= Len(l.deferred) \/ m.deferred[k].flat = ExtractSource

LEMMA GoesSame ==
    ASSUME NEW D, NEW l, Good(D, l)
    PROVE  Goes(D, l, l)
BY DEF Goes, Moves, SameScopes, Prefix, AvailFrom, TempsFrom, HeadsFrom, BorrowersFrom, Good, Lowerers

LEMMA MovesOn ==
    ASSUME NEW D, NEW l, NEW m, NEW o, l \in Lowerers, Moves(D, l, m), Moves(D, m, o)
    PROVE  Moves(D, l, o)
<1>0. m \in Lowerers /\ o \in Lowerers /\ Good(D, o)
  BY DEF Moves, Good
<1>1. l.next \in Nat /\ m.next \in Nat /\ o.next \in Nat /\ l.next <= m.next /\ m.next <= o.next
  BY <1>0 DEF Lowerers, Moves
<1>2. TempsFrom(l, o) /\ HeadsFrom(l, o)
  <2>1. (\A t \in DOMAIN o.temps : t \in Nat) /\ (\A t \in o.heads : t \in Nat)
    <3>1. PICK S \in SUBSET Nat : o.temps \in [S -> Nat]
      BY <1>0 DEF Lowerers
    <3>2. o.heads \in SUBSET Nat
      BY <1>0 DEF Lowerers
    <3> QED BY <3>1, <3>2
  <2> QED BY <1>1, <2>1 DEF Moves, TempsFrom, HeadsFrom
<1>3. AvailFrom(D, l, o)
  <2>1. \A d \in Avail(D, o) : d \in Nat
    BY <1>0 DEF Good, Numbered
  <2> QED BY <1>1, <2>1 DEF Moves, AvailFrom
<1>4. BorrowersFrom(l, o)
  <2> SUFFICES ASSUME NEW k \in 1 .. Len(o.deferred)
               PROVE  \/ k <= Len(l.deferred) /\ o.deferred[k] = l.deferred[k]
                      \/ o.deferred[k].flat = ExtractSource
                      \/ o.deferred[k].flat >= l.next
    BY DEF BorrowersFrom
  <2>1. o.deferred[k].flat \in Nat \cup {ExtractSource}
    <3>1. o.deferred[k] \in Deferrals
      <4>1. o.deferred \in Seq(Deferrals)
        BY <1>0 DEF Lowerers
      <4> QED BY <4>1
    <3> QED BY <3>1 DEF Deferrals
  <2>2. CASE k <= Len(m.deferred) /\ o.deferred[k] = m.deferred[k]
    <3>1. k \in 1 .. Len(m.deferred)
      BY <1>0, <2>2 DEF Lowerers
    <3> QED BY <1>1, <2>1, <2>2, <3>1 DEF Moves, BorrowersFrom
  <2> QED BY <1>1, <2>1, <2>2 DEF Moves, BorrowersFrom, ExtractSource
<1> QED BY <1>0, <1>1, <1>2, <1>3, <1>4 DEF Moves

LEMMA GoesOn ==
    ASSUME NEW D, NEW l, NEW m, NEW o, l \in Lowerers, Goes(D, l, m), Goes(D, m, o)
    PROVE  Goes(D, l, o)
<1>0. m \in Lowerers /\ o \in Lowerers
  BY DEF Goes, Moves, Good
<1>1. Prefix(l.deferred, o.deferred)
  <2>1. Len(l.deferred) \in Nat /\ Len(m.deferred) \in Nat /\ Len(o.deferred) \in Nat
    BY <1>0 DEF Lowerers
  <2>2. Prefix(l.deferred, m.deferred) /\ Prefix(m.deferred, o.deferred)
    BY DEF Goes
  <2> QED BY <2>1, <2>2 DEF Prefix
<1>2. Moves(D, l, o)
  BY MovesOn DEF Goes
<1>3. ASSUME NEW k \in 1 .. Len(o.deferred), o.deferred[k].flat # ExtractSource
      PROVE  k <= Len(l.deferred)
  <2>1. k <= Len(m.deferred)
    BY <1>3 DEF Goes
  <2>2. k \in 1 .. Len(m.deferred)
    BY <2>1, <1>0 DEF Lowerers
  <2>3. o.deferred[k] = m.deferred[k]
    BY <2>2 DEF Goes, Prefix
  <2> QED BY <1>3, <2>2, <2>3 DEF Goes
<1> QED BY <1>1, <1>2, <1>3 DEF Goes, SameScopes

\* What is new in a lowerer that goes on from l.
LEMMA GoesIf ==
    ASSUME NEW D, NEW l, Good(D, l), NEW m \in Lowerers, SameScopes(l, m),
           Sound(D, m.insts), AvailFrom(D, l, m), l.next <= m.next,
           \A d \in Avail(D, m) : d \in Avail(D, l) \/ d \in l.next .. m.next - 1,
           \A t \in DOMAIN m.temps :
              \/ t \in DOMAIN l.temps /\ m.temps[t] = l.temps[t]
              \/ t \in l.next .. m.next - 1 /\ m.temps[t] \in Avail(D, m),
           \A h \in m.heads : h \in l.heads \/ h \in l.next .. m.next - 1,
           Prefix(l.deferred, m.deferred),
           \A k \in Len(l.deferred) + 1 .. Len(m.deferred) :
              /\ m.deferred[k].src \in Avail(D, m)
              /\ m.deferred[k].flat = ExtractSource
    PROVE  Goes(D, l, m)
<1>0. l \in Lowerers /\ l.next \in Nat /\ m.next \in Nat /\ Len(l.deferred) \in Nat /\ Len(m.deferred) \in Nat
  BY DEF Good, Lowerers
<1>1. Numbered(Avail(D, m), m.next)
  BY <1>0 DEF Good, Numbered, AvailFrom
<1>2. \A t \in DOMAIN l.temps : t \in Nat /\ l.temps[t] \in Nat
  <2>1. PICK S \in SUBSET Nat : l.temps \in [S -> Nat]
    BY <1>0 DEF Lowerers
  <2> QED BY <2>1
<1>3. TempsIn(m, Avail(D, m)) /\ TempsFrom(l, m)
  <2> SUFFICES ASSUME NEW t \in DOMAIN m.temps
               PROVE  /\ t < m.next /\ m.temps[t] < m.next
                      /\ t \in Avail(D, m) => m.temps[t] \in Avail(D, m)
                      /\ \/ t \in DOMAIN l.temps /\ m.temps[t] = l.temps[t]
                         \/ t >= l.next
    BY DEF TempsIn, TempsFrom
  <2>1. CASE t \in DOMAIN l.temps /\ m.temps[t] = l.temps[t]
    BY <1>0, <1>2, <2>1 DEF Good, TempsIn, AvailFrom
  <2>2. CASE t \in l.next .. m.next - 1 /\ m.temps[t] \in Avail(D, m)
    BY <1>0, <1>1, <2>2 DEF Numbered
  <2> QED BY <2>1, <2>2
<1>4. HeadsIn(m) /\ HeadsFrom(l, m)
  <2>1. \A h \in l.heads : h \in Nat /\ h < l.next
    BY <1>0 DEF Good, HeadsIn, Lowerers
  <2> QED BY <1>0, <2>1 DEF HeadsIn, HeadsFrom
<1>5. DeferredIn(m, Avail(D, m))
  <2> SUFFICES ASSUME NEW k \in 1 .. Len(m.deferred) PROVE m.deferred[k].src \in Avail(D, m)
    BY DEF DeferredIn
  <2>1. CASE k <= Len(l.deferred)
    <3>1. k \in 1 .. Len(l.deferred)
      BY <2>1, <1>0
    <3>2. l.deferred[k].src \in Avail(D, l) /\ m.deferred[k] = l.deferred[k]
      BY <3>1 DEF Good, DeferredIn, Prefix
    <3> QED BY <3>2 DEF AvailFrom
  <2>2. CASE k > Len(l.deferred)
    BY <2>2, <1>0
  <2> QED BY <2>1, <2>2, <1>0
<1>6. LocalsIn(m, Avail(D, m))
  BY DEF Good, LocalsIn, SameScopes, AvailFrom
<1>7. BorrowersIn(m) /\ BorrowersFrom(l, m)
  <2> SUFFICES ASSUME NEW k \in 1 .. Len(m.deferred)
               PROVE  /\ Borrows(m, m.deferred[k].flat)
                      /\ \/ k <= Len(l.deferred) /\ m.deferred[k] = l.deferred[k]
                         \/ m.deferred[k].flat = ExtractSource
    BY DEF BorrowersIn, BorrowersFrom
  <2>1. CASE k <= Len(l.deferred)
    <3> DEFINE f == l.deferred[k].flat
    <3>1. k \in 1 .. Len(l.deferred)
      BY <2>1, <1>0
    <3>2. Borrows(l, f) /\ m.deferred[k] = l.deferred[k] /\ l.deferred[k] \in Deferrals
      BY <3>1, <1>0 DEF Good, BorrowersIn, Prefix, Lowerers
    <3>3. f \in Int
      BY <3>2 DEF Deferrals, ExtractSource
    <3> HIDE DEF f
    <3>4. f < l.next /\ f < m.next /\ f \notin m.heads /\ f \notin DOMAIN m.temps
      BY <3>2, <3>3, <1>0 DEF Borrows
    <3> QED BY <2>1, <3>2, <3>4 DEF Borrows, SameScopes, f
  <2>2. CASE k > Len(l.deferred)
    <3>1. m.deferred[k].flat = ExtractSource
      BY <2>2, <1>0
    <3>2. \A j \in 1 .. Len(m.locals) : \A n \in DOMAIN m.locals[j] : m.locals[j][n].v \in Nat
      BY <1>1, <1>6 DEF LocalsIn, Numbered
    <3>3. ExtractSource < m.next /\ ExtractSource \notin m.heads /\ ExtractSource \notin DOMAIN m.temps
          /\ ExtractSource \notin Nat
      <4>1. PICK S \in SUBSET Nat : m.temps \in [S -> Nat]
        BY DEF Lowerers
      <4>2. m.heads \in SUBSET Nat
        BY DEF Lowerers
      <4> QED BY <1>0, <4>1, <4>2 DEF ExtractSource
    <3> QED BY <3>1, <3>2, <3>3 DEF Borrows
  <2> QED BY <2>1, <2>2, <1>0
<1>8. Good(D, m)
  BY <1>1, <1>3, <1>4, <1>5, <1>6, <1>7 DEF Good
<1>9. \A k \in 1 .. Len(m.deferred) : k <= Len(l.deferred) \/ m.deferred[k].flat = ExtractSource
  BY <1>0
<1> QED BY <1>3, <1>4, <1>7, <1>8, <1>9 DEF Goes, Moves

\* The Nat bounds of a lowerer that is good.
LEMMA GoodTypes ==
    ASSUME NEW D, NEW l, Good(D, l)
    PROVE  /\ l \in Lowerers /\ l.next \in Nat \ {0} /\ l.insts \in Seq(Insts)
           /\ Len(l.deferred) \in Nat /\ l.deferred \in Seq(Deferrals)
           /\ l.heads \in SUBSET Nat /\ l.owned \in SUBSET Nat
           /\ \A t \in DOMAIN l.temps : t \in Nat /\ l.temps[t] \in Nat
           /\ \A d \in Avail(D, l) : d \in Nat /\ d < l.next
<1>1. l \in Lowerers /\ Numbered(Avail(D, l), l.next)
  BY DEF Good
<1>2. PICK S \in SUBSET Nat : l.temps \in [S -> Nat]
  BY <1>1 DEF Lowerers
<1>3. \A t \in DOMAIN l.temps : t \in Nat /\ l.temps[t] \in Nat
  BY <1>2
<1>4. /\ l.next \in Nat \ {0} /\ l.insts \in Seq(Insts)
      /\ l.deferred \in Seq(Deferrals) /\ l.heads \in SUBSET Nat /\ l.owned \in SUBSET Nat
  BY <1>1 DEF Lowerers
<1> QED BY <1>1, <1>3, <1>4 DEF Numbered

LEMMA EmitGoes ==
    ASSUME NEW D, NEW l, Good(D, l), NEW op \in Ops \ DefiningOps, NEW v \in Int,
           v \in Avail(D, l) \/ (op = "Return" /\ v = NoValue)
    PROVE  /\ Goes(D, l, Emit(l, op, v))
           /\ Emit(l, op, v).deferred = l.deferred /\ Emit(l, op, v).next = l.next
           /\ Emit(l, op, v).heads = l.heads /\ Emit(l, op, v).temps = l.temps
<1> DEFINE i == [op |-> op, src |-> v]
           m == Emit(l, op, v)
           s == Append(l.insts, i)
<1>1. i \in Insts /\ ~Defines(i) /\ i.src = v /\ (Reads(i) => v \in Avail(D, l))
  BY DEF Insts, Defines, Reads
<1>2. l \in Lowerers /\ l.insts \in Seq(Insts) /\ l.next \in Nat /\ Len(l.deferred) \in Nat
  BY GoodTypes
<1>3. m = [l EXCEPT !.insts = s]
  BY DEF Emit
<1> HIDE DEF i, m
<1>4. /\ s \in Seq(Insts)
      /\ Sound(D, s)
      /\ Defs(s) = Defs(l.insts)
  <2>1. Sound(D, l.insts) /\ DefinedBy1(i) = {}
    BY <1>1 DEF Good, DefinedBy1
  <2>2. Reads(i) => i.src \in D \cup Defs(l.insts)
    BY <1>1 DEF Avail
  <2> QED BY <1>1, <1>2, <2>1, <2>2, SoundAppend
<1> HIDE DEF s
<1>5. /\ m \in Lowerers /\ m.insts = s /\ SameScopes(l, m) /\ m.heads = l.heads
      /\ m.deferred = l.deferred /\ m.next = l.next /\ m.temps = l.temps
  BY <1>2, <1>3, <1>4 DEF Lowerers, SameScopes
<1>6. Avail(D, m) = Avail(D, l) /\ Sound(D, m.insts)
  BY <1>4, <1>5 DEF Avail
<1>7. AvailFrom(D, l, m) /\ Prefix(l.deferred, m.deferred)
  BY <1>2, <1>5, <1>6 DEF Prefix, AvailFrom
<1>8. Goes(D, l, m)
  BY <1>2, <1>5, <1>6, <1>7, GoesIf
<1> QED BY <1>5, <1>8 DEF m

LEMMA DefineGoes ==
    ASSUME NEW D, NEW l, Good(D, l), NEW op \in DefiningOps, NEW v \in Int,
           op \in SourcelessOps \/ v \in Avail(D, l)
    PROVE  /\ Goes(D, l, Define(l, op, v))
           /\ l.next \in Avail(D, Define(l, op, v)) /\ l.next \in Nat
           /\ Define(l, op, v).deferred = l.deferred /\ Define(l, op, v).next = l.next + 1
           /\ Define(l, op, v).heads = l.heads /\ Define(l, op, v).temps = l.temps
           /\ Define(l, op, v).owned = l.owned
<1> DEFINE i == [op |-> op, src |-> v, dst |-> l.next]
           m == Define(l, op, v)
           s == Append(l.insts, i)
<1>0. l \in Lowerers /\ l.insts \in Seq(Insts) /\ l.next \in Nat \ {0} /\ Len(l.deferred) \in Nat
  BY GoodTypes
<1>1. i \in Insts /\ i.src = v /\ (Reads(i) => v \in Avail(D, l)) /\ DefinedBy1(i) = {l.next}
  BY <1>0 DEF Insts, Defines, Reads, DefinedBy1, Ops
<1>3. m = [l EXCEPT !.insts = s, !.next = l.next + 1]
  BY DEF Define
<1> HIDE DEF i, m
<1>4. /\ s \in Seq(Insts)
      /\ Sound(D, s)
      /\ Defs(s) = Defs(l.insts) \cup {l.next}
  <2>1. Sound(D, l.insts)
    BY DEF Good
  <2>2. Reads(i) => i.src \in D \cup Defs(l.insts)
    BY <1>1 DEF Avail
  <2>3. /\ Append(l.insts, i) \in Seq(Insts)
        /\ Sound(D, Append(l.insts, i))
        /\ Defs(Append(l.insts, i)) = Defs(l.insts) \cup DefinedBy1(i)
    BY <1>0, <1>1, <2>1, <2>2, SoundAppend
  <2> QED BY <1>1, <2>3
<1> HIDE DEF s
<1>5. /\ m \in Lowerers /\ m.insts = s /\ SameScopes(l, m) /\ m.heads = l.heads /\ m.owned = l.owned
      /\ m.deferred = l.deferred /\ m.next = l.next + 1 /\ m.temps = l.temps
  <2>1. l.next + 1 \in Nat \ {0}
    BY <1>0
  <2> QED BY <1>0, <1>3, <1>4, <2>1 DEF Lowerers, SameScopes
<1>6. Avail(D, m) = Avail(D, l) \cup {l.next} /\ Sound(D, m.insts)
  BY <1>4, <1>5 DEF Avail
<1>7. AvailFrom(D, l, m) /\ Prefix(l.deferred, m.deferred)
  BY <1>0, <1>5, <1>6 DEF Prefix, AvailFrom
<1>8. Goes(D, l, m)
  <2>1. l.next <= m.next /\ \A d \in Avail(D, m) : d \in Avail(D, l) \/ d \in l.next .. m.next - 1
    BY <1>0, <1>5, <1>6
  <2>2. /\ \A t \in DOMAIN m.temps : t \in DOMAIN l.temps /\ m.temps[t] = l.temps[t]
        /\ \A h \in m.heads : h \in l.heads
        /\ \A k \in Len(l.deferred) + 1 .. Len(m.deferred) : FALSE
    BY <1>0, <1>5
  <2> QED BY <1>5, <1>6, <1>7, <2>1, <2>2, GoesIf
<1> QED BY <1>0, <1>5, <1>6, <1>8 DEF m

\* Marks of ownership, a Text in a new tuple's cell, and a tuple that has given its own back.
LEMMA MarkGoes ==
    ASSUME NEW D, NEW l, NEW m, Good(D, l), Goes(D, l, m),
           NEW owned \in SUBSET Nat, NEW heads \in SUBSET Nat,
           NEW temps \in UNION {[S -> Nat] : S \in SUBSET Nat},
           \A h \in heads : h \in m.heads \/ h \in l.next .. m.next - 1,
           \A t \in DOMAIN temps :
              \/ t \in DOMAIN m.temps /\ temps[t] = m.temps[t]
              \/ t \in l.next .. m.next - 1 /\ temps[t] \in Avail(D, m),
           NEW o, o = [m EXCEPT !.owned = owned, !.heads = heads, !.temps = temps]
    PROVE  Goes(D, l, o)
<1>0. m \in Lowerers /\ Good(D, m) /\ l.next \in Nat /\ m.next \in Nat
  <2>1. Good(D, m)
    BY DEF Goes, Moves
  <2> QED BY <2>1, GoodTypes
<1>3. /\ o \in Lowerers /\ o.insts = m.insts /\ o.next = m.next /\ o.deferred = m.deferred
      /\ o.temps = temps /\ o.heads = heads /\ SameScopes(m, o)
  BY <1>0 DEF Lowerers, SameScopes
<1>4. Avail(D, o) = Avail(D, m)
  BY <1>3 DEF Avail
<1>5. TempsIn(o, Avail(D, o)) /\ TempsFrom(l, o)
  <2>1. \A d \in Avail(D, m) : d \in Nat /\ d < m.next
    BY <1>0, GoodTypes
  <2>2. TempsIn(m, Avail(D, m)) /\ TempsFrom(l, m)
    BY <1>0 DEF Good, Goes, Moves
  <2> QED BY <1>0, <1>3, <1>4, <2>1, <2>2 DEF TempsIn, TempsFrom
<1>6. HeadsIn(o) /\ HeadsFrom(l, o)
  BY <1>0, <1>3 DEF Good, HeadsIn, Goes, Moves, HeadsFrom
<1>7. SameScopes(l, o) /\ Prefix(l.deferred, o.deferred) /\ AvailFrom(D, l, o) /\ BorrowersFrom(l, o)
  BY <1>3, <1>4 DEF Goes, SameScopes, Moves, AvailFrom, BorrowersFrom
<1>8. BorrowersIn(o)
  <2> SUFFICES ASSUME NEW k \in 1 .. Len(m.deferred) PROVE Borrows(o, m.deferred[k].flat)
    BY <1>3 DEF BorrowersIn
  <2> DEFINE f == m.deferred[k].flat
  <2>1. Borrows(m, f)
    BY <1>0 DEF Good, BorrowersIn
  <2>2. f = ExtractSource \/ f < l.next
    <3>1. CASE k <= Len(l.deferred)
      <4>1. k \in 1 .. Len(l.deferred)
        BY <3>1, GoodTypes
      <4>2. Borrows(l, l.deferred[k].flat) /\ m.deferred[k] = l.deferred[k]
        BY <4>1 DEF Goes, Prefix, Good, BorrowersIn
      <4> QED BY <4>2 DEF Borrows
    <3> QED BY <3>1 DEF Goes
  <2>3. f \notin l.next .. m.next - 1
    BY <2>2, <1>0 DEF ExtractSource
  <2> HIDE DEF f
  <2>4. f \notin o.heads /\ f \notin DOMAIN o.temps
    BY <1>3, <2>1, <2>3 DEF Borrows
  <2> QED BY <1>3, <2>1, <2>4 DEF Borrows, SameScopes, f
<1>9. Good(D, o)
  BY <1>0, <1>3, <1>4, <1>5, <1>6, <1>8 DEF Good, Numbered, DeferredIn, LocalsIn, SameScopes
<1> QED BY <1>3, <1>5, <1>6, <1>7, <1>9 DEF Goes, Moves

LEMMA GoesGood ==
    ASSUME NEW D, NEW l, NEW m, Goes(D, l, m)
    PROVE  Good(D, m) /\ Avail(D, l) \subseteq Avail(D, m) /\ l.next <= m.next
BY DEF Goes, Moves, AvailFrom

LEMMA OwnGoes ==
    ASSUME NEW D, NEW l, NEW m, Good(D, l), Goes(D, l, m), NEW v \in Nat
    PROVE  Goes(D, l, MarkOwned(m, v))
<1>1. m \in Lowerers /\ m.owned \cup {v} \in SUBSET Nat
  BY GoesGood, GoodTypes
<1>2. MarkOwned(m, v) = [m EXCEPT !.owned = m.owned \cup {v}, !.heads = m.heads, !.temps = m.temps]
  BY <1>1 DEF MarkOwned, Lowerers
<1>3. m.heads \in SUBSET Nat /\ m.temps \in UNION {[S -> Nat] : S \in SUBSET Nat}
  BY <1>1 DEF Lowerers
<1> QED BY <1>1, <1>2, <1>3, MarkGoes

LEMMA HeadGoes ==
    ASSUME NEW D, NEW l, NEW m, Good(D, l), Goes(D, l, m),
           NEW heads \in SUBSET Nat, \A h \in heads : h \in m.heads \/ h \in l.next .. m.next - 1
    PROVE  Goes(D, l, [m EXCEPT !.heads = heads])
<1>1. m \in Lowerers
  BY GoesGood, GoodTypes
<1>2. [m EXCEPT !.heads = heads] = [m EXCEPT !.owned = m.owned, !.heads = heads, !.temps = m.temps]
  BY <1>1 DEF Lowerers
<1>3. m.owned \in SUBSET Nat /\ m.temps \in UNION {[S -> Nat] : S \in SUBSET Nat}
  BY <1>1 DEF Lowerers
<1> QED BY <1>1, <1>2, <1>3, MarkGoes

LEMMA TempGoes ==
    ASSUME NEW D, NEW l, NEW m, Good(D, l), Goes(D, l, m),
           NEW v \in l.next .. m.next - 1, NEW w \in Avail(D, m)
    PROVE  Goes(D, l, [m EXCEPT !.temps = Put(@, v, w)])
<1> DEFINE f == Put(m.temps, v, w)
<1>1. m \in Lowerers /\ v \in Nat /\ w \in Nat
  <2>1. l.next \in Nat /\ m.next \in Nat
    BY GoesGood, GoodTypes
  <2> QED BY <2>1, GoesGood, GoodTypes
<1>2. /\ DOMAIN f = DOMAIN m.temps \cup {v}
      /\ \A t \in DOMAIN f : f[t] = IF t = v THEN w ELSE m.temps[t]
  BY DEF Put
<1>3. f \in UNION {[S -> Nat] : S \in SUBSET Nat}
  <2>1. \A t \in DOMAIN m.temps : t \in Nat /\ m.temps[t] \in Nat
    BY GoesGood, GoodTypes
  <2>2. f \in [DOMAIN m.temps \cup {v} -> Nat]
    BY <1>1, <2>1 DEF Put
  <2>3. DOMAIN m.temps \cup {v} \in SUBSET Nat
    BY <1>1, <2>1
  <2> QED BY <2>2, <2>3
<1> HIDE DEF f
<1> DEFINE o == [m EXCEPT !.temps = f]
<1>4. o = [m EXCEPT !.owned = m.owned, !.heads = m.heads, !.temps = f]
  BY <1>1 DEF Lowerers
<1>5. m.owned \in SUBSET Nat /\ m.heads \in SUBSET Nat
  BY <1>1 DEF Lowerers
<1> HIDE DEF o
<1>6. \A t \in DOMAIN f : \/ t \in DOMAIN m.temps /\ f[t] = m.temps[t]
                          \/ t \in l.next .. m.next - 1 /\ f[t] \in Avail(D, m)
  BY <1>2
<1>7. \A h \in m.heads : h \in m.heads \/ h \in l.next .. m.next - 1
  OBVIOUS
<1>8. Goes(D, l, o)
  BY <1>3, <1>4, <1>5, <1>6, <1>7, MarkGoes
<1> QED BY <1>8 DEF f, o

LEMMA UntempGoes ==
    ASSUME NEW D, NEW l, NEW m, Good(D, l), Goes(D, l, m), NEW v
    PROVE  Goes(D, l, [m EXCEPT !.temps = Restrict(@, DOMAIN @ \ {v})])
<1> DEFINE f == Restrict(m.temps, DOMAIN m.temps \ {v})
<1>1. m \in Lowerers
  BY GoesGood, GoodTypes
<1>2. DOMAIN f = DOMAIN m.temps \ {v} /\ \A t \in DOMAIN f : f[t] = m.temps[t]
  BY DEF Restrict
<1>3. f \in UNION {[S -> Nat] : S \in SUBSET Nat}
  <2>1. \A t \in DOMAIN m.temps : t \in Nat /\ m.temps[t] \in Nat
    BY GoesGood, GoodTypes
  <2>2. f \in [DOMAIN m.temps \ {v} -> Nat]
    BY <2>1 DEF Restrict
  <2>3. DOMAIN m.temps \ {v} \in SUBSET Nat
    BY <2>1
  <2> QED BY <2>2, <2>3
<1> HIDE DEF f
<1> DEFINE o == [m EXCEPT !.temps = f]
<1>4. o = [m EXCEPT !.owned = m.owned, !.heads = m.heads, !.temps = f]
  BY <1>1 DEF Lowerers
<1>5. m.owned \in SUBSET Nat /\ m.heads \in SUBSET Nat
  BY <1>1 DEF Lowerers
<1> HIDE DEF o
<1>6. Goes(D, l, o)
  BY <1>2, <1>3, <1>4, <1>5, MarkGoes
<1> QED BY <1>6 DEF f, o

LEMMA DeferGoes ==
    ASSUME NEW D, NEW l, Good(D, l), NEW v \in Avail(D, l)
    PROVE  Goes(D, l, Defer(l, v, ExtractSource))
<1> DEFINE d == [src |-> v, flat |-> ExtractSource]
           s == Append(l.deferred, d)
           m == Defer(l, v, ExtractSource)
<1>1. l \in Lowerers /\ v \in Nat /\ l.deferred \in Seq(Deferrals) /\ l.next \in Nat
  BY GoodTypes
<1>2. /\ d \in Deferrals /\ d.src = v /\ d.flat = ExtractSource
  BY <1>1 DEF Deferrals
<1>3. m = [l EXCEPT !.deferred = s]
  BY DEF Defer
<1> HIDE DEF d, m
<1>4. /\ s \in Seq(Deferrals) /\ Len(s) = Len(l.deferred) + 1 /\ Len(l.deferred) \in Nat
      /\ s[Len(l.deferred) + 1] = d
      /\ \A k \in 1 .. Len(l.deferred) : s[k] = l.deferred[k]
  BY <1>1, <1>2
<1> HIDE DEF s
<1>5. /\ m \in Lowerers /\ m.insts = l.insts /\ SameScopes(l, m) /\ m.heads = l.heads
      /\ m.deferred = s /\ m.next = l.next /\ m.temps = l.temps
  BY <1>1, <1>3, <1>4 DEF Lowerers, SameScopes
<1>6. Avail(D, m) = Avail(D, l) /\ Sound(D, m.insts)
  BY <1>5 DEF Avail, Good
<1>7. AvailFrom(D, l, m) /\ Prefix(l.deferred, m.deferred)
  BY <1>4, <1>5, <1>6 DEF Prefix, AvailFrom
<1>8. \A k \in Len(l.deferred) + 1 .. Len(m.deferred) :
          m.deferred[k].src \in Avail(D, m) /\ m.deferred[k].flat = ExtractSource
  BY <1>2, <1>4, <1>5, <1>6
<1>9. Goes(D, l, m)
  BY <1>1, <1>5, <1>6, <1>7, <1>8, GoesIf
<1> QED BY <1>9 DEF m

\* m goes on from l and defers nothing.
Emits(D, l, m) == Goes(D, l, m) /\ m.deferred = l.deferred

LEMMA EmitsOn ==
    ASSUME NEW D, NEW l, NEW m, NEW o, l \in Lowerers, Emits(D, l, m), Emits(D, m, o)
    PROVE  Emits(D, l, o)
BY GoesOn DEF Emits

LEMMA EmitsSame ==
    ASSUME NEW D, NEW l, Good(D, l)
    PROVE  Emits(D, l, l)
BY GoesSame DEF Emits

LEMMA EmitsGood ==
    ASSUME NEW D, NEW l, NEW m, Emits(D, l, m)
    PROVE  Good(D, m) /\ Avail(D, l) \subseteq Avail(D, m) /\ l.next <= m.next
BY GoesGood DEF Emits

\* A Retain, a Release or a Use of a value that is there.
LEMMA CountEmits ==
    ASSUME NEW D, NEW l, Good(D, l), NEW op \in Ops \ DefiningOps, NEW v \in Avail(D, l)
    PROVE  Emits(D, l, Emit(l, op, v))
<1>1. v \in Int
  BY GoodTypes
<1> QED BY <1>1, EmitGoes DEF Emits

LEMMA CellByHeadingEmits ==
    ASSUME NEW D, NEW l, Good(D, l), NEW v \in Avail(D, l), NEW op \in {"Retain", "Release"}
    PROVE  Emits(D, l, CellByHeading(l, v, op))
<1> DEFINE f == Define(l, "TupleField", v)
<1>0. v \in Int /\ "TupleField" \in DefiningOps /\ op \in Ops \ DefiningOps /\ l \in Lowerers
  BY GoodTypes DEF DefiningOps, Ops
<1>1. Emits(D, l, f) /\ l.next \in Avail(D, f) /\ f.next = l.next + 1 /\ l.next \in Nat
  BY <1>0, DefineGoes DEF Emits
<1> HIDE DEF f
<1>2. f.next - 1 \in Avail(D, f) /\ Good(D, f)
  BY <1>1, EmitsGood
<1>3. Emits(D, f, Emit(f, op, f.next - 1))
  BY <1>0, <1>2, CountEmits
<1> QED BY <1>0, <1>1, <1>3, EmitsOn DEF CellByHeading, f

LEMMA ReleaseEmits ==
    ASSUME NEW D, NEW l, Good(D, l), NEW v \in Avail(D, l), NEW ty
    PROVE  /\ Emits(D, l, Emit(l, "Release", v)) /\ Emits(D, l, Emit(l, "Retain", v))
           /\ Emits(D, l, Emit(l, "Use", v)) /\ Emits(D, l, Emit(l, "RelvarSlotStore", v))
           /\ Emits(D, l, ReleaseTextTemp(l, v))
           /\ Emits(D, l, ReleaseIfUnowned(l, v))
           /\ Emits(D, l, ReleaseCallArgTemp(l, v, ty))
<1>1. {"Release", "Retain", "Use", "RelvarSlotStore"} \subseteq Ops \ DefiningOps
  BY DEF Ops, DefiningOps
<1>2. Emits(D, l, Emit(l, "Release", v)) /\ Emits(D, l, l)
  BY <1>1, CountEmits, EmitsSame
<1> QED BY <1>1, <1>2, CountEmits DEF ReleaseTextTemp, ReleaseIfUnowned, ReleaseCallArgTemp

LEMMA ReleaseFlatCellsEmits ==
    ASSUME NEW D, NEW l, Good(D, l), NEW v \in Avail(D, l)
    PROVE  Emits(D, l, ReleaseFlatCells(l, v))
<1>0. l \in Lowerers /\ Goes(D, l, l)
  BY GoodTypes, GoesSame
<1>1. CASE v \in DOMAIN l.temps
  <2> DEFINE m == [l EXCEPT !.temps = Restrict(@, DOMAIN @ \ {v})]
  <2>1. Goes(D, l, m)
    BY <1>0, UntempGoes
  <2>2. m.deferred = l.deferred
    BY <1>0 DEF Lowerers
  <2> HIDE DEF m
  <2>3. Emits(D, l, m) /\ Good(D, m) /\ Avail(D, l) \subseteq Avail(D, m)
    BY <2>1, <2>2, GoesGood DEF Emits
  <2>4. l.temps[v] \in Avail(D, l)
    BY <1>1 DEF Good, TempsIn
  <2>5. Emits(D, m, ReleaseCallArgTemp(m, l.temps[v], "Text"))
    BY <2>3, <2>4, ReleaseEmits
  <2>6. Emits(D, l, ReleaseCallArgTemp(m, l.temps[v], "Text"))
    BY <1>0, <2>3, <2>5, EmitsOn
  <2> QED BY <1>1, <2>6 DEF ReleaseFlatCells, m
<1>2. CASE v \notin DOMAIN l.temps /\ v \in l.heads
  <2> DEFINE m == [l EXCEPT !.heads = @ \ {v}]
  <2>1. Goes(D, l, m)
    <3>1. l.heads \ {v} \in SUBSET Nat
      BY GoodTypes
    <3> QED BY <1>0, <3>1, HeadGoes
  <2>2. m.deferred = l.deferred
    BY <1>0 DEF Lowerers
  <2> HIDE DEF m
  <2>3. Emits(D, l, m) /\ Good(D, m) /\ Avail(D, l) \subseteq Avail(D, m)
    BY <2>1, <2>2, GoesGood DEF Emits
  <2>5. Emits(D, m, CellByHeading(m, v, "Release"))
    BY <2>3, CellByHeadingEmits
  <2>6. Emits(D, l, CellByHeading(m, v, "Release"))
    BY <1>0, <2>3, <2>5, EmitsOn
  <2> QED BY <1>2, <2>6 DEF ReleaseFlatCells, m
<1>3. CASE v \notin DOMAIN l.temps /\ v \notin l.heads
  BY <1>3, EmitsSame DEF ReleaseFlatCells
<1> QED BY <1>1, <1>2, <1>3

LEMMA ReleaseBindingEmits ==
    ASSUME NEW D, NEW l, Good(D, l), NEW b, b.v \in Avail(D, l)
    PROVE  Emits(D, l, ReleaseBinding(l, b))
<1> DEFINE f == ReleaseFlatCells(l, b.v)
<1>0. l \in Lowerers /\ Emits(D, l, l)
  BY GoodTypes, EmitsSame
<1>1. Emits(D, l, f)
  BY ReleaseFlatCellsEmits
<1> HIDE DEF f
<1>2. Good(D, f) /\ b.v \in Avail(D, f)
  BY <1>1, EmitsGood
<1>3. Emits(D, l, Emit(f, "Release", b.v))
  BY <1>0, <1>1, <1>2, ReleaseEmits, EmitsOn
<1> QED BY <1>0, <1>1, <1>3 DEF ReleaseBinding, f

-----------------------------------------------------------------------------
(* Releases of many values.                                                 *)

LEMMA SetToSeqLists ==
    ASSUME NEW S, IsFiniteSet(S)
    PROVE  /\ SetToSeq(S) \in [1 .. Cardinality(S) -> S] /\ Cardinality(S) \in Nat
           /\ IsInjective(SetToSeq(S))
           /\ SetToSeq(S) \in Seq(S) /\ Len(SetToSeq(S)) = Cardinality(S)
           /\ DOMAIN SetToSeq(S) = 1 .. Cardinality(S)
           /\ \A x \in S : \E i \in 1 .. Cardinality(S) : SetToSeq(S)[i] = x
<1> DEFINE N == Cardinality(S)
<1>1. N \in Nat /\ ExistsBijection(1 .. N, S)
  BY FS_CardinalityType
<1>2. \E f \in [1 .. N -> S] : IsInjective(f)
  <2>1. PICK f : f \in Bijection(1 .. N, S)
    BY <1>1 DEF ExistsBijection
  <2>2. f \in [1 .. N -> S] /\ IsInjective(f)
    BY <2>1 DEF Bijection, Injection, IsInjective
  <2> QED BY <2>2
<1> DEFINE order == SetToSeq(S)
<1>3. order \in [1 .. N -> S] /\ IsInjective(order)
  BY <1>2 DEF SetToSeq
<1> HIDE DEF order
<1>4. order \in Seq(S) /\ Len(order) = N /\ DOMAIN order = 1 .. N
  BY <1>1, <1>3
<1>5. \A x \in S : \E i \in 1 .. N : order[i] = x
  <2>1. IsFiniteSet(1 .. N) /\ Cardinality(1 .. N) = N
    BY <1>1, FS_Interval
  <2>2. order \in Injection(1 .. N, S)
    BY <1>3 DEF Injection, IsInjective
  <2>3. order \in Bijection(1 .. N, S)
    <3>1. Cardinality(1 .. N) = Cardinality(S) => order \in Surjection(1 .. N, S)
      BY <2>2, FS_Injection
    <3> QED BY <2>1, <2>2, <3>1 DEF Bijection
  <2> QED BY <2>3 DEF Bijection, Surjection
<1> QED BY <1>1, <1>3, <1>4, <1>5 DEF order

LEMMA RangeIsFinite ==
    ASSUME NEW f, IsFiniteSet(DOMAIN f), f = [x \in DOMAIN f |-> f[x]]
    PROVE  IsFiniteSet(Range(f))
<1>1. f \in Surjection(DOMAIN f, Range(f))
  BY DEF Surjection, Range
<1> QED BY <1>1, FS_Surjection

LEMMA NamesAreFinite ==
    ASSUME NEW S \in SUBSET Names
    PROVE  IsFiniteSet(S)
BY ConstantsAssumption, FS_Subset

ReleasingStep(p, k, f) == IF k = 0 THEN p.l ELSE ReleaseBinding(f[k - 1], p.s[k])
RReleasing == INSTANCE Recursion WITH Dom <- Nat, Depth <- Count, Step <- ReleasingStep

LEMMA ReleasingDef ==
    ASSUME NEW l, NEW s
    PROVE  /\ Releasing(l, s)[0] = l
           /\ \A k \in Nat : Releasing(l, s)[k + 1] = ReleaseBinding(Releasing(l, s)[k], s[k + 1])
<1> DEFINE p == [l |-> l, s |-> s]
<1>1. RReleasing!Local
  BY DEF RReleasing!Local, ReleasingStep, Count
<1>2. \E f : f = [k \in Nat |-> ReleasingStep(p, k, f)]
  BY <1>1, RReleasing!Defined
<1>3. Releasing(l, s) = [k \in Nat |-> ReleasingStep(p, k, Releasing(l, s))]
  BY <1>2 DEF Releasing, ReleasingStep
<1>4. \A k \in Nat : Releasing(l, s)[k] = ReleasingStep(p, k, Releasing(l, s))
  BY <1>3
<1>5. Releasing(l, s)[0] = l
  BY <1>4 DEF ReleasingStep
<1>6. ASSUME NEW k \in Nat
      PROVE  Releasing(l, s)[k + 1] = ReleaseBinding(Releasing(l, s)[k], s[k + 1])
  <2>1. k + 1 \in Nat /\ k + 1 # 0 /\ k + 1 - 1 = k
    OBVIOUS
  <2> QED BY <1>4, <2>1 DEF ReleasingStep
<1> QED BY <1>5, <1>6

LEMMA ReleaseBindingsEmits ==
    ASSUME NEW D, NEW l, Good(D, l), NEW s, Len(s) \in Nat,
           \A k \in 1 .. Len(s) : s[k].v \in Avail(D, l)
    PROVE  Emits(D, l, ReleaseBindings(l, s))
<1> DEFINE f == Releasing(l, s)
           S == {k \in Nat : k <= Len(s) => Emits(D, l, f[k])}
<1>0. f[0] = l /\ \A k \in Nat : f[k + 1] = ReleaseBinding(f[k], s[k + 1])
  BY ReleasingDef
<1> HIDE DEF f
<1>1. 0 \in S
  BY <1>0, EmitsSame
<1>2. ASSUME NEW k \in Nat, k \in S PROVE k + 1 \in S
  <2> SUFFICES ASSUME k + 1 <= Len(s) PROVE Emits(D, l, f[k + 1])
    OBVIOUS
  <2>1. Emits(D, l, f[k])
    BY <1>2
  <2>2. Good(D, f[k]) /\ s[k + 1].v \in Avail(D, f[k])
    <3>1. Good(D, f[k]) /\ Avail(D, l) \subseteq Avail(D, f[k])
      BY <2>1, EmitsGood
    <3> QED BY <3>1
  <2>3. Emits(D, f[k], f[k + 1])
    BY <1>0, <2>2, ReleaseBindingEmits
  <2> QED BY <2>1, <2>3, EmitsOn, GoodTypes
<1>3. \A k \in Nat : k \in S
  <2> HIDE DEF S
  <2> QED BY <1>1, <1>2, CountInduction
<1>4. Emits(D, l, f[Len(s)])
  BY <1>3
<1> QED BY <1>4 DEF ReleaseBindings, f

LEMMA LayerTypes ==
    ASSUME NEW D, NEW l, Good(D, l), NEW k \in 1 .. Len(l.locals)
    PROVE  /\ l.locals \in Seq(Layers) /\ Len(l.locals) \in Nat /\ DOMAIN l.locals = 1 .. Len(l.locals)
           /\ l.locals[k] \in Layers /\ DOMAIN l.locals[k] \in SUBSET Names
           /\ l.locals[k] \in [DOMAIN l.locals[k] -> Bnds]
           /\ \A n \in DOMAIN l.locals[k] : /\ l.locals[k][n] \in Bnds
                                            /\ l.locals[k][n].v \in Avail(D, l)
                                            /\ l.locals[k][n].ty \in Flows
<1>1. l.locals \in Seq(Layers) /\ LocalsIn(l, Avail(D, l))
  BY DEF Good, Lowerers
<1>2. l.locals[k] \in Layers
  BY <1>1
<1>3. PICK S \in SUBSET Names : l.locals[k] \in [S -> Bnds]
  BY <1>2 DEF Layers
<1>4. \A n \in DOMAIN l.locals[k] : l.locals[k][n] \in Bnds /\ l.locals[k][n].ty \in Flows
  BY <1>3 DEF Bnds
<1> QED BY <1>1, <1>2, <1>3, <1>4 DEF LocalsIn

LEMMA ReleaseTopScopeEmits ==
    ASSUME NEW D, NEW l, Good(D, l), Len(l.locals) > 0
    PROVE  Emits(D, l, ReleaseTopScope(l))
<1> DEFINE names == SetToSeq(DOMAIN Top(l))
           s == [i \in DOMAIN names |-> Top(l)[names[i]]]
<1>1. Len(l.locals) \in 1 .. Len(l.locals)
  <2>1. Len(l.locals) \in Nat
    BY GoodTypes DEF Lowerers
  <2> QED BY <2>1
<1>2. /\ DOMAIN Top(l) \in SUBSET Names
      /\ \A n \in DOMAIN Top(l) : Top(l)[n].v \in Avail(D, l)
  BY <1>1, LayerTypes DEF Top
<1>3. /\ names \in [1 .. Cardinality(DOMAIN Top(l)) -> DOMAIN Top(l)]
      /\ Cardinality(DOMAIN Top(l)) \in Nat
  <2>1. IsFiniteSet(DOMAIN Top(l))
    BY <1>2, NamesAreFinite
  <2> QED BY <2>1, SetToSeqLists
<1> HIDE DEF names
<1>4. Len(s) \in Nat /\ \A k \in 1 .. Len(s) : s[k].v \in Avail(D, l)
  <2>1. Len(s) = Cardinality(DOMAIN Top(l))
    BY <1>3
  <2> QED BY <1>2, <1>3, <2>1
<1> HIDE DEF s
<1>5. Emits(D, l, ReleaseBindings(l, s))
  BY <1>4, ReleaseBindingsEmits
<1> QED BY <1>5 DEF ReleaseTopScope, s, names

LEMMA ReleaseAllScopesEmits ==
    ASSUME NEW D, NEW l, Good(D, l)
    PROVE  Emits(D, l, ReleaseAllScopes(l))
<1> DEFINE ranges == [i \in DOMAIN l.locals |-> Range(l.locals[i])]
           B == UNION {Range(l.locals[i]) : i \in DOMAIN l.locals}
<1>1. Len(l.locals) \in Nat /\ DOMAIN l.locals = 1 .. Len(l.locals)
  BY GoodTypes DEF Lowerers
<1>2. \A b \in B : b.v \in Avail(D, l)
  BY <1>1, LayerTypes DEF Range
<1>3. IsFiniteSet(B)
  <2>1. Range(ranges) = {Range(l.locals[i]) : i \in DOMAIN l.locals}
    BY DEF Range
  <2>2. IsFiniteSet(Range(ranges))
    <3>1. IsFiniteSet(DOMAIN ranges)
      BY <1>1, FS_Interval
    <3>2. ranges = [i \in DOMAIN ranges |-> ranges[i]]
      OBVIOUS
    <3> HIDE DEF ranges
    <3> QED BY <3>1, <3>2, RangeIsFinite
  <2>3. ASSUME NEW i \in DOMAIN l.locals PROVE IsFiniteSet(Range(l.locals[i]))
    <3>1. DOMAIN l.locals[i] \in SUBSET Names /\ l.locals[i] \in [DOMAIN l.locals[i] -> Bnds]
      BY <1>1, LayerTypes
    <3>2. IsFiniteSet(DOMAIN l.locals[i])
      BY <3>1, NamesAreFinite
    <3>3. l.locals[i] = [n \in DOMAIN l.locals[i] |-> l.locals[i][n]]
      BY <3>1
    <3> QED BY <3>2, <3>3, RangeIsFinite
  <2>4. \A T \in Range(ranges) : IsFiniteSet(T)
    BY <2>1, <2>3
  <2> HIDE DEF ranges
  <2>5. IsFiniteSet(UNION Range(ranges))
    BY <2>2, <2>4, FS_UNION
  <2> QED BY <2>1, <2>5
<1> HIDE DEF B
<1> DEFINE s == SetToSeq(B)
<1>4. Len(s) \in Nat /\ \A k \in 1 .. Len(s) : s[k].v \in Avail(D, l)
  <2>1. s \in [1 .. Cardinality(B) -> B] /\ Cardinality(B) \in Nat /\ Len(s) = Cardinality(B)
    BY <1>3, SetToSeqLists
  <2> HIDE DEF s
  <2> QED BY <1>2, <2>1
<1> HIDE DEF s
<1>5. Emits(D, l, ReleaseBindings(l, s))
  BY <1>4, ReleaseBindingsEmits
<1> QED BY <1>5 DEF ReleaseAllScopes, s, B

\* Instructions that define nothing and find what they read.
LEMMA AppendEmits ==
    ASSUME NEW D, NEW l, Good(D, l), NEW t \in Seq(Insts), Known(Avail(D, l), t), Defs(t) = {}
    PROVE  Emits(D, l, [l EXCEPT !.insts = @ \o t])
<1> DEFINE s == l.insts \o t
           m == [l EXCEPT !.insts = s]
<1>2. l \in Lowerers /\ l.insts \in Seq(Insts) /\ l.next \in Nat /\ Len(l.deferred) \in Nat
  BY GoodTypes
<1> HIDE DEF m
<1>4. s \in Seq(Insts) /\ Sound(D, s) /\ Defs(s) = Defs(l.insts)
  <2> HIDE DEF s
  <2>1. Sound(D, l.insts) /\ Sound(D \cup Defs(l.insts), t)
    BY KnownSound DEF Good, Avail
  <2>2. Follows(D, l.insts, t, s)
    BY <1>2, <2>1 DEF Follows, s
  <2>3. s \in Seq(Insts)
    BY <2>2, FollowsSound
  <2>4. Sound(D, s)
    BY <2>2, FollowsSound
  <2>5. Defs(s) = Defs(l.insts) \cup Defs(t)
    BY ONLY <2>2, FollowsSound
  <2> QED BY <2>3, <2>4, <2>5
<1> USE DEF m
<1> HIDE DEF s
<1>5. /\ m \in Lowerers /\ m.insts = s /\ SameScopes(l, m) /\ m.heads = l.heads
      /\ m.deferred = l.deferred /\ m.next = l.next /\ m.temps = l.temps
  BY <1>2, <1>4 DEF Lowerers, SameScopes
<1> HIDE DEF m
<1>6. Avail(D, m) = Avail(D, l) /\ Sound(D, m.insts)
  BY <1>4, <1>5 DEF Avail
<1>7. AvailFrom(D, l, m) /\ Prefix(l.deferred, m.deferred)
  BY <1>2, <1>5, <1>6 DEF Prefix, AvailFrom
<1>8. Goes(D, l, m)
  BY <1>2, <1>5, <1>6, <1>7, GoesIf
<1> QED BY <1>5, <1>8 DEF Emits, m, s

LEMMA ReleaseAllEmits ==
    ASSUME NEW D, NEW l, Good(D, l), NEW srcs \in Seq(Nat),
           \A k \in 1 .. Len(srcs) : srcs[k] \in Avail(D, l)
    PROVE  Emits(D, l, EmitAll(l, "Release", srcs))
<1> DEFINE t == [i \in DOMAIN srcs |-> [op |-> "Release", src |-> srcs[i]]]
<1>1. /\ t \in Seq(Insts) /\ Len(t) = Len(srcs) /\ Len(t) \in Nat
      /\ \A k \in 1 .. Len(t) : t[k].op = "Release" /\ t[k].src = srcs[k]
  <2>1. \A k \in 1 .. Len(srcs) : [op |-> "Release", src |-> srcs[k]] \in Insts
    BY DEF Insts, Ops
  <2>2. t \in [1 .. Len(srcs) -> Insts] /\ Len(srcs) \in Nat
    BY <2>1
  <2> QED BY <2>2
<1> HIDE DEF t
<1>2. Known(Avail(D, l), t) /\ Defs(t) = {}
  BY <1>1 DEF Known, Defs, DefinedBy, Defines, DefiningOps
<1>3. Emits(D, l, [l EXCEPT !.insts = @ \o t])
  BY <1>1, <1>2, AppendEmits
<1> QED BY <1>3 DEF EmitAll, t

LEMMA SourcesTypes ==
    ASSUME NEW d \in Seq(Deferrals)
    PROVE  /\ Sources(d) \in Seq(Nat) /\ Len(Sources(d)) = Len(d)
           /\ \A k \in 1 .. Len(d) : Sources(d)[k] = d[k].src
<1>1. \A k \in 1 .. Len(d) : d[k] \in Deferrals /\ d[k].src \in Nat
  <2>1. \A x \in Deferrals : x.src \in Nat
    BY DEF Deferrals
  <2> QED BY <2>1
<1>2. Sources(d) \in [1 .. Len(d) -> Nat] /\ Len(d) \in Nat
  BY <1>1 DEF Sources
<1> QED BY <1>2 DEF Sources

\* A value that escapes a scope, and the box a returned tuple crosses the call in.
LEMMA RetainEmits ==
    ASSUME NEW D, NEW l, Good(D, l), NEW v, v \in Avail(D, l) \/ v = NoValue, NEW ty
    PROVE  Emits(D, l, RetainIfEscapingLocal(l, v, ty))
<1> DEFINE bound == v \in l.borrowed \cup BoundValues(l)
           r == IF bound /\ NeedsScopeRelease(l, v, ty) THEN Emit(l, "Retain", v) ELSE l
<1>0. l \in Lowerers /\ Emits(D, l, l)
  BY GoodTypes, EmitsSame
<1>1. bound => v \in Nat
  <2>1. l.borrowed \in SUBSET Nat
    BY <1>0 DEF Lowerers
  <2>2. \A b \in BoundValues(l) : b \in Nat
    <3>1. DOMAIN l.locals = 1 .. Len(l.locals)
      BY <1>0 DEF Lowerers
    <3>2. \A i \in 1 .. Len(l.locals) : \A n \in DOMAIN l.locals[i] : l.locals[i][n].v \in Nat
      BY LayerTypes DEF Bnds
    <3> QED BY <3>1, <3>2 DEF BoundValues
  <2> QED BY <2>1, <2>2
<1>2. bound => v \in Avail(D, l)
  BY <1>1 DEF NoValue
<1> HIDE DEF bound
<1>3. Emits(D, l, r)
  BY <1>0, <1>2, ReleaseEmits
<1> HIDE DEF r
<1>4. ASSUME bound PROVE Emits(D, l, CellByHeading(r, v, "Retain"))
  <2>1. Good(D, r) /\ v \in Avail(D, r)
    BY <1>2, <1>3, <1>4, EmitsGood
  <2> QED BY <1>0, <1>3, <2>1, CellByHeadingEmits, EmitsOn
<1>5. RetainIfEscapingLocal(l, v, ty) = IF bound /\ v \in l.heads THEN CellByHeading(r, v, "Retain") ELSE r
  BY DEF RetainIfEscapingLocal, bound, r
<1> QED BY <1>3, <1>4, <1>5

LEMMA BoxEmits ==
    ASSUME NEW D, NEW l, Good(D, l), NEW v, v \in Avail(D, l) \/ v = NoValue,
           NEW ty, ty = "Flat" => v # NoValue
    PROVE  LET b == BoxReturnValue(l, v, ty)
           IN  Emits(D, l, b.l) /\ (b.v \in Avail(D, b.l) \/ (b.v = NoValue /\ v = NoValue))
<1>0. l \in Lowerers /\ Emits(D, l, l)
  BY GoodTypes, EmitsSame
<1>1. CASE ty # "Flat"
  <2>1. BoxReturnValue(l, v, ty) = [l |-> l, v |-> v, ty |-> ty]
    BY <1>1 DEF BoxReturnValue
  <2> QED BY <1>0, <2>1
<1>2. CASE ty = "Flat"
  <2> DEFINE d == Define(l, "TupleBox", v)
             r == ReleaseFlatCells(d, v)
  <2>1. v \in Avail(D, l) /\ v \in Int
    BY <1>2, GoodTypes
  <2>2. Emits(D, l, d) /\ l.next \in Avail(D, d) /\ d.next = l.next + 1 /\ l.next \in Nat
    <3>1. "TupleBox" \in DefiningOps
      BY DEF DefiningOps
    <3> QED BY <2>1, <3>1, DefineGoes DEF Emits
  <2> HIDE DEF d
  <2>3. Good(D, d) /\ v \in Avail(D, d)
    BY <2>1, <2>2, EmitsGood
  <2>4. Emits(D, d, r)
    BY <2>3, ReleaseFlatCellsEmits
  <2> HIDE DEF r
  <2>5. Emits(D, l, r) /\ d.next - 1 \in Avail(D, r)
    BY <1>0, <2>2, <2>4, EmitsOn, EmitsGood
  <2>6. BoxReturnValue(l, v, ty) = [l |-> r, v |-> d.next - 1, ty |-> "Box"]
    BY <1>2 DEF BoxReturnValue, d, r
  <2> QED BY <2>5, <2>6
<1> QED BY <1>1, <1>2

-----------------------------------------------------------------------------
(* Expressions.                                                             *)

Operators == {"concat", "field", "tuple", "rel", "where", "extract"}
LeafOf(l, e) == e.op \in {"lit", "read"} \/ (e.op = "name" /\ IsLocal(l, e.name))
OperandOf(l, e) == LeafOf(l, e) \/ (e.op \in Operators /\ LeafOf(l, e.of))
Written(l, e) == LeafOf(l, e) \/ (e.op \in Operators /\ OperandOf(l, e.of))

\* o is a value that l's instructions left.
Result(D, o) == Good(D, o.l) /\ o.v \in Avail(D, o.l)

\* Applied to o, an operator defines a value.
Applies(D, o, r) ==
    /\ Goes(D, o.l, r.l)
    /\ r.v \in Avail(D, r.l) /\ o.l.next <= r.v /\ r.v < r.l.next
    /\ r.ty \in Flows

LEMMA FreshGoes ==
    ASSUME NEW D, NEW l, Good(D, l), NEW op \in DefiningOps, NEW v \in Avail(D, l)
    PROVE  LET d == Define(l, op, v)
           IN  /\ Good(D, d) /\ Emits(D, l, d) /\ l.next \in Avail(D, d) /\ v \in Avail(D, d)
               /\ l.next \in Nat /\ d.next = l.next + 1 /\ l \in Lowerers
<1>1. v \in Int /\ l \in Lowerers
  BY GoodTypes
<1> DEFINE d == Define(l, op, v)
<1>2. Emits(D, l, d) /\ l.next \in Avail(D, d) /\ l.next \in Nat /\ d.next = l.next + 1
  BY <1>1, DefineGoes DEF Emits
<1> HIDE DEF d
<1>3. Good(D, d) /\ v \in Avail(D, d)
  BY <1>2, EmitsGood
<1> QED BY <1>1, <1>2, <1>3 DEF d

LEMMA LowerTupleApplies ==
    ASSUME NEW D, NEW o, Result(D, o), NEW isName \in BOOLEAN
    PROVE  /\ Applies(D, o, LowerTuple(o, isName)) /\ LowerTuple(o, isName).ty = "Flat"
           /\ LowerTuple(o, isName).l.deferred = o.l.deferred
<1> DEFINE d == Define(o.l, "TupleLit", o.v)
           v == o.l.next
           r == LowerTuple(o, isName)
<1> SUFFICES Applies(D, o, r) /\ r.ty = "Flat" /\ r.l.deferred = o.l.deferred
  OBVIOUS
<1>0. Good(D, o.l) /\ o.v \in Avail(D, o.l) /\ "TupleLit" \in DefiningOps
  BY DEF Result, DefiningOps
<1>1. /\ Good(D, d) /\ Emits(D, o.l, d) /\ v \in Avail(D, d) /\ o.v \in Avail(D, d)
      /\ v \in Nat /\ d.next = v + 1 /\ o.l \in Lowerers
  BY <1>0, FreshGoes
<1> HIDE DEF d
<1>2. CASE isName
  <2> DEFINE m == Emit(d, "Retain", o.v)
             n == [m EXCEPT !.heads = @ \cup {v}]
  <2>1. Emits(D, d, m) /\ Goes(D, o.l, m) /\ m.deferred = o.l.deferred /\ m.next = v + 1
    <3>1. Emits(D, d, m)
      BY <1>1, ReleaseEmits
    <3>2. m.next = d.next
      <4>1. d \in Lowerers
        BY <1>1, GoodTypes
      <4> QED BY <4>1 DEF Emit, Lowerers
    <3> HIDE DEF m
    <3> QED BY <1>1, <3>1, <3>2, EmitsOn DEF Emits
  <2>2. r = [l |-> n, v |-> v, ty |-> "Flat"]
    BY <1>2 DEF LowerTuple, d
  <2>3. m \in Lowerers /\ v \in Avail(D, m) /\ m.heads \in SUBSET Nat
    BY <2>1, <1>1, EmitsGood, GoodTypes
  <2> HIDE DEF m
  <2>4. Goes(D, o.l, [m EXCEPT !.heads = m.heads \cup {v}])
    <3>1. m.heads \cup {v} \in SUBSET Nat
      BY <1>1, <2>3
    <3>2. \A h \in m.heads \cup {v} : h \in m.heads \/ h \in o.l.next .. m.next - 1
      BY <1>1, <2>1
    <3> QED BY <1>0, <2>1, <3>1, <3>2, HeadGoes
  <2>5. n.deferred = m.deferred /\ n.next = m.next /\ n.insts = m.insts
    BY <2>3 DEF Lowerers
  <2>6. v \in Avail(D, n) /\ v < n.next
    BY <2>1, <2>3, <2>5, <1>1 DEF Avail
  <2> HIDE DEF r, n
  <2>7. Goes(D, o.l, n)
    BY <2>4 DEF n
  <2> QED BY <1>1, <2>1, <2>2, <2>5, <2>6, <2>7 DEF Applies, Flows
<1>3. CASE ~isName
  <2> DEFINE n == [d EXCEPT !.temps = Put(@, v, o.v)]
  <2>2. r = [l |-> n, v |-> v, ty |-> "Flat"]
    BY <1>3 DEF LowerTuple, d
  <2>3. d \in Lowerers /\ Goes(D, o.l, d) /\ d.deferred = o.l.deferred
    BY <1>1, GoodTypes DEF Emits
  <2>4. Goes(D, o.l, n)
    <3>1. v \in o.l.next .. d.next - 1
      BY <1>1
    <3> QED BY <1>0, <1>1, <2>3, <3>1, TempGoes
  <2>5. n.deferred = d.deferred /\ n.next = d.next /\ n.insts = d.insts
    BY <2>3 DEF Lowerers
  <2>6. v \in Avail(D, n) /\ v < n.next
    BY <2>5, <1>1 DEF Avail
  <2> HIDE DEF r, n
  <2> QED BY <1>1, <2>2, <2>3, <2>4, <2>5, <2>6 DEF Applies, Flows
<1> QED BY <1>2, <1>3

\* From the definition of its value on, an operator's lowering emits.
LEMMA AppliesIf ==
    ASSUME NEW D, NEW o, Result(D, o), NEW d, Goes(D, o.l, d), o.l.next \in Avail(D, d),
           NEW r, r.v = o.l.next, r.ty \in Flows, Goes(D, d, r.l)
    PROVE  Applies(D, o, r)
<1>1. o.l \in Lowerers
  BY GoodTypes DEF Result
<1>2. Goes(D, o.l, r.l) /\ o.l.next \in Nat
  BY <1>1, GoesOn, GoodTypes DEF Result
<1>3. r.v \in Avail(D, r.l)
  BY GoesGood
<1>4. r.v < r.l.next
  BY <1>2, <1>3, GoesGood, GoodTypes
<1> QED BY <1>2, <1>3, <1>4 DEF Applies

LEMMA AppliesOn ==
    ASSUME NEW D, NEW o, Result(D, o), NEW p, NEW r, Applies(D, o, p), Applies(D, p, r)
    PROVE  Applies(D, o, r)
<1>1. o.l \in Lowerers /\ o.l.next \in Nat
  BY GoodTypes DEF Result
<1>2. p.l.next \in Nat /\ r.v \in Nat
  BY GoesGood, GoodTypes DEF Applies
<1>3. o.l.next <= p.l.next
  BY GoesGood DEF Applies
<1> QED BY <1>1, <1>2, <1>3, GoesOn DEF Applies

LEMMA AppliedApplies ==
    ASSUME NEW D, NEW o, Result(D, o), NEW e, e.op \in Operators
    PROVE  /\ Applies(D, o, Applied(o, e))
           /\ e.op # "extract" => Applied(o, e).l.deferred = o.l.deferred
<1> DEFINE v == o.l.next
           r == Applied(o, e)
<1> SUFFICES /\ Applies(D, o, r)
             /\ e.op # "extract" => r.l.deferred = o.l.deferred
  OBVIOUS
<1>0. Good(D, o.l) /\ o.v \in Avail(D, o.l) /\ o.l \in Lowerers /\ v \in Nat
  BY GoodTypes DEF Result
<1>1. CASE e.op = "concat"
  <2> DEFINE c == Define(o.l, "Concat", o.v)
             d == MarkOwned(c, v)
  <2>1. Good(D, c) /\ Emits(D, o.l, c) /\ v \in Avail(D, c) /\ o.v \in Avail(D, c)
    BY <1>0, FreshGoes DEF DefiningOps
  <2>2. Emits(D, o.l, d) /\ v \in Avail(D, d) /\ o.v \in Avail(D, d)
    <3> HIDE DEF c
    <3>1. c \in Lowerers /\ Goes(D, o.l, d)
      BY <1>0, <2>1, OwnGoes, GoodTypes DEF Emits
    <3>2. d.deferred = c.deferred /\ d.insts = c.insts
      BY <3>1 DEF MarkOwned, Lowerers
    <3> QED BY <2>1, <3>1, <3>2 DEF Emits, Avail
  <2>3. r = [l |-> ReleaseTextTemp(d, o.v), v |-> v, ty |-> "Text"]
    BY <1>1 DEF Applied, LowerConcat
  <2> HIDE DEF d, r
  <2>4. Emits(D, d, ReleaseTextTemp(d, o.v))
    BY <2>2, EmitsGood, ReleaseEmits
  <2> QED BY <2>2, <2>3, <2>4, AppliesIf DEF Emits, Flows
<1>2. CASE e.op = "field"
  <2> DEFINE c == Define(o.l, "TupleField", o.v)
             d == Emit(c, "Retain", v)
             m == MarkOwned(d, v)
  <2>1. Good(D, c) /\ Emits(D, o.l, c) /\ v \in Avail(D, c)
    BY <1>0, FreshGoes DEF DefiningOps
  <2>2. Emits(D, c, d)
    BY <2>1, ReleaseEmits
  <2>3. r = [l |-> m, v |-> v, ty |-> "Text"]
    BY <1>2 DEF Applied, LowerFieldAccess
  <2> HIDE DEF d, c, r
  <2>4. Good(D, d)
    BY <2>2, EmitsGood
  <2>5. Goes(D, d, m) /\ m.deferred = d.deferred
    <3>1. Goes(D, d, m)
      BY <1>0, <2>4, GoesSame, OwnGoes
    <3>2. d \in Lowerers
      BY <2>4, GoodTypes
    <3> QED BY <3>1, <3>2 DEF MarkOwned, Lowerers
  <2> HIDE DEF m
  <2>6. Goes(D, c, m)
    BY <2>1, <2>2, <2>5, GoesOn, GoodTypes DEF Emits
  <2> QED BY <2>1, <2>2, <2>3, <2>5, <2>6, AppliesIf DEF Emits, Flows
<1>3. CASE e.op = "tuple"
  <2>1. r = LowerTuple(o, e.of.op = "name")
    BY <1>3 DEF Applied
  <2> HIDE DEF r
  <2> QED BY <2>1, LowerTupleApplies
<1>4. CASE e.op = "rel"
  <2> DEFINE t == LowerTuple(o, e.of.op = "name")
             d == Define(t.l, "RelationLit", t.v)
  <2>1. Applies(D, o, t) /\ t.l.deferred = o.l.deferred
    BY LowerTupleApplies
  <2>3. r = [l |-> ReleaseFlatCells(d, t.v), v |-> t.l.next, ty |-> "Rel"]
    BY <1>4 DEF Applied, LowerRelationLit
  <2> HIDE DEF t
  <2>4. Good(D, t.l) /\ t.v \in Avail(D, t.l) /\ Goes(D, o.l, t.l)
    BY <2>1, GoesGood DEF Applies
  <2>5. Good(D, d) /\ Emits(D, t.l, d) /\ t.l.next \in Avail(D, d) /\ t.v \in Avail(D, d)
    BY <2>4, FreshGoes DEF DefiningOps
  <2> HIDE DEF d, r
  <2>6. Emits(D, d, ReleaseFlatCells(d, t.v))
    BY <2>5, ReleaseFlatCellsEmits
  <2>7. Result(D, t)
    BY <2>4 DEF Result
  <2>8. Applies(D, t, r)
    BY <2>3, <2>5, <2>6, <2>7, AppliesIf DEF Emits, Flows
  <2>9. r.l.deferred = o.l.deferred
    BY <2>1, <2>3, <2>5, <2>6 DEF Emits
  <2> QED BY <2>1, <2>8, <2>9, AppliesOn
<1>5. CASE e.op = "where"
  <2> DEFINE d == Define(o.l, "Where", o.v)
  <2>1. Good(D, d) /\ Emits(D, o.l, d) /\ v \in Avail(D, d) /\ o.v \in Avail(D, d)
    BY <1>0, FreshGoes DEF DefiningOps
  <2>3. r = [l |-> ReleaseIfUnowned(d, o.v), v |-> v, ty |-> "Rel"]
    BY <1>5 DEF Applied, LowerWhere
  <2> HIDE DEF d, r
  <2>4. Emits(D, d, ReleaseIfUnowned(d, o.v))
    BY <2>1, ReleaseEmits
  <2> QED BY <2>1, <2>3, <2>4, AppliesIf DEF Emits, Flows
<1>6. CASE e.op = "extract"
  <2> DEFINE d == Define(o.l, "Extract", o.v)
             m == IF o.v \in BoundValues(d) THEN d ELSE Defer(d, o.v, ExtractSource)
  <2>1. Good(D, d) /\ Emits(D, o.l, d) /\ v \in Avail(D, d) /\ o.v \in Avail(D, d)
    BY <1>0, FreshGoes DEF DefiningOps
  <2>3. r = [l |-> m, v |-> v, ty |-> "Flat"]
    BY <1>6 DEF Applied, LowerExtract
  <2> HIDE DEF d, r
  <2>4. Goes(D, d, m)
    BY <2>1, DeferGoes, GoesSame
  <2> HIDE DEF m
  <2> QED BY <1>6, <2>1, <2>3, <2>4, AppliesIf DEF Emits, Flows
<1> QED BY <1>1, <1>2, <1>3, <1>4, <1>5, <1>6 DEF Operators

\* What a local stands for.
NamedBy(l, v, ty) ==
    \E k \in 1 .. Len(l.locals) : \E n \in DOMAIN l.locals[k] :
        v = l.locals[k][n].v /\ ty = l.locals[k][n].ty

LEMMA LookupNames ==
    ASSUME NEW D, NEW l, Good(D, l), NEW n, IsLocal(l, n)
    PROVE  /\ LayerOf(l, n) \in 1 .. Len(l.locals) /\ n \in DOMAIN l.locals[LayerOf(l, n)]
           /\ Lookup(l, n) \in Bnds /\ Lookup(l, n).v \in Avail(D, l) /\ Lookup(l, n).ty \in Flows
           /\ n \in Names
           /\ NamedBy(l, Lookup(l, n).v, Lookup(l, n).ty)
<1>1. DOMAIN l.locals = 1 .. Len(l.locals)
  BY GoodTypes DEF Lowerers
<1>2. LayerOf(l, n) \in 1 .. Len(l.locals) /\ n \in DOMAIN l.locals[LayerOf(l, n)]
  BY <1>1 DEF IsLocal, LayerOf
<1> QED BY <1>2, LayerTypes DEF Lookup, NamedBy

\* What lowering an expression gives: a new value, or the value of a name.
Lowers(D, l, o) ==
    /\ Goes(D, l, o.l)
    /\ o.v \in Avail(D, o.l) /\ o.ty \in Flows /\ o.v < o.l.next
    /\ l.next <= o.v \/ (o.l = l /\ NamedBy(l, o.v, o.ty))

LEMMA LeafLowers ==
    ASSUME NEW D, NEW l, Good(D, l), NEW e, LeafOf(l, e)
    PROVE  Lowers(D, l, LowerLeaf(l, e)) /\ LowerLeaf(l, e).l.deferred = l.deferred
<1>0. l \in Lowerers /\ l.next \in Nat /\ Immortal \in Int
  BY GoodTypes DEF Immortal
<1>1. ASSUME NEW op \in {"Const", "RelvarRead"}, NEW ty \in Flows,
             LowerLeaf(l, e) = Value(Define(l, op, Immortal), ty)
      PROVE  Lowers(D, l, LowerLeaf(l, e)) /\ LowerLeaf(l, e).l.deferred = l.deferred
  <2> DEFINE d == Define(l, op, Immortal)
  <2>1. Goes(D, l, d) /\ l.next \in Avail(D, d) /\ d.deferred = l.deferred /\ d.next = l.next + 1
    BY <1>0, DefineGoes DEF DefiningOps, SourcelessOps
  <2>2. Value(d, ty) = [l |-> d, v |-> d.next - 1, ty |-> ty]
    BY DEF Value
  <2> HIDE DEF d
  <2> QED BY <1>0, <1>1, <2>1, <2>2 DEF Lowers, d
<1>2. CASE e.op = "lit"
  BY <1>1, <1>2 DEF LowerLeaf, Flows
<1>3. CASE e.op = "read"
  BY <1>1, <1>3 DEF LowerLeaf, Flows
<1>4. CASE e.op = "name"
  <2>1. LowerLeaf(l, e) = [l |-> l, v |-> Lookup(l, e.name).v, ty |-> Lookup(l, e.name).ty]
    BY <1>4 DEF LowerLeaf
  <2>2. /\ Lookup(l, e.name).v \in Avail(D, l) /\ Lookup(l, e.name).ty \in Flows
        /\ NamedBy(l, Lookup(l, e.name).v, Lookup(l, e.name).ty)
    BY <1>4, LookupNames DEF LeafOf
  <2>3. Lookup(l, e.name).v < l.next
    BY <2>2, GoodTypes
  <2> QED BY <2>1, <2>2, <2>3, GoesSame DEF Lowers
<1> QED BY <1>2, <1>3, <1>4 DEF LeafOf

LEMMA AppliedLowers ==
    ASSUME NEW D, NEW l, Good(D, l), NEW o, Lowers(D, l, o), NEW e, e.op \in Operators
    PROVE  /\ Lowers(D, l, Applied(o, e))
           /\ l.next <= Applied(o, e).v
           /\ e.op # "extract" => Applied(o, e).l.deferred = o.l.deferred
<1> DEFINE r == Applied(o, e)
<1>1. Result(D, o)
  BY GoesGood DEF Lowers, Result
<1>2. Applies(D, o, r) /\ (e.op # "extract" => r.l.deferred = o.l.deferred)
  BY <1>1, AppliedApplies
<1> HIDE DEF r
<1>3. Goes(D, l, r.l) /\ l.next \in Nat /\ o.l.next \in Nat /\ l.next <= o.l.next /\ r.v \in Nat
  BY <1>1, <1>2, GoesOn, GoodTypes, GoesGood DEF Lowers, Applies, Result
<1> QED BY <1>2, <1>3 DEF Lowers, Applies, r

LEMMA ExprLowers ==
    ASSUME NEW D, NEW l, Good(D, l), NEW e, Written(l, e)
    PROVE  /\ Lowers(D, l, LowerExpr(l, e))
           /\ LeafOf(l, e) \/ l.next <= LowerExpr(l, e).v
           /\ e.op # "extract" /\ (LeafOf(l, e) \/ LeafOf(l, e.of) \/ e.of.op # "extract")
                 => LowerExpr(l, e).l.deferred = l.deferred
<1>0. \A x : LeafOf(l, x) => IsLeaf(x)
  BY DEF LeafOf, IsLeaf
<1>1. \A x : x.op \in Operators => ~IsLeaf(x)
  BY DEF Operators, IsLeaf
<1>2. CASE LeafOf(l, e)
  BY <1>0, <1>2, LeafLowers DEF LowerExpr
<1>3. CASE e.op \in Operators /\ OperandOf(l, e.of)
  <2> DEFINE o == LowerOperand(l, e.of)
  <2>1. LowerExpr(l, e) = Applied(o, e)
    BY <1>1, <1>3 DEF LowerExpr
  <2>2. CASE LeafOf(l, e.of)
    <3>1. o = LowerLeaf(l, e.of)
      BY <1>0, <2>2 DEF LowerOperand
    <3>2. Lowers(D, l, o) /\ o.l.deferred = l.deferred
      BY <2>2, <3>1, LeafLowers
    <3> HIDE DEF o
    <3> QED BY <1>3, <2>1, <3>2, AppliedLowers
  <2>3. CASE e.of.op \in Operators /\ LeafOf(l, e.of.of)
    <3> DEFINE p == LowerLeaf(l, e.of.of)
    <3>1. o = Applied(p, e.of)
      BY <1>1, <2>3 DEF LowerOperand
    <3>2. Lowers(D, l, p) /\ p.l.deferred = l.deferred
      BY <2>3, LeafLowers
    <3> HIDE DEF p, o
    <3>3. Lowers(D, l, o) /\ (e.of.op # "extract" => o.l.deferred = l.deferred)
      BY <2>3, <3>1, <3>2, AppliedLowers
    <3>4. ~LeafOf(l, e.of) /\ ~LeafOf(l, e)
      BY <1>3, <2>3 DEF LeafOf, Operators
    <3>5. /\ Lowers(D, l, Applied(o, e)) /\ l.next <= Applied(o, e).v
          /\ e.op # "extract" => Applied(o, e).l.deferred = o.l.deferred
      BY <1>3, <3>3, AppliedLowers
    <3> QED BY <2>1, <3>3, <3>4, <3>5
  <2> QED BY <1>3, <2>2, <2>3 DEF OperandOf
<1> QED BY <1>2, <1>3 DEF Written

LEMMA NamesOfAreLeaves ==
    ASSUME NEW l, NEW ty, NEW e \in NamesOf(l, ty)
    PROVE  /\ LeafOf(l, e) /\ e.op = "name" /\ e.name \in Names /\ e.name \notin l.unset
           /\ IsLocal(l, e.name) /\ Lookup(l, e.name).ty = ty
BY DEF NamesOf, Name, LeafOf

LEMMA EachOf ==
    ASSUME NEW op, NEW S, NEW e \in Each(op, S)
    PROVE  e.op = op /\ e.of \in S
BY DEF Each, Of

\* No relation is made of an extracted tuple.
Plain(l, e) == LeafOf(l, e) \/ (e.op # "extract" /\ (LeafOf(l, e.of) \/ e.of.op # "extract"))

LEMMA ExprsAreWritten ==
    ASSUME NEW l
    PROVE  /\ \A e \in Exprs(l) \cup {Lit, ReadRelvar} \cup Arguments(l) : Written(l, e)
           /\ TextExprs(l) \subseteq Exprs(l) /\ RelExprs(l) \subseteq Exprs(l)
           /\ \A e \in RelExprs(l) \cup Arguments(l) : Plain(l, e)
<1> DEFINE t == NamesOf(l, "Text")
           r == NamesOf(l, "Rel")
           f == NamesOf(l, "Flat")
           b == ByType(l)
<1>1. b.text = t /\ b.rel = r /\ b.flat = f /\ UNION Range(b) = t \cup r \cup f
  <2>1. b = [text |-> t, rel |-> r, flat |-> f]
    BY DEF ByType
  <2>2. Range(b) = {t, r, f}
    <3>1. DOMAIN b = {"text", "rel", "flat"}
      BY <2>1
    <3> QED BY <2>1, <3>1 DEF Range
  <2> QED BY <2>1, <2>2
<1>2. \A e \in t \cup r \cup f : LeafOf(l, e)
  BY NamesOfAreLeaves
<1> HIDE DEF t, r, f, b
<1>3. LeafOf(l, Lit) /\ LeafOf(l, ReadRelvar)
  BY DEF LeafOf, Lit, ReadRelvar
<1>4. \A op \in Operators : \A e : LeafOf(l, e) => /\ Of(op, e).op = op /\ Of(op, e).of = e
                                                   /\ OperandOf(l, Of(op, e)) /\ Written(l, Of(op, e))
  BY DEF Of, OperandOf, Written
<1>5. \A op \in Operators : \A e : OperandOf(l, e) => Written(l, Of(op, e))
  BY DEF Of, Written
<1>6. \A e : LeafOf(l, e) => Written(l, e) /\ OperandOf(l, e) /\ Plain(l, e)
  BY DEF Written, OperandOf, Plain
<1>7. \A op \in Operators : \A S : (\A e \in S : LeafOf(l, e)) => \A e \in Each(op, S) : OperandOf(l, e) /\ Written(l, e)
  BY EachOf DEF Written, OperandOf
<1>8. \A op \in Operators : \A S : (\A e \in S : OperandOf(l, e)) => \A e \in Each(op, S) : Written(l, e)
  BY EachOf DEF Written
<1>9. {"concat", "field", "tuple", "rel", "where", "extract"} \subseteq Operators
  BY DEF Operators
<1>10. \A e \in Cells(b) : OperandOf(l, e) /\ (LeafOf(l, e) \/ e.op = "concat") /\ Written(l, e)
  BY <1>1, <1>2, <1>3, <1>4, <1>6, <1>9 DEF Cells
<1>11. \A e \in Texts(b) : Written(l, e)
  <2>1. Written(l, Of("concat", Lit)) /\ \A e \in b.text : Written(l, e)
    BY <1>1, <1>2, <1>3, <1>4, <1>6, <1>9
  <2>2. \A e \in Each("concat", b.text) : Written(l, e)
    BY <1>1, <1>2, <1>7, <1>9
  <2>3. \A e \in Each("field", b.flat \cup {Of("extract", ReadRelvar)}) : Written(l, e)
    <3>1. \A e \in b.flat \cup {Of("extract", ReadRelvar)} : OperandOf(l, e)
      BY <1>1, <1>2, <1>3, <1>4, <1>6, <1>9
    <3> QED BY <3>1, <1>8, <1>9
  <2> QED BY <2>1, <2>2, <2>3 DEF Texts
<1>12. \A e \in Rels(b) : Written(l, e) /\ Plain(l, e)
  <2>1. \A e \in b.rel : Written(l, e) /\ Plain(l, e)
    BY <1>1, <1>2, <1>6
  <2>2. \A e \in Each("rel", Cells(b)) : Written(l, e) /\ Plain(l, e)
    <3>1. \A e \in Each("rel", Cells(b)) : e.op = "rel" /\ e.of \in Cells(b)
      BY EachOf
    <3>2. \A e \in Each("rel", Cells(b)) : Written(l, e)
      BY <1>8, <1>9, <1>10
    <3> QED BY <3>1, <3>2, <1>10 DEF Plain
  <2>3. \A e \in Each("where", b.rel \cup {ReadRelvar}) : Written(l, e) /\ Plain(l, e)
    <3>1. \A e \in b.rel \cup {ReadRelvar} : LeafOf(l, e)
      BY <1>1, <1>2, <1>3
    <3>2. \A e \in Each("where", b.rel \cup {ReadRelvar}) : e.op = "where" /\ LeafOf(l, e.of)
      BY <3>1, EachOf
    <3> QED BY <3>1, <3>2, <1>7, <1>9 DEF Plain
  <2> QED BY <2>1, <2>2, <2>3 DEF Rels
<1>13. \A e \in Flats(b) : Written(l, e)
  <2>1. \A e \in b.flat : Written(l, e)
    BY <1>1, <1>2, <1>6
  <2>2. \A e \in Each("tuple", Cells(b)) : Written(l, e)
    BY <1>8, <1>9, <1>10
  <2>3. \A e \in Each("extract", b.rel \cup {ReadRelvar}) : Written(l, e)
    <3>1. \A e \in b.rel \cup {ReadRelvar} : LeafOf(l, e)
      BY <1>1, <1>2, <1>3
    <3> QED BY <3>1, <1>7, <1>9
  <2> QED BY <2>1, <2>2, <2>3 DEF Flats
<1>14. \A e \in Arguments(l) : Written(l, e) /\ Plain(l, e)
  <2>0. Arguments(l) = {Lit, Of("concat", Lit), Of("rel", Of("concat", Lit)), Of("tuple", Of("concat", Lit))}
                         \cup UNION Range(b)
    BY DEF Arguments, b
  <2>1. OperandOf(l, Of("concat", Lit)) /\ Of("concat", Lit).op = "concat" /\ Of("concat", Lit).of = Lit
        /\ Written(l, Of("concat", Lit))
    BY <1>3, <1>4, <1>9
  <2>2. Written(l, Of("rel", Of("concat", Lit))) /\ Written(l, Of("tuple", Of("concat", Lit)))
    BY <2>1, <1>5, <1>9
  <2>3. Plain(l, Of("concat", Lit)) /\ Plain(l, Of("rel", Of("concat", Lit))) /\ Plain(l, Of("tuple", Of("concat", Lit)))
    BY <2>1, <1>3 DEF Plain, Of
  <2> QED BY <2>0, <2>1, <2>2, <2>3, <1>1, <1>2, <1>3, <1>6
<1>15. Exprs(l) = Texts(b) \cup Rels(b) \cup Flats(b) /\ TextExprs(l) = Texts(b) /\ RelExprs(l) = Rels(b)
  BY DEF Exprs, TextExprs, RelExprs, b
<1> QED BY <1>3, <1>6, <1>11, <1>12, <1>13, <1>14, <1>15

\* What a name is bound to is any expression's value.
LEMMA ExprsLower ==
    ASSUME NEW D, NEW l, Good(D, l), NEW e \in Exprs(l) \cup {Lit, ReadRelvar} \cup Arguments(l)
    PROVE  Lowers(D, l, LowerExpr(l, e))
BY ExprsAreWritten, ExprLowers

LEMMA PlainExprsDeferNothing ==
    ASSUME NEW D, NEW l, Good(D, l), NEW e \in RelExprs(l) \cup Arguments(l)
    PROVE  Lowers(D, l, LowerExpr(l, e)) /\ LowerExpr(l, e).l.deferred = l.deferred
<1>1. Written(l, e) /\ Plain(l, e)
  BY ExprsAreWritten
<1>2. CASE LeafOf(l, e)
  <2>1. e.op # "extract"
    BY <1>2 DEF LeafOf
  <2> QED BY <1>1, <1>2, <2>1, ExprLowers
<1> QED BY <1>1, <1>2, ExprLowers DEF Plain

LEMMA BlockLowers ==
    ASSUME NEW D, NEW l, Good(D, l), NEW e \in Tails(l)
    PROVE  LET o == BlockValue(l, e)
           IN  \/ o = [l |-> l, v |-> NoValue, ty |-> "Unit"] /\ Goes(D, l, l)
               \/ Lowers(D, l, o) /\ e # NoTail /\ ~l.diverged
BY ExprsLower, GoesSame DEF Tails, BlockValue

-----------------------------------------------------------------------------
(* The control structures being lowered, and what each can rely on.         *)

Arms == [v : Nat \cup {NoValue}, ty : Types, diverged : BOOLEAN, owns : BOOLEAN, carried : Layers]
TxEntries == {[kind |-> "tx"]}
IfEntries ==
    [kind : {"if"}, arm : {"then", "else"}, taken : BOOLEAN, then : Arms, ended : BOOLEAN,
     live : BOOLEAN, depth : Nat, mark : Nat, pending : SUBSET Names, carried : Layers]
LoopEntries ==
    [kind : {"loop"}, form : {"while", "do"}, rounds : {0, Rounds}, live : BOOLEAN, depth : Nat,
     pending : SUBSET Names, carried : Layers, log : Seq(Insts)]
CallEntries == [kind : {"call"}, fn : Lowerers, arg : Bnds, live : BOOLEAN]
Blocks == TxEntries \cup IfEntries \cup LoopEntries
Carries(e) == e.kind \in {"if", "loop"}

\* Names are declared once, in one layer.
DeclaredTo(l, p) ==
    {n \in Names : \E k \in 1 .. p : n \in DOMAIN l.locals[k] \/ n \in l.pending[k]}
BoundTo(l, p) == {n \in Names : \E k \in 1 .. p : n \in DOMAIN l.locals[k]}
Scoped(l) ==
    /\ Len(l.pending) = Len(l.locals) /\ Len(l.locals) > 0
    /\ \A i, j \in 1 .. Len(l.locals) : \A n \in Names :
          /\ n \in DOMAIN l.locals[i] /\ n \in DOMAIN l.locals[j] => i = j
          /\ n \in l.pending[i] /\ n \in l.pending[j] => i = j
          /\ ~(n \in DOMAIN l.locals[i] /\ n \in l.pending[j])

\* A structure with p layers below it.
Below(l, e, p) ==
    /\ e \in Blocks
    /\ e.kind \in {"tx", "if"} => Names \ DeclaredTo(l, p) # {}
    /\ Carries(e) =>
          /\ e.depth = p
          /\ DOMAIN e.carried \subseteq BoundTo(l, p)
          /\ \A n \in DOMAIN e.carried :
                /\ e.carried[n].ty = "Text" /\ e.carried[n].v < l.next
                /\ \A k \in 1 .. Len(l.deferred) : l.deferred[k].flat # e.carried[n].v
    /\ e.kind = "if" =>
          /\ e.mark <= Len(l.deferred)
          /\ e.arm = "else" =>
                /\ e.then.ty # "Unit" => e.then.v # NoValue /\ e.then.v < l.next
                /\ \A n \in DOMAIN e.then.carried : e.then.carried[n].v < l.next
\* g is inside e, that has p layers below it.
Nested(l, e, p, g) ==
    /\ Carries(e) /\ Carries(g) => DOMAIN g.carried \cap BoundTo(l, p) \subseteq DOMAIN e.carried
    /\ e.kind = "if" /\ g.kind = "if" => e.mark <= g.mark
Frame(l, st, lo, hi) ==
    /\ Scoped(l) /\ Len(l.locals) = hi - lo + 1
    /\ \A i \in lo + 1 .. hi : Below(l, st[i], i - lo)
    /\ \A i, j \in lo + 1 .. hi : i < j => Nested(l, st[i], i - lo, st[j])

\* The release of a deferred source that stays in the arm, or the function, it is in.
Inside(l, st, i, hi, k) ==
    \/ \E j \in i + 1 .. hi : st[j].kind = "if" /\ st[j].mark < k
    \/ l.diverged /\ \A j \in i + 1 .. hi : st[j].kind # "if"
\* What a structure that was reached leaves alone is there: V.
HeldBy(l, st, i, p, hi, V) ==
    Carries(st[i]) /\ st[i].live =>
        /\ \A k \in 1 .. p : \A n \in DOMAIN l.locals[k] :
              n \in DOMAIN st[i].carried \/ l.locals[k][n].v \in V
        /\ st[i].kind = "if" => \A k \in 1 .. st[i].mark : l.deferred[k].src \in V
        /\ st[i].kind = "loop" =>
              \A k \in 1 .. Len(l.deferred) : l.deferred[k].src \in V \/ Inside(l, st, i, hi, k)
Held(l, st, lo, hi, V) == \A i \in lo + 1 .. hi : HeldBy(l, st, i, i - lo, hi, V)

\* What it took note of is there.
CarriedIn(carried, V) == \A n \in DOMAIN carried : carried[n].v \in V
Saved(e, V) ==
    /\ Carries(e) /\ e.live => CarriedIn(e.carried, V)
    /\ e.kind = "loop" /\ e.form = "do" => e.rounds > 0
    /\ e.kind = "if" =>
          /\ e.arm = "else" => DOMAIN e.then.carried = DOMAIN e.carried
          /\ e.ended =>
                /\ e.arm = "else" /\ e.live /\ e.taken /\ ~e.then.diverged
                /\ e.then.ty # "Unit" => e.then.v \in V
                /\ CarriedIn(e.then.carried, V)

\* The path that is taken passes through e.
Timed(e) == e.kind \in {"if", "loop", "call"}
LiveIn(e) ==
    /\ Timed(e) => e.live
    /\ e.kind = "if" => e.taken = (e.arm = "then")
    /\ e.kind = "loop" => e.rounds > 0
Chain(st, lv) ==
    /\ lv => \A i \in 1 .. Len(st) : LiveIn(st[i])
    /\ \A i, j \in 1 .. Len(st) : i < j /\ Timed(st[j]) /\ st[j].live => LiveIn(st[i])

Values(l) == 0 .. l.next - 1
Ready(l, V, lv) ==
    /\ l \in Lowerers
    /\ TempsIn(l, V) /\ TempsIn(l, Values(l)) /\ HeadsIn(l) /\ BorrowersIn(l)
    /\ LocalsIn(l, Values(l)) /\ DeferredIn(l, Values(l))
    /\ lv => LocalsIn(l, V) /\ DeferredIn(l, V) /\ ~l.diverged
    /\ l.diverged => l.returns \in Types

\* The function whose call is e goes on after it.
Caller(e, st, lo, V, next) ==
    /\ Ready(e.fn, V, e.live) /\ e.fn.next <= next /\ ~e.fn.diverged /\ e.fn.insts = << >>
    /\ Frame(e.fn, st, 1, lo - 1) /\ Held(e.fn, st, 1, lo - 1, V)
    /\ Names \ DeclaredTo(e.fn, Len(e.fn.locals)) # {}
    /\ e.arg.v < e.fn.next /\ (e.live => e.arg.v \in V)

Stack(st, lo) ==
    /\ Len(st) \in Nat /\ lo \in 1 .. Len(st) /\ DOMAIN st = 1 .. Len(st)
    /\ st = [i \in 1 .. Len(st) |-> st[i]]
    /\ st[1] = Main
    /\ lo > 1 => st[lo] \in CallEntries
    /\ \A i \in 2 .. Len(st) : i # lo => st[i] \in Blocks

State(l, st, V, lv, lo) ==
    /\ Stack(st, lo)
    /\ Ready(l, V, lv) /\ Numbered(V, l.next)
    /\ Frame(l, st, lo, Len(st)) /\ Held(l, st, lo, Len(st), V)
    /\ \A i \in 1 .. Len(st) : Saved(st[i], V)
    /\ Chain(st, lv)
    /\ lo > 1 => Caller(st[lo], st, lo, V, l.next)

\* What the loops repeat has been executed before.
Logs(st, V) ==
    \A i \in 1 .. Len(st) :
        st[i].kind = "loop" => Known(V, st[i].log) /\ Defs(st[i].log) \subseteq V

Consistent(l, st, mem, lv) ==
    /\ IsMemory(mem) /\ lv \in BOOLEAN
    /\ st # << >> /\ mem.fault = NoFault =>
          \E lo \in Nat : /\ State(l, st, DOMAIN mem.env, lv, lo)
                          /\ l.insts = << >>
                          /\ Logs(st, DOMAIN mem.env)
IInv == Consistent(fn, open, memory, live)

\* In a step on the path that is taken the values of V are there; elsewhere a
\* name may stand for any value.
Basis(l, V, lv) == IF lv THEN V ELSE Values(l)
After(m, V, lv) == IF lv THEN Avail(V, m) ELSE V
Ended(m) == [m EXCEPT !.insts = << >>]

LEMMA ReadyTypes ==
    ASSUME NEW l, NEW V, NEW lv, Ready(l, V, lv)
    PROVE  /\ l \in Lowerers /\ l.next \in Nat \ {0}
           /\ l.locals \in Seq(Layers) /\ Len(l.locals) \in Nat
           /\ l.pending \in Seq(Pendings) /\ Len(l.pending) \in Nat
           /\ l.deferred \in Seq(Deferrals) /\ Len(l.deferred) \in Nat
           /\ \A t \in DOMAIN l.temps : t \in Nat /\ l.temps[t] \in Nat
           /\ Values(l) \subseteq Nat
<1>1. l \in Lowerers
  BY DEF Ready
<1>2. PICK S \in SUBSET Nat : l.temps \in [S -> Nat]
  BY <1>1 DEF Lowerers
<1>3. \A t \in DOMAIN l.temps : t \in Nat /\ l.temps[t] \in Nat
  BY <1>2
<1>4. /\ l.next \in Nat \ {0}
      /\ l.locals \in Seq(Layers) /\ l.pending \in Seq(Pendings) /\ l.deferred \in Seq(Deferrals)
  BY <1>1 DEF Lowerers
<1> QED BY <1>1, <1>3, <1>4 DEF Values

LEMMA NoInsts ==
           /\ << >> \in Seq(Insts) /\ Defs(<< >>) = {} /\ \A D : Sound(D, << >>)
           /\ \A D : Known(D, << >>)
<1>1. << >> \in Seq(Insts) /\ Len(<< >>) = 0
  OBVIOUS
<1> QED BY <1>1 DEF Defs, DefinedBy, Sound, Known

LEMMA BasisIsGood ==
    ASSUME NEW l, NEW V, NEW lv \in BOOLEAN, Ready(l, V, lv), Numbered(V, l.next), l.insts = << >>
    PROVE  /\ Good(Basis(l, V, lv), l) /\ Avail(Basis(l, V, lv), l) = Basis(l, V, lv)
           /\ V \subseteq Basis(l, V, lv)
<1> DEFINE D == Basis(l, V, lv)
<1>1. Sound(D, l.insts) /\ Avail(D, l) = D
  BY NoInsts DEF Avail
<1>2. Numbered(D, l.next) /\ V \subseteq D
  BY ReadyTypes DEF Basis, Numbered, Values
<1>3. TempsIn(l, D) /\ LocalsIn(l, D) /\ DeferredIn(l, D) /\ HeadsIn(l) /\ BorrowersIn(l) /\ l \in Lowerers
  BY DEF Ready, Basis
<1> HIDE DEF D
<1> QED BY <1>1, <1>2, <1>3 DEF Good, D

LEMMA EndedTypes ==
    ASSUME NEW m \in Lowerers
    PROVE  /\ Ended(m) \in Lowerers /\ Ended(m).insts = << >>
           /\ Ended(m).locals = m.locals /\ Ended(m).pending = m.pending /\ Ended(m).unset = m.unset
           /\ Ended(m).params = m.params /\ Ended(m).borrowed = m.borrowed /\ Ended(m).owned = m.owned
           /\ Ended(m).temps = m.temps /\ Ended(m).heads = m.heads /\ Ended(m).deferred = m.deferred
           /\ Ended(m).next = m.next /\ Ended(m).diverged = m.diverged /\ Ended(m).returns = m.returns
BY NoInsts DEF Ended, Lowerers

\* What holds of a lowerer holds of it without its instructions.
LEMMA EndedReady ==
    ASSUME NEW m \in Lowerers, NEW V, NEW lv, Ready(m, V, lv)
    PROVE  Ready(Ended(m), V, lv)
<1>1. Values(Ended(m)) = Values(m)
  BY EndedTypes DEF Values
<1> QED BY <1>1, EndedTypes DEF Ready, TempsIn, HeadsIn, BorrowersIn, Borrows, LocalsIn, DeferredIn

LEMMA GoodReady ==
    ASSUME NEW D, NEW m, Good(D, m), NEW V, TempsIn(m, V), NEW lv,
           lv => Avail(D, m) \subseteq V /\ ~m.diverged, m.diverged => m.returns \in Types
    PROVE  Ready(m, V, lv)
<1>1. m \in Lowerers /\ m.next \in Nat /\ \A d \in Avail(D, m) : d \in Values(m)
  BY GoodTypes DEF Values
<1>2. TempsIn(m, Values(m))
  <2>1. \A t \in DOMAIN m.temps : m.temps[t] \in Nat /\ m.temps[t] < m.next /\ t < m.next
    BY GoodTypes DEF Good, TempsIn
  <2> QED BY <1>1, <2>1 DEF TempsIn, Values
<1>3. LocalsIn(m, Values(m)) /\ DeferredIn(m, Values(m))
  BY <1>1 DEF Good, LocalsIn, DeferredIn
<1>4. lv => LocalsIn(m, V) /\ DeferredIn(m, V)
  BY DEF Good, LocalsIn, DeferredIn
<1> QED BY <1>1, <1>2, <1>3, <1>4 DEF Ready, Good

\* Where m's instructions leave what there is after a step from l.
LEMMA MovesReady ==
    ASSUME NEW l, NEW V, NEW lv \in BOOLEAN, Ready(l, V, lv), Numbered(V, l.next), l.insts = << >>,
           NEW m, Moves(Basis(l, V, lv), l, m),
           NEW lv2 \in BOOLEAN, lv2 => lv, lv2 => ~m.diverged, m.diverged => m.returns \in Types
    PROVE  LET W == After(m, V, lv)
           IN  /\ Ready(m, W, lv2) /\ Numbered(W, m.next) /\ l.next <= m.next
               /\ V \subseteq W /\ \A d \in W : d \in V \/ d >= l.next
               /\ lv => Sound(V, m.insts) /\ W = V \cup Defs(m.insts)
               /\ m \in Lowerers /\ m.insts \in Seq(Insts)
<1> DEFINE D == Basis(l, V, lv)
           W == After(m, V, lv)
<1>0. Good(D, l) /\ Avail(D, l) = D /\ Good(D, m) /\ l.next <= m.next
  BY BasisIsGood DEF Moves
<1>1. l.next \in Nat /\ m.next \in Nat /\ m \in Lowerers /\ m.insts \in Seq(Insts)
  BY <1>0, GoodTypes
<1>2. CASE lv
  <2>1. D = V /\ W = Avail(D, m)
    BY <1>2 DEF Basis, After
  <2>2. TempsIn(m, W) /\ Numbered(W, m.next)
    BY <1>0, <2>1 DEF Good
  <2>3. Ready(m, W, lv2)
    BY <1>0, <2>1, <2>2, GoodReady
  <2>4. V \subseteq W /\ \A d \in W : d \in V \/ d >= l.next
    BY <1>0, <2>1 DEF Moves, AvailFrom
  <2>5. Sound(V, m.insts) /\ W = V \cup Defs(m.insts)
    BY <1>0, <2>1 DEF Good, Avail
  <2> QED BY <1>0, <1>1, <2>2, <2>3, <2>4, <2>5
<1>3. CASE ~lv
  <2>1. W = V
    BY <1>3 DEF After
  <2>2. Numbered(W, m.next)
    BY <1>0, <1>1, <2>1 DEF Numbered
  <2>3. TempsIn(m, W)
    <3>1. TempsFrom(l, m) /\ TempsIn(l, V)
      BY DEF Moves, Ready
    <3>2. TempsIn(m, Avail(D, m))
      BY <1>0 DEF Good
    <3>3. \A t \in DOMAIN m.temps : t \in Nat
      BY <1>0, GoodTypes
    <3> QED BY <1>1, <2>1, <3>1, <3>2, <3>3 DEF TempsIn, TempsFrom, Numbered
  <2>4. Ready(m, W, lv2)
    BY <1>0, <1>3, <2>3, GoodReady
  <2> QED BY <1>0, <1>1, <1>3, <2>1, <2>2, <2>4
<1> QED BY <1>2, <1>3

-----------------------------------------------------------------------------
(* What the structures that stay open keep from a step of the lowering.     *)

\* The value of a deferred source is as before, or is released inside.
KeepsDeferred(l, m, st, i, hi, was) ==
    /\ st[i].kind = "if" =>
          /\ st[i].mark <= Len(m.deferred)
          /\ \A k \in 1 .. st[i].mark : m.deferred[k] = l.deferred[k]
    /\ st[i].kind = "loop" =>
          \A k \in 1 .. Len(m.deferred) :
             \/ Inside(m, st, i, hi, k)
             \/ /\ k <= Len(l.deferred) /\ m.deferred[k] = l.deferred[k]
                /\ ~Inside(l, st, i, was, k)
KeepsScopes(l, m, e, p) ==
    /\ DeclaredTo(m, p) \subseteq DeclaredTo(l, p)
    /\ Carries(e) =>
          /\ BoundTo(m, p) = BoundTo(l, p)
          /\ \A k \in 1 .. p : \A n \in DOMAIN m.locals[k] :
                \/ n \in DOMAIN e.carried
                \/ n \in DOMAIN l.locals[k] /\ m.locals[k][n] = l.locals[k][n]
Keeps(l, m, st, lo, hi, was) ==
    \A i \in lo + 1 .. hi : /\ KeepsDeferred(l, m, st, i, hi, was)
                            /\ KeepsScopes(l, m, st[i], i - lo)

LEMMA BlockTypes ==
    ASSUME NEW e \in Blocks
    PROVE  /\ e.kind \in {"tx", "if", "loop"}
           /\ e.kind = "tx" => e = [kind |-> "tx"]
           /\ e.kind = "if" => e \in IfEntries /\ e.mark \in Nat /\ e.then \in Arms
           /\ e.kind = "loop" => e \in LoopEntries
           /\ Carries(e) => /\ e.carried \in Layers /\ DOMAIN e.carried \in SUBSET Names
                            /\ e.carried \in [DOMAIN e.carried -> Bnds]
                            /\ \A n \in DOMAIN e.carried : e.carried[n] \in Bnds /\ e.carried[n].v \in Nat
                            /\ e.live \in BOOLEAN /\ e.pending \in SUBSET Names
<1>1. CASE e \in TxEntries
  BY <1>1 DEF TxEntries, Carries
<1>2. ASSUME e \in IfEntries \cup LoopEntries
      PROVE  /\ e.carried \in Layers /\ DOMAIN e.carried \in SUBSET Names
             /\ e.carried \in [DOMAIN e.carried -> Bnds]
             /\ \A n \in DOMAIN e.carried : e.carried[n] \in Bnds /\ e.carried[n].v \in Nat
             /\ e.live \in BOOLEAN /\ e.pending \in SUBSET Names
  <2>1. e.carried \in Layers /\ e.live \in BOOLEAN /\ e.pending \in SUBSET Names
    BY <1>2 DEF IfEntries, LoopEntries
  <2>2. PICK S \in SUBSET Names : e.carried \in [S -> Bnds]
    BY <2>1 DEF Layers
  <2>3. \A n \in DOMAIN e.carried : e.carried[n] \in Bnds /\ e.carried[n].v \in Nat
    BY <2>2 DEF Bnds
  <2> QED BY <2>1, <2>2, <2>3
<1>3. CASE e \in IfEntries
  <2>1. e.kind = "if" /\ e.mark \in Nat /\ e.then \in Arms
    BY <1>3 DEF IfEntries
  <2> QED BY <1>2, <1>3, <2>1
<1>4. CASE e \in LoopEntries
  <2>1. e.kind = "loop"
    BY <1>4 DEF LoopEntries
  <2> QED BY <1>2, <1>4, <2>1
<1> QED BY <1>1, <1>3, <1>4 DEF Blocks

LEMMA ArmTypes ==
    ASSUME NEW t \in Arms
    PROVE  /\ t.v \in Int /\ t.ty \in Types /\ DOMAIN t.carried \in SUBSET Names
           /\ t.diverged \in BOOLEAN /\ t.carried \in Layers
           /\ \A n \in DOMAIN t.carried : t.carried[n] \in Bnds /\ t.carried[n].v \in Nat
<1>1. t.v \in Int /\ t.ty \in Types /\ t.carried \in Layers /\ t.diverged \in BOOLEAN
  BY DEF Arms, NoValue
<1>2. PICK S \in SUBSET Names : t.carried \in [S -> Bnds]
  BY <1>1 DEF Layers
<1>3. \A n \in DOMAIN t.carried : t.carried[n] \in Bnds /\ t.carried[n].v \in Nat
  BY <1>2 DEF Bnds
<1> QED BY <1>1, <1>2, <1>3

LEMMA BelowKept ==
    ASSUME NEW l \in Lowerers, NEW m \in Lowerers, NEW e, NEW p, Below(l, e, p),
           KeepsScopes(l, m, e, p), l.next <= m.next, BorrowersFrom(l, m),
           e.kind = "if" => e.mark <= Len(m.deferred)
    PROVE  Below(m, e, p)
<1>1. e \in Blocks /\ l.next \in Nat /\ m.next \in Nat /\ Len(l.deferred) \in Nat /\ Len(m.deferred) \in Nat
  BY DEF Below, Lowerers
<1>2. ASSUME e.kind \in {"tx", "if"} PROVE Names \ DeclaredTo(m, p) # {}
  BY <1>2 DEF Below, KeepsScopes
<1>3. ASSUME Carries(e), NEW n \in DOMAIN e.carried
      PROVE  /\ e.carried[n].ty = "Text" /\ e.carried[n].v < m.next
             /\ \A k \in 1 .. Len(m.deferred) : m.deferred[k].flat # e.carried[n].v
  <2>1. e.carried[n].v \in Nat /\ e.carried[n].v < l.next /\ e.carried[n].ty = "Text"
    BY <1>1, <1>3, BlockTypes DEF Below
  <2>2. ASSUME NEW k \in 1 .. Len(m.deferred) PROVE m.deferred[k].flat # e.carried[n].v
    <3>1. CASE k <= Len(l.deferred) /\ m.deferred[k] = l.deferred[k]
      <4>1. k \in 1 .. Len(l.deferred)
        BY <1>1, <3>1
      <4> QED BY <1>3, <3>1, <4>1 DEF Below
    <3>2. CASE m.deferred[k].flat = ExtractSource
      BY <2>1, <3>2 DEF ExtractSource
    <3>3. CASE m.deferred[k].flat >= l.next
      BY <1>1, <2>1, <3>3
    <3> QED BY <3>1, <3>2, <3>3 DEF BorrowersFrom
  <2> QED BY <1>1, <2>1, <2>2
<1>4. Carries(e) => e.depth = p /\ DOMAIN e.carried \subseteq BoundTo(m, p)
  BY DEF Below, KeepsScopes
<1>5. ASSUME e.kind = "if", e.arm = "else"
      PROVE  /\ e.then.ty # "Unit" => e.then.v # NoValue /\ e.then.v < m.next
             /\ \A n \in DOMAIN e.then.carried : e.then.carried[n].v < m.next
  <2>1. e.then \in Arms
    BY <1>1, <1>5, BlockTypes
  <2>2. e.then.v \in Int /\ \A n \in DOMAIN e.then.carried : e.then.carried[n].v \in Nat
    BY <2>1, ArmTypes
  <2> QED BY <1>1, <1>5, <2>2 DEF Below
<1> QED BY <1>1, <1>2, <1>3, <1>4, <1>5 DEF Below

LEMMA FrameKept ==
    ASSUME NEW l \in Lowerers, NEW m \in Lowerers, NEW st, NEW lo \in Nat, NEW was \in Nat,
           NEW hi \in Nat, hi <= was, Frame(l, st, lo, was), Keeps(l, m, st, lo, hi, was),
           Scoped(m), Len(m.locals) = hi - lo + 1, l.next <= m.next, BorrowersFrom(l, m)
    PROVE  Frame(m, st, lo, hi)
<1>1. \A i \in lo + 1 .. hi : i \in lo + 1 .. was
  OBVIOUS
<1>2. ASSUME NEW i \in lo + 1 .. hi PROVE Below(m, st[i], i - lo)
  <2>1. Below(l, st[i], i - lo)
    BY <1>1 DEF Frame
  <2>2. KeepsScopes(l, m, st[i], i - lo) /\ (st[i].kind = "if" => st[i].mark <= Len(m.deferred))
    BY DEF Keeps, KeepsDeferred
  <2> QED BY <2>1, <2>2, BelowKept
<1>3. ASSUME NEW i \in lo + 1 .. hi, NEW j \in lo + 1 .. hi, i < j
      PROVE  Nested(m, st[i], i - lo, st[j])
  <2>1. Nested(l, st[i], i - lo, st[j])
    BY <1>1, <1>3 DEF Frame
  <2>2. Carries(st[i]) => BoundTo(m, i - lo) = BoundTo(l, i - lo)
    BY DEF Keeps, KeepsScopes
  <2> QED BY <2>1, <2>2 DEF Nested
<1> QED BY <1>2, <1>3 DEF Frame

LEMMA HeldKept ==
    ASSUME NEW l \in Lowerers, NEW m \in Lowerers, NEW st, NEW lo \in Nat, NEW was \in Nat,
           NEW hi \in Nat, hi <= was, Frame(l, st, lo, was), Keeps(l, m, st, lo, hi, was),
           NEW V, Held(l, st, lo, was, V)
    PROVE  Held(m, st, lo, hi, V)
<1> SUFFICES ASSUME NEW i \in lo + 1 .. hi PROVE HeldBy(m, st, i, i - lo, hi, V)
  BY DEF Held
<1> SUFFICES ASSUME Carries(st[i]), st[i].live
    PROVE /\ \A k \in 1 .. i - lo : \A n \in DOMAIN m.locals[k] :
                n \in DOMAIN st[i].carried \/ m.locals[k][n].v \in V
          /\ st[i].kind = "if" => \A k \in 1 .. st[i].mark : m.deferred[k].src \in V
          /\ st[i].kind = "loop" =>
                \A k \in 1 .. Len(m.deferred) : m.deferred[k].src \in V \/ Inside(m, st, i, hi, k)
  BY DEF HeldBy
<1>1. i \in lo + 1 .. was /\ HeldBy(l, st, i, i - lo, was, V)
  BY DEF Held
<1>2. KeepsDeferred(l, m, st, i, hi, was) /\ KeepsScopes(l, m, st[i], i - lo)
  BY DEF Keeps
<1>3. \A k \in 1 .. i - lo : \A n \in DOMAIN m.locals[k] :
                n \in DOMAIN st[i].carried \/ m.locals[k][n].v \in V
  BY <1>1, <1>2 DEF HeldBy, KeepsScopes
<1>4. st[i].kind = "if" => \A k \in 1 .. st[i].mark : m.deferred[k].src \in V
  BY <1>1, <1>2 DEF HeldBy, KeepsDeferred
<1>5. ASSUME st[i].kind = "loop", NEW k \in 1 .. Len(m.deferred)
      PROVE  m.deferred[k].src \in V \/ Inside(m, st, i, hi, k)
  <2>1. CASE k <= Len(l.deferred) /\ m.deferred[k] = l.deferred[k] /\ ~Inside(l, st, i, was, k)
    <3>1. k \in 1 .. Len(l.deferred)
      BY <2>1 DEF Lowerers
    <3> QED BY <1>1, <1>5, <2>1, <3>1 DEF HeldBy
  <2> QED BY <1>2, <1>5, <2>1 DEF KeepsDeferred
<1> QED BY <1>3, <1>4, <1>5

\* On the path that is taken everything is there.
LEMMA LiveHeld ==
    ASSUME NEW m \in Lowerers, NEW st, NEW lo \in Nat, NEW hi \in Nat, Frame(m, st, lo, hi),
           NEW V, LocalsIn(m, V), DeferredIn(m, V)
    PROVE  Held(m, st, lo, hi, V)
<1> SUFFICES ASSUME NEW i \in lo + 1 .. hi PROVE HeldBy(m, st, i, i - lo, hi, V)
  BY DEF Held
<1>1. Len(m.locals) = hi - lo + 1 /\ Below(m, st[i], i - lo)
  BY DEF Frame
<1>2. \A k \in 1 .. i - lo : k \in 1 .. Len(m.locals)
  BY <1>1
<1>3. st[i].kind = "if" => \A k \in 1 .. st[i].mark : k \in 1 .. Len(m.deferred)
  <2>1. st[i] \in Blocks /\ Len(m.deferred) \in Nat
    BY <1>1 DEF Below, Lowerers
  <2>2. st[i].kind = "if" => st[i].mark \in Nat /\ st[i].mark <= Len(m.deferred)
    BY <1>1, <2>1, BlockTypes DEF Below
  <2> QED BY <2>1, <2>2
<1> QED BY <1>2, <1>3 DEF HeldBy, LocalsIn, DeferredIn

LEMMA HeldMore ==
    ASSUME NEW l, NEW st, NEW lo, NEW hi, NEW V, NEW W, V \subseteq W, Held(l, st, lo, hi, V)
    PROVE  Held(l, st, lo, hi, W)
BY DEF Held, HeldBy

LEMMA SavedMore ==
    ASSUME NEW e, NEW V, NEW W, V \subseteq W, Saved(e, V)
    PROVE  Saved(e, W)
BY DEF Saved, CarriedIn

LEMMA ReadyMore ==
    ASSUME NEW l, NEW lv, NEW V, NEW W, V \subseteq W, Ready(l, V, lv),
           NEW next \in Nat, l.next <= next, \A d \in W : d \in V \/ d >= next
    PROVE  Ready(l, W, lv)
<1>1. TempsIn(l, W)
  <2>1. l.next \in Nat /\ \A t \in DOMAIN l.temps : t \in Nat
    BY ReadyTypes
  <2>2. TempsIn(l, V)
    BY DEF Ready
  <2> QED BY <2>1, <2>2 DEF TempsIn
<1> QED BY <1>1 DEF Ready, LocalsIn, DeferredIn

LEMMA CallerMore ==
    ASSUME NEW e, NEW st, NEW lo, NEW V, NEW W, V \subseteq W,
           NEW next \in Nat, Caller(e, st, lo, V, next), \A d \in W : d \in V \/ d >= next,
           NEW next2 \in Nat, next <= next2
    PROVE  Caller(e, st, lo, W, next2)
<1>1. e.fn.next \in Nat /\ e.fn.next <= next
  BY ReadyTypes DEF Caller
<1>2. Ready(e.fn, W, e.live)
  BY <1>1, ReadyMore DEF Caller
<1>3. Held(e.fn, st, 1, lo - 1, W)
  BY HeldMore DEF Caller
<1> QED BY <1>1, <1>2, <1>3 DEF Caller

\* The same structure, whatever it has logged.
Alike(e, f) ==
    \/ e = f
    \/ /\ e \in LoopEntries /\ f \in LoopEntries
       /\ e.form = f.form /\ e.rounds = f.rounds /\ e.live = f.live /\ e.depth = f.depth
       /\ e.pending = f.pending /\ e.carried = f.carried

LEMMA AlikeFields ==
    ASSUME NEW e, NEW f, Alike(e, f)
    PROVE  /\ e.kind = f.kind /\ Carries(e) = Carries(f) /\ Timed(e) = Timed(f)
           /\ Carries(e) => e.carried = f.carried /\ e.depth = f.depth /\ e.live = f.live /\ e.pending = f.pending
           /\ Timed(e) => e.live = f.live
           /\ e.kind = "loop" => e.form = f.form /\ e.rounds = f.rounds
           /\ e.kind # "loop" => e = f
           /\ e \in Blocks => f \in Blocks
<1>1. CASE e = f
  BY <1>1
<1>2. CASE e # f
  <2>1. e.kind = "loop" /\ f.kind = "loop"
    BY <1>2 DEF Alike, LoopEntries
  <2> QED BY <1>2, <2>1 DEF Alike, Carries, Timed, Blocks
<1> QED BY <1>1, <1>2

LEMMA AlikeFrame ==
    ASSUME NEW l, NEW lo \in Nat, NEW hi \in Nat, NEW st, NEW st2,
           \A i \in lo + 1 .. hi : Alike(st[i], st2[i])
    PROVE  /\ Frame(l, st, lo, hi) => Frame(l, st2, lo, hi)
           /\ \A V : Held(l, st, lo, hi, V) => Held(l, st2, lo, hi, V)
<1>1. ASSUME NEW i \in lo + 1 .. hi, Below(l, st[i], i - lo) PROVE Below(l, st2[i], i - lo)
  BY <1>1, AlikeFields DEF Below
<1>2. ASSUME NEW i \in lo + 1 .. hi, NEW j \in lo + 1 .. hi, Nested(l, st[i], i - lo, st[j])
      PROVE  Nested(l, st2[i], i - lo, st2[j])
  <2>1. Alike(st[i], st2[i]) /\ Alike(st[j], st2[j])
    OBVIOUS
  <2> QED BY <1>2, <2>1, AlikeFields DEF Nested
<1>3. ASSUME NEW i \in lo + 1 .. hi, NEW k, Inside(l, st, i, hi, k) PROVE Inside(l, st2, i, hi, k)
  <2>1. \A j \in i + 1 .. hi : st[j].kind = st2[j].kind /\ (st[j].kind = "if" => st[j] = st2[j])
    <3> TAKE j \in i + 1 .. hi
    <3>1. j \in lo + 1 .. hi
      OBVIOUS
    <3> QED BY <3>1, AlikeFields
  <2> QED BY <1>3, <2>1 DEF Inside
<1>4. ASSUME NEW i \in lo + 1 .. hi, NEW V, HeldBy(l, st, i, i - lo, hi, V) PROVE HeldBy(l, st2, i, i - lo, hi, V)
  <2>1. Alike(st[i], st2[i])
    OBVIOUS
  <2>2. /\ st[i].kind = st2[i].kind /\ Carries(st[i]) = Carries(st2[i])
        /\ Carries(st[i]) => st[i].carried = st2[i].carried /\ st[i].live = st2[i].live
        /\ st[i].kind # "loop" => st[i] = st2[i]
    BY <2>1, AlikeFields
  <2> QED BY <1>3, <1>4, <2>2 DEF HeldBy
<1>5. Frame(l, st, lo, hi) => Frame(l, st2, lo, hi)
  BY <1>1, <1>2 DEF Frame
<1>6. \A V : Held(l, st, lo, hi, V) => Held(l, st2, lo, hi, V)
  BY <1>4 DEF Held
<1> QED BY <1>5, <1>6

LEMMA AlikeSaved ==
    ASSUME NEW e, NEW f, Alike(e, f)
    PROVE  /\ \A V : Saved(e, V) => Saved(f, V)
           /\ LiveIn(e) => LiveIn(f)
BY AlikeFields DEF Saved, LiveIn

LEMMA StackTypes ==
    ASSUME NEW st, NEW lo, Stack(st, lo)
    PROVE  /\ Len(st) \in Nat /\ lo \in 1 .. Len(st) /\ lo \in Nat /\ Len(st) > 0
           /\ \A i \in lo + 1 .. Len(st) : st[i] \in Blocks
           /\ \A i \in 2 .. lo - 1 : st[i] \in Blocks
           /\ st[1] = Main /\ (lo > 1 => st[lo] \in CallEntries)
BY DEF Stack

\* What holds of a stack holds of its part that stays open, and of one that has logged more.
LEMMA StateTo ==
    ASSUME NEW l, NEW st, NEW V, NEW lv, NEW lo, State(l, st, V, lv, lo),
           NEW hi \in Nat, lo <= hi, hi <= Len(st),
           NEW st2, Len(st2) = hi, DOMAIN st2 = 1 .. hi, st2 = [i \in 1 .. hi |-> st2[i]],
           \A i \in 1 .. hi : Alike(st[i], st2[i]),
           NEW m, NEW W, NEW lv2, Ready(m, W, lv2), Numbered(W, m.next), l.next <= m.next,
           V \subseteq W, \A d \in W : d \in V \/ d >= l.next,
           BorrowersFrom(l, m), Scoped(m), Len(m.locals) = hi - lo + 1,
           Keeps(l, m, st, lo, hi, Len(st)),
           lv2 => \A i \in 1 .. hi : LiveIn(st[i])
    PROVE  State(m, st2, W, lv2, lo)
<1>1. Stack(st, lo) /\ lo \in Nat /\ lo >= 1 /\ Len(st) \in Nat
  BY StackTypes DEF State
<1>2. Stack(st2, lo)
  <2>1. Main \notin LoopEntries
    BY DEF Main, LoopEntries
  <2>2. st2[1] = Main
    <3>1. Alike(st[1], st2[1]) /\ st[1] = Main
      BY <1>1 DEF Stack
    <3> QED BY <2>1, <3>1 DEF Alike
  <2>3. lo > 1 => st2[lo] \in CallEntries
    <3>1. Alike(st[lo], st2[lo]) /\ (lo > 1 => st[lo] \in CallEntries)
      BY <1>1 DEF Stack
    <3>2. \A e \in CallEntries : e \notin LoopEntries
      BY DEF CallEntries, LoopEntries
    <3> QED BY <3>1, <3>2 DEF Alike
  <2>4. \A i \in 2 .. hi : i # lo => st2[i] \in Blocks
    <3> SUFFICES ASSUME NEW i \in 2 .. hi, i # lo PROVE st2[i] \in Blocks
      OBVIOUS
    <3>1. i \in 1 .. hi /\ i \in 2 .. Len(st)
      BY <1>1
    <3>2. st[i] \in Blocks /\ Alike(st[i], st2[i])
      BY <1>1, <3>1 DEF Stack
    <3> QED BY <3>2, AlikeFields
  <2>5. Len(st2) \in Nat /\ lo \in 1 .. Len(st2)
    BY <1>1
  <2>6. DOMAIN st2 = 1 .. Len(st2) /\ st2 = [i \in 1 .. Len(st2) |-> st2[i]]
    OBVIOUS
  <2>7. \A i \in 2 .. Len(st2) : i # lo => st2[i] \in Blocks
    BY <2>4
  <2> QED BY <2>2, <2>3, <2>5, <2>6, <2>7 DEF Stack
<1>3. l \in Lowerers /\ m \in Lowerers /\ l.next \in Nat /\ m.next \in Nat
  BY ReadyTypes DEF State
<1>4. Frame(l, st, lo, Len(st)) /\ Held(l, st, lo, Len(st), V)
  BY DEF State
<1>5. Frame(m, st, lo, hi)
  BY <1>1, <1>3, <1>4, FrameKept
<1>6. Held(m, st, lo, hi, W)
  BY <1>1, <1>3, <1>4, HeldKept, HeldMore
<1>7. \A i \in lo + 1 .. hi : Alike(st[i], st2[i])
  BY <1>1
<1>8. Frame(m, st2, lo, hi) /\ Held(m, st2, lo, hi, W)
  BY <1>1, <1>5, <1>6, <1>7, AlikeFrame
<1>9. \A i \in 1 .. hi : Saved(st2[i], W)
  <2> TAKE i \in 1 .. hi
  <2>1. Saved(st[i], V)
    BY <1>1 DEF State
  <2> QED BY <2>1, SavedMore, AlikeSaved
<1>10. Chain(st2, lv2)
  <2>1. Chain(st, lv)
    BY DEF State
  <2>2. lv2 => \A i \in 1 .. hi : LiveIn(st2[i])
    BY AlikeSaved
  <2>3. ASSUME NEW i \in 1 .. hi, NEW j \in 1 .. hi, i < j, Timed(st2[j]), st2[j].live
        PROVE  LiveIn(st2[i])
    <3>1. Timed(st[j]) /\ st[j].live
      BY <2>3, AlikeFields
    <3>2. i \in 1 .. Len(st) /\ j \in 1 .. Len(st)
      BY <1>1
    <3>3. LiveIn(st[i])
      BY <2>1, <2>3, <3>1, <3>2 DEF Chain
    <3> QED BY <3>3, AlikeSaved
  <2> QED BY <2>2, <2>3 DEF Chain
<1>11. lo > 1 => Caller(st2[lo], st2, lo, W, m.next)
  <2> SUFFICES ASSUME lo > 1 PROVE Caller(st2[lo], st2, lo, W, m.next)
    OBVIOUS
  <2>1. Caller(st[lo], st, lo, W, m.next)
    BY <1>3, CallerMore DEF State
  <2>2. st2[lo] = st[lo]
    <3>1. Alike(st[lo], st2[lo]) /\ st[lo] \in CallEntries
      BY <1>1 DEF Stack
    <3>2. \A e \in CallEntries : e \notin LoopEntries
      BY DEF CallEntries, LoopEntries
    <3> QED BY <3>1, <3>2 DEF Alike
  <2>3. \A i \in 1 + 1 .. lo - 1 : Alike(st[i], st2[i])
    BY <1>1
  <2>4. lo - 1 \in Nat
    BY <1>1
  <2> DEFINE c == st[lo].fn
  <2>5. /\ Frame(c, st, 1, lo - 1) => Frame(c, st2, 1, lo - 1)
        /\ Held(c, st, 1, lo - 1, W) => Held(c, st2, 1, lo - 1, W)
    BY <2>3, <2>4, AlikeFrame
  <2> QED BY <2>1, <2>2, <2>5 DEF Caller
<1> QED BY <1>2, <1>8, <1>9, <1>10, <1>11 DEF State

-----------------------------------------------------------------------------
(* Steps: what is executed after a statement is lowered.                    *)

LEMMA KindsDiffer ==
    /\ Main.kind = "main"
    /\ \A e \in CallEntries : e.kind = "call"
    /\ \A e \in LoopEntries : e.kind = "loop"
    /\ \A e \in IfEntries : e.kind = "if"
    /\ \A e \in TxEntries : e.kind = "tx"
BY DEF Main, CallEntries, LoopEntries, IfEntries, TxEntries

LEMMA LoopsOf ==
    ASSUME NEW st, NEW lo, Stack(st, lo), NEW i \in 1 .. Len(st), st[i].kind = "loop"
    PROVE  st[i] \in LoopEntries /\ i # 1 /\ i # lo
<1>1. i # 1
  BY KindsDiffer DEF Stack
<1>2. i # lo
  BY <1>1, KindsDiffer DEF Stack
<1>3. st[i] \in Blocks
  BY <1>1, <1>2 DEF Stack
<1> QED BY <1>1, <1>2, <1>3, KindsDiffer DEF Blocks

LEMMA LoggedStack ==
    ASSUME NEW st, NEW lo, Stack(st, lo), NEW insts \in Seq(Insts)
    PROVE  /\ Len(Logged(st, insts)) = Len(st) /\ DOMAIN Logged(st, insts) = 1 .. Len(st)
           /\ Logged(st, insts) = [i \in 1 .. Len(st) |-> Logged(st, insts)[i]]
           /\ \A i \in 1 .. Len(st) : Alike(st[i], Logged(st, insts)[i])
           /\ \A i \in 1 .. Len(st) : Logged(st, insts)[i].kind = "loop" =>
                 /\ st[i].kind = "loop" /\ st[i].log \in Seq(Insts)
                 /\ Logged(st, insts)[i].log = st[i].log \o insts
<1> DEFINE n == Len(st)
           t == Logged(st, insts)
<1>1. n \in Nat /\ DOMAIN st = 1 .. n
  BY DEF Stack
<1>2. t = [i \in 1 .. n |-> IF st[i].kind = "loop" THEN [st[i] EXCEPT !.log = @ \o insts] ELSE st[i]]
  BY <1>1 DEF Logged
<1> HIDE DEF t
<1>3. t \in [1 .. n -> {t[i] : i \in 1 .. n}]
  BY <1>2
<1>4. Len(t) = n
  BY <1>1, <1>3
<1>5. ASSUME NEW i \in 1 .. n
      PROVE  /\ Alike(st[i], t[i])
             /\ t[i].kind = "loop" => st[i].kind = "loop" /\ st[i].log \in Seq(Insts) /\ t[i].log = st[i].log \o insts
  <2>1. CASE st[i].kind # "loop"
    BY <1>2, <2>1 DEF Alike
  <2>2. CASE st[i].kind = "loop"
    <3>1. st[i] \in LoopEntries
      BY <2>2, LoopsOf
    <3>2. t[i] = [st[i] EXCEPT !.log = st[i].log \o insts]
      BY <1>2, <2>2
    <3>3. st[i].log \in Seq(Insts) /\ st[i].log \o insts \in Seq(Insts)
      <4>1. st[i].log \in Seq(Insts)
        BY <3>1 DEF LoopEntries
      <4> QED BY <4>1
    <3> DEFINE log == st[i].log \o insts
    <3> HIDE DEF log
    <3>4. t[i] \in LoopEntries /\ t[i].log = log
          /\ t[i].form = st[i].form /\ t[i].rounds = st[i].rounds /\ t[i].live = st[i].live
          /\ t[i].depth = st[i].depth /\ t[i].pending = st[i].pending /\ t[i].carried = st[i].carried
      <4>1. t[i] = [st[i] EXCEPT !.log = log] /\ log \in Seq(Insts)
        BY <3>2, <3>3 DEF log
      <4> QED BY <3>1, <4>1 DEF LoopEntries
    <3> QED BY <2>2, <3>1, <3>3, <3>4 DEF Alike, log
  <2> QED BY <2>1, <2>2
<1>6. t = [i \in 1 .. n |-> t[i]] /\ DOMAIN t = 1 .. n
  BY <1>2
<1> QED BY <1>4, <1>5, <1>6 DEF t

LEMMA KeepsSelf ==
    ASSUME NEW l, NEW st, NEW lo, NEW hi, Frame(l, st, lo, hi)
    PROVE  Keeps(l, l, st, lo, hi, hi)
<1> SUFFICES ASSUME NEW i \in lo + 1 .. hi
             PROVE  KeepsDeferred(l, l, st, i, hi, hi) /\ KeepsScopes(l, l, st[i], i - lo)
  BY DEF Keeps
<1>1. Below(l, st[i], i - lo)
  BY DEF Frame
<1> QED BY <1>1 DEF KeepsDeferred, KeepsScopes, Below

LEMMA LoggedState ==
    ASSUME NEW l, NEW st, NEW V, NEW lv, NEW lo, State(l, st, V, lv, lo), NEW insts \in Seq(Insts)
    PROVE  State(l, Logged(st, insts), V, lv, lo)
<1> DEFINE st2 == Logged(st, insts)
           n == Len(st)
<1>1. Stack(st, lo) /\ Ready(l, V, lv) /\ Numbered(V, l.next) /\ Frame(l, st, lo, n) /\ Chain(st, lv)
  BY DEF State
<1>2. n \in Nat /\ lo \in Nat /\ lo <= n
  BY <1>1, StackTypes
<1>3. /\ Len(st2) = n /\ DOMAIN st2 = 1 .. n /\ st2 = [i \in 1 .. n |-> st2[i]]
      /\ \A i \in 1 .. n : Alike(st[i], st2[i])
  BY <1>1, LoggedStack
<1> HIDE DEF st2
<1>4. Keeps(l, l, st, lo, n, n)
  BY <1>1, KeepsSelf
<1>5. BorrowersFrom(l, l) /\ l.next <= l.next /\ V \subseteq V /\ \A d \in V : d \in V \/ d >= l.next
  BY <1>1, ReadyTypes DEF BorrowersFrom
<1>6. Scoped(l) /\ Len(l.locals) = n - lo + 1
  BY <1>1 DEF Frame
<1>7. lv => \A i \in 1 .. n : LiveIn(st[i])
  BY <1>1 DEF Chain
<1>8. n <= Len(st)
  BY <1>2
<1>9. State(l, st2, V, lv, lo)
  BY <1>1, <1>2, <1>3, <1>4, <1>5, <1>6, <1>7, <1>8, StateTo
<1> QED BY <1>9 DEF st2

LEMMA LoggedLogs ==
    ASSUME NEW st, NEW lo, Stack(st, lo), NEW insts \in Seq(Insts), NEW V, Logs(st, V),
           Known(V, insts), Defs(insts) \subseteq V
    PROVE  Logs(Logged(st, insts), V)
<1> DEFINE st2 == Logged(st, insts)
<1>1. /\ Len(st2) = Len(st)
      /\ \A i \in 1 .. Len(st) : st2[i].kind = "loop" =>
             st[i].kind = "loop" /\ st[i].log \in Seq(Insts) /\ st2[i].log = st[i].log \o insts
  BY LoggedStack
<1> HIDE DEF st2
<1>2. ASSUME NEW i \in 1 .. Len(st), st2[i].kind = "loop"
      PROVE  Known(V, st2[i].log) /\ Defs(st2[i].log) \subseteq V
  <2> DEFINE log == st[i].log
  <2>1. log \in Seq(Insts) /\ st2[i].log = log \o insts /\ Known(V, log) /\ Defs(log) \subseteq V
    BY <1>1, <1>2 DEF Logs
  <2> HIDE DEF log
  <2>2. Known(V, log \o insts)
    BY <2>1, KnownConcat
  <2>3. Defs(log \o insts) = Defs(log) \cup Defs(insts)
    <3>1. Sound(V, log) /\ Sound(V \cup Defs(log), insts)
      BY <2>1, KnownSound DEF Known
    <3> DEFINE u == log \o insts
    <3>2. Follows(V, log, insts, u)
      BY <2>1, <3>1 DEF Follows
    <3> HIDE DEF u
    <3>3. Defs(u) = Defs(log) \cup Defs(insts)
      BY ONLY <3>2, FollowsSound
    <3> QED BY <3>3 DEF u
  <2> QED BY <2>1, <2>2, <2>3
<1> QED BY <1>1, <1>2 DEF Logs, st2

LEMMA LogsMore ==
    ASSUME NEW st, NEW V, NEW W, V \subseteq W, Logs(st, V)
    PROVE  Logs(st, W)
BY DEF Logs, Known

\* The instructions of a step are executed.
LEMMA RunConsistent ==
    ASSUME NEW mem, IsMemory(mem), mem.fault = NoFault,
           NEW insts \in Seq(Insts), Sound(DOMAIN mem.env, insts),
           NEW l, l.insts = << >>, NEW st, NEW lv \in BOOLEAN, NEW lo \in Nat,
           NEW W, W = DOMAIN mem.env \cup Defs(insts),
           State(l, st, W, lv, lo), Logs(st, W)
    PROVE  Consistent(l, Logged(st, insts), Run(mem, insts), lv)
<1> DEFINE after == Run(mem, insts)
<1>1. Leads(mem, after, Defs(insts))
  BY RunIsSound
<1> HIDE DEF after
<1>2. IsMemory(after)
  BY <1>1 DEF Leads
<1>3. ASSUME after.fault = NoFault
      PROVE  /\ State(l, Logged(st, insts), DOMAIN after.env, lv, lo)
             /\ Logs(Logged(st, insts), DOMAIN after.env)
  <2>1. DOMAIN after.env = W
    BY <1>1, <1>3 DEF Leads
  <2>2. State(l, Logged(st, insts), W, lv, lo)
    BY LoggedState
  <2>3. Stack(st, lo)
    BY DEF State
  <2>4. Known(W, insts) /\ Defs(insts) \subseteq W
    BY SoundKnown
  <2>5. Logs(Logged(st, insts), W)
    BY <2>3, <2>4, LoggedLogs
  <2> QED BY <2>1, <2>2, <2>5
<1> QED BY <1>2, <1>3 DEF Consistent, after

LEMMA RunNothing ==
    ASSUME NEW mem
    PROVE  Run(mem, << >>) = mem
<1>1. Len(<< >>) = 0
  OBVIOUS
<1> QED BY <1>1, ExecutionDef DEF Run

\* What there is when a step begins.
There == DOMAIN memory.env
From == Basis(fn, There, live)
Now(lo) ==
    /\ lo \in Nat /\ live \in BOOLEAN /\ IsMemory(memory) /\ memory.fault = NoFault
    /\ State(fn, open, There, live, lo) /\ Logs(open, There) /\ fn.insts = << >>

LEMMA NowReached ==
    ASSUME IInv, Running
    PROVE  \E lo \in Nat : Now(lo)
BY DEF IInv, Consistent, Running, Now, There

LEMMA NowTypes ==
    ASSUME NEW lo, Now(lo)
    PROVE  /\ lo \in Nat /\ lo \in 1 .. Len(open) /\ Len(open) \in Nat /\ live \in BOOLEAN
           /\ Stack(open, lo) /\ Frame(fn, open, lo, Len(open)) /\ Scoped(fn)
           /\ Ready(fn, There, live) /\ Numbered(There, fn.next) /\ Held(fn, open, lo, Len(open), There)
           /\ Len(fn.locals) = Len(open) - lo + 1 /\ Len(fn.locals) \in Nat
           /\ fn \in Lowerers /\ fn.insts = << >>
           /\ Good(From, fn) /\ Avail(From, fn) = From /\ There \subseteq From
           /\ Chain(open, live)
<1>1. State(fn, open, There, live, lo) /\ live \in BOOLEAN /\ fn.insts = << >>
  BY DEF Now
<1>2. Stack(open, lo) /\ Frame(fn, open, lo, Len(open)) /\ Ready(fn, There, live)
      /\ Numbered(There, fn.next) /\ Held(fn, open, lo, Len(open), There) /\ Chain(open, live)
  BY <1>1 DEF State
<1>3. Good(From, fn) /\ Avail(From, fn) = From /\ There \subseteq From
  BY <1>1, <1>2, BasisIsGood DEF From
<1>4. Scoped(fn) /\ Len(fn.locals) = Len(open) - lo + 1
  BY <1>2 DEF Frame
<1> QED BY <1>1, <1>2, <1>3, <1>4, StackTypes, ReadyTypes

LEMMA WriteConsistent ==
    ASSUME live \in BOOLEAN, IsMemory(memory), memory.fault = NoFault,
           NEW m \in Lowerers,
           live => Sound(There, m.insts) /\ After(m, There, live) = There \cup Defs(m.insts),
           NEW st, NEW lo \in Nat, live' \in BOOLEAN,
           State(Ended(m), st, After(m, There, live), live', lo), Logs(st, There),
           Write(m, st)
    PROVE  IInv'
<1>1. Ended(m).insts = << >> /\ m.insts \in Seq(Insts)
  BY EndedTypes DEF Lowerers
<1>2. fn' = Ended(m)
  BY DEF Write, Lowered, Ended
<1>3. CASE live
  <2>1. memory' = Run(memory, m.insts) /\ open' = Logged(st, m.insts)
    BY <1>3 DEF Write, Execute
  <2> DEFINE W == There \cup Defs(m.insts)
  <2>2. Sound(There, m.insts) /\ State(Ended(m), st, W, live', lo)
    BY <1>3
  <2>3. Logs(st, W)
    BY LogsMore
  <2> HIDE DEF W
  <2>4. W = DOMAIN memory.env \cup Defs(m.insts)
    BY DEF W, There
  <2>5. Consistent(Ended(m), Logged(st, m.insts), Run(memory, m.insts), live')
    BY <1>1, <2>2, <2>3, <2>4, RunConsistent DEF There
  <2> QED BY <1>2, <2>1, <2>5 DEF IInv
<1>4. CASE ~live
  <2>1. memory' = memory /\ open' = st
    BY <1>4 DEF Write, Execute
  <2>2. State(Ended(m), st, There, live', lo)
    BY <1>4 DEF After
  <2>3. Consistent(Ended(m), st, memory, live')
    BY <1>1, <2>2 DEF Consistent, There
  <2> QED BY <1>2, <2>1, <2>3 DEF IInv
<1> QED BY <1>3, <1>4

LEMMA EndedKeeps ==
    ASSUME NEW l, NEW m \in Lowerers
    PROVE  /\ BorrowersFrom(l, m) => BorrowersFrom(l, Ended(m))
           /\ Scoped(m) => Scoped(Ended(m))
           /\ \A st, lo, hi, was : Keeps(l, m, st, lo, hi, was) => Keeps(l, Ended(m), st, lo, hi, was)
<1>1. /\ Ended(m).locals = m.locals /\ Ended(m).pending = m.pending
      /\ Ended(m).deferred = m.deferred /\ Ended(m).diverged = m.diverged
  BY EndedTypes
<1>2. \A st, i, hi, k : Inside(m, st, i, hi, k) => Inside(Ended(m), st, i, hi, k)
  BY <1>1 DEF Inside
<1>3. \A st, i, hi, was : KeepsDeferred(l, m, st, i, hi, was) => KeepsDeferred(l, Ended(m), st, i, hi, was)
  BY <1>1, <1>2 DEF KeepsDeferred
<1>4. \A p : DeclaredTo(Ended(m), p) = DeclaredTo(m, p) /\ BoundTo(Ended(m), p) = BoundTo(m, p)
  BY <1>1 DEF DeclaredTo, BoundTo
<1>5. \A e, p : KeepsScopes(l, m, e, p) => KeepsScopes(l, Ended(m), e, p)
  BY <1>1, <1>4 DEF KeepsScopes
<1>6. \A st, lo, hi, was : Keeps(l, m, st, lo, hi, was) => Keeps(l, Ended(m), st, lo, hi, was)
  BY <1>3, <1>5 DEF Keeps
<1>7. BorrowersFrom(l, m) => BorrowersFrom(l, Ended(m))
  BY <1>1 DEF BorrowersFrom
<1>8. Scoped(m) => Scoped(Ended(m))
  BY <1>1 DEF Scoped
<1> QED BY <1>6, <1>7, <1>8

\* m follows fn where the structures up to hi stay open.
LEMMA StateFrom ==
    ASSUME NEW lo, Now(lo), NEW hi \in Nat, lo <= hi, hi <= Len(open),
           NEW st2, Len(st2) = hi, DOMAIN st2 = 1 .. hi, st2 = [i \in 1 .. hi |-> st2[i]],
           \A i \in 1 .. hi : st2[i] = open[i],
           NEW m, Moves(From, fn, m), Scoped(m), Len(m.locals) = hi - lo + 1,
           Keeps(fn, m, open, lo, hi, Len(open)),
           NEW lv2 \in BOOLEAN, lv2 => live /\ ~m.diverged, m.diverged => m.returns \in Types
    PROVE  /\ State(Ended(m), st2, After(m, There, live), lv2, lo)
           /\ m \in Lowerers
           /\ live => Sound(There, m.insts) /\ After(m, There, live) = There \cup Defs(m.insts)
<1> DEFINE W == After(m, There, live)
           f == Ended(m)
<1>1. /\ Ready(fn, There, live) /\ Numbered(There, fn.next) /\ fn.insts = << >> /\ live \in BOOLEAN
      /\ State(fn, open, There, live, lo) /\ lo \in Nat
  BY NowTypes DEF Now
<1>2. /\ Ready(m, W, lv2) /\ Numbered(W, m.next) /\ fn.next <= m.next
      /\ There \subseteq W /\ \A d \in W : d \in There \/ d >= fn.next
      /\ live => Sound(There, m.insts) /\ W = There \cup Defs(m.insts)
      /\ m \in Lowerers
  BY <1>1, MovesReady DEF From
<1> HIDE DEF W
<1>3. Ready(f, W, lv2) /\ Numbered(W, f.next) /\ fn.next <= f.next
      /\ f.locals = m.locals
  BY <1>2, EndedReady, EndedTypes
<1>4. BorrowersFrom(fn, f) /\ Scoped(f) /\ Keeps(fn, f, open, lo, hi, Len(open))
  BY <1>2, EndedKeeps DEF Moves
<1>5. lv2 => \A i \in 1 .. hi : LiveIn(open[i])
  <2>1. Chain(open, live) /\ Len(open) \in Nat
    BY NowTypes
  <2> QED BY <2>1 DEF Chain
<1>6. \A i \in 1 .. hi : Alike(open[i], st2[i])
  BY DEF Alike
<1>7. Len(f.locals) = hi - lo + 1
  BY <1>3
<1> HIDE DEF f
<1>8. State(f, st2, W, lv2, lo)
  BY <1>1, <1>2, <1>3, <1>4, <1>5, <1>6, <1>7, StateTo
<1> QED BY <1>2, <1>8 DEF W, f

\* A statement that opens and closes nothing.
LEMMA StatementConsistent ==
    ASSUME NEW lo, Now(lo), NEW m, Moves(From, fn, m), Scoped(m), Len(m.locals) = Len(fn.locals),
           Keeps(fn, m, open, lo, Len(open), Len(open)),
           live' \in BOOLEAN, live' => live /\ ~m.diverged, m.diverged => m.returns \in Types,
           Write(m, open)
    PROVE  IInv'
<1>1. /\ lo \in Nat /\ lo <= Len(open) /\ Len(open) \in Nat /\ Stack(open, lo)
      /\ Len(fn.locals) = Len(open) - lo + 1
  BY NowTypes
<1>2. DOMAIN open = 1 .. Len(open) /\ open = [i \in 1 .. Len(open) |-> open[i]]
  BY <1>1 DEF Stack
<1>3. Len(open) <= Len(open) /\ Len(m.locals) = Len(open) - lo + 1
  BY <1>1
<1>4. /\ State(Ended(m), open, After(m, There, live), live', lo)
      /\ m \in Lowerers
      /\ live => Sound(There, m.insts) /\ After(m, There, live) = There \cup Defs(m.insts)
  BY <1>1, <1>2, <1>3, StateFrom
<1> QED BY <1>1, <1>4, WriteConsistent DEF Now

LEMMA SameKeepsScopes ==
    ASSUME NEW l, NEW m, m.locals = l.locals, m.pending = l.pending, NEW e, NEW p
    PROVE  KeepsScopes(l, m, e, p)
BY DEF KeepsScopes, DeclaredTo, BoundTo

LEMMA KeepsDeferredOn ==
    ASSUME NEW l \in Lowerers, NEW m \in Lowerers, Prefix(l.deferred, m.deferred),
           NEW st, NEW lo, Stack(st, lo), Frame(l, st, lo, Len(st)),
           m.diverged = l.diverged,
           ~(InLoop(st) /\ Len(m.deferred) > Len(l.deferred)),
           NEW i \in lo + 1 .. Len(st)
    PROVE  KeepsDeferred(l, m, st, i, Len(st), Len(st))
<1> DEFINE n == Len(st)
<1>1. /\ n \in Nat /\ lo \in Nat /\ lo >= 1 /\ DOMAIN st = 1 .. n
      /\ Len(l.deferred) \in Nat /\ Len(m.deferred) \in Nat
  BY StackTypes DEF Stack, Lowerers
<1>2. \A j \in lo + 1 .. n : st[j] \in Blocks /\ (st[j].kind = "if" => st[j].mark \in Nat /\ st[j].mark <= Len(l.deferred))
  <2> TAKE j \in lo + 1 .. n
  <2>1. Below(l, st[j], j - lo)
    BY DEF Frame
  <2> QED BY <2>1, BlockTypes DEF Below
<1>3. st[i].kind = "if" => /\ st[i].mark <= Len(m.deferred)
                           /\ \A k \in 1 .. st[i].mark : m.deferred[k] = l.deferred[k]
  BY <1>1, <1>2 DEF Prefix
<1>4. ASSUME st[i].kind = "loop", NEW k \in 1 .. Len(m.deferred)
      PROVE  \/ Inside(m, st, i, n, k)
             \/ k <= Len(l.deferred) /\ m.deferred[k] = l.deferred[k] /\ ~Inside(l, st, i, n, k)
  <2>1. CASE k <= Len(l.deferred)
    <3>1. m.deferred[k] = l.deferred[k]
      BY <1>1, <2>1 DEF Prefix
    <3> QED BY <2>1, <3>1 DEF Inside
  <2>2. CASE k > Len(l.deferred)
    <3>1. ~InLoop(st)
      BY <1>1, <2>2
    <3>2. PICK j \in i .. n : st[j].kind \in {"if", "call"}
      BY <1>1, <1>4, <3>1 DEF InLoop
    <3>3. j \in lo + 1 .. n /\ j \in i + 1 .. n /\ st[j].kind = "if"
      <4>1. j \in lo + 1 .. n /\ j # i
        BY <1>1, <1>4, <3>2
      <4>2. st[j].kind # "call"
        BY <1>2, <4>1, BlockTypes
      <4> QED BY <3>2, <4>1, <4>2
    <3>4. st[j].mark < k
      BY <1>1, <1>2, <2>2, <3>3
    <3> QED BY <3>3, <3>4 DEF Inside
  <2> QED BY <1>1, <2>1, <2>2
<1> QED BY <1>3, <1>4 DEF KeepsDeferred

-----------------------------------------------------------------------------
(* Statements.                                                              *)

\* The shapes of program for which no release is misplaced.
ShapesExcluded == {"TupleEscapes", "PendingInBlock", "DeferredInLoop"} \subseteq Excluded

LEMMA StatementDef ==
    ASSUME NEW kind, Statement(kind)
    PROVE  Running /\ ~fn.diverged
BY DEF Statement

LEMMA GoesStatement ==
    ASSUME NEW lo, Now(lo), NEW m, Goes(From, fn, m), ~fn.diverged,
           ~(InLoop(open) /\ Len(m.deferred) > Len(fn.deferred)), Write(m, open), live' = live
    PROVE  IInv'
<1>1. /\ fn \in Lowerers /\ m \in Lowerers /\ Moves(From, fn, m)
      /\ m.locals = fn.locals /\ m.pending = fn.pending /\ m.diverged = fn.diverged
      /\ Prefix(fn.deferred, m.deferred)
  BY NowTypes, GoodTypes DEF Goes, Moves, SameScopes
<1>2. Stack(open, lo) /\ Frame(fn, open, lo, Len(open)) /\ live \in BOOLEAN /\ Scoped(fn)
  BY NowTypes
<1>3. Scoped(m)
  BY <1>1, <1>2 DEF Scoped
<1>4. Keeps(fn, m, open, lo, Len(open), Len(open))
  BY <1>1, <1>2, KeepsDeferredOn, SameKeepsScopes DEF Keeps
<1>5. Len(m.locals) = Len(fn.locals)
  BY <1>1
<1>6. live' \in BOOLEAN /\ (live' => live /\ ~m.diverged) /\ (m.diverged => m.returns \in Types)
  BY <1>1, <1>2
<1> QED BY <1>1, <1>3, <1>4, <1>5, <1>6, StatementConsistent

LEMMA StoreRelvarStep ==
    ASSUME IInv, StoreRelvar
    PROVE  IInv'
<1>1. Running /\ ~fn.diverged
  BY StatementDef DEF StoreRelvar
<1>2. PICK lo \in Nat : Now(lo)
  BY <1>1, NowReached
<1>3. PICK e \in RelExprs(fn) :
        Write(Emit(LowerExpr(fn, e).l, "RelvarSlotStore", LowerExpr(fn, e).v), open) /\ live' = live
  BY DEF StoreRelvar
<1> DEFINE o == LowerExpr(fn, e)
           m == Emit(o.l, "RelvarSlotStore", o.v)
<1>4. Good(From, fn) /\ fn \in Lowerers
  BY <1>2, NowTypes
<1>5. Lowers(From, fn, o) /\ o.l.deferred = fn.deferred
  BY <1>4, PlainExprsDeferNothing
<1> HIDE DEF o
<1>6. Goes(From, fn, o.l) /\ Good(From, o.l) /\ o.v \in Avail(From, o.l)
  BY <1>5, GoesGood DEF Lowers
<1>7. Emits(From, o.l, m)
  BY <1>6, ReleaseEmits
<1>8. Write(m, open)
  BY <1>3 DEF o
<1> HIDE DEF m
<1>9. Goes(From, fn, m) /\ m.deferred = fn.deferred
  BY <1>4, <1>5, <1>6, <1>7, GoesOn DEF Emits
<1>10. ~(InLoop(open) /\ Len(m.deferred) > Len(fn.deferred))
  <2>1. Len(fn.deferred) \in Nat
    BY <1>4, GoodTypes
  <2> QED BY <1>9, <2>1
<1> QED BY <1>1, <1>2, <1>3, <1>8, <1>9, <1>10, GoesStatement

LEMMA CallBuiltinStep ==
    ASSUME ShapesExcluded, IInv, CallBuiltin
    PROVE  IInv'
<1>1. Running /\ ~fn.diverged
  BY StatementDef DEF CallBuiltin
<1>2. PICK lo \in Nat : Now(lo)
  BY <1>1, NowReached
<1>3. PICK e \in TextExprs(fn) :
        LET o == LowerExpr(fn, e)
        IN  /\ Excludes("DeferredInLoop", DeferredInLoop(o.l))
            /\ Write(ReleaseTextTemp(Emit(o.l, "Use", o.v), o.v), open) /\ live' = live
  BY DEF CallBuiltin
<1> DEFINE o == LowerExpr(fn, e)
           u == Emit(o.l, "Use", o.v)
           m == ReleaseTextTemp(u, o.v)
<1>4. Good(From, fn) /\ fn \in Lowerers
  BY <1>2, NowTypes
<1>5. e \in Exprs(fn)
  BY ExprsAreWritten
<1>6. Lowers(From, fn, o)
  BY <1>4, <1>5, ExprsLower
<1>7. ~DeferredInLoop(o.l) /\ Write(m, open) /\ live' = live
  BY <1>3 DEF ShapesExcluded, Excludes
<1> HIDE DEF o
<1>8. Goes(From, fn, o.l) /\ Good(From, o.l) /\ o.v \in Avail(From, o.l) /\ o.l \in Lowerers
  BY <1>6, GoesGood, GoodTypes DEF Lowers
<1>9. Emits(From, o.l, u)
  BY <1>8, ReleaseEmits
<1> HIDE DEF u
<1>10. Good(From, u) /\ o.v \in Avail(From, u)
  BY <1>8, <1>9, EmitsGood
<1>11. Emits(From, u, m)
  BY <1>10, ReleaseEmits
<1> HIDE DEF m
<1>12. Emits(From, o.l, m)
  BY <1>8, <1>9, <1>11, EmitsOn
<1>13. Goes(From, fn, m) /\ m.deferred = o.l.deferred
  BY <1>4, <1>8, <1>12, GoesOn DEF Emits
<1>14. ~(InLoop(open) /\ Len(m.deferred) > Len(fn.deferred))
  BY <1>7, <1>13 DEF DeferredInLoop
<1> QED BY <1>1, <1>2, <1>7, <1>13, <1>14, GoesStatement

LEMMA LeastExists ==
    ASSUME NEW S \in SUBSET Nat, S # {}
    PROVE  Min(S) \in S
<1>1. \E x \in S : \A y \in S : x <= y
  <2> SUFFICES ASSUME \A x \in S : \E y \in S : ~(x <= y) PROVE FALSE
    OBVIOUS
  <2> DEFINE T == {k \in Nat : \A j \in 0 .. k : j \notin S}
  <2>1. 0 \in T
    <3>1. 0 \notin S
      OBVIOUS
    <3> QED BY <3>1
  <2>2. \A k \in Nat : k \in T => k + 1 \in T
    <3> TAKE k \in Nat
    <3>1. ASSUME k \in T PROVE k + 1 \in T
      <4>1. \A j \in 0 .. k : j \notin S
        BY <3>1
      <4>2. k + 1 \notin S
        <5> SUFFICES ASSUME k + 1 \in S PROVE FALSE
          OBVIOUS
        <5>1. PICK y \in S : ~(k + 1 <= y)
          OBVIOUS
        <5>2. y \in 0 .. k
          BY <5>1
        <5> QED BY <4>1, <5>2
      <4>3. \A j \in 0 .. k + 1 : j \in 0 .. k \/ j = k + 1
        OBVIOUS
      <4> QED BY <4>1, <4>2, <4>3
    <3> QED BY <3>1
  <2> HIDE DEF T
  <2>3. \A k \in Nat : k \in T
    BY <2>1, <2>2, CountInduction
  <2>4. \A k \in Nat : k \notin S
    BY <2>3 DEF T
  <2> QED BY <2>4
<1> QED BY <1>1 DEF Min

LEMMA FreeNameIsFree ==
    ASSUME NEW l \in Lowerers, Len(l.pending) = Len(l.locals),
           Names \ DeclaredTo(l, Len(l.locals)) # {}
    PROVE  /\ FreeName(l) \in Names
           /\ \A k \in 1 .. Len(l.locals) : FreeName(l) \notin DOMAIN l.locals[k] /\ FreeName(l) \notin l.pending[k]
<1>1. /\ Len(l.locals) \in Nat /\ DOMAIN l.locals = 1 .. Len(l.locals)
      /\ DOMAIN l.pending = 1 .. Len(l.locals)
      /\ \A k \in 1 .. Len(l.locals) : l.locals[k] \in Layers /\ l.pending[k] \in Pendings
  <2>1. l.locals \in Seq(Layers) /\ l.pending \in Seq(Pendings)
    BY DEF Lowerers
  <2> QED BY <2>1
<1>2. \A x : x \in Declared(l) <=> \E k \in 1 .. Len(l.locals) : x \in DOMAIN l.locals[k] \/ x \in l.pending[k]
  BY <1>1 DEF Declared, Range
<1>3. Names \ Declared(l) = Names \ DeclaredTo(l, Len(l.locals))
  BY <1>2 DEF DeclaredTo
<1>4. FreeName(l) \in Names \ Declared(l)
  BY <1>3, LeastExists, ConstantsAssumption DEF FreeName
<1> QED BY <1>2, <1>4

LEMMA HasFreeNameDef ==
    ASSUME NEW l \in Lowerers, Len(l.pending) = Len(l.locals), HasFreeName(l)
    PROVE  Names \ DeclaredTo(l, Len(l.locals)) # {}
<1>1. /\ Len(l.locals) \in Nat /\ DOMAIN l.locals = 1 .. Len(l.locals)
      /\ DOMAIN l.pending = 1 .. Len(l.locals)
  <2>1. l.locals \in Seq(Layers) /\ l.pending \in Seq(Pendings)
    BY DEF Lowerers
  <2> QED BY <2>1
<1>2. \A x : x \in Declared(l) <=> \E k \in 1 .. Len(l.locals) : x \in DOMAIN l.locals[k] \/ x \in l.pending[k]
  BY <1>1 DEF Declared, Range
<1> QED BY <1>2 DEF DeclaredTo, HasFreeName

\* o is m with other scopes, whose names stand for values that are there.
Rescopes(D, m, o) ==
    /\ o \in Lowerers
    /\ o.insts = m.insts /\ o.temps = m.temps /\ o.heads = m.heads /\ o.next = m.next
    /\ Len(o.deferred) <= Len(m.deferred)
    /\ \A k \in 1 .. Len(o.deferred) : o.deferred[k] = m.deferred[k]
    /\ \A k \in 1 .. Len(o.locals) : \A n \in DOMAIN o.locals[k] :
          /\ o.locals[k][n].v \in Avail(D, m)
          /\ \A j \in 1 .. Len(o.deferred) :
                o.deferred[j].flat = o.locals[k][n].v => o.locals[k][n].ty = "Flat"

LEMMA RescopeMoves ==
    ASSUME NEW D, NEW l, NEW m, Moves(D, l, m), NEW o, Rescopes(D, m, o)
    PROVE  Moves(D, l, o)
<1>1. m \in Lowerers /\ Good(D, m) /\ Len(m.deferred) \in Nat /\ Len(o.deferred) \in Nat
  BY GoodTypes DEF Moves, Rescopes, Lowerers
<1>2. o \in Lowerers /\ o.insts = m.insts /\ o.temps = m.temps /\ o.heads = m.heads /\ o.next = m.next
  BY DEF Rescopes
<1>3. Avail(D, o) = Avail(D, m)
  BY <1>2 DEF Avail
<1>4. LocalsIn(o, Avail(D, o))
  BY <1>3 DEF LocalsIn, Rescopes
<1>5. \A k \in 1 .. Len(o.deferred) : k \in 1 .. Len(m.deferred) /\ o.deferred[k] = m.deferred[k]
  BY <1>1 DEF Rescopes
<1>6. DeferredIn(o, Avail(D, o))
  BY <1>1, <1>3, <1>5 DEF DeferredIn, Good
<1>7. BorrowersIn(o)
  <2> SUFFICES ASSUME NEW k \in 1 .. Len(o.deferred) PROVE Borrows(o, o.deferred[k].flat)
    BY DEF BorrowersIn
  <2>1. Borrows(m, o.deferred[k].flat)
    BY <1>1, <1>5 DEF Good, BorrowersIn
  <2>2. \A j \in 1 .. Len(o.locals) : \A n \in DOMAIN o.locals[j] :
           o.locals[j][n].v = o.deferred[k].flat => o.locals[j][n].ty = "Flat"
    BY DEF Rescopes
  <2> QED BY <1>2, <2>1, <2>2 DEF Borrows
<1>8. TempsIn(o, Avail(D, o)) /\ HeadsIn(o) /\ Numbered(Avail(D, o), o.next) /\ Sound(D, o.insts)
  BY <1>1, <1>2, <1>3 DEF Good, TempsIn, HeadsIn
<1>9. Good(D, o)
  BY <1>2, <1>4, <1>6, <1>7, <1>8 DEF Good
<1>10. TempsFrom(l, o) /\ HeadsFrom(l, o) /\ AvailFrom(D, l, o) /\ l.next <= o.next
  BY <1>2, <1>3 DEF Moves, TempsFrom, HeadsFrom, AvailFrom
<1>11. BorrowersFrom(l, o)
  BY <1>5 DEF Moves, BorrowersFrom
<1> QED BY <1>9, <1>10, <1>11 DEF Moves

LEMMA PutLayer ==
    ASSUME NEW f \in Layers, NEW n \in Names, NEW b \in Bnds
    PROVE  Put(f, n, b) \in Layers
<1>1. PICK S \in SUBSET Names : f \in [S -> Bnds]
  BY DEF Layers
<1>2. Put(f, n, b) \in [S \cup {n} -> Bnds] /\ S \cup {n} \in SUBSET Names
  BY <1>1 DEF Put
<1> QED BY <1>2 DEF Layers

\* The value of an expression that a tuple borrows from is a tuple's.
LEMMA LowersFlat ==
    ASSUME NEW D, NEW l, Good(D, l), NEW o, Lowers(D, l, o)
    PROVE  /\ \A k \in 1 .. Len(o.l.deferred) :
                 /\ o.l.deferred[k].flat = o.v => o.ty = "Flat"
                 /\ o.l.deferred[k].flat # NoValue
           /\ Binding(o) \in Bnds /\ o.v \in Nat /\ Good(D, o.l) /\ o.l \in Lowerers
<1>1. /\ Good(D, o.l) /\ o.v \in Avail(D, o.l) /\ o.ty \in Flows /\ Goes(D, l, o.l) /\ l \in Lowerers
      /\ o.l \in Lowerers
  BY GoesGood, GoodTypes DEF Lowers
<1>2. o.v \in Nat /\ l.next \in Nat /\ Len(l.deferred) \in Nat
  BY <1>1, GoodTypes
<1>3. ASSUME NEW k \in 1 .. Len(o.l.deferred)
      PROVE  /\ o.l.deferred[k].flat = o.v => o.ty = "Flat"
             /\ o.l.deferred[k].flat # NoValue
  <2> DEFINE f == o.l.deferred[k].flat
  <2>1. o.l.deferred[k] \in Deferrals
    BY <1>1 DEF Lowerers
  <2>2. f \in Nat \cup {ExtractSource} /\ f # NoValue
    BY <2>1 DEF Deferrals, ExtractSource, NoValue
  <2>3. ASSUME f = o.v, l.next <= o.v PROVE FALSE
    <3>1. f # ExtractSource
      BY <1>2, <2>3 DEF ExtractSource
    <3>2. k <= Len(l.deferred)
      BY <1>1, <3>1 DEF Goes
    <3>3. k \in 1 .. Len(l.deferred)
      BY <1>2, <3>2
    <3>4. o.l.deferred[k] = l.deferred[k]
      BY <1>1, <3>3 DEF Goes, Prefix
    <3>5. Borrows(l, f)
      BY <3>3, <3>4 DEF Good, BorrowersIn
    <3>6. f < l.next
      BY <3>5 DEF Borrows
    <3> QED BY <1>2, <2>3, <3>6
  <2>4. ASSUME f = o.v, o.l = l, NamedBy(l, o.v, o.ty) PROVE o.ty = "Flat"
    <3>1. Borrows(l, f)
      BY <2>4 DEF Good, BorrowersIn
    <3> QED BY <2>4, <3>1 DEF Borrows, NamedBy
  <2>5. f = o.v => o.ty = "Flat"
    BY <2>3, <2>4 DEF Lowers
  <2> QED BY <2>2, <2>5
<1>4. Binding(o) \in Bnds
  BY <1>1, <1>2 DEF Binding, Bnds
<1> QED BY <1>1, <1>2, <1>3, <1>4

LEMMA BoundEmits ==
    ASSUME NEW D, NEW o, Good(D, o.l), o.v \in Avail(D, o.l), NEW e
    PROVE  Emits(D, o.l, Bound(o, e))
<1>1. o.v \in Nat
  BY GoodTypes
<1> DEFINE r == Emit(o.l, "Retain", o.v)
<1>2. Emits(D, o.l, r)
  BY ReleaseEmits
<1> HIDE DEF r
<1>3. Emits(D, o.l, MarkOwned(r, o.v))
  <2>1. Goes(D, o.l, MarkOwned(r, o.v))
    BY <1>1, <1>2, OwnGoes DEF Emits
  <2>2. MarkOwned(r, o.v).deferred = r.deferred
    <3>1. r \in Lowerers
      BY <1>2, EmitsGood, GoodTypes
    <3> QED BY <3>1 DEF MarkOwned, Lowerers
  <2> QED BY <1>2, <2>1, <2>2 DEF Emits
<1>4. Emits(D, o.l, o.l)
  BY EmitsSame
<1>5. Bound(o, e) \in {MarkOwned(r, o.v), r, o.l}
  BY DEF Bound, r
<1> QED BY <1>2, <1>3, <1>4, <1>5

\* m is l but for the name n of a layer, and what is pending there.
Renames(l, m, layer, n) ==
    /\ Len(m.locals) = Len(l.locals) /\ Len(m.pending) = Len(l.pending)
    /\ \A k \in 1 .. Len(l.locals) :
          /\ DOMAIN m.locals[k] = DOMAIN l.locals[k] \cup (IF k = layer THEN {n} ELSE {})
          /\ \A x \in DOMAIN l.locals[k] : (k = layer /\ x = n) \/ m.locals[k][x] = l.locals[k][x]
          /\ m.pending[k] = l.pending[k] \ {n}

LEMMA RenamesScoped ==
    ASSUME NEW l, Scoped(l), Len(l.locals) \in Nat, NEW m, NEW layer \in 1 .. Len(l.locals), NEW n \in Names,
           Renames(l, m, layer, n),
           \A k \in 1 .. Len(l.locals) : n \in DOMAIN l.locals[k] => k = layer
    PROVE  Scoped(m)
<1> DEFINE N == Len(l.locals)
<1>1. Len(m.locals) = N /\ Len(m.pending) = N /\ N > 0
  BY DEF Scoped, Renames
<1>2. ASSUME NEW i \in 1 .. N, NEW j \in 1 .. N, NEW x \in Names
      PROVE  /\ x \in DOMAIN m.locals[i] /\ x \in DOMAIN m.locals[j] => i = j
             /\ x \in m.pending[i] /\ x \in m.pending[j] => i = j
             /\ ~(x \in DOMAIN m.locals[i] /\ x \in m.pending[j])
  <2>1. /\ x \in DOMAIN l.locals[i] /\ x \in DOMAIN l.locals[j] => i = j
        /\ x \in l.pending[i] /\ x \in l.pending[j] => i = j
        /\ ~(x \in DOMAIN l.locals[i] /\ x \in l.pending[j])
    BY DEF Scoped
  <2>2. CASE x = n
    <3>1. (n \in DOMAIN m.locals[i] => i = layer) /\ (n \in DOMAIN m.locals[j] => j = layer)
      BY DEF Renames
    <3>2. n \notin m.pending[i] /\ n \notin m.pending[j]
      BY DEF Renames
    <3> QED BY <2>2, <3>1, <3>2
  <2>3. CASE x # n
    <3>1. /\ x \in DOMAIN m.locals[i] => x \in DOMAIN l.locals[i]
          /\ x \in DOMAIN m.locals[j] => x \in DOMAIN l.locals[j]
          /\ x \in m.pending[i] => x \in l.pending[i]
          /\ x \in m.pending[j] => x \in l.pending[j]
      BY <2>3 DEF Renames
    <3> QED BY <2>1, <3>1
  <2> QED BY <2>2, <2>3
<1> QED BY <1>1, <1>2 DEF Scoped

LEMMA RenamesKeeps ==
    ASSUME NEW l, Len(l.locals) \in Nat, NEW m, NEW layer \in 1 .. Len(l.locals), NEW n \in Names,
           Renames(l, m, layer, n), NEW e, NEW p \in Nat, p <= Len(l.locals),
           p < layer \/ n \in DOMAIN l.locals[layer] \/ n \in l.pending[layer],
           Carries(e) => p < layer \/ (n \in DOMAIN l.locals[layer] /\ n \in DOMAIN e.carried)
    PROVE  KeepsScopes(l, m, e, p)
<1>1. \A k \in 1 .. p : k \in 1 .. Len(l.locals)
  OBVIOUS
<1>2. DeclaredTo(m, p) \subseteq DeclaredTo(l, p)
  <2> SUFFICES ASSUME NEW x \in Names, NEW k \in 1 .. p, x \in DOMAIN m.locals[k] \/ x \in m.pending[k]
               PROVE  x \in DeclaredTo(l, p)
    BY DEF DeclaredTo
  <2>1. CASE k = layer /\ x = n
    BY <2>1 DEF DeclaredTo
  <2>2. CASE ~(k = layer /\ x = n)
    <3>1. x \in DOMAIN l.locals[k] \/ x \in l.pending[k]
      BY <1>1, <2>2 DEF Renames
    <3> QED BY <3>1 DEF DeclaredTo
  <2> QED BY <2>1, <2>2
<1>3. ASSUME Carries(e)
      PROVE  /\ BoundTo(m, p) = BoundTo(l, p)
             /\ \A k \in 1 .. p : \A x \in DOMAIN m.locals[k] :
                   \/ x \in DOMAIN e.carried
                   \/ x \in DOMAIN l.locals[k] /\ m.locals[k][x] = l.locals[k][x]
  <2>1. \A k \in 1 .. p : DOMAIN m.locals[k] = DOMAIN l.locals[k]
    <3> TAKE k \in 1 .. p
    <3>1. DOMAIN m.locals[k] = DOMAIN l.locals[k] \cup (IF k = layer THEN {n} ELSE {})
      BY <1>1 DEF Renames
    <3>2. k = layer => n \in DOMAIN l.locals[k]
      BY <1>3
    <3> QED BY <3>1, <3>2
  <2>2. BoundTo(m, p) = BoundTo(l, p)
    BY <2>1 DEF BoundTo
  <2>3. ASSUME NEW k \in 1 .. p, NEW x \in DOMAIN m.locals[k]
        PROVE  \/ x \in DOMAIN e.carried
               \/ x \in DOMAIN l.locals[k] /\ m.locals[k][x] = l.locals[k][x]
    BY <1>1, <1>3, <2>1 DEF Renames
  <2> QED BY <2>2, <2>3
<1> QED BY <1>2, <1>3 DEF KeepsScopes

\* A name of a layer can be bound to b.
Bindable(D, m, layer, n, b) ==
    /\ layer \in 1 .. Len(m.locals) /\ n \in Names /\ b \in Bnds /\ b.v \in Avail(D, m)
    /\ \A j \in 1 .. Len(m.deferred) : m.deferred[j].flat = b.v => b.ty = "Flat"
    /\ Len(m.pending) = Len(m.locals)
Unpends(m, n, pending) ==
    /\ pending \in Seq(Pendings) /\ Len(pending) = Len(m.pending)
    /\ \A k \in 1 .. Len(m.pending) : pending[k] = m.pending[k] \ {n}

Rebinds(m, o, layer, n, b, pending, unset) ==
    o = [BindAt(m, layer, n, b) EXCEPT !.pending = pending, !.unset = unset]

LEMMA BindMoves ==
    ASSUME NEW D, NEW l, NEW m, Moves(D, l, m), NEW layer, NEW n, NEW b, Bindable(D, m, layer, n, b),
           NEW pending, Unpends(m, n, pending), NEW unset \in SUBSET Names,
           NEW o, Rebinds(m, o, layer, n, b, pending, unset)
    PROVE  /\ Moves(D, l, o) /\ Renames(m, o, layer, n)
           /\ o.deferred = m.deferred /\ o.diverged = m.diverged /\ o.returns = m.returns
<1> DEFINE locals == [m.locals EXCEPT ![layer] = Put(@, n, b)]
<1>0. /\ layer \in 1 .. Len(m.locals) /\ n \in Names /\ b \in Bnds /\ b.v \in Avail(D, m)
      /\ \A j \in 1 .. Len(m.deferred) : m.deferred[j].flat = b.v => b.ty = "Flat"
      /\ Len(m.pending) = Len(m.locals)
  BY DEF Bindable
<1>1. /\ Good(D, m) /\ m \in Lowerers
      /\ m.locals \in Seq(Layers) /\ Len(m.locals) \in Nat /\ DOMAIN m.locals = 1 .. Len(m.locals)
      /\ m.deferred \in Seq(Deferrals) /\ Len(m.deferred) \in Nat
      /\ m.diverged \in BOOLEAN /\ m.returns \in Types \cup {AnyType}
  BY GoodTypes DEF Moves, Lowerers
<1>2. m.locals[layer] \in Layers /\ Put(m.locals[layer], n, b) \in Layers
  <2>1. m.locals[layer] \in Layers
    BY <1>0, <1>1
  <2> QED BY <1>0, <2>1, PutLayer
<1>3. locals \in Seq(Layers) /\ Len(locals) = Len(m.locals)
  BY <1>0, <1>1, <1>2
<1>4. \A k \in 1 .. Len(locals) :
        /\ DOMAIN locals[k] = DOMAIN m.locals[k] \cup (IF k = layer THEN {n} ELSE {})
        /\ \A x \in DOMAIN locals[k] :
              locals[k][x] = IF k = layer /\ x = n THEN b ELSE m.locals[k][x]
        /\ \A x \in DOMAIN locals[k] : (k = layer /\ x = n) \/ x \in DOMAIN m.locals[k]
  <2> TAKE k \in 1 .. Len(locals)
  <2>1. k \in 1 .. Len(m.locals)
    BY <1>3
  <2>2. CASE k # layer
    <3>1. locals[k] = m.locals[k]
      BY <1>1, <2>1, <2>2
    <3> HIDE DEF locals
    <3> QED BY <2>2, <3>1
  <2>3. CASE k = layer
    <3>1. locals[k] = Put(m.locals[k], n, b)
      BY <1>1, <2>1, <2>3
    <3> DEFINE f == m.locals[k]
    <3>2. locals[k] = Put(f, n, b)
      BY <3>1
    <3> HIDE DEF locals
    <3> SUFFICES /\ DOMAIN locals[k] = DOMAIN f \cup {n}
                 /\ \A x \in DOMAIN locals[k] : locals[k][x] = IF x = n THEN b ELSE f[x]
      BY <2>3
    <3> HIDE DEF f
    <3>3. /\ DOMAIN Put(f, n, b) = DOMAIN f \cup {n}
          /\ \A x \in DOMAIN f \cup {n} : Put(f, n, b)[x] = IF x = n THEN b ELSE f[x]
      BY DEF Put
    <3> DEFINE g == Put(f, n, b)
    <3>4. /\ DOMAIN g = DOMAIN f \cup {n} /\ locals[k] = g
          /\ \A x \in DOMAIN g : g[x] = IF x = n THEN b ELSE f[x]
      BY <3>2, <3>3
    <3> HIDE DEF g
    <3> QED BY <3>4
  <2> QED BY <2>2, <2>3
<1>5. o = [m EXCEPT !.locals = locals, !.pending = pending, !.unset = unset]
  BY <1>1 DEF BindAt, Lowerers, Rebinds
<1> HIDE DEF locals
<1>7. /\ o \in Lowerers /\ o.locals = locals /\ o.pending = pending /\ o.deferred = m.deferred
      /\ o.diverged = m.diverged /\ o.returns = m.returns
      /\ o.insts = m.insts /\ o.temps = m.temps /\ o.heads = m.heads /\ o.next = m.next
  BY <1>1, <1>3, <1>5 DEF Lowerers, Unpends
<1>6. \A k \in 1 .. Len(locals) : \A x \in DOMAIN locals[k] :
              /\ locals[k][x].v \in Avail(D, m)
              /\ \A j \in 1 .. Len(m.deferred) :
                    m.deferred[j].flat = locals[k][x].v => locals[k][x].ty = "Flat"
  <2> TAKE k \in 1 .. Len(locals)
  <2> TAKE x \in DOMAIN locals[k]
  <2>1. CASE k = layer /\ x = n
    BY <1>0, <1>4, <2>1
  <2>2. CASE ~(k = layer /\ x = n)
    <3>1. k \in 1 .. Len(m.locals) /\ x \in DOMAIN m.locals[k] /\ locals[k][x] = m.locals[k][x]
      BY <1>3, <1>4, <2>2
    <3> QED BY <1>1, <3>1 DEF Good, LocalsIn, BorrowersIn, Borrows
  <2> QED BY <2>1, <2>2
<1>9. Rescopes(D, m, o)
  BY <1>1, <1>6, <1>7 DEF Rescopes
<1>10. Renames(m, o, layer, n)
  BY <1>0, <1>3, <1>4, <1>7 DEF Renames, Unpends
<1> QED BY <1>7, <1>9, <1>10, RescopeMoves

LEMMA BindFreshMoves ==
    ASSUME NEW D, NEW l, NEW m, Moves(D, l, m), NEW layer, NEW n, NEW b, Bindable(D, m, layer, n, b),
           \A k \in 1 .. Len(m.locals) : n \notin m.pending[k]
    PROVE  /\ Moves(D, l, BindAt(m, layer, n, b)) /\ Renames(m, BindAt(m, layer, n, b), layer, n)
           /\ BindAt(m, layer, n, b).deferred = m.deferred
           /\ BindAt(m, layer, n, b).diverged = m.diverged
           /\ BindAt(m, layer, n, b).returns = m.returns
<1> DEFINE pending == m.pending
           unset == m.unset
           o == BindAt(m, layer, n, b)
<1>1. /\ m \in Lowerers /\ Len(m.locals) \in Nat /\ pending \in Seq(Pendings) /\ unset \in SUBSET Names
  BY GoodTypes DEF Moves, Lowerers
<1>2. Unpends(m, n, pending)
  BY <1>1 DEF Unpends, Bindable
<1>3. Rebinds(m, o, layer, n, b, pending, unset)
  BY <1>1 DEF BindAt, Lowerers, Rebinds
<1> HIDE DEF pending, unset
<1> SUFFICES /\ Moves(D, l, o) /\ Renames(m, o, layer, n)
             /\ o.deferred = m.deferred /\ o.diverged = m.diverged /\ o.returns = m.returns
  OBVIOUS
<1> HIDE DEF o
<1> QED BY <1>1, <1>2, <1>3, BindMoves

\* A statement that binds a name to a value that is there.
LEMMA BindStatement ==
    ASSUME NEW lo, Now(lo), NEW o, Goes(From, fn, o), ~fn.diverged,
           ~(InLoop(open) /\ Len(o.deferred) > Len(fn.deferred)),
           NEW layer \in 1 .. Len(fn.locals), NEW n \in Names, NEW m,
           Moves(From, fn, m), Renames(o, m, layer, n),
           m.deferred = o.deferred, m.diverged = o.diverged,
           \A k \in 1 .. Len(fn.locals) : n \in DOMAIN fn.locals[k] => k = layer,
           layer = Len(fn.locals) \/ n \in DOMAIN fn.locals[layer] \/ n \in fn.pending[layer],
           \A i \in lo + 1 .. Len(open) : Carries(open[i]) =>
              i - lo < layer \/ (n \in DOMAIN fn.locals[layer] /\ n \in DOMAIN open[i].carried),
           Write(m, open), live' = live
    PROVE  IInv'
<1>1. /\ fn \in Lowerers /\ m \in Lowerers /\ o \in Lowerers
      /\ o.locals = fn.locals /\ o.pending = fn.pending /\ o.diverged = fn.diverged
      /\ Prefix(fn.deferred, m.deferred) /\ m.diverged = fn.diverged
  BY NowTypes, GoodTypes DEF Goes, Moves, SameScopes
<1>2. /\ Stack(open, lo) /\ Frame(fn, open, lo, Len(open)) /\ live \in BOOLEAN /\ Scoped(fn)
      /\ Len(fn.locals) = Len(open) - lo + 1 /\ Len(fn.locals) \in Nat /\ lo \in Nat /\ Len(open) \in Nat
  BY NowTypes
<1>3. Renames(fn, m, layer, n)
  BY <1>1 DEF Renames
<1>4. Scoped(m)
  BY <1>2, <1>3, RenamesScoped
<1>5. Keeps(fn, m, open, lo, Len(open), Len(open))
  <2> SUFFICES ASSUME NEW i \in lo + 1 .. Len(open)
               PROVE  /\ KeepsDeferred(fn, m, open, i, Len(open), Len(open))
                      /\ KeepsScopes(fn, m, open[i], i - lo)
    BY DEF Keeps
  <2>1. KeepsDeferred(fn, m, open, i, Len(open), Len(open))
    BY <1>1, <1>2, KeepsDeferredOn
  <2>2. i - lo \in Nat /\ i - lo <= Len(fn.locals) /\ i - lo < Len(fn.locals)
    BY <1>2
  <2>3. i - lo < layer \/ n \in DOMAIN fn.locals[layer] \/ n \in fn.pending[layer]
    BY <2>2
  <2>4. Carries(open[i]) => i - lo < layer \/ (n \in DOMAIN fn.locals[layer] /\ n \in DOMAIN open[i].carried)
    OBVIOUS
  <2>5. KeepsScopes(fn, m, open[i], i - lo)
    BY <1>2, <1>3, <2>2, <2>3, <2>4, RenamesKeeps
  <2> QED BY <2>1, <2>5
<1>6. Len(m.locals) = Len(fn.locals)
  BY <1>3 DEF Renames
<1>7. live' \in BOOLEAN /\ (live' => live /\ ~m.diverged) /\ (m.diverged => m.returns \in Types)
  BY <1>1, <1>2
<1> QED BY <1>4, <1>5, <1>6, <1>7, StatementConsistent

LEMMA LetStep ==
    ASSUME ShapesExcluded, IInv, LetStmt
    PROVE  IInv'
<1>1. Running /\ ~fn.diverged /\ HasFreeName(fn)
  BY StatementDef DEF LetStmt
<1>2. PICK lo \in Nat : Now(lo)
  BY <1>1, NowReached
<1>3. PICK e \in Exprs(fn) \cup {Lit, ReadRelvar} :
        LET o == LowerExpr(fn, e)
        IN  /\ Balanced(e, o)
            /\ Write(BindLocal(Bound(o, e), FreeName(fn), Binding(o)), open) /\ live' = live
  BY DEF LetStmt
<1> DEFINE o == LowerExpr(fn, e)
           d == Bound(o, e)
           n == FreeName(fn)
           b == Binding(o)
           layer == Len(d.locals)
           m == BindAt(d, layer, n, b)
<1>4. Good(From, fn) /\ fn \in Lowerers /\ Scoped(fn)
  BY <1>2, NowTypes
<1>5. Lowers(From, fn, o)
  BY <1>4, ExprsLower
<1>6. ~DeferredInLoop(o.l) /\ Write(m, open) /\ live' = live
  BY <1>3 DEF ShapesExcluded, Excludes, Balanced, BindLocal
<1> HIDE DEF o
<1>7. Goes(From, fn, o.l) /\ Good(From, o.l) /\ o.v \in Avail(From, o.l) /\ o.l \in Lowerers
  BY <1>5, GoesGood, GoodTypes DEF Lowers
<1>8. Emits(From, o.l, d)
  BY <1>7, BoundEmits
<1>9. /\ b \in Bnds /\ b.v = o.v /\ b.ty = o.ty
      /\ \A k \in 1 .. Len(o.l.deferred) : o.l.deferred[k].flat = b.v => b.ty = "Flat"
  BY <1>4, <1>5, LowersFlat DEF Binding
<1> HIDE DEF d, b
<1>10. Goes(From, fn, d) /\ d.deferred = o.l.deferred
  BY <1>4, <1>7, <1>8, GoesOn DEF Emits
<1>11. /\ d.locals = fn.locals /\ d.pending = fn.pending
       /\ Moves(From, fn, d) /\ b.v \in Avail(From, d)
  BY <1>7, <1>8, <1>9, <1>10, EmitsGood DEF Goes, SameScopes
<1>12. /\ n \in Names
       /\ \A k \in 1 .. Len(fn.locals) : n \notin DOMAIN fn.locals[k] /\ n \notin fn.pending[k]
  BY <1>1, <1>4, HasFreeNameDef, FreeNameIsFree DEF Scoped
<1> HIDE DEF n
<1>13. Len(fn.locals) \in Nat /\ layer \in 1 .. Len(fn.locals) /\ layer = Len(fn.locals) /\ Len(fn.pending) = Len(fn.locals)
  BY <1>4, <1>11 DEF Scoped, Lowerers
<1>14. /\ Bindable(From, d, layer, n, b)
       /\ \A k \in 1 .. Len(d.locals) : n \notin d.pending[k]
  BY <1>9, <1>10, <1>11, <1>12, <1>13 DEF Bindable
<1> HIDE DEF layer
<1>15. /\ Moves(From, fn, m) /\ Renames(d, m, layer, n)
       /\ m.deferred = d.deferred /\ m.diverged = d.diverged /\ m.returns = d.returns
  BY <1>11, <1>14, BindFreshMoves
<1>16. ~(InLoop(open) /\ Len(d.deferred) > Len(fn.deferred))
  BY <1>6, <1>10 DEF DeferredInLoop
<1> HIDE DEF m
<1>17. \A i \in lo + 1 .. Len(open) : i - lo < layer
  BY <1>2, <1>13, NowTypes
<1> QED BY <1>1, <1>2, <1>6, <1>10, <1>12, <1>13, <1>15, <1>16, <1>17, BindStatement

LEMMA VarStep ==
    ASSUME IInv, VarStmt
    PROVE  IInv'
<1>1. Running /\ ~fn.diverged /\ HasFreeName(fn)
  BY StatementDef DEF VarStmt
<1>2. PICK lo \in Nat : Now(lo)
  BY <1>1, NowReached
<1> DEFINE n == FreeName(fn)
           top == Len(fn.pending)
           pending == [fn.pending EXCEPT ![top] = @ \cup {n}]
           m == [fn EXCEPT !.pending[top] = @ \cup {n}]
<1>3. Write(m, open) /\ live' = live
  BY DEF VarStmt
<1>4. /\ Good(From, fn) /\ fn \in Lowerers /\ Scoped(fn) /\ Avail(From, fn) = From
      /\ Stack(open, lo) /\ Frame(fn, open, lo, Len(open)) /\ live \in BOOLEAN
      /\ Len(fn.locals) = Len(open) - lo + 1 /\ Len(fn.locals) \in Nat /\ Len(open) \in Nat /\ lo \in Nat
  BY <1>2, NowTypes
<1>5. /\ n \in Names
      /\ \A k \in 1 .. Len(fn.locals) : n \notin DOMAIN fn.locals[k] /\ n \notin fn.pending[k]
  BY <1>1, <1>4, HasFreeNameDef, FreeNameIsFree DEF Scoped
<1> HIDE DEF n
<1>6. /\ fn.pending \in Seq(Pendings) /\ top \in Nat /\ top = Len(fn.locals) /\ top > 0
      /\ DOMAIN fn.pending = 1 .. top /\ \A k \in 1 .. top : fn.pending[k] \in Pendings
      /\ fn.locals \in Seq(Layers) /\ fn.unset \in SUBSET Names /\ fn.diverged \in BOOLEAN
      /\ fn.returns \in Types \cup {AnyType} /\ fn.deferred \in Seq(Deferrals) /\ Len(fn.deferred) \in Nat
  BY <1>4 DEF Scoped, Lowerers
<1> HIDE DEF top
<1>7. /\ pending \in Seq(Pendings) /\ Len(pending) = top
      /\ \A k \in 1 .. top : pending[k] = fn.pending[k] \cup (IF k = top THEN {n} ELSE {})
  <2>1. fn.pending[top] \cup {n} \in Pendings
    BY <1>5, <1>6 DEF Pendings
  <2>2. fn.pending \in [1 .. top -> Pendings]
    BY <1>6
  <2>3. pending \in [1 .. top -> Pendings]
    BY <2>1, <2>2
  <2> QED BY <1>6, <2>2, <2>3
<1>8. m = [fn EXCEPT !.pending = pending]
  BY <1>4 DEF Lowerers
<1> HIDE DEF pending, m
<1>9. /\ m.locals = fn.locals /\ m.pending = pending /\ m.deferred = fn.deferred
      /\ m.diverged = fn.diverged /\ m.returns = fn.returns /\ m \in Lowerers
      /\ m.insts = fn.insts /\ m.temps = fn.temps /\ m.heads = fn.heads /\ m.next = fn.next
  BY <1>4, <1>7, <1>8 DEF Lowerers
<1>10. Moves(From, fn, m)
  <2>1. \A k \in 1 .. Len(fn.locals) : \A x \in DOMAIN fn.locals[k] :
              /\ fn.locals[k][x].v \in Avail(From, fn)
              /\ \A j \in 1 .. Len(fn.deferred) :
                    fn.deferred[j].flat = fn.locals[k][x].v => fn.locals[k][x].ty = "Flat"
    BY <1>4 DEF Good, LocalsIn, BorrowersIn, Borrows
  <2>2. Rescopes(From, fn, m)
    BY <1>6, <1>9, <2>1 DEF Rescopes
  <2>3. Moves(From, fn, fn)
    BY <1>4, GoesSame DEF Goes
  <2> QED BY <2>2, <2>3, RescopeMoves
<1>11. Scoped(m)
  <2>1. Len(m.pending) = Len(m.locals) /\ Len(m.locals) > 0
    BY <1>6, <1>7, <1>9
  <2>2. ASSUME NEW i \in 1 .. top, NEW j \in 1 .. top, NEW x \in Names
        PROVE  /\ x \in DOMAIN m.locals[i] /\ x \in DOMAIN m.locals[j] => i = j
               /\ x \in m.pending[i] /\ x \in m.pending[j] => i = j
               /\ ~(x \in DOMAIN m.locals[i] /\ x \in m.pending[j])
    <3>1. /\ x \in DOMAIN fn.locals[i] /\ x \in DOMAIN fn.locals[j] => i = j
          /\ x \in fn.pending[i] /\ x \in fn.pending[j] => i = j
          /\ ~(x \in DOMAIN fn.locals[i] /\ x \in fn.pending[j])
      BY <1>4, <1>6 DEF Scoped
    <3>2. CASE x = n
      <4>1. x \notin fn.pending[i] /\ x \notin fn.pending[j] /\ x \notin DOMAIN fn.locals[i]
        BY <1>5, <1>6, <3>2
      <4>2. (x \in m.pending[i] => i = top) /\ (x \in m.pending[j] => j = top) /\ m.locals[i] = fn.locals[i]
        BY <1>7, <1>9, <4>1
      <4> QED BY <4>1, <4>2
    <3>3. CASE x # n
      <4>1. (x \in m.pending[i] => x \in fn.pending[i]) /\ (x \in m.pending[j] => x \in fn.pending[j])
            /\ m.locals = fn.locals
        BY <1>7, <1>9, <3>3
      <4> QED BY <3>1, <4>1
    <3> QED BY <3>2, <3>3
  <2>3. Len(m.locals) = top
    BY <1>6, <1>9
  <2> QED BY <2>1, <2>2, <2>3 DEF Scoped
<1>12. Keeps(fn, m, open, lo, Len(open), Len(open))
  <2> SUFFICES ASSUME NEW i \in lo + 1 .. Len(open)
               PROVE  /\ KeepsDeferred(fn, m, open, i, Len(open), Len(open))
                      /\ KeepsScopes(fn, m, open[i], i - lo)
    BY DEF Keeps
  <2>1. Prefix(fn.deferred, m.deferred) /\ m \in Lowerers /\ ~(Len(m.deferred) > Len(fn.deferred))
    BY <1>6, <1>9, <1>10, GoodTypes DEF Prefix, Moves
  <2>2. KeepsDeferred(fn, m, open, i, Len(open), Len(open))
    BY <1>4, <1>9, <2>1, KeepsDeferredOn
  <2>3. i - lo < top
    BY <1>4, <1>6
  <2>4. \A k \in 1 .. i - lo : m.pending[k] = fn.pending[k]
    <3> TAKE k \in 1 .. i - lo
    <3>1. k \in 1 .. top /\ k # top
      BY <1>4, <1>6, <2>3
    <3> QED BY <1>7, <1>9, <3>1
  <2>5. DeclaredTo(m, i - lo) = DeclaredTo(fn, i - lo) /\ BoundTo(m, i - lo) = BoundTo(fn, i - lo)
    BY <1>9, <2>4 DEF DeclaredTo, BoundTo
  <2>6. KeepsScopes(fn, m, open[i], i - lo)
    BY <1>9, <2>5 DEF KeepsScopes
  <2> QED BY <2>2, <2>6
<1>13. Len(m.locals) = Len(fn.locals)
  BY <1>9
<1>14. live' \in BOOLEAN /\ (live' => live /\ ~m.diverged) /\ (m.diverged => m.returns \in Types)
  BY <1>1, <1>3, <1>4, <1>9
<1> QED BY <1>2, <1>3, <1>10, <1>11, <1>12, <1>13, <1>14, StatementConsistent

Shaped(o) == o = [l |-> o.l, v |-> o.v, ty |-> o.ty]

LEMMA AppliedShaped ==
    ASSUME NEW o, NEW e, e.op \in Operators
    PROVE  Shaped(Applied(o, e))
<1>1. \A i \in BOOLEAN : Shaped(LowerTuple(o, i))
  BY DEF LowerTuple, Shaped
<1>2. Shaped(LowerConcat(o)) /\ Shaped(LowerFieldAccess(o)) /\ Shaped(LowerWhere(o)) /\ Shaped(LowerExtract(o))
  BY DEF LowerConcat, LowerFieldAccess, LowerWhere, LowerExtract, Shaped
<1>3. \A t : Shaped(LowerRelationLit(t))
  BY DEF LowerRelationLit, Shaped
<1>4. (e.of.op = "name") \in BOOLEAN
  OBVIOUS
<1> QED BY <1>1, <1>2, <1>3, <1>4 DEF Applied, Operators

LEMMA ExprShaped ==
    ASSUME NEW l, NEW e, Written(l, e)
    PROVE  Shaped(LowerExpr(l, e))
<1>1. \A f : LeafOf(l, f) => Shaped(LowerLeaf(l, f))
  BY DEF LeafOf, LowerLeaf, Shaped, Value
<1>2. CASE IsLeaf(e)
  <2>1. LeafOf(l, e)
    BY <1>2 DEF Written, LeafOf, IsLeaf, Operators
  <2> QED BY <1>1, <1>2, <2>1 DEF LowerExpr
<1>3. CASE ~IsLeaf(e)
  <2>1. e.op \in Operators
    BY <1>3 DEF Written, LeafOf, IsLeaf
  <2> QED BY <1>3, <2>1, AppliedShaped DEF LowerExpr
<1> QED BY <1>2, <1>3

LEMMA EnclosingStack ==
    ASSUME NEW lo, Now(lo), NEW i \in lo + 1 .. Len(open)
    PROVE  open[i] \in Enclosing /\ Below(fn, open[i], i - lo) /\ open[i] \in Blocks
<1>1. /\ Stack(open, lo) /\ Frame(fn, open, lo, Len(open)) /\ lo \in Nat /\ Len(open) \in Nat
      /\ lo \in 1 .. Len(open)
  BY NowTypes
<1>2. Below(fn, open[i], i - lo)
  BY <1>1 DEF Frame
<1>3. \A k \in i .. Len(open) : open[k] \in Blocks /\ open[k].kind \notin {"main", "call"}
  <2> TAKE k \in i .. Len(open)
  <2>1. k \in lo + 1 .. Len(open)
    BY <1>1
  <2>2. open[k] \in Blocks
    BY <1>1, <2>1, StackTypes
  <2> QED BY <2>2, BlockTypes
<1>4. i \in DOMAIN open /\ i \in i .. Len(open)
  BY <1>1 DEF Stack
<1> QED BY <1>2, <1>3, <1>4 DEF Enclosing

LEMMA AssignStep ==
    ASSUME ShapesExcluded, IInv, AssignStmt
    PROVE  IInv'
<1>1. Running /\ ~fn.diverged
  BY StatementDef DEF AssignStmt
<1>2. PICK lo \in Nat : Now(lo)
  BY <1>1, NowReached
<1>3. PICK n \in {x \in Names \ fn.params : IsLocal(fn, x) /\ Carried(x)}, e \in Exprs(fn) :
        LET o == LowerExpr(fn, e)
            old == Lookup(fn, n)
            l == IF NeedsScopeRelease(o.l, old.v, old.ty) THEN Emit(o.l, "Release", old.v) ELSE o.l
        IN  /\ Balanced(e, o)
            /\ Write([RebindLocal(Bound([o EXCEPT !.l = l], e), n, Binding(o)) EXCEPT !.unset = @ \ {n}], open)
            /\ live' = live
  BY DEF AssignStmt
<1> DEFINE o == LowerExpr(fn, e)
           old == Lookup(fn, n)
           r == IF NeedsScopeRelease(o.l, old.v, old.ty) THEN Emit(o.l, "Release", old.v) ELSE o.l
           p == [o EXCEPT !.l = r]
           d == Bound(p, e)
           b == Binding(o)
           m == [RebindLocal(d, n, b) EXCEPT !.unset = @ \ {n}]
           layer == LayerOf(fn, n)
<1>4. Good(From, fn) /\ fn \in Lowerers /\ Scoped(fn) /\ Len(fn.locals) \in Nat
  BY <1>2, NowTypes
<1>5. Lowers(From, fn, o)
  BY <1>4, ExprsLower
<1>6. ~DeferredInLoop(o.l) /\ Write(m, open) /\ live' = live
  BY <1>3 DEF ShapesExcluded, Excludes, Balanced
<1>7. Shaped(o)
  BY ExprsAreWritten, ExprShaped
<1> HIDE DEF o
<1>8. Goes(From, fn, o.l) /\ Good(From, o.l) /\ o.v \in Avail(From, o.l) /\ o.l \in Lowerers
      /\ Avail(From, fn) \subseteq Avail(From, o.l)
  BY <1>5, GoesGood, GoodTypes DEF Lowers
<1>9. /\ layer \in 1 .. Len(fn.locals) /\ n \in DOMAIN fn.locals[layer] /\ n \in Names
      /\ old.v \in Avail(From, o.l)
  BY <1>4, <1>8, LookupNames
<1> HIDE DEF old
<1>10. Emits(From, o.l, r)
  <2>1. Emits(From, o.l, Emit(o.l, "Release", old.v)) /\ Emits(From, o.l, o.l)
    BY <1>8, <1>9, ReleaseEmits, EmitsSame
  <2> QED BY <2>1
<1> HIDE DEF r
<1>11. p.l = r /\ p.v = o.v /\ Good(From, r) /\ p.v \in Avail(From, r)
  <2>1. p.l = r /\ p.v = o.v
    BY <1>7 DEF Shaped
  <2> QED BY <1>8, <1>10, <2>1, EmitsGood
<1> HIDE DEF p
<1>12. Emits(From, r, d)
  BY <1>11, BoundEmits
<1>13. /\ b \in Bnds /\ b.v = o.v /\ b.ty = o.ty
       /\ \A k \in 1 .. Len(o.l.deferred) : o.l.deferred[k].flat = b.v => b.ty = "Flat"
  BY <1>4, <1>5, LowersFlat DEF Binding
<1> HIDE DEF d, b
<1>14. Emits(From, o.l, d)
  BY <1>8, <1>10, <1>12, EmitsOn
<1>15. Goes(From, fn, d) /\ d.deferred = o.l.deferred /\ Good(From, d) /\ d \in Lowerers
  BY <1>4, <1>8, <1>14, GoesOn, EmitsGood, GoodTypes DEF Emits
<1>16. /\ d.locals = fn.locals /\ d.pending = fn.pending
       /\ Moves(From, fn, d) /\ b.v \in Avail(From, d)
  BY <1>8, <1>13, <1>14, <1>15, EmitsGood DEF Goes, SameScopes
<1>17. layer = LayerOf(d, n) /\ Len(fn.pending) = Len(fn.locals)
  BY <1>4, <1>16 DEF LayerOf, Scoped
<1> HIDE DEF layer
<1>18. \A k \in 1 .. Len(fn.locals) : n \notin fn.pending[k] /\ (n \in DOMAIN fn.locals[k] => k = layer)
  BY <1>4, <1>9 DEF Scoped
<1> DEFINE pending == d.pending
           unset == d.unset \ {n}
<1>19. unset \in SUBSET Names /\ pending \in Seq(Pendings) /\ Len(pending) = Len(d.locals)
  BY <1>15, <1>16, <1>17 DEF Lowerers
<1>20. Rebinds(d, m, layer, n, b, pending, unset)
  BY <1>15, <1>17 DEF RebindLocal, BindAt, Lowerers, Rebinds
<1>21. Bindable(From, d, layer, n, b)
  BY <1>9, <1>13, <1>15, <1>16, <1>17 DEF Bindable
<1>22. Unpends(d, n, pending)
  BY <1>16, <1>17, <1>18, <1>19 DEF Unpends
<1> HIDE DEF m, unset, pending
<1>23. /\ Moves(From, fn, m) /\ Renames(d, m, layer, n)
       /\ m.deferred = d.deferred /\ m.diverged = d.diverged /\ m.returns = d.returns
  BY <1>16, <1>19, <1>20, <1>21, <1>22, BindMoves
<1>24. ~(InLoop(open) /\ Len(d.deferred) > Len(fn.deferred))
  BY <1>6, <1>15 DEF DeferredInLoop
<1>25. \A i \in lo + 1 .. Len(open) : Carries(open[i]) =>
          i - lo < layer \/ (n \in DOMAIN fn.locals[layer] /\ n \in DOMAIN open[i].carried)
  <2> TAKE i \in lo + 1 .. Len(open)
  <2> SUFFICES ASSUME Carries(open[i]), ~(i - lo < layer) PROVE n \in DOMAIN open[i].carried
    BY <1>9
  <2>1. open[i] \in Enclosing /\ Below(fn, open[i], i - lo)
    BY <1>2, EnclosingStack
  <2>2. open[i].depth = i - lo
    BY <2>1 DEF Below
  <2>3. i - lo >= layer /\ Len(open) \in Nat /\ lo \in Nat
    BY <1>2, <1>4, <1>9, NowTypes
  <2> QED BY <1>3, <2>1, <2>2, <2>3 DEF Carried, Carries, layer
<1> QED BY <1>1, <1>2, <1>6, <1>9, <1>15, <1>18, <1>23, <1>24, <1>25, BindStatement

LEMMA AssignPendingStep ==
    ASSUME ShapesExcluded, IInv, AssignPending
    PROVE  IInv'
<1>1. Running /\ ~fn.diverged
  BY StatementDef DEF AssignPending
<1>2. PICK lo \in Nat : Now(lo)
  BY <1>1, NowReached
<1>3. PICK n \in {x \in Names : IsPending(fn, x)}, e \in Exprs(fn) :
        LET o == LowerExpr(fn, e)
            layer == CHOOSE i \in DOMAIN fn.pending : n \in fn.pending[i]
            l == BindAt(Bound(o, e), layer, n, Binding(o))
        IN  /\ Balanced(e, o)
            /\ Excludes("PendingInBlock", PendingInBlock(layer))
            /\ Write([l EXCEPT !.pending[layer] = @ \ {n}], open)
            /\ live' = live
  BY DEF AssignPending
<1> DEFINE o == LowerExpr(fn, e)
           d == Bound(o, e)
           b == Binding(o)
           layer == CHOOSE i \in DOMAIN fn.pending : n \in fn.pending[i]
           m == [BindAt(d, layer, n, b) EXCEPT !.pending[layer] = @ \ {n}]
<1>4. Good(From, fn) /\ fn \in Lowerers /\ Scoped(fn) /\ Len(fn.locals) \in Nat
  BY <1>2, NowTypes
<1>5. Lowers(From, fn, o)
  BY <1>4, ExprsLower
<1>6. ~DeferredInLoop(o.l) /\ ~PendingInBlock(layer) /\ Write(m, open) /\ live' = live
  BY <1>3 DEF ShapesExcluded, Excludes, Balanced
<1> HIDE DEF o
<1>7. /\ fn.pending \in Seq(Pendings) /\ Len(fn.pending) = Len(fn.locals)
      /\ DOMAIN fn.pending = 1 .. Len(fn.locals)
  BY <1>4 DEF Scoped, Lowerers
<1>8. layer \in 1 .. Len(fn.locals) /\ n \in fn.pending[layer] /\ n \in Names
  BY <1>3, <1>7 DEF IsPending
<1> HIDE DEF layer
<1>9. \A k \in 1 .. Len(fn.locals) : n \notin DOMAIN fn.locals[k] /\ (n \in fn.pending[k] => k = layer)
  BY <1>4, <1>8 DEF Scoped
<1>10. Goes(From, fn, o.l) /\ Good(From, o.l) /\ o.v \in Avail(From, o.l) /\ o.l \in Lowerers
  BY <1>5, GoesGood, GoodTypes DEF Lowers
<1>11. Emits(From, o.l, d)
  BY <1>10, BoundEmits
<1>12. /\ b \in Bnds /\ b.v = o.v /\ b.ty = o.ty
       /\ \A k \in 1 .. Len(o.l.deferred) : o.l.deferred[k].flat = b.v => b.ty = "Flat"
  BY <1>4, <1>5, LowersFlat DEF Binding
<1> HIDE DEF d, b
<1>13. Goes(From, fn, d) /\ d.deferred = o.l.deferred /\ Good(From, d) /\ d \in Lowerers
  BY <1>4, <1>10, <1>11, GoesOn, EmitsGood, GoodTypes DEF Emits
<1>14. /\ d.locals = fn.locals /\ d.pending = fn.pending
       /\ Moves(From, fn, d) /\ b.v \in Avail(From, d)
  BY <1>10, <1>11, <1>12, <1>13, EmitsGood DEF Goes, SameScopes
<1> DEFINE pending == [d.pending EXCEPT ![layer] = @ \ {n}]
           unset == d.unset
<1>15. /\ unset \in SUBSET Names /\ pending \in Seq(Pendings) /\ Len(pending) = Len(d.pending)
       /\ \A k \in 1 .. Len(d.pending) : pending[k] = d.pending[k] \ {n}
  <2>1. d.pending[layer] \ {n} \in Pendings
    BY <1>7, <1>8, <1>14 DEF Pendings
  <2>2. \A k \in 1 .. Len(d.pending) : k # layer => d.pending[k] \ {n} = d.pending[k]
    BY <1>7, <1>9, <1>14
  <2> QED BY <1>7, <1>8, <1>13, <1>14, <2>1, <2>2 DEF Lowerers
<1>16. Rebinds(d, m, layer, n, b, pending, unset)
  BY <1>13 DEF BindAt, Lowerers, Rebinds
<1>17. Bindable(From, d, layer, n, b)
  BY <1>7, <1>8, <1>12, <1>13, <1>14 DEF Bindable
<1>18. Unpends(d, n, pending)
  BY <1>15 DEF Unpends
<1> HIDE DEF m, unset, pending
<1>19. /\ Moves(From, fn, m) /\ Renames(d, m, layer, n)
       /\ m.deferred = d.deferred /\ m.diverged = d.diverged /\ m.returns = d.returns
  BY <1>14, <1>15, <1>16, <1>17, <1>18, BindMoves
<1>20. ~(InLoop(open) /\ Len(d.deferred) > Len(fn.deferred))
  BY <1>6, <1>13 DEF DeferredInLoop
<1>21. \A i \in lo + 1 .. Len(open) : Carries(open[i]) => i - lo < layer
  <2> TAKE i \in lo + 1 .. Len(open)
  <2> SUFFICES ASSUME Carries(open[i]) PROVE i - lo < layer
    OBVIOUS
  <2>1. open[i] \in Enclosing /\ Below(fn, open[i], i - lo)
    BY <1>2, EnclosingStack
  <2>2. open[i].depth = i - lo
    BY <2>1 DEF Below
  <2>3. ~(i - lo >= layer)
    BY <1>6, <2>1, <2>2 DEF PendingInBlock, Carries
  <2> QED BY <1>2, <1>4, <1>8, <2>3, NowTypes
<1> QED BY <1>1, <1>2, <1>6, <1>8, <1>9, <1>13, <1>19, <1>20, <1>21, BindStatement

\* The value of a block.
Block(D, l, o) ==
    \/ o = [l |-> l, v |-> NoValue, ty |-> "Unit"]
    \/ Lowers(D, l, o) /\ ~l.diverged

LEMMA BlockIs ==
    ASSUME NEW D, NEW l, Good(D, l), NEW e \in Tails(l)
    PROVE  Block(D, l, BlockValue(l, e))
BY BlockLowers DEF Block

LEMMA BlockGoes ==
    ASSUME NEW D, NEW l, Good(D, l), NEW o, Block(D, l, o)
    PROVE  /\ Goes(D, l, o.l) /\ Good(D, o.l) /\ o.l \in Lowerers /\ l \in Lowerers
           /\ o.v \in Avail(D, o.l) \/ (o.v = NoValue /\ o.ty = "Unit")
           /\ o.v \in Nat \cup {NoValue} /\ o.v < o.l.next /\ o.ty \in Types
           /\ \A k \in 1 .. Len(o.l.deferred) :
                 /\ o.l.deferred[k].flat = o.v => o.ty = "Flat"
                 /\ o.l.deferred[k].flat # NoValue
           /\ o.v = NoValue => o.ty = "Unit"
<1>1. CASE o = [l |-> l, v |-> NoValue, ty |-> "Unit"]
  <2>1. o.l = l /\ o.v = NoValue /\ o.ty = "Unit"
    BY <1>1
  <2>2. Goes(D, l, l) /\ l \in Lowerers /\ l.next \in Nat
    BY GoesSame, GoodTypes
  <2>3. \A k \in 1 .. Len(l.deferred) : l.deferred[k].flat # NoValue
    <3> TAKE k \in 1 .. Len(l.deferred)
    <3>1. l.deferred[k] \in Deferrals
      BY <2>2 DEF Lowerers
    <3> QED BY <3>1 DEF Deferrals, NoValue, ExtractSource
  <2> QED BY <2>1, <2>2, <2>3 DEF NoValue, Types
<1>2. CASE Lowers(D, l, o)
  <2>1. o.v \in Nat /\ Good(D, o.l) /\ l \in Lowerers
    BY <1>2, LowersFlat, GoodTypes
  <2> QED BY <1>2, <2>1, LowersFlat DEF Lowers, Types, NoValue
<1> QED BY <1>1, <1>2 DEF Block

\* A value leaves its function: its box, and the reference it takes along.
LEMMA EscapeEmits ==
    ASSUME NEW D, NEW l, Good(D, l), NEW o, Block(D, l, o)
    PROVE  LET b == BoxReturnValue(o.l, o.v, o.ty)
               kept == RetainIfEscapingLocal(b.l, b.v, b.ty)
           IN  /\ Emits(D, o.l, kept) /\ Good(D, kept)
               /\ b.v \in Avail(D, kept) \/ b.v = NoValue
<1> DEFINE b == BoxReturnValue(o.l, o.v, o.ty)
           kept == RetainIfEscapingLocal(b.l, b.v, b.ty)
<1>1. /\ Good(D, o.l) /\ o.l \in Lowerers
      /\ o.v \in Avail(D, o.l) \/ o.v = NoValue
      /\ o.ty = "Flat" => o.v # NoValue
  BY BlockGoes
<1>2. Emits(D, o.l, b.l) /\ (b.v \in Avail(D, b.l) \/ b.v = NoValue)
  BY <1>1, BoxEmits
<1> HIDE DEF b
<1>3. Good(D, b.l)
  BY <1>2, EmitsGood
<1>4. Emits(D, b.l, kept)
  BY <1>2, <1>3, RetainEmits
<1> HIDE DEF kept
<1>5. Emits(D, o.l, kept) /\ Good(D, kept) /\ Avail(D, b.l) \subseteq Avail(D, kept)
  BY <1>1, <1>2, <1>4, EmitsOn, EmitsGood
<1> QED BY <1>2, <1>5 DEF b, kept

\* The sources that are deferred are released.
LEMMA DrainEmits ==
    ASSUME NEW D, NEW l, Good(D, l), NEW deferred \in Seq(Deferrals),
           \A k \in 1 .. Len(deferred) : deferred[k].src \in Avail(D, l)
    PROVE  Emits(D, l, EmitAll(l, "Release", Sources(deferred)))
<1> DEFINE srcs == Sources(deferred)
<1>1. srcs \in Seq(Nat) /\ Len(srcs) = Len(deferred)
      /\ \A k \in 1 .. Len(deferred) : srcs[k] = deferred[k].src
  BY SourcesTypes
<1>2. \A k \in 1 .. Len(srcs) : srcs[k] \in Avail(D, l)
  BY <1>1
<1> HIDE DEF srcs
<1>3. Emits(D, l, EmitAll(l, "Release", srcs))
  BY <1>1, <1>2, ReleaseAllEmits
<1> QED BY <1>3 DEF srcs

LEMMA ReturnEmits ==
    ASSUME NEW D, NEW l, Good(D, l), NEW v, v \in Avail(D, l) \/ v = NoValue
    PROVE  Emits(D, l, Emit(l, "Return", v))
<1>1. v \in Int
  BY GoodTypes DEF NoValue
<1>2. "Return" \in Ops \ DefiningOps
  BY DEF Ops, DefiningOps
<1>3. Goes(D, l, Emit(l, "Return", v)) /\ Emit(l, "Return", v).deferred = l.deferred
  BY <1>1, <1>2, EmitGoes
<1> QED BY <1>3 DEF Emits

LEMMA ReturnStep ==
    ASSUME IInv, ReturnStmt
    PROVE  IInv'
<1>1. Running /\ ~fn.diverged
  BY StatementDef DEF ReturnStmt
<1>2. PICK lo \in Nat : Now(lo)
  BY <1>1, NowReached
<1>3. PICK e \in Tails(fn) :
        LET o == BlockValue(fn, e)
            b == BoxReturnValue(o.l, o.v, o.ty)
            kept == RetainIfEscapingLocal(b.l, b.v, b.ty)
            l == EmitAll(ReleaseAllScopes(kept), "Release", Sources(kept.deferred))
        IN  Write([Emit(l, "Return", b.v) EXCEPT !.diverged = TRUE, !.returns = o.ty], open)
  BY DEF ReturnStmt
<1> DEFINE o == BlockValue(fn, e)
           b == BoxReturnValue(o.l, o.v, o.ty)
           kept == RetainIfEscapingLocal(b.l, b.v, b.ty)
           r == ReleaseAllScopes(kept)
           l == EmitAll(r, "Release", Sources(kept.deferred))
           x == Emit(l, "Return", b.v)
           m == [x EXCEPT !.diverged = TRUE, !.returns = o.ty]
<1>4. Write(m, open) /\ live' = FALSE
  BY <1>3 DEF ReturnStmt
<1>5. /\ Good(From, fn) /\ fn \in Lowerers /\ Scoped(fn) /\ Len(fn.locals) \in Nat
      /\ Stack(open, lo) /\ Frame(fn, open, lo, Len(open)) /\ Len(open) \in Nat /\ lo \in Nat
  BY <1>2, NowTypes
<1>6. Block(From, fn, o)
  BY <1>5, BlockIs
<1> HIDE DEF o
<1>7. Goes(From, fn, o.l) /\ Good(From, o.l) /\ o.l \in Lowerers /\ o.ty \in Types
  BY <1>5, <1>6, BlockGoes
<1>8. Emits(From, o.l, kept) /\ Good(From, kept) /\ (b.v \in Avail(From, kept) \/ b.v = NoValue)
  BY <1>5, <1>6, EscapeEmits
<1> HIDE DEF b, kept
<1>9. Emits(From, kept, r) /\ Good(From, r) /\ Avail(From, kept) \subseteq Avail(From, r) /\ kept \in Lowerers
  BY <1>8, ReleaseAllScopesEmits, EmitsGood, GoodTypes
<1> HIDE DEF r
<1>10. Emits(From, r, l) /\ Good(From, l) /\ Avail(From, r) \subseteq Avail(From, l) /\ r \in Lowerers
  <2>1. kept.deferred \in Seq(Deferrals)
    BY <1>8, GoodTypes
  <2>2. \A k \in 1 .. Len(kept.deferred) : kept.deferred[k].src \in Avail(From, r)
    BY <1>8, <1>9 DEF Good, DeferredIn
  <2>3. Emits(From, r, l)
    BY <1>9, <2>1, <2>2, DrainEmits
  <2> HIDE DEF l
  <2> QED BY <1>9, <2>3, EmitsGood, GoodTypes
<1> HIDE DEF l
<1>11. Emits(From, l, x) /\ Good(From, x) /\ l \in Lowerers /\ x \in Lowerers
  <2>1. Emits(From, l, x)
    BY <1>8, <1>9, <1>10, ReturnEmits
  <2> HIDE DEF x
  <2> QED BY <1>10, <2>1, EmitsGood, GoodTypes
<1> HIDE DEF x
<1>12. Emits(From, o.l, x)
  <2>1. Emits(From, o.l, r)
    BY <1>7, <1>8, <1>9, EmitsOn
  <2>2. Emits(From, o.l, l)
    BY <1>7, <1>10, <2>1, EmitsOn
  <2> QED BY <1>7, <1>11, <2>2, EmitsOn
<1>13. Goes(From, fn, x)
  BY <1>5, <1>7, <1>12, GoesOn DEF Emits
<1>14. /\ m \in Lowerers /\ m.locals = fn.locals /\ m.pending = fn.pending /\ m.deferred = x.deferred
       /\ m.diverged = TRUE /\ m.returns \in Types
       /\ m.insts = x.insts /\ m.temps = x.temps /\ m.heads = x.heads /\ m.next = x.next
  <2>1. x.locals = fn.locals /\ x.pending = fn.pending
    BY <1>13 DEF Goes, SameScopes
  <2> QED BY <1>7, <1>11, <2>1 DEF Lowerers
<1> HIDE DEF m
<1>15. Moves(From, fn, m)
  <2>1. x.locals = fn.locals /\ Moves(From, fn, x)
    BY <1>13 DEF Goes, SameScopes
  <2>2. Len(x.deferred) <= Len(x.deferred)
    BY <1>11, GoodTypes
  <2>3. \A k \in 1 .. Len(x.locals) : \A n \in DOMAIN x.locals[k] :
          /\ x.locals[k][n].v \in Avail(From, x)
          /\ \A j \in 1 .. Len(x.deferred) :
                x.deferred[j].flat = x.locals[k][n].v => x.locals[k][n].ty = "Flat"
    BY <1>11 DEF Good, LocalsIn, BorrowersIn, Borrows
  <2>4. Rescopes(From, x, m)
    BY <1>14, <2>1, <2>2, <2>3 DEF Rescopes
  <2> QED BY <2>1, <2>4, RescopeMoves
<1>16. Scoped(m)
  BY <1>5, <1>14 DEF Scoped
<1>17. Keeps(fn, m, open, lo, Len(open), Len(open))
  <2> DEFINE n == Len(open)
  <2> SUFFICES ASSUME NEW i \in lo + 1 .. n
               PROVE  KeepsDeferred(fn, m, open, i, n, n) /\ KeepsScopes(fn, m, open[i], i - lo)
    BY DEF Keeps
  <2>1. /\ Prefix(fn.deferred, m.deferred) /\ Len(fn.deferred) \in Nat /\ Len(m.deferred) \in Nat
        /\ fn.diverged = FALSE
    BY <1>1, <1>5, <1>13, <1>14, GoodTypes DEF Goes, Lowerers
  <2>2. \A j \in lo + 1 .. n : open[j] \in Blocks /\ (open[j].kind = "if" => open[j].mark \in Nat /\ open[j].mark <= Len(fn.deferred))
    <3> TAKE j \in lo + 1 .. n
    <3>1. Below(fn, open[j], j - lo)
      BY <1>5 DEF Frame
    <3> QED BY <3>1, BlockTypes DEF Below
  <2>3. open[i].kind = "if" => /\ open[i].mark <= Len(m.deferred)
                               /\ \A k \in 1 .. open[i].mark : m.deferred[k] = fn.deferred[k]
    BY <2>1, <2>2 DEF Prefix
  <2>4. ASSUME open[i].kind = "loop", NEW k \in 1 .. Len(m.deferred)
        PROVE  \/ Inside(m, open, i, n, k)
               \/ k <= Len(fn.deferred) /\ m.deferred[k] = fn.deferred[k] /\ ~Inside(fn, open, i, n, k)
    <3>1. CASE k <= Len(fn.deferred)
      <4>1. m.deferred[k] = fn.deferred[k]
        BY <2>1, <3>1 DEF Prefix
      <4> QED BY <2>1, <3>1, <4>1 DEF Inside
    <3>2. CASE k > Len(fn.deferred)
      <4>1. CASE \E j \in i + 1 .. n : open[j].kind = "if"
        <5>1. PICK j \in i + 1 .. n : open[j].kind = "if"
          BY <4>1
        <5>2. open[j].mark < k
          BY <1>5, <2>1, <2>2, <3>2, <5>1
        <5> QED BY <5>1, <5>2 DEF Inside
      <4>2. CASE ~ \E j \in i + 1 .. n : open[j].kind = "if"
        BY <1>14, <4>2 DEF Inside
      <4> QED BY <4>1, <4>2
    <3> QED BY <2>1, <3>1, <3>2
  <2>5. KeepsDeferred(fn, m, open, i, n, n)
    BY <2>3, <2>4 DEF KeepsDeferred
  <2> QED BY <1>14, <2>5, SameKeepsScopes
<1>18. Len(m.locals) = Len(fn.locals)
  BY <1>14
<1>19. live' \in BOOLEAN /\ (live' => live /\ ~m.diverged) /\ (m.diverged => m.returns \in Types)
  BY <1>4, <1>14
<1> QED BY <1>2, <1>4, <1>15, <1>16, <1>17, <1>18, <1>19, StatementConsistent

-----------------------------------------------------------------------------
(* Structures that begin.                                                   *)

LEMMA EmptyLayer ==
    /\ << >> \in Layers /\ DOMAIN << >> = {} /\ {} \in Pendings
<1>1. DOMAIN << >> = {}
  OBVIOUS
<1>2. << >> \in [{} -> Bnds]
  OBVIOUS
<1>3. {} \in SUBSET Names
  OBVIOUS
<1> QED BY <1>1, <1>2, <1>3 DEF Layers, Pendings

LEMMA PushIs ==
    ASSUME NEW l \in Lowerers, Len(l.pending) = Len(l.locals)
    PROVE  LET m == PushScope(l)
               N == Len(l.locals)
           IN  /\ m \in Lowerers /\ Len(m.locals) = N + 1 /\ Len(m.pending) = N + 1 /\ N \in Nat
               /\ \A k \in 1 .. N : m.locals[k] = l.locals[k] /\ m.pending[k] = l.pending[k]
               /\ DOMAIN m.locals[N + 1] = {} /\ m.pending[N + 1] = {}
               /\ m.insts = l.insts /\ m.unset = l.unset /\ m.params = l.params
               /\ m.borrowed = l.borrowed /\ m.owned = l.owned /\ m.temps = l.temps /\ m.heads = l.heads
               /\ m.deferred = l.deferred /\ m.next = l.next /\ m.diverged = l.diverged
               /\ m.returns = l.returns
<1> DEFINE m == PushScope(l)
           N == Len(l.locals)
           locals == Append(l.locals, << >>)
           pending == Append(l.pending, {})
<1>1. l.locals \in Seq(Layers) /\ l.pending \in Seq(Pendings) /\ N \in Nat
  BY DEF Lowerers
<1>2. /\ locals \in Seq(Layers) /\ Len(locals) = N + 1 /\ locals[N + 1] = << >>
      /\ \A k \in 1 .. N : locals[k] = l.locals[k]
  BY <1>1, EmptyLayer
<1>3. /\ pending \in Seq(Pendings) /\ Len(pending) = N + 1 /\ pending[N + 1] = {}
      /\ \A k \in 1 .. N : pending[k] = l.pending[k]
  BY <1>1, EmptyLayer
<1>4. m = [l EXCEPT !.locals = locals, !.pending = pending]
  BY DEF PushScope
<1> HIDE DEF locals, pending, m
<1>5. /\ m \in Lowerers /\ m.locals = locals /\ m.pending = pending
      /\ m.insts = l.insts /\ m.unset = l.unset /\ m.params = l.params
      /\ m.borrowed = l.borrowed /\ m.owned = l.owned /\ m.temps = l.temps /\ m.heads = l.heads
      /\ m.deferred = l.deferred /\ m.next = l.next /\ m.diverged = l.diverged
      /\ m.returns = l.returns
  BY <1>2, <1>3, <1>4 DEF Lowerers
<1> QED BY <1>1, <1>2, <1>3, <1>5, EmptyLayer DEF m

LEMMA AppendIs ==
    ASSUME NEW s, NEW n \in Nat, Len(s) = n, DOMAIN s = 1 .. n, s = [i \in 1 .. n |-> s[i]], NEW x
    PROVE  /\ Len(Append(s, x)) = n + 1 /\ DOMAIN Append(s, x) = 1 .. n + 1
           /\ Append(s, x) = [i \in 1 .. n + 1 |-> Append(s, x)[i]]
           /\ Append(s, x)[n + 1] = x /\ \A i \in 1 .. n : Append(s, x)[i] = s[i]
<1> DEFINE S == {s[i] : i \in 1 .. n} \cup {x}
           t == Append(s, x)
<1>1. s \in [1 .. n -> S]
  <2>1. \A i \in 1 .. n : s[i] \in S
    OBVIOUS
  <2> HIDE DEF S
  <2> QED BY <2>1
<1>2. x \in S
  OBVIOUS
<1> HIDE DEF S
<1>3. s \in Seq(S)
  BY <1>1
<1>4. t \in Seq(S) /\ Len(t) = n + 1 /\ t[n + 1] = x /\ \A i \in 1 .. n : t[i] = s[i]
  BY <1>2, <1>3
<1> HIDE DEF t
<1>5. t \in [1 .. n + 1 -> S]
  BY <1>4
<1>6. DOMAIN t = 1 .. n + 1 /\ t = [i \in 1 .. n + 1 |-> t[i]]
  BY <1>5
<1> QED BY <1>4, <1>6 DEF t

\* Where e begins, what it was reached with is there.
Reached(l, e, V) ==
    Carries(e) /\ e.live =>
        /\ \A k \in 1 .. Len(l.locals) : \A n \in DOMAIN l.locals[k] :
              n \in DOMAIN e.carried \/ l.locals[k][n].v \in V
        /\ e.kind = "if" => \A k \in 1 .. e.mark : l.deferred[k].src \in V
        /\ e.kind = "loop" => \A k \in 1 .. Len(l.deferred) : l.deferred[k].src \in V
Begins(l, st, V, lo, e) ==
    /\ Below(l, e, Len(l.locals)) /\ ~l.diverged
    /\ \A i \in lo + 1 .. Len(st) : Nested(l, st[i], i - lo, e)
    /\ Reached(l, e, V) /\ Saved(e, V)
    /\ Timed(e) /\ e.live => \A i \in 1 .. Len(st) : LiveIn(st[i])

LEMMA StatePush ==
    ASSUME NEW l, NEW st, NEW V, NEW lv, NEW lo, State(l, st, V, lv, lo),
           NEW e, Begins(l, st, V, lo, e), NEW lv2 \in BOOLEAN, lv2 => lv /\ LiveIn(e)
    PROVE  State(PushScope(l), Append(st, e), V, lv2, lo)
<1> DEFINE m == PushScope(l)
           st2 == Append(st, e)
           n == Len(st)
           N == Len(l.locals)
<1>1. /\ Stack(st, lo) /\ Ready(l, V, lv) /\ Numbered(V, l.next) /\ Frame(l, st, lo, n)
      /\ Held(l, st, lo, n, V) /\ Chain(st, lv) /\ Scoped(l) /\ N = n - lo + 1
      /\ \A i \in 1 .. n : Saved(st[i], V)
      /\ (lo > 1 => Caller(st[lo], st, lo, V, l.next))
  BY DEF State, Frame
<1>2. n \in Nat /\ lo \in Nat /\ lo \in 1 .. n /\ l \in Lowerers /\ e \in Blocks /\ Len(l.pending) = N
      /\ DOMAIN st = 1 .. n /\ st = [i \in 1 .. n |-> st[i]]
  BY <1>1, StackTypes, ReadyTypes DEF Stack, Begins, Below, Scoped
<1>3. /\ m \in Lowerers /\ Len(m.locals) = N + 1 /\ Len(m.pending) = N + 1 /\ N \in Nat
      /\ \A k \in 1 .. N : m.locals[k] = l.locals[k] /\ m.pending[k] = l.pending[k]
      /\ DOMAIN m.locals[N + 1] = {} /\ m.pending[N + 1] = {}
      /\ m.borrowed = l.borrowed /\ m.owned = l.owned /\ m.temps = l.temps /\ m.heads = l.heads
      /\ m.deferred = l.deferred /\ m.next = l.next /\ m.diverged = l.diverged
      /\ m.returns = l.returns
  BY <1>2, PushIs
<1>4. /\ Len(st2) = n + 1 /\ DOMAIN st2 = 1 .. n + 1 /\ st2 = [i \in 1 .. n + 1 |-> st2[i]]
      /\ st2[n + 1] = e /\ \A i \in 1 .. n : st2[i] = st[i]
  <2>1. Len(st) = n
    OBVIOUS
  <2>2. n \in Nat /\ DOMAIN st = 1 .. n /\ st = [i \in 1 .. n |-> st[i]]
    BY <1>2
  <2> HIDE DEF n
  <2> QED BY <2>1, <2>2, AppendIs
<1>5. Stack(st2, lo)
  <2>1. Len(st2) \in Nat /\ lo \in 1 .. Len(st2)
    BY <1>2, <1>4
  <2>2. DOMAIN st2 = 1 .. Len(st2) /\ st2 = [i \in 1 .. Len(st2) |-> st2[i]]
    BY <1>4
  <2>3. st2[1] = Main /\ st2[lo] = st[lo]
    BY <1>1, <1>2, <1>4 DEF Stack, n
  <2>4. lo > 1 => st2[lo] \in CallEntries
    BY <1>1, <2>3 DEF Stack
  <2>5. \A i \in 2 .. Len(st2) : i # lo => st2[i] \in Blocks
    <3> SUFFICES ASSUME NEW i \in 2 .. n + 1, i # lo PROVE st2[i] \in Blocks
      BY <1>4
    <3>1. CASE i = n + 1
      BY <1>2, <1>4, <3>1
    <3>2. CASE i # n + 1
      <4>1. i \in 2 .. n /\ i \in 1 .. n
        BY <1>2, <3>2
      <4> QED BY <1>1, <1>4, <4>1 DEF Stack, n
    <3> QED BY <3>1, <3>2
  <2> QED BY <2>1, <2>2, <2>3, <2>4, <2>5 DEF Stack
<1>6. \A k \in 1 .. N + 1 : k \in 1 .. N \/ k = N + 1
  BY <1>3
<1>7. LocalsIn(l, V) => LocalsIn(m, V)
  BY <1>3, <1>6 DEF LocalsIn
<1>8. LocalsIn(l, Values(l)) => LocalsIn(m, Values(l))
  BY <1>3, <1>6 DEF LocalsIn
<1>9. Ready(m, V, lv2) /\ Numbered(V, m.next)
  <2>1. Values(m) = Values(l)
    BY <1>3 DEF Values
  <2>2. BorrowersIn(m)
    <3>1. BorrowersIn(l)
      BY <1>1 DEF Ready
    <3>2. \A f : Borrows(l, f) => Borrows(m, f)
      BY <1>3, <1>6 DEF Borrows
    <3> QED BY <1>3, <3>1, <3>2 DEF BorrowersIn
  <2>3. TempsIn(m, V) /\ TempsIn(m, Values(m)) /\ HeadsIn(m) /\ DeferredIn(m, Values(m))
    BY <1>1, <1>3, <2>1 DEF Ready, TempsIn, HeadsIn, DeferredIn
  <2>4. DeferredIn(l, V) => DeferredIn(m, V)
    BY <1>3 DEF DeferredIn
  <2> QED BY <1>1, <1>3, <1>7, <1>8, <2>1, <2>2, <2>3, <2>4 DEF Ready, Begins
<1>10. \A p \in 0 .. N : DeclaredTo(m, p) = DeclaredTo(l, p) /\ BoundTo(m, p) = BoundTo(l, p)
  <2> TAKE p \in 0 .. N
  <2>1. \A k \in 1 .. p : k \in 1 .. N
    BY <1>3
  <2> QED BY <1>3, <2>1 DEF DeclaredTo, BoundTo
<1>11. Scoped(m)
  <2>1. ASSUME NEW i \in 1 .. N + 1, NEW j \in 1 .. N + 1, NEW x \in Names
        PROVE  /\ x \in DOMAIN m.locals[i] /\ x \in DOMAIN m.locals[j] => i = j
               /\ x \in m.pending[i] /\ x \in m.pending[j] => i = j
               /\ ~(x \in DOMAIN m.locals[i] /\ x \in m.pending[j])
    <3>1. CASE i = N + 1 \/ j = N + 1
      BY <1>3, <3>1
    <3>2. CASE i \in 1 .. N /\ j \in 1 .. N
      BY <1>1, <1>3, <3>2 DEF Scoped
    <3> QED BY <1>6, <3>1, <3>2
  <2> QED BY <1>3, <2>1 DEF Scoped
<1>12. \A i \in lo + 1 .. n + 1 : i \in lo + 1 .. n \/ i = n + 1
  BY <1>2
<1>13. \A i \in lo + 1 .. n : i \in 1 .. n /\ i - lo \in 0 .. N
  BY <1>1, <1>2 DEF n
<1>14. ASSUME NEW i \in lo + 1 .. n + 1 PROVE Below(m, st2[i], i - lo)
  <2>1. CASE i \in lo + 1 .. n
    <3>1. Below(l, st[i], i - lo) /\ st2[i] = st[i]
      BY <1>1, <1>4, <1>13, <2>1 DEF Frame
    <3>2. i - lo \in 0 .. N
      BY <1>13, <2>1
    <3> QED BY <1>3, <1>10, <3>1, <3>2 DEF Below
  <2>2. CASE i = n + 1
    <3>1. i - lo = N /\ N \in 0 .. N /\ st2[i] = e
      BY <1>1, <1>2, <1>3, <1>4, <2>2 DEF n
    <3>2. Below(l, e, N)
      BY DEF Begins
    <3> QED BY <1>3, <1>10, <3>1, <3>2 DEF Below
  <2> QED BY <1>12, <2>1, <2>2
<1>15. ASSUME NEW i \in lo + 1 .. n + 1, NEW j \in lo + 1 .. n + 1, i < j
       PROVE  Nested(m, st2[i], i - lo, st2[j])
  <2>1. i \in lo + 1 .. n /\ i - lo \in 0 .. N /\ st2[i] = st[i]
    BY <1>2, <1>4, <1>12, <1>13, <1>15
  <2>2. Nested(l, st[i], i - lo, st2[j])
    <3>1. CASE j \in lo + 1 .. n
      <4>1. st2[j] = st[j]
        BY <1>4, <1>13, <3>1
      <4> QED BY <1>1, <1>15, <2>1, <3>1, <4>1 DEF Frame
    <3>2. CASE j = n + 1
      BY <1>4, <2>1, <3>2 DEF Begins, n
    <3> QED BY <1>12, <3>1, <3>2
  <2> QED BY <1>10, <2>1, <2>2 DEF Nested
<1>16. Frame(m, st2, lo, n + 1)
  <2> DEFINE hi == n + 1
  <2>1. Len(m.locals) = hi - lo + 1
    BY <1>1, <1>2, <1>3 DEF n
  <2>2. \A i, j \in lo + 1 .. hi : i < j => Nested(m, st2[i], i - lo, st2[j])
    BY <1>15
  <2>3. \A i \in lo + 1 .. hi : Below(m, st2[i], i - lo)
    BY <1>14
  <2> HIDE DEF hi
  <2>4. Frame(m, st2, lo, hi)
    BY <1>11, <2>1, <2>2, <2>3 DEF Frame
  <2> QED BY <2>4 DEF hi
<1>17. ASSUME NEW i \in lo + 1 .. n + 1 PROVE HeldBy(m, st2, i, i - lo, n + 1, V)
  <2>1. CASE i \in lo + 1 .. n
    <3>1. HeldBy(l, st, i, i - lo, n, V) /\ st2[i] = st[i]
      BY <1>1, <1>4, <1>13, <2>1 DEF Held
    <3>2. \A k \in 1 .. i - lo : m.locals[k] = l.locals[k]
      <4> TAKE k \in 1 .. i - lo
      <4>1. k \in 1 .. N
        BY <1>2, <1>3, <1>13, <2>1
      <4> QED BY <1>3, <4>1
    <3>3. \A k : Inside(l, st, i, n, k) => Inside(m, st2, i, n + 1, k)
      <4> TAKE k
      <4> SUFFICES ASSUME Inside(l, st, i, n, k) PROVE Inside(m, st2, i, n + 1, k)
        OBVIOUS
      <4>1. PICK j \in i + 1 .. n : st[j].kind = "if" /\ st[j].mark < k
        BY DEF Inside, Begins
      <4>2. j \in i + 1 .. n + 1 /\ st2[j] = st[j]
        BY <1>2, <1>4, <2>1
      <4> QED BY <4>1, <4>2 DEF Inside
    <3> QED BY <1>3, <3>1, <3>2, <3>3 DEF HeldBy
  <2>2. CASE i = n + 1
    <3>1. i - lo = N /\ st2[i] = e
      BY <1>1, <1>2, <1>3, <1>4, <2>2 DEF n
    <3>2. Reached(l, e, V)
      BY DEF Begins
    <3> QED BY <1>3, <3>1, <3>2 DEF HeldBy, Reached
  <2> QED BY <1>12, <2>1, <2>2
<1>18. Held(m, st2, lo, n + 1, V)
  BY <1>17 DEF Held
<1>19. \A i \in 1 .. n + 1 : i \in 1 .. n \/ i = n + 1
  BY <1>2
<1>20. \A i \in 1 .. n + 1 : Saved(st2[i], V)
  BY <1>1, <1>4, <1>19 DEF Begins, n
<1>21. Chain(st2, lv2)
  <2>1. lv2 => \A i \in 1 .. n + 1 : LiveIn(st2[i])
    BY <1>1, <1>4, <1>19 DEF Chain, n
  <2>2. ASSUME NEW i \in 1 .. n + 1, NEW j \in 1 .. n + 1, i < j, Timed(st2[j]), st2[j].live
        PROVE  LiveIn(st2[i])
    <3>1. i \in 1 .. n /\ st2[i] = st[i]
      BY <1>2, <1>4, <1>19, <2>2
    <3>2. CASE j \in 1 .. n
      <4>1. st2[j] = st[j]
        BY <1>4, <3>2
      <4> QED BY <1>1, <2>2, <3>1, <3>2, <4>1 DEF Chain, n
    <3>3. CASE j = n + 1
      BY <1>4, <2>2, <3>1, <3>3 DEF Begins, n
    <3> QED BY <1>19, <3>2, <3>3
  <2> QED BY <1>4, <2>1, <2>2 DEF Chain
<1>22. lo > 1 => Caller(st2[lo], st2, lo, V, m.next)
  <2> SUFFICES ASSUME lo > 1 PROVE Caller(st2[lo], st2, lo, V, m.next)
    OBVIOUS
  <2>1. Caller(st[lo], st, lo, V, l.next) /\ st2[lo] = st[lo]
    BY <1>1, <1>2, <1>4
  <2>2. \A i \in 1 + 1 .. lo - 1 : Alike(st[i], st2[i])
    BY <1>2, <1>4 DEF Alike
  <2>3. lo - 1 \in Nat
    BY <1>2
  <2> DEFINE c == st[lo].fn
  <2>4. /\ Frame(c, st, 1, lo - 1) => Frame(c, st2, 1, lo - 1)
        /\ Held(c, st, 1, lo - 1, V) => Held(c, st2, 1, lo - 1, V)
    BY <2>2, <2>3, AlikeFrame
  <2> QED BY <1>3, <2>1, <2>4 DEF Caller
<1>23. State(m, st2, V, lv2, lo)
  BY <1>4, <1>5, <1>9, <1>16, <1>18, <1>20, <1>21, <1>22 DEF State
<1> QED BY <1>23 DEF m, st2

LEMMA CarriedNames ==
    ASSUME NEW lo, Now(lo), NEW carry \in CarriedSets, NEW n \in carry
    PROVE  /\ n \in Names /\ LayerOf(fn, n) \in 1 .. Len(fn.locals) /\ n \in DOMAIN fn.locals[LayerOf(fn, n)]
           /\ Lookup(fn, n) \in Bnds /\ Lookup(fn, n).ty = "Text" /\ Lookup(fn, n).v \in From
           /\ Lookup(fn, n).v \in Nat /\ Lookup(fn, n).v < fn.next
           /\ live => Lookup(fn, n).v \in There
           /\ \A k \in 1 .. Len(fn.deferred) : fn.deferred[k].flat # Lookup(fn, n).v
           /\ n \in BoundTo(fn, Len(fn.locals))
           /\ \A i \in lo + 1 .. Len(open) :
                 Carries(open[i]) /\ n \in BoundTo(fn, i - lo) => n \in DOMAIN open[i].carried
<1>1. Good(From, fn) /\ Avail(From, fn) = From /\ fn \in Lowerers /\ Scoped(fn) /\ Len(fn.locals) \in Nat
      /\ Len(fn.locals) = Len(open) - lo + 1 /\ Len(open) \in Nat /\ lo \in Nat
  BY NowTypes
<1>2. carry \subseteq {e.name : e \in NamesOf(fn, "Text")} /\ Carried(n)
  BY DEF CarriedSets
<1>3. PICK e \in NamesOf(fn, "Text") : n = e.name
  BY <1>2
<1>4. IsLocal(fn, n) /\ Lookup(fn, n).ty = "Text" /\ n \in Names
  BY <1>3, NamesOfAreLeaves
<1>5. /\ LayerOf(fn, n) \in 1 .. Len(fn.locals) /\ n \in DOMAIN fn.locals[LayerOf(fn, n)]
      /\ Lookup(fn, n) \in Bnds /\ Lookup(fn, n).v \in From
  BY <1>1, <1>4, LookupNames
<1>6. Lookup(fn, n).v \in Nat /\ Lookup(fn, n).v < fn.next
  BY <1>1, <1>5, GoodTypes
<1>7. live => Lookup(fn, n).v \in There
  BY <1>5 DEF From, Basis
<1>8. \A k \in 1 .. Len(fn.deferred) : fn.deferred[k].flat # Lookup(fn, n).v
  <2> SUFFICES ASSUME NEW k \in 1 .. Len(fn.deferred), fn.deferred[k].flat = Lookup(fn, n).v PROVE FALSE
    OBVIOUS
  <2>1. Borrows(fn, Lookup(fn, n).v)
    BY <1>1 DEF Good, BorrowersIn
  <2>2. Lookup(fn, n) = fn.locals[LayerOf(fn, n)][n]
    BY DEF Lookup
  <2> QED BY <1>4, <1>5, <2>1, <2>2 DEF Borrows
<1>9. n \in BoundTo(fn, Len(fn.locals))
  BY <1>4, <1>5 DEF BoundTo
<1>10. ASSUME NEW i \in lo + 1 .. Len(open), Carries(open[i]), n \in BoundTo(fn, i - lo)
       PROVE  n \in DOMAIN open[i].carried
  <2>1. open[i] \in Enclosing /\ Below(fn, open[i], i - lo)
    BY EnclosingStack
  <2>2. open[i].depth = i - lo
    BY <1>10, <2>1 DEF Below
  <2>3. PICK k \in 1 .. i - lo : n \in DOMAIN fn.locals[k]
    BY <1>10 DEF BoundTo
  <2>4. k \in 1 .. Len(fn.locals)
    BY <1>1
  <2>5. k = LayerOf(fn, n)
    BY <1>1, <1>4, <1>5, <2>3, <2>4 DEF Scoped
  <2>6. open[i].depth >= LayerOf(fn, n)
    BY <1>1, <2>2, <2>3, <2>5
  <2> QED BY <1>2, <1>10, <2>1, <2>6 DEF Carried, Carries
<1> QED BY <1>4, <1>5, <1>6, <1>7, <1>8, <1>9, <1>10

\* A structure that is opened where nothing is emitted.
LEMMA OpenConsistent ==
    ASSUME NEW lo, Now(lo), NEW e, Begins(fn, open, There, lo, e), e.kind # "loop",
           live' \in BOOLEAN, live' => live /\ LiveIn(e), Write(PushScope(fn), Append(open, e))
    PROVE  IInv'
<1> DEFINE m == PushScope(fn)
           st == Append(open, e)
<1>1. /\ State(fn, open, There, live, lo) /\ live \in BOOLEAN /\ IsMemory(memory)
      /\ memory.fault = NoFault /\ Logs(open, There) /\ lo \in Nat
  BY DEF Now
<1>2. /\ fn \in Lowerers /\ fn.insts = << >> /\ Scoped(fn) /\ Stack(open, lo) /\ Len(open) \in Nat
  BY NowTypes
<1>3. m \in Lowerers /\ m.insts = << >>
  BY <1>2, PushIs DEF Scoped
<1>4. State(m, st, There, live', lo)
  BY <1>1, StatePush
<1>5. Len(st) = Len(open) + 1 /\ st[Len(open) + 1] = e /\ \A i \in 1 .. Len(open) : st[i] = open[i]
  BY <1>2, AppendIs DEF Stack
<1> HIDE DEF m, st
<1>6. Logs(st, There)
  <2> SUFFICES ASSUME NEW i \in 1 .. Len(open) + 1, st[i].kind = "loop"
               PROVE  Known(There, st[i].log) /\ Defs(st[i].log) \subseteq There
    BY <1>5 DEF Logs
  <2>1. i # Len(open) + 1
    BY <1>5
  <2>2. i \in 1 .. Len(open) /\ st[i] = open[i]
    BY <1>2, <1>5, <2>1
  <2> QED BY <1>1, <2>2 DEF Logs
<1>7. Ended(m) = m
  BY <1>3 DEF Ended, Lowerers
<1>8. After(m, There, live) = There /\ Sound(There, m.insts) /\ Defs(m.insts) = {}
  BY <1>3, NoInsts DEF After, Avail
<1>9. Write(m, st)
  BY DEF m, st
<1>10. State(Ended(m), st, After(m, There, live), live', lo)
       /\ (live => Sound(There, m.insts) /\ After(m, There, live) = There \cup Defs(m.insts))
  BY <1>4, <1>7, <1>8
<1> QED BY <1>1, <1>3, <1>6, <1>9, <1>10, WriteConsistent

LEMMA BeginTransactionStep ==
    ASSUME IInv, BeginTransaction
    PROVE  IInv'
<1>1. Running /\ ~fn.diverged /\ HasFreeName(fn)
  BY DEF BeginTransaction, Opens, Statement
<1>2. PICK lo \in Nat : Now(lo)
  BY <1>1, NowReached
<1> DEFINE e == [kind |-> "tx"]
<1>3. Write(PushScope(fn), Append(open, e)) /\ live' = live
  BY DEF BeginTransaction
<1>4. e \in Blocks /\ e.kind = "tx" /\ ~Carries(e) /\ ~Timed(e)
  BY DEF Blocks, TxEntries, Carries, Timed
<1> HIDE DEF e
<1>5. Names \ DeclaredTo(fn, Len(fn.locals)) # {}
  BY <1>1, <1>2, NowTypes, HasFreeNameDef DEF Scoped
<1>6. Begins(fn, open, There, lo, e)
  <2>1. Below(fn, e, Len(fn.locals))
    BY <1>4, <1>5 DEF Below
  <2>2. Reached(fn, e, There)
    BY <1>4 DEF Reached
  <2>3. Saved(e, There)
    BY <1>4 DEF Saved
  <2>4. \A i \in lo + 1 .. Len(open) : Nested(fn, open[i], i - lo, e)
    BY <1>4 DEF Nested
  <2> QED BY <1>1, <1>4, <2>1, <2>2, <2>3, <2>4 DEF Begins
<1>7. LiveIn(e) /\ live \in BOOLEAN
  BY <1>2, <1>4, NowTypes DEF LiveIn
<1> QED BY <1>2, <1>3, <1>4, <1>6, <1>7, OpenConsistent

LEMMA BindingsLayer ==
    ASSUME NEW l, NEW S \in SUBSET Names, \A n \in S : Lookup(l, n) \in Bnds
    PROVE  /\ Bindings(l, S) \in Layers /\ DOMAIN Bindings(l, S) = S
           /\ \A n \in S : Bindings(l, S)[n] = Lookup(l, n)
BY DEF Bindings, Layers

LEMMA PendingNames ==
    ASSUME NEW l \in Lowerers
    PROVE  UNION Range(l.pending) \in SUBSET Names
<1>1. l.pending \in Seq(Pendings) /\ DOMAIN l.pending = 1 .. Len(l.pending)
  BY DEF Lowerers
<1>2. \A k \in DOMAIN l.pending : l.pending[k] \in SUBSET Names
  BY <1>1 DEF Pendings
<1> QED BY <1>2 DEF Range

LEMMA BeginIfStep ==
    ASSUME IInv, BeginIf
    PROVE  IInv'
<1>1. Running /\ ~fn.diverged /\ HasFreeName(fn)
  BY DEF BeginIf, Opens, Statement
<1>2. PICK lo \in Nat : Now(lo)
  BY <1>1, NowReached
<1>3. PICK carry \in CarriedSets, taken \in BOOLEAN :
        /\ Write(PushScope(fn),
                 Append(open, [kind |-> "if", arm |-> "then", taken |-> taken,
                               then |-> NoArm, ended |-> FALSE, live |-> live, depth |-> Len(fn.locals),
                               mark |-> Len(fn.deferred), pending |-> UNION Range(fn.pending),
                               carried |-> Bindings(fn, carry)]))
        /\ live' = (live /\ taken)
  BY DEF BeginIf
<1> DEFINE carried == Bindings(fn, carry)
           pending == UNION Range(fn.pending)
           depth == Len(fn.locals)
           mark == Len(fn.deferred)
           e == [kind |-> "if", arm |-> "then", taken |-> taken,
                 then |-> NoArm, ended |-> FALSE, live |-> live, depth |-> depth,
                 mark |-> mark, pending |-> pending, carried |-> carried]
<1>4. Write(PushScope(fn), Append(open, e)) /\ live' = (live /\ taken)
  BY <1>3
<1>5. /\ fn \in Lowerers /\ Len(fn.locals) \in Nat /\ Len(fn.deferred) \in Nat /\ live \in BOOLEAN
      /\ Good(From, fn) /\ Ready(fn, There, live) /\ Chain(open, live) /\ Frame(fn, open, lo, Len(open))
  BY <1>2, NowTypes, GoodTypes
<1>6. pending \in SUBSET Names
  BY <1>5, PendingNames
<1>7. carried \in Layers /\ DOMAIN carried = carry /\ \A n \in carry : carried[n] = Lookup(fn, n)
  <2>1. carry \in SUBSET Names /\ \A n \in carry : Lookup(fn, n) \in Bnds
    BY <1>2, CarriedNames
  <2> QED BY <2>1, BindingsLayer
<1>8. NoArm \in Arms
  <2>1. << >> \in Layers
    BY EmptyLayer
  <2> DEFINE nothing == << >>
  <2> HIDE DEF nothing
  <2>2. nothing \in Layers
    BY <2>1 DEF nothing
  <2>3. [v |-> NoValue, ty |-> "Unit", diverged |-> FALSE, owns |-> FALSE, carried |-> nothing] \in Arms
    BY <2>2 DEF Arms, NoValue, Types
  <2> QED BY <2>3 DEF NoArm, nothing
<1> HIDE DEF carried, pending, depth, mark
<1>9. /\ e \in IfEntries /\ e.kind = "if" /\ e.arm = "then" /\ e.taken = taken /\ e.ended = FALSE
      /\ e.live = live /\ e.depth = depth /\ e.mark = mark /\ e.carried = carried
  <2>1. depth \in Nat /\ mark \in Nat
    BY <1>5 DEF depth, mark
  <2> QED BY <1>5, <1>6, <1>7, <1>8, <2>1 DEF IfEntries
<1> HIDE DEF e
<1>10. e \in Blocks /\ Carries(e) /\ Timed(e)
  BY <1>9 DEF Blocks, Carries, Timed
<1>11. Below(fn, e, Len(fn.locals))
  <2>1. Names \ DeclaredTo(fn, Len(fn.locals)) # {}
    BY <1>1, <1>2, NowTypes, HasFreeNameDef DEF Scoped
  <2>2. DOMAIN carried \subseteq BoundTo(fn, Len(fn.locals))
    BY <1>2, <1>7, CarriedNames
  <2>3. \A n \in DOMAIN carried :
          /\ carried[n].ty = "Text" /\ carried[n].v < fn.next
          /\ \A k \in 1 .. Len(fn.deferred) : fn.deferred[k].flat # carried[n].v
    BY <1>2, <1>7, CarriedNames
  <2>4. mark <= Len(fn.deferred) /\ depth = Len(fn.locals)
    BY <1>5 DEF mark, depth
  <2> QED BY <1>9, <1>10, <2>1, <2>2, <2>3, <2>4 DEF Below
<1>12. ASSUME NEW i \in lo + 1 .. Len(open) PROVE Nested(fn, open[i], i - lo, e)
  <2>1. Below(fn, open[i], i - lo)
    BY <1>5 DEF Frame
  <2>2. Carries(open[i]) => DOMAIN carried \cap BoundTo(fn, i - lo) \subseteq DOMAIN open[i].carried
    BY <1>2, <1>7, CarriedNames
  <2> QED BY <1>9, <2>1, <2>2 DEF Nested, Below, mark
<1>13. Reached(fn, e, There)
  <2> SUFFICES ASSUME live PROVE Reached(fn, e, There)
    BY <1>9 DEF Reached
  <2>1. LocalsIn(fn, There) /\ DeferredIn(fn, There)
    BY <1>5 DEF Ready
  <2>2. e.mark = Len(fn.deferred)
    BY <1>9 DEF mark
  <2> QED BY <1>9, <2>1, <2>2 DEF Reached, LocalsIn, DeferredIn
<1>14. Saved(e, There)
  <2>1. live => CarriedIn(carried, There)
    BY <1>2, <1>7, CarriedNames DEF CarriedIn
  <2> QED BY <1>9, <2>1 DEF Saved
<1>15. Begins(fn, open, There, lo, e)
  BY <1>1, <1>5, <1>9, <1>11, <1>12, <1>13, <1>14 DEF Begins, Chain
<1>16. live' \in BOOLEAN /\ (live' => live /\ LiveIn(e))
  BY <1>4, <1>5, <1>9 DEF LiveIn
<1> QED BY <1>2, <1>4, <1>9, <1>15, <1>16, OpenConsistent

-----------------------------------------------------------------------------
(* The variables a structure carries.                                       *)

\* Instructions that define the next values.
Nexts(D, l, m, t, next) ==
    /\ t \in Seq(Insts) /\ Known(Avail(D, l), t)
    /\ next \in Nat /\ l.next <= next /\ Defs(t) \subseteq l.next .. next - 1
    /\ m.owned \in SUBSET Nat
    /\ m = [l EXCEPT !.insts = l.insts \o t, !.owned = m.owned, !.next = next]

LEMMA NextGoes ==
    ASSUME NEW D, NEW l, Good(D, l), NEW m, NEW t, NEW next, Nexts(D, l, m, t, next)
    PROVE  Goes(D, l, m) /\ m.deferred = l.deferred /\ m.next = next /\ Avail(D, m) = Avail(D, l) \cup Defs(t)
<1> DEFINE s == l.insts \o t
           owned == m.owned
<1>0. /\ t \in Seq(Insts) /\ Known(Avail(D, l), t)
      /\ next \in Nat /\ l.next <= next /\ Defs(t) \subseteq l.next .. next - 1
      /\ owned \in SUBSET Nat /\ m = [l EXCEPT !.insts = s, !.owned = owned, !.next = next]
  BY DEF Nexts
<1>1. l \in Lowerers /\ l.insts \in Seq(Insts) /\ l.next \in Nat \ {0} /\ Len(l.deferred) \in Nat
  BY GoodTypes
<1>2. s \in Seq(Insts) /\ Sound(D, s) /\ Defs(s) = Defs(l.insts) \cup Defs(t)
  <2>1. Sound(D, l.insts) /\ Sound(D \cup Defs(l.insts), t)
    BY <1>0, KnownSound DEF Good, Avail
  <2>2. t \in Seq(Insts)
    BY <1>0
  <2> QED BY <1>1, <2>1, <2>2, SoundConcat
<1>3. m = [l EXCEPT !.insts = s, !.owned = owned, !.next = next]
  BY <1>0
<1> HIDE DEF s, owned
<1>4. /\ m \in Lowerers /\ m.insts = s /\ SameScopes(l, m) /\ m.heads = l.heads
      /\ m.deferred = l.deferred /\ m.next = next /\ m.temps = l.temps
  <2>1. next \in Nat \ {0}
    BY <1>0, <1>1
  <2> QED BY <1>0, <1>1, <1>2, <1>3, <2>1 DEF Lowerers, SameScopes
<1>5. Avail(D, m) = Avail(D, l) \cup Defs(t) /\ Sound(D, m.insts)
  BY <1>2, <1>4 DEF Avail
<1>6. AvailFrom(D, l, m) /\ Prefix(l.deferred, m.deferred)
  BY <1>0, <1>1, <1>4, <1>5 DEF Prefix, AvailFrom
<1>7. \A d \in Avail(D, m) : d \in Avail(D, l) \/ d \in l.next .. m.next - 1
  BY <1>0, <1>4, <1>5
<1>8. Goes(D, l, m)
  <2>1. \A h \in m.heads : h \in l.heads \/ h \in l.next .. m.next - 1
    BY <1>4
  <2>2. \A h \in DOMAIN m.temps :
          \/ h \in DOMAIN l.temps /\ m.temps[h] = l.temps[h]
          \/ h \in l.next .. m.next - 1 /\ m.temps[h] \in Avail(D, m)
    BY <1>4
  <2>3. \A k \in Len(l.deferred) + 1 .. Len(m.deferred) :
          m.deferred[k].src \in Avail(D, m) /\ m.deferred[k].flat = ExtractSource
    BY <1>1, <1>4
  <2>4. l.next <= m.next
    BY <1>0, <1>4
  <2> QED BY <1>4, <1>5, <1>6, <1>7, <2>1, <2>2, <2>3, <2>4, GoesIf
<1> QED BY <1>4, <1>5, <1>8

\* The scopes of o are those of m, its names of b rebound.
Rebound(m, o, b) ==
    /\ Len(o.locals) = Len(m.locals) /\ o.pending = m.pending
    /\ \A k \in 1 .. Len(m.locals) :
          /\ DOMAIN o.locals[k] = DOMAIN m.locals[k]
          /\ \A n \in DOMAIN m.locals[k] :
                o.locals[k][n] = IF n \in DOMAIN b THEN b[n] ELSE m.locals[k][n]
SameElse(m, o) ==
    /\ o.insts = m.insts /\ o.next = m.next /\ o.deferred = m.deferred /\ o.temps = m.temps
    /\ o.heads = m.heads /\ o.owned = m.owned /\ o.unset = m.unset /\ o.params = m.params
    /\ o.borrowed = m.borrowed /\ o.diverged = m.diverged /\ o.returns = m.returns

LEMMA RebindIs ==
    ASSUME NEW m \in Lowerers, NEW b, \A n \in DOMAIN b : b[n] \in Bnds
    PROVE  /\ RebindAll(m, b) \in Lowerers /\ Rebound(m, RebindAll(m, b), b)
           /\ SameElse(m, RebindAll(m, b))
<1> DEFINE Layer(i) == [n \in DOMAIN m.locals[i] |-> IF n \in DOMAIN b THEN b[n] ELSE m.locals[i][n]]
           locals == [i \in DOMAIN m.locals |-> Layer(i)]
           o == RebindAll(m, b)
<1>1. m.locals \in Seq(Layers) /\ Len(m.locals) \in Nat /\ DOMAIN m.locals = 1 .. Len(m.locals)
  BY DEF Lowerers
<1>2. ASSUME NEW i \in 1 .. Len(m.locals) PROVE Layer(i) \in Layers
  <2>1. m.locals[i] \in Layers
    BY <1>1
  <2>2. PICK S \in SUBSET Names : m.locals[i] \in [S -> Bnds]
    BY <2>1 DEF Layers
  <2>3. Layer(i) \in [S -> Bnds]
    BY <2>2
  <2> QED BY <2>3 DEF Layers
<1>3. /\ locals \in Seq(Layers) /\ Len(locals) = Len(m.locals)
      /\ \A k \in 1 .. Len(m.locals) : locals[k] = Layer(k)
  <2>1. \A k \in 1 .. Len(m.locals) : locals[k] = Layer(k)
    BY <1>1
  <2>2. locals \in [1 .. Len(m.locals) -> Layers]
    BY <1>1, <1>2
  <2> HIDE DEF locals
  <2>3. locals \in Seq(Layers) /\ Len(locals) = Len(m.locals)
    BY <1>1, <2>2
  <2> QED BY <2>1, <2>3
<1>4. o = [m EXCEPT !.locals = locals]
  BY DEF RebindAll
<1>5. \A k \in 1 .. Len(m.locals) :
          /\ DOMAIN locals[k] = DOMAIN m.locals[k]
          /\ \A n \in DOMAIN m.locals[k] :
                locals[k][n] = IF n \in DOMAIN b THEN b[n] ELSE m.locals[k][n]
  <2> TAKE k \in 1 .. Len(m.locals)
  <2>1. locals[k] = Layer(k)
    BY <1>3
  <2> HIDE DEF locals
  <2> QED BY <2>1
<1> HIDE DEF locals, o
<1>6. /\ o \in Lowerers /\ o.locals = locals /\ o.pending = m.pending /\ SameElse(m, o)
  BY <1>3, <1>4 DEF Lowerers, SameElse
<1>7. Rebound(m, o, b)
  BY <1>3, <1>5, <1>6 DEF Rebound
<1> QED BY <1>6, <1>7 DEF o

\* The values of b are there, and no tuple borrows from one that is not a tuple.
Rebindable(D, m, b) ==
    \A n \in DOMAIN b :
        /\ b[n] \in Bnds /\ b[n].v \in Avail(D, m)
        /\ \A j \in 1 .. Len(m.deferred) : m.deferred[j].flat = b[n].v => b[n].ty = "Flat"

LEMMA RebindMoves ==
    ASSUME NEW D, NEW l, NEW m, Moves(D, l, m), NEW b, Rebindable(D, m, b)
    PROVE  /\ Moves(D, l, RebindAll(m, b)) /\ Rebound(m, RebindAll(m, b), b)
           /\ SameElse(m, RebindAll(m, b)) /\ RebindAll(m, b) \in Lowerers
<1> DEFINE o == RebindAll(m, b)
<1>1. Good(D, m) /\ m \in Lowerers /\ Len(m.deferred) \in Nat
  BY GoodTypes DEF Moves
<1>2. o \in Lowerers /\ Rebound(m, o, b) /\ SameElse(m, o)
  BY <1>1, RebindIs DEF Rebindable
<1> HIDE DEF o
<1>3. ASSUME NEW k \in 1 .. Len(o.locals), NEW n \in DOMAIN o.locals[k]
      PROVE  /\ o.locals[k][n].v \in Avail(D, m)
             /\ \A j \in 1 .. Len(m.deferred) :
                   m.deferred[j].flat = o.locals[k][n].v => o.locals[k][n].ty = "Flat"
  <2>1. k \in 1 .. Len(m.locals) /\ n \in DOMAIN m.locals[k]
        /\ o.locals[k][n] = IF n \in DOMAIN b THEN b[n] ELSE m.locals[k][n]
    BY <1>2 DEF Rebound
  <2>2. CASE n \in DOMAIN b
    BY <2>1, <2>2 DEF Rebindable
  <2>3. CASE n \notin DOMAIN b
    BY <1>1, <2>1, <2>3 DEF Good, LocalsIn, BorrowersIn, Borrows
  <2> QED BY <2>2, <2>3
<1>4. Rescopes(D, m, o)
  BY <1>1, <1>2, <1>3 DEF Rescopes, SameElse
<1>5. Moves(D, l, o)
  BY <1>4, RescopeMoves
<1> QED BY <1>2, <1>5 DEF o

\* m has a new value for each of the names.
Params(D, l, m, names) ==
    /\ m.pending = l.pending /\ m.deferred = l.deferred /\ m.diverged = l.diverged
    /\ m.returns = l.returns /\ m.params = l.params /\ m.borrowed = l.borrowed
    /\ m.unset = l.unset /\ Len(m.locals) = Len(l.locals)
    /\ \A k \in 1 .. Len(l.locals) :
          /\ DOMAIN m.locals[k] = DOMAIN l.locals[k]
          /\ \A n \in DOMAIN l.locals[k] :
                IF n \in names
                THEN /\ m.locals[k][n].ty = "Text" /\ m.locals[k][n].v \in Avail(D, m)
                     /\ m.locals[k][n].v >= l.next
                ELSE m.locals[k][n] = l.locals[k][n]

LEMMA BlockParamsMoves ==
    ASSUME NEW D, NEW l, Good(D, l), NEW from, DOMAIN from \in SUBSET Names,
           \A n \in DOMAIN from : from[n].v \in Avail(D, l)
    PROVE  /\ Moves(D, l, BlockParams(l, from)) /\ Params(D, l, BlockParams(l, from), DOMAIN from)
<1> DEFINE names == SetToSeq(DOMAIN from)
           Param(n) == l.next - 1 + CHOOSE i \in DOMAIN names : names[i] = n
           N == Cardinality(DOMAIN from)
           t == [i \in DOMAIN names |-> [op |-> "Param", src |-> from[names[i]].v, dst |-> Param(names[i])]]
           owned == l.owned \cup {Param(n) : n \in DOMAIN from}
           b == [n \in DOMAIN from |-> [v |-> Param(n), ty |-> "Text"]]
           x == [l EXCEPT !.insts = @ \o t, !.owned = owned, !.next = @ + Len(names)]
           m == BlockParams(l, from)
<1>1. l \in Lowerers /\ l.insts \in Seq(Insts) /\ l.next \in Nat \ {0} /\ l.owned \in SUBSET Nat
      /\ \A d \in Avail(D, l) : d \in Nat
  BY GoodTypes
<1>2. /\ names \in [1 .. N -> DOMAIN from] /\ N \in Nat /\ Len(names) = N /\ DOMAIN names = 1 .. N
      /\ \A n \in DOMAIN from : \E i \in 1 .. N : names[i] = n
  BY NamesAreFinite, SetToSeqLists
<1>3. m = RebindAll(x, b)
  BY <1>1 DEF BlockParams, Lowerers
<1> HIDE DEF names, N
<1>4. ASSUME NEW n \in DOMAIN from PROVE Param(n) \in l.next .. l.next + N - 1 /\ Param(n) \in Nat
  <2> DEFINE c == CHOOSE i \in DOMAIN names : names[i] = n
  <2>1. \E i \in DOMAIN names : names[i] = n
    BY <1>2
  <2>2. c \in 1 .. N
    BY <1>2, <2>1
  <2> HIDE DEF c
  <2>3. l.next - 1 + c \in l.next .. l.next + N - 1 /\ l.next - 1 + c \in Nat
    BY <1>1, <1>2, <2>2
  <2> QED BY <2>3 DEF c
<1> HIDE DEF Param
<1>5. /\ t \in Seq(Insts) /\ Len(t) = N /\ DOMAIN t = 1 .. N
      /\ \A i \in 1 .. N : t[i].op = "Param" /\ t[i].src = from[names[i]].v /\ t[i].dst = Param(names[i])
  <2>1. ASSUME NEW i \in 1 .. N
        PROVE  [op |-> "Param", src |-> from[names[i]].v, dst |-> Param(names[i])] \in Insts
    <3>1. names[i] \in DOMAIN from
      BY <1>2
    <3>2. from[names[i]].v \in Nat /\ Param(names[i]) \in Nat
      BY <1>1, <1>4, <3>1
    <3> QED BY <3>2 DEF Insts, Ops, DefiningOps
  <2>2. t \in [1 .. N -> Insts]
    BY <1>2, <2>1
  <2>3. \A i \in 1 .. N : t[i].op = "Param" /\ t[i].src = from[names[i]].v /\ t[i].dst = Param(names[i])
    BY <1>2
  <2> HIDE DEF t
  <2> QED BY <1>2, <2>2, <2>3
<1> HIDE DEF t
<1>6. Known(Avail(D, l), t)
  BY <1>2, <1>5 DEF Known
<1>7. Defs(t) = {Param(n) : n \in DOMAIN from}
  <2>1. \A i \in 1 .. N : Defines(t[i])
    BY <1>5 DEF Defines, DefiningOps
  <2>2. Defs(t) = {Param(names[i]) : i \in 1 .. N}
    BY <1>5, <2>1 DEF Defs, DefinedBy
  <2> QED BY <1>2, <2>2
<1> DEFINE next == l.next + N
<1>8. next \in Nat /\ l.next <= next /\ Defs(t) \subseteq l.next .. next - 1 /\ owned \in SUBSET Nat
  BY <1>1, <1>2, <1>4, <1>7
<1>9. x = [l EXCEPT !.insts = l.insts \o t, !.owned = x.owned, !.next = next] /\ x.owned = owned
  BY <1>1, <1>2 DEF Lowerers
<1> HIDE DEF owned, x, next
<1>a. Nexts(D, l, x, t, next)
  BY <1>5, <1>6, <1>8, <1>9 DEF Nexts
<1>10. Goes(D, l, x) /\ x.deferred = l.deferred /\ x.next = next /\ Avail(D, x) = Avail(D, l) \cup Defs(t)
  BY <1>a, NextGoes
<1>11. Moves(D, l, x) /\ SameScopes(l, x)
  BY <1>10 DEF Goes
<1>12. /\ DOMAIN b = DOMAIN from
       /\ \A n \in DOMAIN from : /\ b[n] \in Bnds /\ b[n].v = Param(n) /\ b[n].ty = "Text"
                                 /\ b[n].v \in Avail(D, x) /\ b[n].v >= l.next
  <2>1. \A n \in DOMAIN from : b[n] \in Bnds /\ b[n].v = Param(n) /\ b[n].ty = "Text"
    BY <1>4 DEF Bnds, Flows
  <2>2. \A n \in DOMAIN from : Param(n) >= l.next
    BY <1>1, <1>4
  <2>3. DOMAIN b = DOMAIN from
    OBVIOUS
  <2> HIDE DEF b
  <2> QED BY <1>7, <1>10, <2>1, <2>2, <2>3
<1> HIDE DEF b
<1>13. Rebindable(D, x, b)
  <2> SUFFICES ASSUME NEW n \in DOMAIN b, NEW j \in 1 .. Len(x.deferred), x.deferred[j].flat = b[n].v
               PROVE  FALSE
    BY <1>12 DEF Rebindable
  <2>1. Borrows(l, x.deferred[j].flat)
    BY <1>10 DEF Good, BorrowersIn
  <2>2. b[n].v \in Nat /\ b[n].v < l.next
    BY <1>4, <1>12, <2>1 DEF Borrows
  <2> QED BY <1>1, <1>12, <2>2
<1>14. Moves(D, l, RebindAll(x, b)) /\ Rebound(x, RebindAll(x, b), b) /\ SameElse(x, RebindAll(x, b))
  BY <1>11, <1>13, RebindMoves
<1>15. Moves(D, l, m) /\ Rebound(x, m, b) /\ SameElse(x, m)
  BY <1>3, <1>14
<1> HIDE DEF m
<1>16. Avail(D, m) = Avail(D, x)
  BY <1>15 DEF SameElse, Avail
<1>17. Params(D, l, m, DOMAIN from)
  BY <1>10, <1>11, <1>12, <1>15, <1>16 DEF Params, Rebound, SameElse, SameScopes
<1> QED BY <1>15, <1>17 DEF m

LEMMA LookupIs ==
    ASSUME NEW l, Scoped(l), DOMAIN l.locals = 1 .. Len(l.locals),
           NEW k \in 1 .. Len(l.locals), NEW n \in Names, n \in DOMAIN l.locals[k]
    PROVE  LayerOf(l, n) = k /\ Lookup(l, n) = l.locals[k][n]
<1>1. LayerOf(l, n) \in DOMAIN l.locals /\ n \in DOMAIN l.locals[LayerOf(l, n)]
  BY DEF LayerOf
<1> QED BY <1>1 DEF Scoped, Lookup

\* What the memory is after instructions that find what they read.
LEMMA Afterwards ==
    ASSUME IsMemory(memory), memory.fault = NoFault, NEW insts \in Seq(Insts), Sound(There, insts)
    PROVE  /\ IsMemory(Run(memory, insts))
           /\ Run(memory, insts).fault = NoFault => DOMAIN Run(memory, insts).env = There \cup Defs(insts)
BY RunIsSound DEF Leads, There

\* The scopes of m are those of l but for the values of names.
SameShape(l, m) ==
    /\ Len(m.locals) = Len(l.locals) /\ m.pending = l.pending
    /\ \A k \in 1 .. Len(l.locals) : DOMAIN m.locals[k] = DOMAIN l.locals[k]

LEMMA SameShapeScoped ==
    ASSUME NEW l, NEW m, SameShape(l, m)
    PROVE  /\ Scoped(l) => Scoped(m)
           /\ Len(l.locals) \in Nat => \A p \in 0 .. Len(l.locals) :
                 DeclaredTo(m, p) = DeclaredTo(l, p) /\ BoundTo(m, p) = BoundTo(l, p)
<1>1. Scoped(l) => Scoped(m)
  BY DEF SameShape, Scoped
<1>2. ASSUME Len(l.locals) \in Nat, NEW p \in 0 .. Len(l.locals)
      PROVE  DeclaredTo(m, p) = DeclaredTo(l, p) /\ BoundTo(m, p) = BoundTo(l, p)
  <2>1. \A k \in 1 .. p : k \in 1 .. Len(l.locals)
    BY <1>2
  <2> QED BY <2>1 DEF SameShape, DeclaredTo, BoundTo
<1> QED BY <1>1, <1>2

LEMMA BeginLoopParams ==
    ASSUME NEW lo, Now(lo), ~fn.diverged, NEW carry \in CarriedSets, NEW l,
           l = BlockParams(fn, Bindings(fn, carry))
    PROVE  /\ Moves(From, fn, l) /\ Params(From, fn, l, carry) /\ SameShape(fn, l)
           /\ State(Ended(l), open, After(l, There, live), live, lo) /\ l \in Lowerers
           /\ live => Sound(There, l.insts) /\ After(l, There, live) = There \cup Defs(l.insts)
           /\ \A n \in carry : n \in Names /\ Lookup(fn, n) \in Bnds
<1> DEFINE from == Bindings(fn, carry)
           hi == Len(open)
<1>1. /\ fn \in Lowerers /\ Good(From, fn) /\ Avail(From, fn) = From /\ Scoped(fn)
      /\ Stack(open, lo) /\ Frame(fn, open, lo, hi) /\ live \in BOOLEAN /\ lo \in Nat /\ hi \in Nat
      /\ Len(fn.locals) = hi - lo + 1 /\ Len(fn.locals) \in Nat /\ lo <= hi
  BY NowTypes
<1>2. carry \in SUBSET Names /\ \A n \in carry : n \in Names /\ Lookup(fn, n) \in Bnds /\ Lookup(fn, n).v \in From
  BY CarriedNames
<1>3. DOMAIN from = carry /\ \A n \in carry : from[n] = Lookup(fn, n)
  BY <1>2, BindingsLayer
<1> HIDE DEF from
<1>4. Moves(From, fn, l) /\ Params(From, fn, l, carry)
  <2>1. DOMAIN from \in SUBSET Names /\ \A n \in DOMAIN from : from[n].v \in Avail(From, fn)
    BY <1>1, <1>2, <1>3
  <2>2. Moves(From, fn, BlockParams(fn, from)) /\ Params(From, fn, BlockParams(fn, from), DOMAIN from)
    BY <1>1, <2>1, BlockParamsMoves
  <2> QED BY <1>3, <2>2 DEF from
<1>5. SameShape(fn, l)
  BY <1>4 DEF Params, SameShape
<1>6. Scoped(l) /\ l \in Lowerers /\ Len(l.locals) = hi - lo + 1
  BY <1>1, <1>4, <1>5, SameShapeScoped, GoodTypes DEF Moves, SameShape
<1>7. Keeps(fn, l, open, lo, hi, hi)
  <2> SUFFICES ASSUME NEW i \in lo + 1 .. hi
               PROVE  KeepsDeferred(fn, l, open, i, hi, hi) /\ KeepsScopes(fn, l, open[i], i - lo)
    BY DEF Keeps
  <2>1. Len(fn.deferred) \in Nat /\ l.deferred = fn.deferred /\ l.diverged = fn.diverged
    BY <1>1, <1>4, GoodTypes DEF Params
  <2>2. Prefix(fn.deferred, l.deferred) /\ ~(Len(l.deferred) > Len(fn.deferred))
    BY <2>1 DEF Prefix
  <2>3. KeepsDeferred(fn, l, open, i, hi, hi)
    BY <1>1, <1>6, <2>1, <2>2, KeepsDeferredOn
  <2>4. i - lo \in 0 .. Len(fn.locals)
    BY <1>1
  <2>5. DeclaredTo(l, i - lo) = DeclaredTo(fn, i - lo) /\ BoundTo(l, i - lo) = BoundTo(fn, i - lo)
    BY <1>1, <1>5, <2>4, SameShapeScoped
  <2>6. ASSUME Carries(open[i]), NEW k \in 1 .. i - lo, NEW n \in DOMAIN l.locals[k]
        PROVE  n \in DOMAIN open[i].carried \/ (n \in DOMAIN fn.locals[k] /\ l.locals[k][n] = fn.locals[k][n])
    <3>1. k \in 1 .. Len(fn.locals)
      BY <2>4
    <3>2. n \in DOMAIN fn.locals[k]
      BY <1>5, <3>1 DEF SameShape
    <3>3. CASE n \in carry
      <4>1. n \in BoundTo(fn, i - lo)
        BY <1>2, <2>6, <3>2, <3>3 DEF BoundTo
      <4> QED BY <2>6, <3>3, <4>1, CarriedNames
    <3>4. CASE n \notin carry
      BY <1>4, <3>1, <3>2, <3>4 DEF Params
    <3> QED BY <3>3, <3>4
  <2> QED BY <2>3, <2>5, <2>6 DEF KeepsScopes
<1>8. l.diverged = fn.diverged /\ (live => live /\ ~l.diverged) /\ (l.diverged => l.returns \in Types)
  BY <1>4 DEF Params
<1>9. DOMAIN open = 1 .. hi /\ open = [i \in 1 .. hi |-> open[i]] /\ hi <= hi
  BY <1>1 DEF Stack
<1>10. /\ State(Ended(l), open, After(l, There, live), live, lo) /\ l \in Lowerers
       /\ live => Sound(There, l.insts) /\ After(l, There, live) = There \cup Defs(l.insts)
  BY <1>1, <1>4, <1>6, <1>7, <1>8, <1>9, StateFrom
<1> QED BY <1>2, <1>4, <1>5, <1>10

LEMMA BeginLoopStep ==
    ASSUME IInv, BeginLoop
    PROVE  IInv'
<1>1. Running /\ ~fn.diverged
  BY DEF BeginLoop, Opens, Statement
<1>2. PICK lo \in Nat : Now(lo)
  BY <1>1, NowReached
<1>3. PICK carry \in CarriedSets, form \in {"while", "do"}, rounds \in {0, Rounds} :
        LET l == BlockParams(fn, Bindings(fn, carry))
        IN  /\ form = "do" => rounds > 0
            /\ Lowered(PushScope(l))
            /\ memory' = IF live THEN Run(memory, l.insts) ELSE memory
            /\ open' = Append(IF live THEN Logged(open, l.insts) ELSE open,
                             [kind |-> "loop", form |-> form, rounds |-> rounds, live |-> live,
                              depth |-> Len(fn.locals), pending |-> UNION Range(fn.pending),
                              carried |-> Bindings(l, carry), log |-> << >>])
            /\ live' = (live /\ rounds > 0)
  BY DEF BeginLoop
<1> DEFINE l == BlockParams(fn, Bindings(fn, carry))
           carried == Bindings(l, carry)
           pending == UNION Range(fn.pending)
           depth == Len(fn.locals)
           log == << >>
           e == [kind |-> "loop", form |-> form, rounds |-> rounds, live |-> live,
                 depth |-> depth, pending |-> pending, carried |-> carried, log |-> log]
           st == IF live THEN Logged(open, l.insts) ELSE open
           W == After(l, There, live)
           m == Ended(l)
           hi == Len(open)
<1>4. /\ form = "do" => rounds > 0
      /\ Lowered(PushScope(l)) /\ memory' = (IF live THEN Run(memory, l.insts) ELSE memory)
      /\ open' = Append(st, e) /\ live' = (live /\ rounds > 0)
  BY <1>3
<1>5. /\ fn \in Lowerers /\ Scoped(fn) /\ Stack(open, lo) /\ live \in BOOLEAN /\ lo \in Nat /\ hi \in Nat
      /\ Len(fn.locals) = hi - lo + 1 /\ Len(fn.locals) \in Nat /\ Good(From, fn)
      /\ IsMemory(memory) /\ memory.fault = NoFault /\ Logs(open, There)
  BY <1>2, NowTypes DEF Now
<1>6. /\ Moves(From, fn, l) /\ Params(From, fn, l, carry) /\ SameShape(fn, l)
      /\ State(m, open, W, live, lo) /\ l \in Lowerers
      /\ live => Sound(There, l.insts) /\ W = There \cup Defs(l.insts)
      /\ \A n \in carry : n \in Names /\ Lookup(fn, n) \in Bnds
  BY <1>1, <1>2, BeginLoopParams
<1>7. rounds \in Nat
  BY ConstantsAssumption
<1> HIDE DEF l
<1>8. l.insts \in Seq(Insts) /\ l.next \in Nat /\ fn.next \in Nat /\ Scoped(l) /\ DOMAIN l.locals = 1 .. Len(l.locals)
      /\ Len(l.locals) = Len(fn.locals)
  <2>1. l.insts \in Seq(Insts) /\ l.next \in Nat /\ fn.next \in Nat /\ l.locals \in Seq(Layers)
    BY <1>5, <1>6 DEF Lowerers
  <2>2. Scoped(l) /\ Len(l.locals) = Len(fn.locals)
    BY <1>5, <1>6, SameShapeScoped DEF SameShape
  <2> QED BY <2>1, <2>2
<1>9. ASSUME NEW n \in carry
      PROVE  /\ Lookup(l, n) \in Bnds /\ Lookup(l, n).ty = "Text" /\ Lookup(l, n).v \in Avail(From, l)
             /\ Lookup(l, n).v >= fn.next /\ Lookup(l, n).v < l.next /\ Lookup(l, n).v \in Nat
             /\ n \in BoundTo(l, Len(fn.locals))
             /\ \A i \in lo + 1 .. hi : Carries(open[i]) /\ n \in BoundTo(l, i - lo) => n \in DOMAIN open[i].carried
  <2> DEFINE k == LayerOf(fn, n)
  <2>1. k \in 1 .. Len(fn.locals) /\ n \in DOMAIN fn.locals[k] /\ n \in Names
        /\ n \in BoundTo(fn, Len(fn.locals))
        /\ \A i \in lo + 1 .. hi : Carries(open[i]) /\ n \in BoundTo(fn, i - lo) => n \in DOMAIN open[i].carried
    BY <1>2, CarriedNames
  <2> HIDE DEF k
  <2>2. n \in DOMAIN l.locals[k] /\ l.locals[k][n].ty = "Text" /\ l.locals[k][n].v \in Avail(From, l)
        /\ l.locals[k][n].v >= fn.next
    BY <1>6, <2>1 DEF Params
  <2>3. Lookup(l, n) = l.locals[k][n]
    BY <1>8, <2>1, <2>2, LookupIs
  <2>4. l.locals[k][n] \in Bnds /\ l.locals[k][n].v \in Nat /\ l.locals[k][n].v < l.next
    <3>1. Good(From, l) /\ k \in 1 .. Len(l.locals)
      BY <1>6, <1>8, <2>1 DEF Moves
    <3> QED BY <2>2, <3>1, LayerTypes, GoodTypes
  <2>5. \A p \in 0 .. Len(fn.locals) : BoundTo(l, p) = BoundTo(fn, p)
    BY <1>5, <1>6, SameShapeScoped
  <2>6. \A i \in lo + 1 .. hi : i - lo \in 0 .. Len(fn.locals)
    BY <1>5
  <2> QED BY <1>5, <2>1, <2>2, <2>3, <2>4, <2>5, <2>6
<1>10. carried \in Layers /\ DOMAIN carried = carry /\ \A n \in carry : carried[n] = Lookup(l, n)
  <2>1. carry \in SUBSET Names /\ \A n \in carry : Lookup(l, n) \in Bnds
    BY <1>6, <1>9
  <2> QED BY <2>1, BindingsLayer
<1>11. pending \in SUBSET Names /\ log \in Seq(Insts)
  BY <1>5, PendingNames, NoInsts
<1> HIDE DEF carried, pending, depth, log
<1>12. /\ e \in LoopEntries /\ e.kind = "loop" /\ e.form = form /\ e.rounds = rounds
       /\ e.live = live /\ e.depth = depth /\ e.carried = carried /\ e.log = log
  <2>1. depth \in Nat
    BY <1>5 DEF depth
  <2> QED BY <1>5, <1>10, <1>11, <2>1 DEF LoopEntries
<1> HIDE DEF e
<1>13. e \in Blocks /\ Carries(e) /\ Timed(e)
  BY <1>12 DEF Blocks, Carries, Timed
<1>14. State(m, st, W, live, lo)
  <2>1. live => State(m, Logged(open, l.insts), W, live, lo)
    BY <1>6, <1>8, LoggedState
  <2> QED BY <1>6, <2>1
<1>15. Logs(st, W)
  <2>1. CASE live
    <3>1. Sound(There, l.insts) /\ W = There \cup Defs(l.insts)
      BY <1>6, <2>1
    <3>2. Known(W, l.insts) /\ Defs(l.insts) \subseteq W /\ Logs(open, W)
      BY <1>5, <1>8, <3>1, SoundKnown, LogsMore
    <3>3. Logs(Logged(open, l.insts), W)
      BY <1>5, <1>8, <3>2, LoggedLogs
    <3> QED BY <2>1, <3>3
  <2>2. CASE ~live
    BY <1>5, <2>2 DEF After
  <2> QED BY <2>1, <2>2
<1>16. Len(st) = hi /\ Stack(st, lo) /\ \A i \in 1 .. hi : Alike(open[i], st[i])
  <2>1. CASE live
    BY <1>5, <1>8, <1>14, <2>1, LoggedStack DEF State
  <2>2. CASE ~live
    BY <1>5, <2>2 DEF Alike
  <2> QED BY <2>1, <2>2
<1> HIDE DEF st
<1>17. /\ m.locals = l.locals /\ m.pending = l.pending /\ m.deferred = l.deferred /\ m.next = l.next
       /\ m.diverged = l.diverged /\ m \in Lowerers
  BY <1>6, EndedTypes
<1> HIDE DEF m, W
<1>18. \A p : DeclaredTo(m, p) = DeclaredTo(l, p) /\ BoundTo(m, p) = BoundTo(l, p)
  BY <1>17 DEF DeclaredTo, BoundTo
<1>19. Below(m, e, Len(m.locals))
  <2>1. DOMAIN carried \subseteq BoundTo(m, Len(m.locals)) /\ depth = Len(m.locals)
    BY <1>8, <1>9, <1>10, <1>17, <1>18 DEF depth
  <2>2. ASSUME NEW n \in DOMAIN carried
        PROVE  /\ carried[n].ty = "Text" /\ carried[n].v < m.next
               /\ \A k \in 1 .. Len(m.deferred) : m.deferred[k].flat # carried[n].v
    <3>1. carried[n].ty = "Text" /\ carried[n].v < m.next /\ carried[n].v >= fn.next /\ carried[n].v \in Nat
      BY <1>9, <1>10, <1>17
    <3>2. ASSUME NEW k \in 1 .. Len(m.deferred) PROVE m.deferred[k].flat # carried[n].v
      <4>1. Borrows(fn, m.deferred[k].flat)
        BY <1>5, <1>6, <1>17 DEF Params, Good, BorrowersIn
      <4> QED BY <1>8, <3>1, <4>1 DEF Borrows
    <3> QED BY <3>1, <3>2
  <2> QED BY <1>12, <1>13, <2>1, <2>2 DEF Below
<1>20. ASSUME NEW i \in lo + 1 .. hi PROVE Nested(m, st[i], i - lo, e)
  <2>1. i \in 1 .. hi
    BY <1>5
  <2>2. Carries(st[i]) = Carries(open[i]) /\ (Carries(open[i]) => st[i].carried = open[i].carried)
    BY <1>16, <2>1, AlikeFields
  <2>3. Carries(st[i]) => DOMAIN carried \cap BoundTo(m, i - lo) \subseteq DOMAIN st[i].carried
    BY <1>9, <1>10, <1>18, <2>2
  <2> QED BY <1>12, <2>3 DEF Nested
<1>21. Reached(m, e, W)
  <2> SUFFICES ASSUME live PROVE Reached(m, e, W)
    BY <1>12 DEF Reached
  <2>1. LocalsIn(m, W) /\ DeferredIn(m, W)
    BY <1>14 DEF State, Ready
  <2> QED BY <1>12, <2>1 DEF Reached, LocalsIn, DeferredIn
<1>22. Saved(e, W)
  <2>1. ASSUME live PROVE CarriedIn(carried, W)
    <3>1. W = Avail(From, l)
      BY <2>1 DEF W, After, From, Basis
    <3> QED BY <1>9, <1>10, <3>1 DEF CarriedIn
  <2> QED BY <1>4, <1>12, <2>1 DEF Saved
<1>23. Begins(m, st, W, lo, e)
  <2>1. ~m.diverged
    BY <1>1, <1>6, <1>17 DEF Params
  <2>2. Timed(e) /\ e.live => \A i \in 1 .. Len(st) : LiveIn(st[i])
    BY <1>12, <1>14 DEF State, Chain
  <2> QED BY <1>16, <1>19, <1>20, <1>21, <1>22, <2>1, <2>2 DEF Begins
<1>24. live' \in BOOLEAN /\ (live' => live /\ LiveIn(e))
  BY <1>4, <1>5, <1>7, <1>12 DEF LiveIn
<1>25. State(PushScope(m), Append(st, e), W, live', lo)
  BY <1>14, <1>23, <1>24, StatePush
<1>26. fn' = PushScope(m) /\ PushScope(m).insts = << >>
  <2>1. fn' = [PushScope(l) EXCEPT !.insts = << >>]
    BY <1>4 DEF Lowered
  <2> DEFINE a == Append(l.locals, << >>)
             b == Append(l.pending, {})
  <2>2. PushScope(l) = [l EXCEPT !.locals = a, !.pending = b]
    BY DEF PushScope
  <2>3. PushScope(m) = [m EXCEPT !.locals = a, !.pending = b]
    BY <1>17 DEF PushScope
  <2> HIDE DEF a, b
  <2>4. m = [l EXCEPT !.insts = << >>]
    BY DEF m, Ended
  <2> QED BY <1>6, <2>1, <2>2, <2>3, <2>4 DEF Lowerers
<1>27. Logs(Append(st, e), W)
  <2> DEFINE u == Append(st, e)
  <2>1. Len(u) = hi + 1 /\ u[hi + 1] = e /\ \A i \in 1 .. hi : u[i] = st[i]
    <3>1. hi \in Nat /\ Len(st) = hi /\ DOMAIN st = 1 .. hi /\ st = [i \in 1 .. hi |-> st[i]]
      BY <1>5, <1>16 DEF Stack
    <3> HIDE DEF hi
    <3> QED BY <3>1, AppendIs
  <2> HIDE DEF u
  <2> SUFFICES ASSUME NEW i \in 1 .. hi + 1, u[i].kind = "loop"
               PROVE  Known(W, u[i].log) /\ Defs(u[i].log) \subseteq W
    BY <2>1 DEF Logs, u
  <2>2. CASE i = hi + 1
    BY <1>12, <2>1, <2>2, NoInsts DEF log
  <2>3. CASE i # hi + 1
    <3>1. i \in 1 .. hi /\ u[i] = st[i]
      BY <1>5, <2>1, <2>3
    <3> QED BY <1>15, <1>16, <3>1 DEF Logs
  <2> QED BY <2>2, <2>3
<1>28. IsMemory(memory') /\ (memory'.fault = NoFault => DOMAIN memory'.env = W)
  <2>1. CASE live
    <3>1. /\ IsMemory(Run(memory, l.insts))
          /\ Run(memory, l.insts).fault = NoFault => DOMAIN Run(memory, l.insts).env = There \cup Defs(l.insts)
      BY <1>5, <1>6, <1>8, <2>1, Afterwards
    <3> QED BY <1>4, <1>6, <2>1, <3>1
  <2>2. CASE ~live
    BY <1>4, <1>5, <2>2 DEF W, After, There
  <2> QED BY <2>1, <2>2
<1> QED BY <1>4, <1>5, <1>24, <1>25, <1>26, <1>27, <1>28 DEF IInv, Consistent

====
