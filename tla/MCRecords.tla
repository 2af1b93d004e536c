------------------------------ MODULE MCRecords ------------------------------
(***************************************************************************)
(* Instances of Records.  The bytes of a text are small numbers.           *)
(* The variable meaning repeats what the program's variables mean, so that *)
(* TLC computes the refinement mapping once per state.                     *)
(***************************************************************************)
EXTENDS Records

VARIABLE meaning

Meaning == [v \in Vars |-> Abstract(v)]
MCInit == Init /\ meaning = Meaning
MCNext == Next /\ meaning' = Meaning'
MCSpec == MCInit /\ [][MCNext]_<<state, meaning>> /\ RoundFairness

\* The operators of the runtime are those of the relational algebra: every
\* call gives its destination the value Values allows and changes no other.
Algebra == INSTANCE Values WITH value <- meaning
ImplementsValues == Algebra!Spec

-----------------------------------------------------------------------------

s == <<1>>
t == <<2>>
st == <<1, 2>>
tt == <<2, 2>>
MCConstants == <<s, t, st, tt>>
MCCanonical == <<"a", "b", "c", "q", "r", "x">>

Edge == [a |-> Text, b |-> Text]
EdgeOf(x, y) == [a |-> x, b |-> y]
MCLiterals == {
    [of |-> Edge, list |-> <<EdgeOf(s, t), EdgeOf(tt, t), EdgeOf(t, s), EdgeOf(s, t)>>],
    [of |-> Edge, list |-> <<EdgeOf(t, st), EdgeOf(s, t), EdgeOf(st, tt)>>],
    [of |-> [b |-> Text, c |-> Integer], list |-> <<[b |-> t, c |-> 1], [b |-> t, c |-> 0]>>]}
MCFetches == {[of |-> Edge, body |-> {EdgeOf(s, t), EdgeOf(t, t)}]}
MCProjects == {[names |-> {"a"}, allBut |-> FALSE], [names |-> {"a", "b"}, allBut |-> TRUE]}
MCRenames == {[a |-> "b", b |-> "a"], [c |-> "b"]}
MCWraps == {[x |-> {"a", "b"}], [q |-> {"a"}, x |-> {}]}
MCUnwraps == {{"x"}, {"q", "x"}}
MCGroups == {[b |-> {"b"}], [a |-> {"a"}], [a |-> {"b"}, b |-> {"a"}]}
MCUngroups == {{"b"}, {"a", "b"}}
MCExtends == {[name |-> "c", from |-> "a", suffix |-> s]}
MCWheres == {[attr |-> "a", value |-> s]}
MCOrders == {[attr |-> "b", desc |-> TRUE], [attr |-> "c", desc |-> FALSE]}
MCNestings == {[name |-> "r", key |-> "b", with |-> s]}
=============================================================================
