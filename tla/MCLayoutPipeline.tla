-------------------------- MODULE MCLayoutPipeline --------------------------
(***************************************************************************)
(* Two values, up to two conversions written in the program (one of them   *)
(* may convert the other), two consumers.  The second value may be without *)
(* an encoding; the first consumer may want whatever that becomes.         *)
(***************************************************************************)
EXTENDS LayoutPipeline, TLC

CONSTANTS r1, r2, k1, k2, k3, k4, a, b, A, B

MCRoots == {r1, r2}
MCConversionIds == {k1, k2, k3, k4}
MCConsumers == {a, b}
MCEncodings == {A, B}

Conv(s, t) == [source |-> s, type |-> t]
Written == {<<>>}
           \cup {k1 :> Conv(r1, t) : t \in MCEncodings}
           \cup {k1 :> Conv(r1, t) @@ k2 :> Conv(s, u) :
                   t \in MCEncodings, s \in {r1, k1}, u \in MCEncodings}

\* The root a chain of written conversions leads to.
RootOf(conversions, v) == IF v \in {k1, k2} THEN r1 ELSE v

Flags == {<<TRUE, FALSE, FALSE>>, <<FALSE, TRUE, FALSE>>, <<FALSE, TRUE, TRUE>>}

MCProblem(types, conversions, ra, rb, wa, flags, accepts) ==
    [unit |-> [legacy |-> flags[1], bound |-> flags[2], declared |-> flags[3],
               types |-> types, conversions |-> conversions,
               reads |-> (a :> ra @@ b :> rb)],
     wants |-> (a :> wa @@ b :> B),
     tile |-> (a :> RootOf(conversions, ra) @@ b :> RootOf(conversions, rb)),
     accepts |-> accepts]

All == [MCRoots -> MCEncodings]
Some == {(r1 :> A @@ r2 :> B)}

MCProblems ==
    {q \in {MCProblem((r1 :> A @@ r2 :> t), conversions, ra, rb, wa, flags, accepts) :
              t \in {B, Unset}, conversions \in Written,
              ra \in {r1, r2, k1, k2}, rb \in {r1, k1, k2}, wa \in {A, B, r2},
              flags \in Flags, accepts \in {All, Some}} :
       /\ Closed(q.unit)
       /\ q.unit.declared \/ q.accepts = All}

InsertedIds == Permutations({k3, k4})
=============================================================================
