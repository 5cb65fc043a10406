---------------------- MODULE MCLayoutCandidateSolver ----------------------
(***************************************************************************)
(* A small graph for LayoutCandidateSolver with two hard components: an    *)
(* instruction contract naming variable 2 twice, a conversion and a        *)
(* resource limit, whose cheap start can be a dead end, so that the beam   *)
(* of one drops the only assignment there is; and a permutation with an    *)
(* existing conversion.  Domains, the empty one included, are every choice *)
(* for the first component.  Products pass the combination limit, and its  *)
(* integer range, for large domains only, so both modes occur.             *)
(***************************************************************************)
EXTENDS LayoutCandidateSolver

MCVars == 1..5
MCEncodings == 1..3
MCKind == <<"InstructionContract", "Convertible", "ResourceLimit", "Preference",
               "TransformLayout", "Convertible">>
MCStrength == [c \in 1..6 |-> IF c = 4 THEN "Soft" ELSE "Hard"]
MCEndpoints == << <<1, 2, 2, 3>>, <<3, 1>>, <<3>>, <<3, 5>>, <<4, 5>>, <<5, 4>> >>
MCAdmitted == [c \in 1..6 |-> IF c = 3 THEN {1, 3} ELSE {}]
MCTuples == [c \in 1..6 |->
  IF c = 1 THEN {<<1, 1, 1, 1>>, <<2, 3, 3, 1>>, <<3, 2, 2, 3>>, <<1, 3, 3, 3>>, <<3, 1, 1, 2>>}
           ELSE {}]
MCCompatible(c, v, x, w, y) ==
  CASE c = 5 -> x + y = 4
    [] OTHER -> {x, y} # {1, 2}
MCVerified == [v \in MCVars |-> CASE v = 2 -> {2, 3} [] OTHER -> MCEncodings]
MCPriced == [v \in MCVars |-> IF v = 4 THEN {1, 3} ELSE MCEncodings]
MCInitial ==
  {D \in [MCVars -> SUBSET MCEncodings] :
     D[4] \in {{1, 2, 3}, {1, 3}, {1}} /\ D[5] \in {{1, 2, 3}, {1, 3}}}

\* Registers grow with the rank of the candidate, except for variable 1.
CostOfEach(v, e) == IF v = 1 THEN 4 - e ELSE e
MCStaticCost(s) == SumFunction([v \in DOMAIN s |-> CostOfEach(v, s[v])])
MCConversionCost(x, y) == 3
MCEncodingsEqual(x, y) == x = y
=============================================================================
