------------------------ MODULE MCLayoutPropagation ------------------------
(***************************************************************************)
(* A small frozen graph for LayoutPropagation: a required encoding on v1,  *)
(* loosely tied (Convertible) to three variables that share a three-way    *)
(* SameLayout, an MMA contract naming one variable twice, a reduction, a   *)
(* resource limit and a soft preference.  The constraints close several    *)
(* cycles; those before the required encoding are popped while no endpoint *)
(* need be decided, so strict mode defers them.                            *)
(***************************************************************************)
EXTENDS LayoutPropagation

CONSTANTS v1, v2, v3, v4, e1, e2, e3

MCVars == {v1, v2, v3, v4}
MCEncodings == {e1, e2, e3}

FrozenKind == <<"InstructionContract", "SameLayout", "Convertible",
                "ReductionLayout", "RequireEncoding", "ResourceLimit",
                "Preference">>
FrozenStrength == [i \in 1..7 |-> IF i = 7 THEN "Soft" ELSE "Hard"]
FrozenEndpoints == << <<v2, v3, v3, v4>>, <<v2, v3, v4>>, <<v4, v1>>,
                      <<v4, v2>>, <<v1>>, <<v4>>, <<v1, v4>> >>
FrozenAdmitted == [i \in 1..7 |->
  CASE i = 5 -> {e1} [] i = 6 -> {e1, e2} [] OTHER -> {}]
FrozenTuples == [i \in 1..7 |->
  CASE i = 1 -> {<<e1, e1, e1, e1>>, <<e2, e2, e2, e2>>, <<e1, e3, e3, e2>>, <<e3, e3, e3, e3>>}
    [] i = 4 -> {<<e1, e1>>, <<e2, e2>>, <<e3, e2>>}
    [] OTHER -> {}]
FrozenCompatible(i, v, x, w, y) ==
  IF FrozenKind[i] = "SameLayout" THEN x = y ELSE x # e3 \/ y # e3

\* The graph is not degenerate: it has solutions, and more than one subdomain on
\* which all its constraints agree.
ASSUME MCNotDegenerate ==
  Solutions # {} /\ Cardinality(ConsistentSubdomains) > 1
=============================================================================
