------------------------ MODULE LayoutConstraintGraph ------------------------
(***************************************************************************)
(* The frozen layout constraint graph that propagation, the solver and the *)
(* verifier share (LayoutConstraint.h, LayoutConstraint.cpp): variables    *)
(* with finite candidate domains, constraints over them, and what it means *)
(* for a complete assignment to satisfy a constraint (LayoutRelations.cpp).*)
(***************************************************************************)
EXTENDS Integers, FiniteSets, Sequences, Functions

CONSTANTS
  Vars,            \* LayoutVarID
  Encodings,       \* every candidate encoding of the graph
  NumConstraints,  \* LayoutConstraintID is an array position
  Kind,            \* ConstraintKind of a constraint
  Strength,        \* ConstraintStrength of a constraint
  Endpoints,       \* LayoutConstraint::vars
  Admitted,        \* requiredEncoding, or what the unary proof accepts
  Tuples,          \* instruction tuples / reduction pairs with a live binding
  Compatible(_, _, _, _, _)  \* layoutRelationCompatible(relation, v, a, w, b)

Constraints == 1..NumConstraints

EqualityKinds == {"SameLayout", "AliasLayout", "StorageAccess", "CopyAccess",
                  "TransformLayout", "Convertible"}
UnaryKinds    == {"Ownership", "ResourceLimit", "RootStorageContract"}
SupportKinds  == {"InstructionContract", "ReductionLayout"}
AllKinds      == EqualityKinds \cup UnaryKinds \cup SupportKinds
                   \cup {"RequireEncoding", "Preference"}

EndpointVars(c) == Range(Endpoints[c])

\* What finalize() and verifyInvariants() establish about the frozen graph.
WellFormed ==
  /\ IsFiniteSet(Vars) /\ IsFiniteSet(Encodings)
  /\ NumConstraints \in Nat
  /\ Kind \in [Constraints -> AllKinds]
  /\ Strength \in [Constraints -> {"Hard", "Soft"}]
  /\ Endpoints \in [Constraints -> Seq(Vars)]
  /\ Admitted \in [Constraints -> SUBSET Encodings]
  /\ DOMAIN Tuples = Constraints
  /\ \A c \in Constraints :
       /\ Strength[c] = "Hard" => Len(Endpoints[c]) > 0
       /\ Kind[c] \in UnaryKinds \cup {"RequireEncoding"}
            => Len(Endpoints[c]) = 1
       /\ Kind[c] \in EqualityKinds => Len(Endpoints[c]) >= 2
       /\ Kind[c] \in EqualityKinds \ {"SameLayout"} => Len(Endpoints[c]) = 2
       /\ \A t \in Tuples[c] :
            /\ t \in [DOMAIN Endpoints[c] -> Encodings]
            /\ \A i, j \in DOMAIN t : Endpoints[c][i] = Endpoints[c][j] => t[i] = t[j]

ASSUME GraphAssumption == WellFormed

\* layoutRelationCompatible asks the same question in both directions, and
\* layoutEncodingsEqual, which decides SameLayout, is an equivalence.
ASSUME CompatibleAssumption ==
  \A c \in Constraints : Kind[c] \in EqualityKinds =>
    \A l, r \in DOMAIN Endpoints[c] : l # r =>
      LET v == Endpoints[c][l]
          w == Endpoints[c][r]
      IN  \A x, y \in Encodings :
            /\ Compatible(c, v, x, w, y) \in BOOLEAN
            /\ Compatible(c, v, x, w, y) <=> Compatible(c, w, y, v, x)
            /\ Kind[c] = "SameLayout" =>
                 \A k \in DOMAIN Endpoints[c], z \in Encodings :
                   Compatible(c, v, x, w, y) /\ Compatible(c, w, y, Endpoints[c][k], z)
                     => Compatible(c, v, x, Endpoints[c][k], z)

Hard == {c \in Constraints : Strength[c] = "Hard"}

Domains == [Vars -> SUBSET Encodings]

-----------------------------------------------------------------------------
\* A tuple whose every element is still in its endpoint's domain.
Live(c, t, D) == \A i \in DOMAIN Endpoints[c] : t[i] \in D[Endpoints[c][i]]

\* satisfiesLayoutConstraint on a complete assignment: relations compare the
\* first endpoint with every other one, never the others with each other.
Satisfies(c, s) ==
  /\ Kind[c] \in EqualityKinds =>
       \A i \in DOMAIN Endpoints[c] : i > 1 =>
          Compatible(c, Endpoints[c][1], s[Endpoints[c][1]],
                        Endpoints[c][i], s[Endpoints[c][i]])
  /\ Kind[c] \in SupportKinds =>
       \E t \in Tuples[c] : \A i \in DOMAIN Endpoints[c] : t[i] = s[Endpoints[c][i]]
  /\ Kind[c] \in UnaryKinds \cup {"RequireEncoding"} =>
       s[Endpoints[c][1]] \in Admitted[c]

Solutions == {s \in [Vars -> Encodings] : \A c \in Hard : Satisfies(c, s)}
=============================================================================
