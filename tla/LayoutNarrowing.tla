-------------------------- MODULE LayoutNarrowing --------------------------
(***************************************************************************)
(* What layout propagation promises its caller, with no worklist in sight: *)
(* domains narrow without losing any subdomain on which all constraints    *)
(* agree, the run is accepted only at such a fixed point with every domain *)
(* inhabited, and it is rejected only when no complete assignment remains. *)
(***************************************************************************)
CONSTANTS Vars, Encodings,
          Agreeing,    \* the subdomains on which every constraint agrees
          Assignments  \* the complete assignments satisfying all constraints

VARIABLES domain, outcome

nvars == <<domain, outcome>>

Below(D, E) == \A v \in Vars : D[v] \subseteq E[v]

NInit ==
  /\ domain \in [Vars -> (SUBSET Encodings) \ {{}}]
  /\ outcome = "running"

Narrow ==
  /\ outcome = "running"
  /\ domain' \in [Vars -> SUBSET Encodings]
  /\ Below(domain', domain)
  /\ \A D \in Agreeing : Below(D, domain) => Below(D, domain')
  /\ UNCHANGED outcome

Accept ==
  /\ outcome = "running"
  /\ domain \in Agreeing
  /\ \A v \in Vars : domain[v] # {}
  /\ outcome' = "accepted"
  /\ UNCHANGED domain

Reject ==
  /\ outcome = "running"
  /\ ~ \E s \in Assignments : \A v \in Vars : s[v] \in domain[v]
  /\ outcome' = "rejected"
  /\ UNCHANGED domain

NNext == Narrow \/ Accept \/ Reject

NSpec == NInit /\ [][NNext]_nvars
=============================================================================
