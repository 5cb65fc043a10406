---------------------------- MODULE LayoutChoice ----------------------------
(***************************************************************************)
(* What solving a layout graph promises, with no search in sight: one      *)
(* answer, which is either a legal assignment drawn from the domains that  *)
(* were offered, or the proof that there is none, or no statement at all.  *)
(***************************************************************************)
CONSTANTS Vars, Encodings,
          Legal     \* the complete assignments every check accepts

VARIABLES offered, outcome, choice

cvars == <<offered, outcome, choice>>

LegalOffers == {s \in Legal : \A v \in Vars : s[v] \in offered[v]}

CInit ==
  /\ offered \in [Vars -> SUBSET Encodings]
  /\ outcome = "pending"
  /\ choice = <<>>

Choose ==
  /\ outcome = "pending"
  /\ outcome' = "chosen"
  /\ choice' \in LegalOffers
  /\ UNCHANGED offered

Refuse ==
  /\ outcome = "pending"
  /\ LegalOffers = {}
  /\ outcome' = "infeasible"
  /\ UNCHANGED <<offered, choice>>

\* A beam that dropped something, a spent budget, an unpriced candidate.
Abandon ==
  /\ outcome = "pending"
  /\ outcome' = "unknown"
  /\ UNCHANGED <<offered, choice>>

CNext == Choose \/ Refuse \/ Abandon

CSpec == CInit /\ [][CNext]_cvars
=============================================================================
