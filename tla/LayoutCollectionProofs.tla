------------------------- MODULE LayoutCollectionProofs -------------------------
(***************************************************************************)
(* Proofs about the collection of candidate domains, for every problem,    *)
(* and about the collectors of operations, for every program.              *)
(*                                                                         *)
(* That the domains end closed under projection rests on PassInv: a pass   *)
(* that has added nothing yet has changed nothing, so every projection it  *)
(* has been through still leads into the domain.                           *)
(*                                                                         *)
(* That the thread counts of operations agree rests on DecidedInv: two     *)
(* operations have no tile in common, and a variable that is given threads *)
(* beside the tiles had none, so a decision is never overwritten.  What a  *)
(* reduction inherits, and what an adoption can reach, are statements      *)
(* about classes of variables; ClassStays and ClassClosed say what the     *)
(* bounded walk that computes a class has found.                           *)
(***************************************************************************)
EXTENDS LayoutCollection, OperationCollectors, FiniteInduction, TLAPS

\* Relation k's variable j is behind the cursor of the pass.
Behind(k, j) == k < relation \/ (k = relation /\ j < source)

SourceClosed(k, j) ==
  \A t \in Vars(problem) :
    Projected(problem, domain, problem.relations[k], problem.relations[k].vars[j], t)
      \subseteq domain[t]

PassInv ==
  /\ phase = "project" /\ ~added =>
       \A k \in DOMAIN problem.relations : \A j \in DOMAIN problem.relations[k].vars :
         Behind(k, j) => SourceClosed(k, j)
  /\ phase # "project" => relation = 1 /\ source = 1 /\ added = FALSE
  /\ phase # "project" => Closed(problem, domain)

\* What the lemmas below need of a problem.
LEMMA ProblemFacts ==
  ASSUME NEW p, WellFormed(p)
  PROVE  /\ p.vars \in Nat
         /\ Vars(p) = 1..p.vars
         /\ Len(p.relations) \in Nat
         /\ DOMAIN p.relations = 1..Len(p.relations)
         /\ \A k \in DOMAIN p.relations :
              /\ Len(p.relations[k].vars) \in Nat
              /\ DOMAIN p.relations[k].vars = 1..Len(p.relations[k].vars)
              /\ \A j \in DOMAIN p.relations[k].vars : p.relations[k].vars[j] \in Vars(p)
  <1> DEFINE R == [vars : Seq(Vars(p)), kind : Kinds]
  <1>1. p.relations \in Seq(R) BY DEF WellFormed
  <1>2. p.vars \in Nat BY DEF WellFormed
  <1>3. Vars(p) = 1..p.vars BY DEF Vars
  <1>4. Len(p.relations) \in Nat /\ DOMAIN p.relations = 1..Len(p.relations)
    <2> HIDE DEF R
    <2> QED BY <1>1
  <1>5. ASSUME NEW k \in DOMAIN p.relations
        PROVE  /\ Len(p.relations[k].vars) \in Nat
               /\ DOMAIN p.relations[k].vars = 1..Len(p.relations[k].vars)
               /\ \A j \in DOMAIN p.relations[k].vars : p.relations[k].vars[j] \in Vars(p)
    <2>1. p.relations[k] \in R
      <3> HIDE DEF R
      <3> QED BY <1>1, <1>4
    <2>2. p.relations[k].vars \in Seq(Vars(p)) BY <2>1
    <2> QED BY <2>2
  <1> QED BY <1>2, <1>3, <1>4, <1>5

\* A projection yields encodings the target accepts, and none for a variable
\* with a hard binding.
LEMMA ProjectedFacts ==
  ASSUME NEW p, WellFormed(p), NEW d, NEW k, NEW s, NEW t \in Vars(p)
  PROVE  /\ Projected(p, d, k, s, t) \subseteq p.valid[t]
         /\ p.valid[t] \subseteq Encodings
         /\ t \in p.bound => Projected(p, d, k, s, t) = {}
  <1>1. p.valid[t] \subseteq Encodings BY DEF WellFormed
  <1>2. Projected(p, d, k, s, t) \subseteq p.valid[t] BY DEF Projected
  <1>3. t \in p.bound => Projected(p, d, k, s, t) = {} BY DEF Projected, Receives
  <1> QED BY <1>1, <1>2, <1>3

-----------------------------------------------------------------------------

\* Types are kept, and candidates are seeds or accepted by the target: every
\* projection and default of collectLayoutConstraints passes verifyCandidate.
THEOREM TypeCorrect == Spec => []TypeOK
  <1>1. Init => TypeOK
    <2> SUFFICES ASSUME Init PROVE TypeOK OBVIOUS
    <2>1. WellFormed(problem) BY ProblemsAssumption DEF Init
    <2>2. problem.vars \in Nat /\ Len(problem.relations) \in Nat BY <2>1, ProblemFacts
    <2>3. domain \in [Vars(problem) -> SUBSET Encodings] BY <2>1 DEF Init, WellFormed
    <2>4. relation \in 1..Len(problem.relations) + 1 /\ turn \in 1..problem.vars + 2
      BY <2>2 DEF Init
    <2>5. \A v \in Vars(problem) : domain[v] \subseteq problem.seeds[v] \cup problem.valid[v]
      BY DEF Init
    <2>6. defaulted \subseteq Vars(problem) /\ source \in Nat \ {0} BY DEF Init
    <2> QED BY <2>1, <2>3, <2>4, <2>5, <2>6 DEF Init, TypeOK
  <1>2. TypeOK /\ [Next]_vars => TypeOK'
    <2> SUFFICES ASSUME TypeOK, [Next]_vars PROVE TypeOK' OBVIOUS
    <2>1. problem' = problem
      BY DEF Next, ProjectSource, NextRelation, EndPass, Default, LastProjection, Check, vars
    <2>2. WellFormed(problem) /\ WellFormed(problem)' BY <2>1 DEF TypeOK
    <2>3. /\ problem.vars \in Nat /\ Vars(problem) = 1..problem.vars
          /\ Len(problem.relations) \in Nat
      BY <2>2, ProblemFacts
    <2>4. CASE ProjectSource
      <3> DEFINE k == problem.relations[relation]
                 s == k.vars[source]
      <3>1. domain' = [t \in Vars(problem) |-> domain[t] \cup Projected(problem, domain, k, s, t)]
        BY <2>4 DEF ProjectSource, Extended
      <3>2. ASSUME NEW t \in Vars(problem)
            PROVE  /\ domain'[t] \subseteq Encodings
                   /\ domain'[t] \subseteq problem.seeds[t] \cup problem.valid[t]
        <4>1. domain'[t] = domain[t] \cup Projected(problem, domain, k, s, t) BY <3>1
        <4>2. /\ Projected(problem, domain, k, s, t) \subseteq problem.valid[t]
              /\ problem.valid[t] \subseteq Encodings
          BY <2>2, ProjectedFacts
        <4>3. domain[t] \subseteq Encodings /\ domain[t] \subseteq problem.seeds[t] \cup problem.valid[t]
          BY DEF TypeOK
        <4> QED BY <4>1, <4>2, <4>3
      <3>3. domain' \in [Vars(problem) -> SUBSET Encodings] BY <3>1, <3>2
      <3>4. added' \in BOOLEAN /\ source' \in Nat \ {0} BY <2>4 DEF ProjectSource, TypeOK
      <3> QED BY <2>1, <2>2, <2>4, <3>2, <3>3, <3>4 DEF ProjectSource, TypeOK
    <2>5. CASE NextRelation
      <3>1. relation' \in 1..Len(problem.relations) + 1 BY <2>3, <2>5 DEF NextRelation, TypeOK
      <3> QED BY <2>1, <2>2, <2>5, <3>1 DEF NextRelation, TypeOK
    <2>6. CASE EndPass
      <3>1. relation' \in 1..Len(problem.relations) + 1 BY <2>3, <2>6 DEF EndPass
      <3>2. phase' \in {"project", "default", "check"} /\ (phase' = "default" => turn <= problem.vars + 1)
        BY <2>6 DEF EndPass
      <3>3. turn' = turn /\ turn \in 1..problem.vars + 2 /\ domain' = domain
            /\ source' = 1 /\ defaulted' = defaulted
        BY <2>6 DEF EndPass, TypeOK
      <3>4. /\ domain' \in [Vars(problem) -> SUBSET Encodings]
            /\ \A v \in Vars(problem) : domain'[v] \subseteq problem.seeds[v] \cup problem.valid[v]
            /\ defaulted' \subseteq Vars(problem)
        BY <3>3 DEF TypeOK
      <3>5. phase' = "default" => turn' <= problem.vars + 1 BY <3>2, <3>3
      <3>6. phase' \in {"project", "default", "check", "collected", "conflict"} BY <3>2
      <3>7. source' \in Nat \ {0} /\ turn' \in 1..problem.vars + 2 BY <3>3
      <3>8. added' \in BOOLEAN BY <2>6 DEF EndPass
      <3> QED BY <2>1, <2>2, <3>1, <3>4, <3>5, <3>6, <3>7, <3>8 DEF TypeOK
    <2>7. CASE Default
      <3>1. turn \in Vars(problem) /\ turn' \in 1..problem.vars + 2
        BY <2>3, <2>7 DEF Default, TypeOK
      <3>2. CASE NeedsDefaults(turn)
        <4> DEFINE c == problem.enumerated[turn] \cap problem.valid[turn]
        <4>1. domain' = [domain EXCEPT ![turn] = c] /\ phase' = "project"
              /\ defaulted' = defaulted \cup {turn}
          BY <2>7, <3>2 DEF Default, AfterDefaults
        <4>2. c \subseteq problem.valid[turn] /\ c \subseteq Encodings
          BY <2>2, <3>1 DEF WellFormed
        <4> HIDE DEF c
        <4>3. domain' \in [Vars(problem) -> SUBSET Encodings] BY <4>1, <4>2 DEF TypeOK
        <4>4. \A v \in Vars(problem) : domain'[v] \subseteq problem.seeds[v] \cup problem.valid[v]
          BY <4>1, <4>2 DEF TypeOK
        <4>5. defaulted' \subseteq Vars(problem) BY <4>1, <3>1 DEF TypeOK
        <4> QED BY <2>1, <2>2, <2>7, <3>1, <4>1, <4>3, <4>4, <4>5 DEF Default, TypeOK
      <3>3. CASE ~NeedsDefaults(turn)
        <4>1. UNCHANGED <<domain, defaulted, phase>> BY <2>7, <3>3 DEF Default
        <4>2. domain' \in [Vars(problem) -> SUBSET Encodings] /\ defaulted' \subseteq Vars(problem)
          BY <4>1 DEF TypeOK
        <4>3. turn' <= problem.vars + 1 BY <2>3, <2>7 DEF Default, Vars, TypeOK
        <4> QED BY <2>1, <2>2, <2>7, <3>1, <4>1, <4>2, <4>3 DEF Default, TypeOK
      <3> QED BY <3>2, <3>3
    <2>8. CASE LastProjection
      <3>1. turn \in Nat /\ turn <= problem.vars + 1 /\ turn' = turn + 1
        BY <2>3, <2>8 DEF LastProjection, TypeOK
      <3>2. turn' \in 1..problem.vars + 2 BY <2>3, <3>1
      <3> QED BY <2>1, <2>2, <2>8, <3>2 DEF LastProjection, TypeOK
    <2>9. CASE Check BY <2>1, <2>2, <2>9 DEF Check, TypeOK
    <2>10. CASE UNCHANGED vars BY <2>2, <2>10 DEF vars, TypeOK
    <2> QED BY <2>4, <2>5, <2>6, <2>7, <2>8, <2>9, <2>10 DEF Next
  <1> QED BY <1>1, <1>2, PTL DEF Spec

-----------------------------------------------------------------------------

\* A hard binding keeps its domain: projections leave bound targets out, and
\* defaults are for empty domains, which a bound variable never has.
THEOREM BoundKept == Spec => []BoundKeepSeeds
  <1>1. Init => BoundKeepSeeds BY DEF Init, BoundKeepSeeds
  <1>2. TypeOK /\ BoundKeepSeeds /\ [Next]_vars => BoundKeepSeeds'
    <2> SUFFICES ASSUME TypeOK, BoundKeepSeeds, [Next]_vars PROVE BoundKeepSeeds'
      OBVIOUS
    <2>1. problem' = problem
      BY DEF Next, ProjectSource, NextRelation, EndPass, Default, LastProjection, Check, vars
    <2> SUFFICES ASSUME NEW v \in problem.bound
                 PROVE  problem' = problem /\ domain'[v] = problem.seeds[v]
      BY <2>1 DEF BoundKeepSeeds
    <2>2. WellFormed(problem) BY DEF TypeOK
    <2>3. v \in Vars(problem) /\ problem.seeds[v] # {} BY <2>2 DEF WellFormed
    <2>4. domain[v] = problem.seeds[v] BY DEF BoundKeepSeeds
    <2>5. CASE ProjectSource
      <3> DEFINE k == problem.relations[relation]
                 s == k.vars[source]
      <3>1. domain'[v] = domain[v] \cup Projected(problem, domain, k, s, v)
        BY <2>3, <2>5 DEF ProjectSource, Extended
      <3>2. Projected(problem, domain, k, s, v) = {} BY <2>2, <2>3, ProjectedFacts
      <3> QED BY <2>1, <2>4, <3>1, <3>2
    <2>6. CASE Default
      <3>1. CASE NeedsDefaults(turn)
        <4>1. turn # v BY <2>3, <2>4, <3>1 DEF NeedsDefaults
        <4>2. domain'[v] = domain[v] BY <2>3, <2>6, <3>1, <4>1 DEF Default, TypeOK
        <4> QED BY <2>1, <2>4, <4>2
      <3>2. CASE ~NeedsDefaults(turn) BY <2>1, <2>4, <2>6, <3>2 DEF Default
      <3> QED BY <3>1, <3>2
    <2>7. CASE NextRelation BY <2>1, <2>4, <2>7 DEF NextRelation
    <2>8. CASE EndPass BY <2>1, <2>4, <2>8 DEF EndPass
    <2>9. CASE LastProjection BY <2>1, <2>4, <2>9 DEF LastProjection
    <2>10. CASE Check BY <2>1, <2>4, <2>10 DEF Check
    <2>11. CASE UNCHANGED vars BY <2>1, <2>4, <2>11 DEF vars
    <2> QED BY <2>5, <2>6, <2>7, <2>8, <2>9, <2>10, <2>11 DEF Next
  <1> QED BY <1>1, <1>2, TypeCorrect, PTL DEF Spec

-----------------------------------------------------------------------------

\* Candidates are never withdrawn while domains are collected, so what one
\* variable received from another stays explained.
LEMMA DomainsGrow ==
  ASSUME TypeOK, [Next]_vars
  PROVE  problem' = problem /\ \A v \in Vars(problem) : domain[v] \subseteq domain'[v]
  <1>1. problem' = problem
    BY DEF Next, ProjectSource, NextRelation, EndPass, Default, LastProjection, Check, vars
  <1>2. ASSUME NEW v \in Vars(problem) PROVE domain[v] \subseteq domain'[v]
    <2>1. CASE ProjectSource BY <2>1 DEF ProjectSource, Extended
    <2>2. CASE Default
      <3>1. CASE NeedsDefaults(turn) BY <2>2, <3>1 DEF Default, NeedsDefaults, TypeOK
      <3>2. CASE ~NeedsDefaults(turn) BY <2>2, <3>2 DEF Default
      <3> QED BY <3>1, <3>2
    <2>3. CASE NextRelation \/ EndPass \/ LastProjection \/ Check \/ UNCHANGED vars
      BY <2>3 DEF NextRelation, EndPass, LastProjection, Check, vars
    <2> QED BY <2>1, <2>2, <2>3 DEF Next
  <1> QED BY <1>1, <1>2

\* A reduction result has only layouts that the reduction gives one of its
\* source's candidates, besides those it started with.
THEOREM ReductionsNatural == Spec => []NaturalResults
  <1>1. Init => NaturalResults BY DEF Init, NaturalResults
  <1>2. TypeOK /\ NaturalResults /\ [Next]_vars => NaturalResults'
    <2> SUFFICES ASSUME TypeOK, NaturalResults, [Next]_vars PROVE NaturalResults' OBVIOUS
    <2>1. /\ problem' = problem
          /\ \A v \in Vars(problem) : domain[v] \subseteq domain'[v]
      BY DomainsGrow
    <2>2. WellFormed(problem) BY DEF TypeOK
    <2> SUFFICES ASSUME NEW v \in problem.reductions, NEW e \in domain'[v] \ problem.seeds[v]
                 PROVE  \E k \in DOMAIN problem.relations : \E s \in Vars(problem) :
                          /\ problem.relations[k].kind = "reduction"
                          /\ \E x \in domain'[s] : e \in Image(problem.relations[k], s, x, v)
      BY <2>1 DEF NaturalResults
    <2>3. v \in Vars(problem) BY <2>2 DEF WellFormed
    <2>4. CASE e \in domain[v]
      <3>1. PICK k \in DOMAIN problem.relations : \E s \in Vars(problem) :
              /\ problem.relations[k].kind = "reduction"
              /\ \E x \in domain[s] : e \in Image(problem.relations[k], s, x, v)
        BY <2>4 DEF NaturalResults
      <3>2. PICK s \in Vars(problem) :
              /\ problem.relations[k].kind = "reduction"
              /\ \E x \in domain[s] : e \in Image(problem.relations[k], s, x, v)
        BY <3>1
      <3>3. \E x \in domain'[s] : e \in Image(problem.relations[k], s, x, v) BY <2>1, <3>2
      <3> QED BY <3>2, <3>3
    <2>5. CASE e \notin domain[v]
      <3>1. CASE ProjectSource
        <4> DEFINE k == problem.relations[relation]
                   s == k.vars[source]
        <4>1. relation \in DOMAIN problem.relations /\ source \in DOMAIN k.vars
          <5>1. relation \in DOMAIN problem.relations
            BY <2>2, <3>1, ProblemFacts DEF ProjectSource, TypeOK
          <5>2. Len(k.vars) \in Nat /\ DOMAIN k.vars = 1..Len(k.vars) BY <2>2, <5>1, ProblemFacts
          <5>3. source <= Len(k.vars) /\ source \in Nat \ {0} BY <3>1 DEF ProjectSource, TypeOK
          <5> QED BY <5>1, <5>2, <5>3
        <4>2. s \in Vars(problem) BY <2>2, <4>1, ProblemFacts
        <4>3. domain'[v] = domain[v] \cup Projected(problem, domain, k, s, v)
          BY <2>3, <3>1 DEF ProjectSource, Extended
        <4>4. e \in Projected(problem, domain, k, s, v) BY <2>5, <4>3
        <4>5. Receives(problem, k, v) /\ \E x \in domain[s] : e \in Image(k, s, x, v)
          BY <4>4 DEF Projected
        <4>6. k.kind = "reduction" BY <4>5 DEF Receives
        <4>7. \E x \in domain'[s] : e \in Image(k, s, x, v) BY <2>1, <4>2, <4>5
        <4> QED BY <4>1, <4>2, <4>6, <4>7
      <3>2. CASE Default
        <4>1. domain' # domain BY <2>5
        <4>2. NeedsDefaults(turn) BY <3>2, <4>1 DEF Default
        <4>3. turn # v BY <4>2 DEF NeedsDefaults
        <4>4. domain'[v] = domain[v] BY <2>3, <3>2, <4>2, <4>3 DEF Default, TypeOK
        <4> QED BY <2>5, <4>4
      <3>3. CASE NextRelation \/ EndPass \/ LastProjection \/ Check \/ UNCHANGED vars
        BY <2>5, <3>3 DEF NextRelation, EndPass, LastProjection, Check, vars
      <3> QED BY <3>1, <3>2, <3>3 DEF Next
    <2> QED BY <2>4, <2>5
  <1> QED BY <1>1, <1>2, TypeCorrect, PTL DEF Spec

-----------------------------------------------------------------------------

\* The invariant of a pass of projectCandidatesToFixedPoint.
LEMMA PassInvariant == Spec => []PassInv
  <1>1. Init => PassInv
    <2> SUFFICES ASSUME Init PROVE PassInv OBVIOUS
    <2>1. WellFormed(problem) BY ProblemsAssumption DEF Init
    <2>2. ASSUME NEW k \in DOMAIN problem.relations, NEW j \in DOMAIN problem.relations[k].vars
          PROVE  ~Behind(k, j)
      <3>1. k \in Nat \ {0} /\ j \in Nat \ {0} BY <2>1, ProblemFacts
      <3> QED BY <3>1 DEF Init, Behind
    <2> QED BY <2>2 DEF Init, PassInv
  <1>2. TypeOK /\ PassInv /\ [Next]_vars => PassInv'
    <2> SUFFICES ASSUME TypeOK, PassInv, [Next]_vars PROVE PassInv' OBVIOUS
    <2>1. problem' = problem
      BY DEF Next, ProjectSource, NextRelation, EndPass, Default, LastProjection, Check, vars
    <2>2. WellFormed(problem) BY DEF TypeOK
    <2>3. ASSUME NEW k \in DOMAIN problem.relations, NEW j \in DOMAIN problem.relations[k].vars
          PROVE  /\ k \in Nat \ {0} /\ j \in Nat \ {0}
                 /\ k <= Len(problem.relations) /\ j <= Len(problem.relations[k].vars)
                 /\ Len(problem.relations) \in Nat /\ Len(problem.relations[k].vars) \in Nat
      BY <2>2, ProblemFacts
    <2>4. relation \in Nat \ {0} /\ source \in Nat \ {0} /\ Len(problem.relations) \in Nat
      BY <2>2, ProblemFacts DEF TypeOK
    \* A new pass has nothing behind its cursor.
    <2>5. ASSUME relation' = 1, source' = 1,
                 NEW k \in DOMAIN problem.relations, NEW j \in DOMAIN problem.relations[k].vars
          PROVE  ~Behind(k, j)'
      BY <2>3, <2>5 DEF Behind
    <2>6. CASE ProjectSource
      <3> DEFINE r == problem.relations[relation]
                 s == r.vars[source]
      <3>1. phase = "project" /\ phase' = "project" /\ relation' = relation /\ source' = source + 1
            /\ added' = (added \/ domain' # domain)
        BY <2>6 DEF ProjectSource
      <3>2. ASSUME ~added',
                   NEW k \in DOMAIN problem.relations, NEW j \in DOMAIN problem.relations[k].vars,
                   Behind(k, j)'
            PROVE  SourceClosed(k, j)'
        <4>1. ~added /\ domain' = domain BY <3>1, <3>2
        <4>2. CASE Behind(k, j)
          <5>1. SourceClosed(k, j) BY <3>1, <4>1, <4>2 DEF PassInv
          <5> QED BY <2>1, <4>1, <5>1 DEF SourceClosed
        <4>3. CASE ~Behind(k, j)
          <5>1. k = relation /\ j = source BY <2>3, <2>4, <3>1, <3>2, <4>3 DEF Behind
          <5>2. ASSUME NEW t \in Vars(problem)
                PROVE  Projected(problem, domain, r, s, t) \subseteq domain[t]
            <6>1. domain'[t] = domain[t] \cup Projected(problem, domain, r, s, t)
              BY <2>6 DEF ProjectSource, Extended
            <6> QED BY <4>1, <6>1
          <5> QED BY <2>1, <4>1, <5>1, <5>2 DEF SourceClosed
        <4> QED BY <4>2, <4>3
      <3> QED BY <2>1, <3>1, <3>2 DEF PassInv
    <2>7. CASE NextRelation
      <3>1. /\ phase = "project" /\ phase' = "project" /\ relation' = relation + 1 /\ source' = 1
            /\ added' = added /\ domain' = domain
            /\ source > Len(problem.relations[relation].vars)
        BY <2>7 DEF NextRelation
      <3>2. ASSUME ~added,
                   NEW k \in DOMAIN problem.relations, NEW j \in DOMAIN problem.relations[k].vars,
                   Behind(k, j)'
            PROVE  SourceClosed(k, j)
        <4>1. Behind(k, j) BY <2>3, <2>4, <3>1, <3>2 DEF Behind
        <4> QED BY <3>1, <3>2, <4>1 DEF PassInv
      <3>3. \A k, j : SourceClosed(k, j)' <=> SourceClosed(k, j) BY <2>1, <3>1 DEF SourceClosed
      <3> QED BY <2>1, <3>1, <3>2, <3>3 DEF PassInv
    <2>8. CASE EndPass
      <3>1. /\ phase = "project" /\ relation' = 1 /\ source' = 1 /\ added' = FALSE
            /\ domain' = domain /\ relation > Len(problem.relations)
            /\ phase' # "project" => ~added
        BY <2>8 DEF EndPass, Settled
      <3>2. ASSUME ~added PROVE Closed(problem, domain)
        <4>1. ASSUME NEW k \in DOMAIN problem.relations, NEW j \in DOMAIN problem.relations[k].vars
              PROVE  SourceClosed(k, j)
          <5>1. Behind(k, j) BY <2>3, <2>4, <3>1 DEF Behind
          <5> QED BY <3>1, <3>2, <5>1 DEF PassInv
        <4> QED BY <4>1 DEF SourceClosed, Closed
      <3>3. Closed(problem, domain)' <=> Closed(problem, domain) BY <2>1, <3>1 DEF Closed, Projected
      <3> QED BY <2>1, <2>5, <3>1, <3>2, <3>3 DEF PassInv
    <2>9. CASE Default
      <3>1. phase = "default" /\ relation' = relation /\ source' = source /\ added' = added
        BY <2>9 DEF Default
      <3>2. relation = 1 /\ source = 1 /\ added = FALSE /\ Closed(problem, domain)
        BY <3>1 DEF PassInv
      <3>3. CASE NeedsDefaults(turn)
        <4>1. phase' = "project" BY <2>9, <3>3 DEF Default, AfterDefaults
        <4> QED BY <2>1, <2>5, <3>1, <3>2, <4>1 DEF PassInv
      <3>4. CASE ~NeedsDefaults(turn)
        <4>1. phase' = phase /\ domain' = domain BY <2>9, <3>4 DEF Default
        <4>2. Closed(problem, domain)' BY <2>1, <3>2, <4>1
        <4> QED BY <3>1, <3>2, <4>1, <4>2 DEF PassInv
      <3> QED BY <3>3, <3>4
    <2>10. CASE LastProjection
      <3>1. phase = "default" /\ phase' = "project" /\ relation' = relation /\ source' = source
            /\ added' = added
        BY <2>10 DEF LastProjection
      <3>2. relation = 1 /\ source = 1 /\ added = FALSE BY <3>1 DEF PassInv
      <3> QED BY <2>1, <2>5, <3>1, <3>2 DEF PassInv
    <2>11. CASE Check
      <3>1. /\ phase = "check" /\ phase' \in {"conflict", "collected"} /\ relation' = relation
            /\ source' = source /\ added' = added /\ domain' = domain
        BY <2>11 DEF Check
      <3>2. relation = 1 /\ source = 1 /\ added = FALSE /\ Closed(problem, domain)
        BY <3>1 DEF PassInv
      <3>3. Closed(problem, domain)' BY <2>1, <3>1, <3>2
      <3> QED BY <3>1, <3>2, <3>3 DEF PassInv
    <2>12. CASE UNCHANGED vars
      <3>1. Closed(problem, domain)' <=> Closed(problem, domain) BY <2>12 DEF vars
      <3>2. \A k, j : /\ SourceClosed(k, j)' <=> SourceClosed(k, j)
                      /\ Behind(k, j)' <=> Behind(k, j)
        BY <2>12 DEF vars, SourceClosed, Behind
      <3> QED BY <2>12, <3>1, <3>2 DEF vars, PassInv
    <2> QED BY <2>6, <2>7, <2>8, <2>9, <2>10, <2>11, <2>12 DEF Next
  <1> QED BY <1>1, <1>2, TypeCorrect, PTL DEF Spec

\* The domains handed to propagation and search, and those defaults are given
\* next to, are closed under projection.
THEOREM CollectedClosed == Spec => []ClosedWhenSettled
  <1>1. PassInv => ClosedWhenSettled BY DEF PassInv, ClosedWhenSettled
  <1> QED BY <1>1, PassInvariant, PTL

-----------------------------------------------------------------------------
(* The threads of operations, from the decision to the limit.              *)

Collecting == {"operations", "values", "mma", "reductions", "limits"}

\* An operation that has decided holds all its tiles to the decision, whatever
\* has been visited since, and the limits repeat what the tiles require.
DecidedInv ==
  /\ program \in Programs
  /\ DOMAIN decided \subseteq DOMAIN Ops
  /\ \A i \in DOMAIN decided :
       /\ Ops[i].kind \in {"copy", "fill", "mma", "reduce"}
       /\ decided[i] # None
       /\ {Ops[i].parallel, Ops[i].threads} \subseteq {None, decided[i]}
       /\ \A x \in Tiles(i) : x \in DOMAIN required /\ required[x] = decided[i]

LimitInv ==
  /\ progress \in Collecting => \A r \in relations : r.kind # "ResourceLimit"
  /\ Collected =>
       \A i \in DOMAIN decided : \A x \in Tiles(i) :
         /\ Limit("ResourceLimit", x, decided[i]) \in relations
         /\ \A r \in relations :
              r.kind = "ResourceLimit" /\ x \in Range(r.ends) => r.count = decided[i]

\* The tiles of an operation carry its position, or are its own result.
LEMMA TileShape ==
  ASSUME NEW i, NEW x \in Tiles(i)
  PROVE  /\ x[1] # "view"
         /\ \/ x = Execution(i)
            \/ \E k \in {1, 2, 3} : x = Use(i, k)
            \/ x = Value(Ops[i].out) /\ Ops[i].kind \in {"mma", "reduce"}
<1>1. CASE Ops[i].kind = "mma"
  <2>1. x \in Range(MmaRoles(i)) /\ x[1] # "view"
    BY <1>1 DEF Tiles
  <2>2. x \in {Role(i, 1), Role(i, 2), Role(i, 3), Value(Ops[i].out)}
    BY <2>1 DEF MmaRoles, Range
  <2>3. \A k \in {1, 2, 3} : x = Role(i, k) => x = Use(i, k)
    BY <2>1 DEF Role, View
  <2>. QED BY <1>1, <2>1, <2>2, <2>3
<1>2. CASE Ops[i].kind = "reduce"
  BY <1>2 DEF Tiles, Use, Value
<1>3. CASE Ops[i].kind \notin {"mma", "reduce"}
  BY <1>3 DEF Tiles, Execution
<1>. QED BY <1>1, <1>2, <1>3

\* Two operations have no tile in common.
LEMMA TilesApart ==
  ASSUME program \in Programs, NEW i \in DOMAIN Ops, NEW j \in DOMAIN Ops, i # j,
         NEW x \in Tiles(i)
  PROVE  x \notin Tiles(j)
<1>. SUFFICES ASSUME x \in Tiles(j) PROVE FALSE
  OBVIOUS
<1>1. \/ x = Execution(i)
      \/ \E k \in {1, 2, 3} : x = Use(i, k)
      \/ x = Value(Ops[i].out) /\ Ops[i].kind \in {"mma", "reduce"}
  BY TileShape
<1>2. \/ x = Execution(j)
      \/ \E k \in {1, 2, 3} : x = Use(j, k)
      \/ x = Value(Ops[j].out) /\ Ops[j].kind \in {"mma", "reduce"}
  BY TileShape
<1>3. Ops[i].kind \in {"mma", "reduce"} => Ops[j].out # Ops[i].out
  BY ProgramsAssumption DEF Ops
<1>. QED BY <1>1, <1>2, <1>3 DEF Execution, Use, Value

\* Deciding threads for an operation: its tiles get them, and any other variable
\* that gets them had none.
LEMMA DecisionKept ==
  ASSUME DecidedInv, NEW i \in DOMAIN Ops, NEW n, NEW S, NEW f,
         Ops[i].kind \in {"copy", "fill", "mma", "reduce"}, n # None,
         {Ops[i].parallel, Ops[i].threads} \subseteq {None, n},
         Tiles(i) \subseteq S,
         \A x \in S \ Tiles(i) : x \in DOMAIN required => required[x] = None,
         DOMAIN required \subseteq DOMAIN f, \A x \in DOMAIN required : f[x] = required[x],
         program' = program,
         required' = Requiring(S, n, f),
         decided' = Deciding(i, n, decided)
  PROVE  DecidedInv'
<1>1. /\ DOMAIN required' = S \cup DOMAIN f
      /\ \A x \in S : required'[x] = n
      /\ \A x \in DOMAIN required \ S : required'[x] = required[x]
  <2>1. /\ DOMAIN Requiring(S, n, f) = S \cup DOMAIN f
        /\ \A x \in S : Requiring(S, n, f)[x] = n
        /\ \A x \in DOMAIN f \ S : Requiring(S, n, f)[x] = f[x]
    BY DEF Requiring, Overlaid
  <2>. QED BY <2>1
<1>2. /\ DOMAIN decided' = DOMAIN decided \cup {i} /\ decided'[i] = n
      /\ \A j \in DOMAIN decided \ {i} : decided'[j] = decided[j]
  <2>1. /\ DOMAIN Deciding(i, n, decided) = DOMAIN decided \cup {i}
        /\ Deciding(i, n, decided)[i] = n
        /\ \A j \in DOMAIN decided \ {i} : Deciding(i, n, decided)[j] = decided[j]
    BY DEF Deciding, Overlaid
  <2>. QED BY <2>1
<1>3. \A j : Ops'[j] = Ops[j] /\ Tiles(j)' = Tiles(j)
  BY DEF Ops, Tiles, MmaRoles, Role
<1>4. DOMAIN Ops' = DOMAIN Ops /\ program \in Programs /\ DOMAIN decided \subseteq DOMAIN Ops
  BY DEF Ops, DecidedInv
<1>5. ASSUME NEW j \in DOMAIN decided \ {i}, NEW x \in Tiles(j)
      PROVE  x \in DOMAIN required' /\ required'[x] = decided'[j]
  <2>1. x \in DOMAIN required /\ required[x] = decided[j] /\ decided[j] # None
    BY DEF DecidedInv
  <2>2. x \notin Tiles(i)
    BY <1>4, TilesApart
  <2>3. x \notin S
    BY <2>1, <2>2
  <2>. QED BY <1>1, <1>2, <2>1, <2>3
<1>6. ASSUME NEW j \in DOMAIN decided'
      PROVE  /\ Ops'[j].kind \in {"copy", "fill", "mma", "reduce"}
             /\ decided'[j] # None
             /\ {Ops'[j].parallel, Ops'[j].threads} \subseteq {None, decided'[j]}
             /\ \A x \in Tiles(j)' : x \in DOMAIN required' /\ required'[x] = decided'[j]
  <2>1. CASE j = i
    BY <1>1, <1>2, <1>3, <2>1
  <2>2. CASE j # i
    BY <1>2, <1>3, <1>5, <2>2 DEF DecidedInv
  <2>. QED BY <2>1, <2>2
<1>. QED BY <1>2, <1>4, <1>6 DEF DecidedInv

\* A step that decides nothing and takes no thread count away keeps all.
LEMMA DecisionsKept ==
  ASSUME DecidedInv, program' = program, decided' = decided,
         DOMAIN required \subseteq DOMAIN required',
         \A x \in DOMAIN required : required[x] # None => required'[x] = required[x]
  PROVE  DecidedInv'
<1>1. \A j : Ops'[j] = Ops[j] /\ Tiles(j)' = Tiles(j)
  BY DEF Ops, Tiles, MmaRoles, Role
<1>2. DOMAIN Ops' = DOMAIN Ops
  BY DEF Ops
<1>. QED BY <1>1, <1>2 DEF DecidedInv

\* Without a conflict of scope and attribute, Threads agrees with both.
LEMMA ThreadsAgree ==
  ASSUME NEW o, NEW d, ~ScopeConflict(o)
  PROVE  /\ {o.parallel, o.threads} \subseteq {None, Threads(o, d)}
         /\ d # None => Threads(o, d) # None
BY DEF ScopeConflict, Threads

LEMMA VisitOperationDecided ==
  ASSUME DecidedInv, NEW i \in DOMAIN Ops, VisitOperation(i)
  PROVE  DecidedInv'
<1> DEFINE o == Ops[i]
           S == {Execution(i)}
           n == Threads(o, 32)
           T == {View(w) : w \in Range(o.in)}
<1>1. o.kind \in {"parallel", "copy", "fill"} /\ Visiting("operations", i)
  BY DEF VisitOperation, Visiting, Visited
<1>2. CASE UNCHANGED <<program, required, decided>>
  BY <1>2, DecisionsKept
<1>3. CASE ~(UNCHANGED <<program, required, decided>>)
  <2>1. /\ o.kind # "parallel" /\ ~ScopeConflict(o)
        /\ required' = Requiring(S, n, Created(T, required))
        /\ decided' = Deciding(i, n, decided)
        /\ program' = program
    BY <1>3 DEF VisitOperation, Interrupt
  <2>2. {o.parallel, o.threads} \subseteq {None, n} /\ n # None
    <3>1. 32 # None
      BY DEF None
    <3>. QED BY <2>1, <3>1, ThreadsAgree
  <2>3. Tiles(i) = S
    BY <1>1, <2>1 DEF Tiles
  <2>4. PICK f : f = Created(T, required)
    OBVIOUS
  <2>5. DOMAIN required \subseteq DOMAIN f /\ \A x \in DOMAIN required : f[x] = required[x]
    BY <2>4 DEF Created, Overlaid
  <2>6. required' = Requiring(S, n, f)
    BY <2>1, <2>4
  <2>7. Ops[i].kind \in {"copy", "fill", "mma", "reduce"}
    BY <1>1, <2>1
  <2>8. /\ Tiles(i) \subseteq S
        /\ \A x \in S \ Tiles(i) : x \in DOMAIN required => required[x] = None
    BY <2>3
  <2>. HIDE DEF S, n, T
  <2>. QED BY <2>1, <2>2, <2>5, <2>6, <2>7, <2>8, DecisionKept
<1>. QED BY <1>2, <1>3

LEMMA VisitMmaDecided ==
  ASSUME DecidedInv, NEW i \in DOMAIN Ops, VisitMma(i)
  PROVE  DecidedInv'
<1> DEFINE o == Ops[i]
           n == Threads(o, 128)
           roles == MmaRoles(i)
           tiles == {x \in Range(roles) : x[1] # "view"}
<1>1. o.kind = "mma" /\ Visiting("mma", i)
  BY DEF VisitMma, Visiting, Visited
<1>2. CASE UNCHANGED <<program, required, decided>>
  BY <1>2, DecisionsKept
<1>3. CASE ~(UNCHANGED <<program, required, decided>>)
  <2>1. /\ ~ScopeConflict(o)
        /\ required' = Requiring(tiles, n, Created(Range(roles), required))
        /\ decided' = Deciding(i, n, decided)
        /\ program' = program
    BY <1>3 DEF VisitMma, Interrupt
  <2>2. {o.parallel, o.threads} \subseteq {None, n} /\ n # None
    <3>1. 128 # None
      BY DEF None
    <3>. QED BY <2>1, <3>1, ThreadsAgree
  <2>3. Tiles(i) = tiles
    BY <1>1 DEF Tiles
  <2>4. PICK f : f = Created(Range(roles), required)
    OBVIOUS
  <2>5. DOMAIN required \subseteq DOMAIN f /\ \A x \in DOMAIN required : f[x] = required[x]
    BY <2>4 DEF Created, Overlaid
  <2>6. required' = Requiring(tiles, n, f)
    BY <2>1, <2>4
  <2>7. Ops[i].kind \in {"copy", "fill", "mma", "reduce"}
    BY <1>1
  <2>8. /\ Tiles(i) \subseteq tiles
        /\ \A x \in tiles \ Tiles(i) : x \in DOMAIN required => required[x] = None
    BY <2>3
  <2>. HIDE DEF tiles, n, roles
  <2>. QED BY <2>1, <2>2, <2>5, <2>6, <2>7, <2>8, DecisionKept
<1>. QED BY <1>2, <1>3

LEMMA VisitReduceDecided ==
  ASSUME DecidedInv, NEW i \in DOMAIN Ops, VisitReduce(i)
  PROVE  DecidedInv'
<1> DEFINE o == Ops[i]
           v == o.in[1]
           n == Threads(o, Inferred(Value(v)))
           S == {Use(i, 1), Value(o.out)} \cup (IF Adopts(v, n) THEN {Value(v)} ELSE {})
<1>1. o.kind = "reduce" /\ Visiting("reductions", i)
  BY DEF VisitReduce, Visiting, Visited
<1>2. CASE UNCHANGED <<program, required, decided>>
  BY <1>2, DecisionsKept
<1>3. CASE ~(UNCHANGED <<program, required, decided>>)
  <2>1. /\ ~ScopeConflict(o) /\ n \in SupportedCounts
        /\ required' = Requiring(S, n, required)
        /\ decided' = Deciding(i, n, decided)
        /\ program' = program
    BY <1>3 DEF VisitReduce, Interrupt
  <2>2. {o.parallel, o.threads} \subseteq {None, n} /\ n # None
    <3>1. n # None
      BY <2>1 DEF None, SupportedCounts
    <3>. QED BY <2>1, <3>1, ThreadsAgree
  <2>3. Tiles(i) = {Use(i, 1), Value(o.out)}
    BY <1>1 DEF Tiles
  <2>4. \A x \in S \ Tiles(i) : required[x] = None
    BY <2>3 DEF Adopts
  <2>5. Tiles(i) \subseteq S
    BY <2>3
  <2>. HIDE DEF S, n
  <2>. QED BY <1>1, <2>1, <2>2, <2>4, <2>5, DecisionKept
<1>. QED BY <1>2, <1>3

LEMMA CollectValuesDecided == DecidedInv /\ CollectValues => DecidedInv'
<1>. SUFFICES ASSUME DecidedInv, CollectValues PROVE DecidedInv'
  OBVIOUS
<1>1. PICK S : required' = Created(S, required)
  BY DEF CollectValues
<1>2. /\ DOMAIN Created(S, required) = DOMAIN required \cup S
      /\ \A x \in DOMAIN required : Created(S, required)[x] = required[x]
  BY DEF Created, Overlaid
<1>3. program' = program /\ decided' = decided
  BY DEF CollectValues
<1>. QED BY <1>1, <1>2, <1>3, DecisionsKept

LEMMA CollectLimitsDecided == DecidedInv /\ CollectLimits => DecidedInv'
<1>. SUFFICES ASSUME DecidedInv, CollectLimits PROVE DecidedInv'
  OBVIOUS
<1> DEFINE limited == {x \in Limited : LimitAt(x) \in SupportedCounts}
<1>1. required' = [x \in DOMAIN required |-> IF x \in limited THEN LimitAt(x) ELSE required[x]]
  BY DEF CollectLimits
<1>2. \A x : required[x] # None => LimitAt(x) = required[x]
  BY DEF LimitAt
<1>. HIDE DEF limited
<1>3. DOMAIN required' = DOMAIN required
  BY <1>1
<1>4. \A x \in DOMAIN required : required[x] # None => required'[x] = required[x]
  BY <1>1, <1>2
<1>5. program' = program /\ decided' = decided
  BY DEF CollectLimits
<1>. QED BY <1>3, <1>4, <1>5, DecisionsKept

LEMMA NextDecided == DecidedInv /\ [CollectorsNext]_collectorsVars => DecidedInv'
<1>. SUFFICES ASSUME DecidedInv, [CollectorsNext]_collectorsVars PROVE DecidedInv'
  OBVIOUS
<1>1. CASE UNCHANGED <<program, required, decided>>
  BY <1>1, DecisionsKept
<1>2. ASSUME NEW i \in DOMAIN Ops, VisitOperation(i) \/ VisitMma(i) \/ VisitReduce(i)
      PROVE  DecidedInv'
  BY <1>2, VisitOperationDecided, VisitMmaDecided, VisitReduceDecided
<1>3. CASE \E i \in DOMAIN Ops : PrepareJoint(i)
  BY <1>1, <1>3 DEF PrepareJoint
<1>4. CASE \E p \in DOMAIN Following : EndWalk(p)
  BY <1>1, <1>4 DEF EndWalk
<1>5. CASE EndPreparation \/ UNCHANGED collectorsVars
  BY <1>1, <1>5 DEF EndPreparation, collectorsVars
<1>. QED BY <1>2, <1>3, <1>4, <1>5, CollectValuesDecided, CollectLimitsDecided
         DEF CollectorsNext

\* While collecting, no step but CollectLimits adds a limit.
Unlimited(R) == \A r \in R : r.kind # "ResourceLimit"

LEMMA NoLimitYet ==
  /\ \A ends : Unlimited({Relation("SameLayout", ends)})
  /\ \A ends : Unlimited({Relation("InstructionContract", ends)})
  /\ \A ends : Unlimited({Relation("ReductionLayout", ends)})
  /\ \A x, n : Unlimited({Limit("RequireEncoding", x, n)})
  /\ \A i : Unlimited(OwnUses(i))
  /\ \A o, e : Unlimited(CopyRelations(o, e))
  /\ \A o, e : Unlimited(Pinned(o, e))
  /\ program \in Programs => \A f \in program.flows : Unlimited(FlowRelations(f))
<1>1. \A kind, ends : Relation(kind, ends).kind = kind
  BY DEF Relation
<1>2. \A kind, x, n : Limit(kind, x, n).kind = kind
  BY DEF Limit
<1>3. /\ \A ends : Unlimited({Relation("SameLayout", ends)})
      /\ \A ends : Unlimited({Relation("InstructionContract", ends)})
      /\ \A ends : Unlimited({Relation("ReductionLayout", ends)})
  BY DEF Unlimited, Relation
<1>4. \A x, n : Unlimited({Limit("RequireEncoding", x, n)})
  BY DEF Unlimited, Limit
<1>5. \A i : Unlimited(OwnUses(i))
  BY DEF Unlimited, OwnUses, Relation
<1>6. ASSUME NEW e, NEW w
      PROVE  Unlimited(Access(e, w))
  BY DEF Unlimited, Access, Relation
<1>7. ASSUME NEW o, NEW e
      PROVE  Unlimited(CopyRelations(o, e))
  <2>1. /\ Unlimited({Relation("Ownership", <<e>>)})
        /\ Unlimited({Relation("CopyAccess", <<View(o.in[2]), View(o.in[1])>>)})
    BY DEF Unlimited, Relation
  <2>2. Unlimited(Access(e, View(o.in[1]))) /\ Unlimited(Access(e, View(o.in[2])))
    BY <1>6
  <2>. QED BY <2>1, <2>2 DEF Unlimited, CopyRelations
<1>8. \A o, e : Unlimited(Pinned(o, e))
  BY DEF Unlimited, Pinned, Limit
<1>9. ASSUME program \in Programs, NEW f \in program.flows
      PROVE  Unlimited(FlowRelations(f))
  <2>1. f.kind \in {"convert", "agree", "permute"}
    BY <1>9, ProgramsAssumption
  <2>2. \A ends : /\ Unlimited({Relation("Convertible", ends)})
                  /\ Unlimited({Relation("SameLayout", ends)})
                  /\ Unlimited({Relation("TransformLayout", ends)})
    BY DEF Unlimited, Relation
  <2>. QED BY <2>1, <2>2 DEF Unlimited, FlowRelations
<1>. QED BY <1>3, <1>4, <1>5, <1>7, <1>8, <1>9

LEMMA LimitsCollected == DecidedInv /\ LimitInv /\ CollectLimits => LimitInv'
<1>. SUFFICES ASSUME DecidedInv, LimitInv, CollectLimits PROVE LimitInv'
  OBVIOUS
<1> DEFINE limited == {x \in Limited : LimitAt(x) \in SupportedCounts}
           R == {Limit("ResourceLimit", x, LimitAt(x)) : x \in limited}
<1>1. /\ progress = "limits" /\ relations' = relations \cup R
      /\ failed' = (failed \/ limited # Limited)
      /\ progress' = IF failed' THEN "refused" ELSE "frozen"
      /\ UNCHANGED <<program, decided>>
  BY DEF CollectLimits
<1>2. progress' \notin Collecting
  BY <1>1 DEF Collecting
<1>3. \A r \in relations : r.kind # "ResourceLimit"
  BY <1>1 DEF LimitInv, Collecting
<1>4. \A r \in R : \E x \in limited :
        r = Limit("ResourceLimit", x, LimitAt(x)) /\ Range(r.ends) = {x} /\ r.count = LimitAt(x)
  <2>1. \A x : Range(Limit("ResourceLimit", x, LimitAt(x)).ends) = {x}
    <3>. SUFFICES ASSUME NEW x PROVE Range(Limit("ResourceLimit", x, LimitAt(x)).ends) = {x}
      OBVIOUS
    <3>1. Limit("ResourceLimit", x, LimitAt(x)).ends = <<x>>
      BY DEF Limit
    <3>2. Range(<<x>>) = {x}
      BY DEF Range
    <3>. QED BY <3>1, <3>2
  <2>2. \A x : Limit("ResourceLimit", x, LimitAt(x)).count = LimitAt(x)
    BY DEF Limit
  <2>. QED BY <2>1, <2>2
<1>5. ASSUME Collected', NEW i \in DOMAIN decided, NEW x \in Tiles(i)
      PROVE  /\ Limit("ResourceLimit", x, decided[i]) \in relations'
             /\ \A r \in relations' :
                  r.kind = "ResourceLimit" /\ x \in Range(r.ends) => r.count = decided[i]
  <2>1. limited = Limited
    BY <1>1, <1>5 DEF Collected
  <2>2. x \in DOMAIN required /\ required[x] = decided[i] /\ decided[i] # None
    BY DEF DecidedInv
  <2>3. LimitAt(x) = decided[i]
    BY <2>2 DEF LimitAt
  <2>4. x \in limited
    BY <2>1, <2>2, <2>3, TileShape DEF Limited
  <2>5. Limit("ResourceLimit", x, decided[i]) \in R
    BY <2>3, <2>4
  <2>6. ASSUME NEW r \in relations', r.kind = "ResourceLimit", x \in Range(r.ends)
        PROVE  r.count = decided[i]
    <3>1. r \in R
      BY <1>1, <1>3, <2>6
    <3>2. PICK y \in limited : Range(r.ends) = {y} /\ r.count = LimitAt(y)
      BY <1>4, <3>1
    <3>. QED BY <2>3, <2>6, <3>2
  <2>. QED BY <1>1, <2>5, <2>6
<1>6. \A i : Tiles(i)' = Tiles(i)
  BY <1>1 DEF Tiles, MmaRoles, Role, Ops
<1>. QED BY <1>1, <1>2, <1>5, <1>6 DEF LimitInv

LEMMA NextLimits == DecidedInv /\ LimitInv /\ [CollectorsNext]_collectorsVars => LimitInv'
<1>. SUFFICES ASSUME DecidedInv, LimitInv, [CollectorsNext]_collectorsVars PROVE LimitInv'
  OBVIOUS
<1>1. ASSUME NEW R, progress \in Collecting, progress' \in Collecting,
             relations' = relations \cup R, Unlimited(R)
      PROVE  LimitInv'
  BY <1>1 DEF LimitInv, Collected, Collecting, Unlimited
<1>2. ASSUME progress \in Collecting, progress' \in Collecting, relations' = relations
      PROVE  LimitInv'
  BY <1>2 DEF LimitInv, Collected, Collecting
<1>3. ASSUME UNCHANGED <<program, relations, decided>>,
             progress' = progress \/ (Collected /\ progress' \notin Collecting)
      PROVE  LimitInv'
  <2>1. \A i : Tiles(i)' = Tiles(i)
    BY <1>3 DEF Tiles, MmaRoles, Role, Ops
  <2>2. Collected' => Collected
    BY <1>3 DEF Collected
  <2>. QED BY <1>3, <2>1, <2>2 DEF LimitInv
<1>4. \A p \in DOMAIN Following : p \in Collecting /\ Following[p] \in Collecting
  BY DEF Following, Collecting
<1>5. "operations" \in DOMAIN Following /\ "mma" \in DOMAIN Following
      /\ "reductions" \in DOMAIN Following
  BY DEF Following
<1>6. ASSUME NEW i \in DOMAIN Ops, VisitOperation(i) PROVE LimitInv'
  <2>1. progress \in Collecting /\ progress' \in Collecting
    BY <1>4, <1>5, <1>6 DEF VisitOperation, Visiting, Interrupt, Collecting
  <2>2. CASE relations' = relations
    BY <1>2, <2>1, <2>2
  <2>3. CASE relations' = relations \cup CopyRelations(Ops[i], Execution(i))
                            \cup Pinned(Ops[i], Execution(i))
    <3>1. Unlimited(CopyRelations(Ops[i], Execution(i)) \cup Pinned(Ops[i], Execution(i)))
      BY NoLimitYet DEF Unlimited
    <3>2. relations' = relations \cup (CopyRelations(Ops[i], Execution(i))
                                         \cup Pinned(Ops[i], Execution(i)))
      BY <2>3
    <3>. QED BY <1>1, <2>1, <3>1, <3>2
  <2>. QED BY <1>6, <2>2, <2>3 DEF VisitOperation, Interrupt
<1>7. ASSUME NEW i \in DOMAIN Ops, VisitMma(i) PROVE LimitInv'
  <2> DEFINE roles == MmaRoles(i)
             R == OwnUses(i) \cup {Relation("SameLayout", <<roles[3], roles[4]>>),
                                   Relation("InstructionContract", roles)}
  <2>1. progress \in Collecting /\ progress' \in Collecting
    BY <1>4, <1>5, <1>7 DEF VisitMma, Visiting, Interrupt, Collecting
  <2>2. relations' = relations \/ relations' = relations \cup R
    BY <1>7 DEF VisitMma, Interrupt
  <2>3. Unlimited(R)
    BY NoLimitYet DEF Unlimited
  <2>. HIDE DEF R
  <2>. QED BY <1>1, <1>2, <2>1, <2>2, <2>3
<1>8. ASSUME NEW i \in DOMAIN Ops, VisitReduce(i) PROVE LimitInv'
  <2> DEFINE R == OwnUses(i)
                    \cup {Relation("ReductionLayout", <<Use(i, 1), Value(Ops[i].out)>>)}
  <2>1. progress \in Collecting /\ progress' \in Collecting
    BY <1>4, <1>5, <1>8 DEF VisitReduce, Visiting, Interrupt, Collecting
  <2>2. relations' = relations \/ relations' = relations \cup R
    BY <1>8 DEF VisitReduce, Interrupt
  <2>3. Unlimited(R)
    BY NoLimitYet DEF Unlimited
  <2>. HIDE DEF R
  <2>. QED BY <1>1, <1>2, <2>1, <2>2, <2>3
<1>9. CASE CollectValues
  <2> DEFINE F == UNION {FlowRelations(f) : f \in program.flows}
             S == {Relation("SameLayout", <<Value(e[1]), Value(e[2])>>) : e \in program.same}
             D == {Limit("RequireEncoding", Value(v), program.declared[v]) :
                     v \in {w \in program.values : program.declared[w] # None}}
             R == F \cup S \cup D
  <2>1. progress \in Collecting /\ progress' \in Collecting
    BY <1>9 DEF CollectValues, Collecting
  <2>6. relations' = relations \cup R
    <3>1. relations' = ((relations \cup F) \cup S) \cup D
      BY <1>9 DEF CollectValues
    <3>. HIDE DEF F, S, D
    <3>. QED BY <3>1
  <2>2. program \in Programs
    BY DEF DecidedInv
  <2>3. Unlimited(F)
    BY <2>2, NoLimitYet DEF Unlimited
  <2>4. Unlimited(S) /\ Unlimited(D)
    BY NoLimitYet DEF Unlimited
  <2>5. Unlimited(R)
    BY <2>3, <2>4 DEF Unlimited
  <2>. HIDE DEF R
  <2>. QED BY <1>1, <2>1, <2>5, <2>6
<1>10. CASE CollectLimits
  BY <1>10, LimitsCollected
<1>11. CASE \E p \in DOMAIN Following : EndWalk(p)
  BY <1>2, <1>4, <1>11 DEF EndWalk
<1>12. CASE \E i \in DOMAIN Ops : PrepareJoint(i)
  <2>1. PICK i \in DOMAIN Ops : PrepareJoint(i)
    BY <1>12
  <2>2. /\ UNCHANGED <<program, relations, decided>> /\ progress = "frozen"
        /\ progress' = progress \/ progress' = "refused"
    BY <2>1 DEF PrepareJoint
  <2>. QED BY <1>3, <2>2 DEF Collected, Collecting
<1>13. CASE EndPreparation \/ UNCHANGED collectorsVars
  <2>1. UNCHANGED <<program, relations, decided>>
    BY <1>13 DEF EndPreparation, collectorsVars
  <2>2. \/ progress' = progress
        \/ progress = "frozen" /\ progress' = "prepared"
    BY <1>13 DEF EndPreparation, collectorsVars
  <2>3. progress' = progress \/ (Collected /\ progress' \notin Collecting)
    BY <2>2 DEF Collected, Collecting
  <2>. QED BY <1>3, <2>1, <2>3
<1>. QED BY <1>6, <1>7, <1>8, <1>9, <1>10, <1>11, <1>12, <1>13 DEF CollectorsNext

CollectorsInv == DecidedInv /\ LimitInv

\* The invariant of the collectors: an operation that has decided its threads
\* holds its tiles to the decision at every later step.
THEOREM CollectorsInductive == CollectorsSpec => []CollectorsInv
<1>1. CollectorsInit => CollectorsInv
  BY DEF CollectorsInit, CollectorsInv, DecidedInv, LimitInv, Collected, Collecting
<1>2. CollectorsInv /\ [CollectorsNext]_collectorsVars => CollectorsInv'
  BY NextDecided, NextLimits DEF CollectorsInv
<1>. QED BY <1>1, <1>2, PTL DEF CollectorsSpec

\* RolesAgree: whatever a later operation leaves on a shared value, the graph
\* holds every tile of an operation to the one thread count decided for it.
THEOREM OperationsKeepTheirThreads == CollectorsSpec => []RolesAgree
<1>1. CollectorsInv => RolesAgree
  <2>. SUFFICES ASSUME CollectorsInv, Collected, NEW i \in DOMAIN decided
                PROVE  /\ \A x \in Tiles(i) :
                            Counts(x, {r \in relations : r.kind = "ResourceLimit"}) = {decided[i]}
                       /\ {Ops[i].parallel, Ops[i].threads} \subseteq {None, decided[i]}
    BY DEF RolesAgree
  <2>1. ASSUME NEW x \in Tiles(i)
        PROVE  Counts(x, {r \in relations : r.kind = "ResourceLimit"}) = {decided[i]}
    <3> DEFINE L == Limit("ResourceLimit", x, decided[i])
               G == {r \in relations : r.kind = "ResourceLimit"}
    <3>1. L \in relations /\ decided[i] # None
      BY DEF CollectorsInv, LimitInv, DecidedInv
    <3>2. L.kind = "ResourceLimit" /\ L.ends = <<x>> /\ L.count = decided[i]
      BY DEF Limit
    <3>3. x \in Range(L.ends)
      <4>1. x \in Range(<<x>>)
        BY DEF Range
      <4>. QED BY <3>2, <4>1
    <3>4. \A r \in G : x \in Range(r.ends) => r.count = decided[i]
      BY DEF CollectorsInv, LimitInv
    <3>. HIDE DEF L
    <3>. QED BY <3>1, <3>2, <3>3, <3>4 DEF Counts
  <2>. QED BY <2>1 DEF CollectorsInv, DecidedInv
<1>. QED BY <1>1, CollectorsInductive, PTL

-----------------------------------------------------------------------------
(* What the joint contracts offer.                                         *)

Menu(roles, D) == UNION {D[roles[j]] : j \in DOMAIN roles}

\* Choices for the first k roles.
ChoicesFor(roles, D, k) ==
  {t \in [1..k -> Menu(roles, D)] :
     /\ \A j \in 1..k : t[j] \in D[roles[j]]
     /\ \A j, m \in 1..k : roles[j] = roles[m] => t[j] = t[m]}

\* The next role's candidates, or the one an earlier role has chosen for its
\* variable.
Extensions(roles, D, earlier, k, S) ==
  UNION {{Append(t, e) : e \in
            IF \E j \in earlier : roles[j] = roles[k]
              THEN {t[CHOOSE j \in earlier : roles[j] = roles[k]]}
              ELSE D[roles[k]]} : t \in S}

LEMMA AppendedTuple ==
  ASSUME NEW k \in Nat, NEW U, NEW t \in [1..k -> U], NEW e \in U
  PROVE  /\ Append(t, e) \in [1..(k + 1) -> U]
         /\ \A j \in 1..k : Append(t, e)[j] = t[j]
         /\ Append(t, e)[k + 1] = e
<1>1. t \in Seq(U) /\ Len(t) = k
  OBVIOUS
<1>2. Append(t, e) \in Seq(U) /\ Len(Append(t, e)) = k + 1
  BY <1>1
<1>3. \A j \in 1..k : Append(t, e)[j] = t[j]
  BY <1>1
<1>4. Append(t, e)[k + 1] = e
  BY <1>1
<1>5. Append(t, e) \in [1..(k + 1) -> U]
  <2>1. PICK s : s = Append(t, e)
    OBVIOUS
  <2>2. s \in Seq(U) /\ Len(s) = k + 1
    BY <1>2, <2>1
  <2>3. s \in [1..(k + 1) -> U]
    BY <2>2
  <2>. QED BY <2>1, <2>3
<1>. QED BY <1>3, <1>4, <1>5

LEMMA SplitTuple ==
  ASSUME NEW k \in Nat, NEW U, NEW s \in [1..(k + 1) -> U]
  PROVE  /\ [j \in 1..k |-> s[j]] \in [1..k -> U]
         /\ s = Append([j \in 1..k |-> s[j]], s[k + 1])
<1> DEFINE t == [j \in 1..k |-> s[j]]
<1>1. t \in [1..k -> U] /\ s[k + 1] \in U /\ \A j \in 1..k : t[j] = s[j]
  OBVIOUS
<1>. HIDE DEF t
<1>2. /\ Append(t, s[k + 1]) \in [1..(k + 1) -> U]
      /\ \A j \in 1..k : Append(t, s[k + 1])[j] = t[j]
      /\ Append(t, s[k + 1])[k + 1] = s[k + 1]
  BY <1>1, AppendedTuple
<1>3. ASSUME NEW j \in 1..(k + 1)
      PROVE  Append(t, s[k + 1])[j] = s[j]
  <2>1. j \in 1..k \/ j = k + 1
    OBVIOUS
  <2>. QED BY <1>1, <1>2, <2>1
<1>4. s = Append(t, s[k + 1])
  BY <1>2, <1>3
<1>. QED BY <1>1, <1>4 DEF t

\* One role more: its own candidate, or the one of the same variable.
LEMMA OneRoleMore ==
  ASSUME NEW n \in Nat, NEW R, NEW roles \in [1..n -> R], NEW D, NEW k \in Nat, k + 1 <= n
  PROVE  ChoicesFor(roles, D, k + 1) = Extensions(roles, D, 1..k, k + 1, ChoicesFor(roles, D, k))
<1> DEFINE U == Menu(roles, D)
           again == \E j \in 1..k : roles[j] = roles[k + 1]
           first == CHOOSE j \in 1..k : roles[j] = roles[k + 1]
           given(t) == IF again THEN {t[first]} ELSE D[roles[k + 1]]
<1>1. again => first \in 1..k /\ roles[first] = roles[k + 1]
  OBVIOUS
<1>2. (k + 1) - 1 = k /\ \A j \in 1..(k + 1) : j \in 1..n
  OBVIOUS
<1>3. \A j \in 1..(k + 1) : D[roles[j]] \subseteq U
  BY <1>2 DEF Menu
<1>4. Extensions(roles, D, 1..k, k + 1, ChoicesFor(roles, D, k)) =
        UNION {{Append(t, e) : e \in given(t)} : t \in ChoicesFor(roles, D, k)}
  BY DEF Extensions
<1>. HIDE DEF U, first, again
<1>5. ASSUME NEW s \in ChoicesFor(roles, D, k + 1)
      PROVE  \E t \in ChoicesFor(roles, D, k) : \E e \in given(t) : s = Append(t, e)
  <2> DEFINE t == [j \in 1..k |-> s[j]]
  <2>1. /\ s \in [1..(k + 1) -> U]
        /\ \A j \in 1..(k + 1) : s[j] \in D[roles[j]]
        /\ \A j, m \in 1..(k + 1) : roles[j] = roles[m] => s[j] = s[m]
    BY DEF ChoicesFor, U
  <2>2. t \in [1..k -> U] /\ s = Append(t, s[k + 1])
    BY <2>1, SplitTuple
  <2>3. \A j \in 1..k : t[j] = s[j] /\ j \in 1..(k + 1)
    OBVIOUS
  <2>. HIDE DEF t
  <2>4. t \in ChoicesFor(roles, D, k)
    BY <2>1, <2>2, <2>3 DEF ChoicesFor, U
  <2>5. k + 1 \in 1..(k + 1)
    OBVIOUS
  <2>6. s[k + 1] \in given(t)
    <3>1. CASE again
      BY <1>1, <2>1, <2>3, <2>5, <3>1
    <3>2. CASE ~again
      BY <2>1, <2>5, <3>2
    <3>. QED BY <3>1, <3>2
  <2>. QED BY <2>2, <2>4, <2>6
<1>6. ASSUME NEW t \in ChoicesFor(roles, D, k), NEW e \in given(t)
      PROVE  Append(t, e) \in ChoicesFor(roles, D, k + 1)
  <2>1. /\ t \in [1..k -> U]
        /\ \A j \in 1..k : t[j] \in D[roles[j]]
        /\ \A j, m \in 1..k : roles[j] = roles[m] => t[j] = t[m]
    BY DEF ChoicesFor, U
  <2>2. e \in D[roles[k + 1]] /\ \A j \in 1..k : roles[j] = roles[k + 1] => e = t[j]
    <3>1. CASE again
      BY <1>1, <1>6, <2>1, <3>1
    <3>2. CASE ~again
      BY <1>6, <3>2 DEF again
    <3>. QED BY <3>1, <3>2
  <2>3. e \in U
    BY <1>3, <2>2
  <2>4. PICK s : s = Append(t, e)
    OBVIOUS
  <2>5. /\ s \in [1..(k + 1) -> U] /\ \A j \in 1..k : s[j] = t[j]
        /\ s[k + 1] = e
    <3>1. /\ Append(t, e) \in [1..(k + 1) -> U]
          /\ \A j \in 1..k : Append(t, e)[j] = t[j]
          /\ Append(t, e)[k + 1] = e
      BY <2>1, <2>3, AppendedTuple
    <3>. QED BY <2>4, <3>1
  <2>6. \A j \in 1..(k + 1) : j \in 1..k \/ j = k + 1
    OBVIOUS
  <2>7. \A j \in 1..(k + 1) : s[j] \in D[roles[j]]
    BY <2>1, <2>2, <2>5, <2>6
  <2>8. \A j, m \in 1..(k + 1) : roles[j] = roles[m] => s[j] = s[m]
    BY <2>1, <2>2, <2>5, <2>6
  <2>. QED BY <2>4, <2>5, <2>7, <2>8 DEF ChoicesFor, U
<1>7. ChoicesFor(roles, D, k + 1) \subseteq
        UNION {{Append(t, e) : e \in given(t)} : t \in ChoicesFor(roles, D, k)}
  <2>. HIDE DEF given
  <2>. QED BY <1>5
<1>8. UNION {{Append(t, e) : e \in given(t)} : t \in ChoicesFor(roles, D, k)}
        \subseteq ChoicesFor(roles, D, k + 1)
  <2>. SUFFICES ASSUME NEW s,
                      s \in UNION {{Append(t, e) : e \in given(t)} : t \in ChoicesFor(roles, D, k)}
                PROVE  s \in ChoicesFor(roles, D, k + 1)
    OBVIOUS
  <2>. HIDE DEF given
  <2>1. PICK t \in ChoicesFor(roles, D, k) : s \in {Append(t, e) : e \in given(t)}
    OBVIOUS
  <2>2. PICK e \in given(t) : s = Append(t, e)
    BY <2>1
  <2>. QED BY <1>6, <2>2
<1>. QED BY <1>4, <1>7, <1>8

\* The recursion has one solution: the choices for each prefix of the roles.
LEMMA CombinationsAreChoices ==
  ASSUME NEW n \in Nat, NEW R, NEW roles \in [1..n -> R], NEW D
  PROVE  Combinations(roles, D) = ChoicesFor(roles, D, n)
<1> DEFINE Body(c) ==
             [k \in 0..n |-> IF k = 0 THEN {<<>>}
                            ELSE Extensions(roles, D, 1..(k - 1), k, c[k - 1])]
           P == [k \in 0..n |-> ChoicesFor(roles, D, k)]
           chosen == CHOOSE c : c = Body(c)
<1>1. Len(roles) = n
  <2>1. roles \in Seq(R)
    OBVIOUS
  <2>. QED BY <2>1
<1>2. Combinations(roles, D) = chosen[n]
  BY <1>1 DEF Combinations, Extensions
<1>3. ChoicesFor(roles, D, 0) = {<<>>}
  <2>1. <<>> \in ChoicesFor(roles, D, 0)
    BY DEF ChoicesFor
  <2>2. \A t \in ChoicesFor(roles, D, 0) : t = <<>>
    BY DEF ChoicesFor
  <2>. QED BY <2>1, <2>2
<1>4. \A k \in 1..n : ChoicesFor(roles, D, k) =
                       Extensions(roles, D, 1..(k - 1), k, ChoicesFor(roles, D, k - 1))
  <2>1. ASSUME NEW k \in 1..n
        PROVE  ChoicesFor(roles, D, k) =
                 Extensions(roles, D, 1..(k - 1), k, ChoicesFor(roles, D, k - 1))
    <3>1. k - 1 \in Nat /\ (k - 1) + 1 <= n /\ (k - 1) + 1 = k
      OBVIOUS
    <3>2. PICK m \in Nat : m = k - 1
      BY <3>1
    <3>4. m + 1 <= n
      BY <3>1, <3>2
    <3>3. ChoicesFor(roles, D, m + 1) = Extensions(roles, D, 1..m, m + 1, ChoicesFor(roles, D, m))
      BY <3>4, OneRoleMore
    <3>. QED BY <3>1, <3>2, <3>3
  <2>. QED BY <2>1
<1>5. P = Body(P)
  <2>1. \A k \in 1..n : k - 1 \in 0..n
    OBVIOUS
  <2>2. \A k \in 0..n : k = 0 \/ k \in 1..n
    OBVIOUS
  <2>3. ASSUME NEW k \in 0..n
        PROVE  P[k] = IF k = 0 THEN {<<>>} ELSE Extensions(roles, D, 1..(k - 1), k, P[k - 1])
    BY <1>3, <1>4, <2>1, <2>2
  <2>. QED BY <2>3
<1>6. chosen = Body(chosen)
  <2>. HIDE DEF Body, P
  <2>. QED BY <1>5
<1>7. PICK c : c = chosen
  OBVIOUS
<1>8. c = Body(c)
  <2>. HIDE DEF chosen
  <2>. QED BY <1>6, <1>7
<1>9. \A k \in 0..n : c[k] = IF k = 0 THEN {<<>>} ELSE Extensions(roles, D, 1..(k - 1), k, c[k - 1])
  BY <1>8
<1> DEFINE G == {k \in Nat : k <= n => c[k] = ChoicesFor(roles, D, k)}
<1>10. 0 \in G
  <2>1. c[0] = {<<>>}
    BY <1>9
  <2>. QED BY <1>3, <2>1
<1>11. ASSUME NEW k \in Nat, k \in G PROVE k + 1 \in G
  <2>. SUFFICES ASSUME k + 1 <= n PROVE c[k + 1] = ChoicesFor(roles, D, k + 1)
    OBVIOUS
  <2>1. k + 1 \in 1..n /\ k + 1 \in 0..n /\ (k + 1) - 1 = k /\ k + 1 # 0 /\ k <= n
    OBVIOUS
  <2>2. c[k + 1] = Extensions(roles, D, 1..k, k + 1, c[k])
    BY <1>9, <2>1
  <2>3. c[k] = ChoicesFor(roles, D, k)
    BY <1>11, <2>1
  <2>. QED BY <1>4, <2>1, <2>2, <2>3
<1>12. \A k \in Nat : k \in G
  <2>. HIDE DEF G
  <2>. QED BY <1>10, <1>11, NaturalInduction
<1>13. c[n] = ChoicesFor(roles, D, n)
  BY <1>12
<1>. HIDE DEF chosen
<1>. QED BY <1>2, <1>7, <1>13

\* Choices for all the roles are choices of one candidate per variable.
LEMMA ChoicesPerVariable ==
  ASSUME NEW n \in Nat, NEW R, NEW roles \in [1..n -> R], NEW D
  PROVE  ChoicesFor(roles, D, n) =
           {[k \in DOMAIN roles |-> f[roles[k]]] :
              f \in {g \in [Range(roles) -> UNION {D[x] : x \in Range(roles)}] :
                       \A x \in DOMAIN g : g[x] \in D[x]}}
<1> DEFINE U == Menu(roles, D)
           V == Range(roles)
           F == {g \in [V -> U] : \A x \in V : g[x] \in D[x]}
<1>1. V = {roles[j] : j \in 1..n} /\ DOMAIN roles = 1..n
  BY DEF Range
<1>2. UNION {D[x] : x \in V} = U
  BY <1>1 DEF Menu
<1>3. {g \in [V -> UNION {D[x] : x \in V}] : \A x \in DOMAIN g : g[x] \in D[x]} = F
  <2>1. \A g \in [V -> U] : DOMAIN g = V
    OBVIOUS
  <2>. QED BY <1>2, <2>1
<1>. HIDE DEF U, V
<1>4. ASSUME NEW t \in ChoicesFor(roles, D, n)
      PROVE  \E f \in F : t = [k \in 1..n |-> f[roles[k]]]
  <2> DEFINE place(x) == CHOOSE j \in 1..n : roles[j] = x
             f == [x \in V |-> t[place(x)]]
  <2>1. /\ t \in [1..n -> U]
        /\ \A j \in 1..n : t[j] \in D[roles[j]]
        /\ \A j, m \in 1..n : roles[j] = roles[m] => t[j] = t[m]
    BY DEF ChoicesFor, U
  <2>2. \A x \in V : place(x) \in 1..n /\ roles[place(x)] = x
    BY <1>1
  <2>3. \A x \in V : f[x] = t[place(x)]
    OBVIOUS
  <2>4. f \in [V -> U]
    <3>. HIDE DEF place
    <3>. QED BY <2>1, <2>2
  <2>. HIDE DEF place, f
  <2>5. \A x \in V : f[x] \in D[x]
    BY <2>1, <2>2, <2>3
  <2>6. \A k \in 1..n : roles[k] \in V
    BY <1>1
  <2>7. \A k \in 1..n : t[k] = f[roles[k]]
    BY <2>1, <2>2, <2>3, <2>6
  <2>8. t = [k \in 1..n |-> f[roles[k]]]
    BY <2>1, <2>7
  <2>. QED BY <2>4, <2>5, <2>8
<1>5. ASSUME NEW f \in F
      PROVE  [k \in 1..n |-> f[roles[k]]] \in ChoicesFor(roles, D, n)
  <2> DEFINE t == [k \in 1..n |-> f[roles[k]]]
  <2>1. \A k \in 1..n : roles[k] \in V
    BY <1>1
  <2>2. \A k \in 1..n : f[roles[k]] \in U /\ f[roles[k]] \in D[roles[k]]
    BY <2>1
  <2>3. t \in [1..n -> U] /\ \A k \in 1..n : t[k] = f[roles[k]]
    BY <2>2
  <2>. HIDE DEF t
  <2>4. t \in ChoicesFor(roles, D, n)
    BY <2>2, <2>3 DEF ChoicesFor, U
  <2>. QED BY <2>4 DEF t
<1>6. ChoicesFor(roles, D, n) = {[k \in 1..n |-> f[roles[k]]] : f \in F}
  <2>. HIDE DEF F
  <2>. QED BY <1>4, <1>5
<1>. HIDE DEF F
<1>. QED BY <1>1, <1>3, <1>6 DEF V

\* What is offered for one candidate per variable, taken from D.
OneEach(i, D) ==
  {f \in [Range(JointRoles(i)) -> UNION {D[x] : x \in Range(JointRoles(i))}] :
     \A x \in DOMAIN f : f[x] \in D[x]}

ProvenOffers(i, T) ==
  {[encodings |-> t, binding |-> BindingOf(i, t)] :
     t \in {s \in T : /\ BindingOf(i, s) # None
                     /\ Proven(Ops[i].kind, decided[i], s, BindingOf(i, s))}}

LEMMA OffersAreProven ==
  ASSUME NEW i, NEW D
  PROVE  Offers(i, D) = ProvenOffers(i, {Tuple(i, f) : f \in OneEach(i, D)})
<1> DEFINE roles == JointRoles(i)
<1>1. \E n \in Nat : \E R : roles \in [1..n -> R]
  <2>1. CASE Ops[i].kind = "mma"
    <3>1. roles \in [1..4 -> {Role(i, 1), Role(i, 2), Role(i, 3), Value(Ops[i].out)}]
      BY <2>1 DEF JointRoles, MmaRoles
    <3>. QED BY <3>1
  <2>2. CASE Ops[i].kind # "mma"
    <3>1. roles \in [1..2 -> {Use(i, 1), Value(Ops[i].out)}]
      BY <2>2 DEF JointRoles
    <3>. QED BY <3>1
  <2>. QED BY <2>1, <2>2
<1>2. PICK n \in Nat : \E R : roles \in [1..n -> R]
  BY <1>1
<1>3. PICK R : roles \in [1..n -> R]
  BY <1>2
<1>4. Combinations(roles, D) = ChoicesFor(roles, D, n)
  <2>. HIDE DEF roles
  <2>. QED BY <1>3, CombinationsAreChoices
<1>5. ChoicesFor(roles, D, n) =
           {[k \in DOMAIN roles |-> f[roles[k]]] :
              f \in {g \in [Range(roles) -> UNION {D[x] : x \in Range(roles)}] :
                       \A x \in DOMAIN g : g[x] \in D[x]}}
  <2>. HIDE DEF roles
  <2>. QED BY <1>3, ChoicesPerVariable
<1>6. Combinations(roles, D) = {Tuple(i, f) : f \in OneEach(i, D)}
  BY <1>4, <1>5, Zenon DEF Tuple, OneEach
<1>. QED BY <1>6 DEF Offers, ProvenOffers

LEMMA OneEachAgrees ==
  ASSUME NEW i, NEW D, NEW E, \A x \in Range(JointRoles(i)) : D[x] = E[x]
  PROVE  OneEach(i, D) = OneEach(i, E)
<1> DEFINE V == Range(JointRoles(i))
           M(C) == UNION {C[x] : x \in V}
<1>1. M(D) = M(E)
  OBVIOUS
<1>2. \A f \in [V -> M(D)] :
        (\A x \in DOMAIN f : f[x] \in D[x]) <=> (\A x \in DOMAIN f : f[x] \in E[x])
  OBVIOUS
<1>3. OneEach(i, D) = {f \in [V -> M(D)] : \A x \in DOMAIN f : f[x] \in D[x]}
  BY DEF OneEach
<1>4. OneEach(i, E) = {f \in [V -> M(E)] : \A x \in DOMAIN f : f[x] \in E[x]}
  BY DEF OneEach
<1>. HIDE DEF V, M
<1>. QED BY <1>1, <1>2, <1>3, <1>4

\* What was offered is the offer for the domains the variables still have, and
\* nothing is offered before the graph is frozen.
OfferInv ==
  /\ progress \notin {"frozen", "prepared", "refused"} => offered = <<>>
  /\ \A i \in DOMAIN offered :
       \E D \in [Range(JointRoles(i)) -> program.frozen] :
         /\ offered[i] = Offers(i, D)
         /\ \A x \in DOMAIN D : x \in DOMAIN candidates /\ candidates[x] = D[x]

\* Steps before the graph is frozen offer nothing.
LEMMA NothingOffered ==
  ASSUME offered = <<>>, offered' = offered
  PROVE  OfferInv'
BY DEF OfferInv

LEMMA OffersKept ==
  ASSUME OfferInv, UNCHANGED <<program, decided, candidates, offered>>,
         \/ progress' \in {"frozen", "prepared", "refused"}
         \/ progress' = progress
  PROVE  OfferInv'
<1>1. \A i : JointRoles(i)' = JointRoles(i)
  BY DEF JointRoles, MmaRoles, Role, Ops
<1>2. \A i, D : Offers(i, D)' = Offers(i, D)
  BY <1>1 DEF Offers, BindingOf, Ops
<1>. QED BY <1>1, <1>2 DEF OfferInv

LEMMA PrepareOffers ==
  ASSUME OfferInv, NEW i \in DOMAIN Ops, PrepareJoint(i)
  PROVE  OfferInv'
<1>1. PICK D \in [Range(JointRoles(i)) -> program.frozen] :
        /\ \A x \in DOMAIN D \cap DOMAIN candidates : D[x] = candidates[x]
        /\ candidates' = Overlaid(D, candidates)
        /\ \/ progress' = "refused" /\ UNCHANGED offered
           \/ offered' = Deciding(i, Offers(i, D), offered) /\ UNCHANGED progress
  BY DEF PrepareJoint
<1>2. UNCHANGED <<program, decided>> /\ progress = "frozen"
  BY DEF PrepareJoint
<1>3. \A j : JointRoles(j)' = JointRoles(j)
  BY <1>2 DEF JointRoles, MmaRoles, Role, Ops
<1>4. \A j, E : Offers(j, E)' = Offers(j, E)
  BY <1>2, <1>3 DEF Offers, BindingOf, Ops
<1>5. /\ \A x \in DOMAIN candidates : x \in DOMAIN candidates' /\ candidates'[x] = candidates[x]
      /\ \A x \in DOMAIN D : x \in DOMAIN candidates' /\ candidates'[x] = D[x]
  <2>1. /\ DOMAIN Overlaid(D, candidates) = DOMAIN D \cup DOMAIN candidates
        /\ \A x \in DOMAIN D : Overlaid(D, candidates)[x] = D[x]
        /\ \A x \in DOMAIN candidates \ DOMAIN D : Overlaid(D, candidates)[x] = candidates[x]
    BY DEF Overlaid
  <2>2. PICK f : f = Overlaid(D, candidates)
    OBVIOUS
  <2>. QED BY <1>1, <2>1, <2>2
<1>6. ASSUME NEW j \in DOMAIN offered', j \in DOMAIN offered /\ offered'[j] = offered[j]
      PROVE  \E E \in [Range(JointRoles(j)) -> program.frozen] :
               /\ offered'[j] = Offers(j, E)
               /\ \A x \in DOMAIN E : x \in DOMAIN candidates' /\ candidates'[x] = E[x]
  <2>1. PICK E \in [Range(JointRoles(j)) -> program.frozen] :
          /\ offered[j] = Offers(j, E)
          /\ \A x \in DOMAIN E : x \in DOMAIN candidates /\ candidates[x] = E[x]
    BY <1>6 DEF OfferInv
  <2>. QED BY <1>5, <1>6, <2>1
<1>7. ASSUME NEW j \in DOMAIN offered'
      PROVE  \E E \in [Range(JointRoles(j)) -> program.frozen] :
               /\ offered'[j] = Offers(j, E)
               /\ \A x \in DOMAIN E : x \in DOMAIN candidates' /\ candidates'[x] = E[x]
  <2>1. CASE offered' = offered
    BY <1>6, <2>1
  <2>2. CASE offered' = Deciding(i, Offers(i, D), offered)
    <3> DEFINE T == Offers(i, D)
    <3>1. PICK f : f = Deciding(i, T, offered)
      OBVIOUS
    <3>. HIDE DEF T
    <3>2. /\ DOMAIN f = {i} \cup DOMAIN offered /\ f[i] = T
          /\ \A k \in DOMAIN offered \ {i} : f[k] = offered[k]
      BY <3>1 DEF Deciding, Overlaid
    <3>3. offered' = f
      BY <2>2, <3>1 DEF T
    <3>4. CASE j = i
      BY <1>5, <3>2, <3>3, <3>4 DEF T
    <3>5. CASE j # i
      <4>1. j \in DOMAIN offered /\ offered'[j] = offered[j]
        BY <3>2, <3>3, <3>5
      <4>. QED BY <1>6, <4>1
    <3>. QED BY <3>4, <3>5
  <2>. QED BY <1>1, <2>1, <2>2
<1>8. program'.frozen = program.frozen /\ progress' \in {"frozen", "refused"}
  BY <1>1, <1>2
<1>. QED BY <1>3, <1>4, <1>7, <1>8 DEF OfferInv

LEMMA NextOffers == OfferInv /\ [CollectorsNext]_collectorsVars => OfferInv'
<1>. SUFFICES ASSUME OfferInv, [CollectorsNext]_collectorsVars PROVE OfferInv'
  OBVIOUS
<1>1. ASSUME NEW i \in DOMAIN Ops, VisitOperation(i) \/ VisitMma(i) \/ VisitReduce(i)
      PROVE  OfferInv'
  <2>1. progress \notin {"frozen", "prepared", "refused"} /\ offered' = offered
    BY <1>1 DEF VisitOperation, VisitMma, VisitReduce, Visiting, Interrupt
  <2>. QED BY <2>1, NothingOffered DEF OfferInv
<1>2. CASE CollectValues \/ CollectLimits \/ \E p \in DOMAIN Following : EndWalk(p)
  <2>1. progress \notin {"frozen", "prepared", "refused"} /\ offered' = offered
    BY <1>2 DEF CollectValues, CollectLimits, EndWalk, Following
  <2>. QED BY <2>1, NothingOffered DEF OfferInv
<1>3. ASSUME NEW i \in DOMAIN Ops, PrepareJoint(i) PROVE OfferInv'
  BY <1>3, PrepareOffers
<1>4. CASE EndPreparation \/ UNCHANGED collectorsVars
  BY <1>4, OffersKept DEF EndPreparation, collectorsVars
<1>. QED BY <1>1, <1>2, <1>3, <1>4 DEF CollectorsNext

\* OffersExact: a joint contract offers a tuple for exactly the choices of one
\* candidate per variable that the target proves, whatever the domains.
THEOREM OffersAreExact == CollectorsSpec => []OffersExact
<1>1. CollectorsInit => OfferInv
  BY DEF CollectorsInit, OfferInv
<1>2. OfferInv => OffersExact
  <2>3. ASSUME NEW i
        PROVE  ProvenOffers(i, {Tuple(i, f) : f \in Chosen(i)}) =
                 {[encodings |-> Tuple(i, f), binding |-> BindingOf(i, Tuple(i, f))] :
                    f \in {g \in Chosen(i) :
                            /\ BindingOf(i, Tuple(i, g)) # None
                            /\ Proven(Ops[i].kind, decided[i], Tuple(i, g),
                                      BindingOf(i, Tuple(i, g)))}}
    BY DEF ProvenOffers
  <2>. SUFFICES ASSUME OfferInv, NEW i \in DOMAIN offered
                PROVE  offered[i] = ProvenOffers(i, {Tuple(i, f) : f \in Chosen(i)})
    BY <2>3 DEF OffersExact
  <2>1. PICK D \in [Range(JointRoles(i)) -> program.frozen] :
          /\ offered[i] = Offers(i, D)
          /\ \A x \in DOMAIN D : x \in DOMAIN candidates /\ candidates[x] = D[x]
    BY DEF OfferInv
  <2>2. OneEach(i, D) = OneEach(i, candidates)
    BY <2>1, OneEachAgrees
  <2>4. OneEach(i, candidates) = Chosen(i)
    BY DEF OneEach, Chosen
  <2>. QED BY <2>1, <2>2, <2>4, OffersAreProven
<1>3. OfferInv /\ [CollectorsNext]_collectorsVars => OfferInv'
  BY NextOffers
<1>. QED BY <1>1, <1>2, <1>3, PTL DEF CollectorsSpec

-----------------------------------------------------------------------------
(* The threads a reduction inherits.                                       *)

Bound == Cardinality(DOMAIN required)

\* Everything an end of a relation, or there at all.
Reach(x) == {x} \cup DOMAIN required \cup UNION {Range(r.ends) : r \in relations}

Grow(S, kinds) ==
  S \cup UNION {Range(r.ends) : r \in {q \in relations :
                  q.kind \in kinds /\ Range(q.ends) \cap S # {}}}

Search(S) == S \cup UNION {Sources(y) : y \in S}

LEMMA GrownIs ==
  ASSUME NEW x, NEW kinds, IsFiniteSet(DOMAIN required)
  PROVE  /\ Bound \in Nat
         /\ \E c : /\ Class(x, kinds) = c[Bound] /\ c[0] = {x}
                  /\ \A k \in 1..Bound : c[k] = Grow(c[k - 1], kinds)
<1> DEFINE N == Cardinality(DOMAIN required)
           V == SUBSET Reach(x)
           f == [S \in V |-> Grow(S, kinds)]
           Body(c) == [k \in 0..N |-> IF k = 0 THEN {x} ELSE Grow(c[k - 1], kinds)]
           grown == CHOOSE c : c = Body(c)
<1>1. N \in Nat
  BY FS_CardinalityType
<1>2. f \in [V -> V] /\ {x} \in V
  BY DEF Grow, Reach
<1>3. PICK g \in [0..N -> V] : g[0] = {x} /\ \A k \in 1..N : g[k] = f[g[k - 1]]
  <2>1. PICK b : b = {x}
    OBVIOUS
  <2>2. b \in V
    BY <1>2, <2>1
  <2>. HIDE DEF N, V, f
  <2>3. Iterations(N, V, b, f) # {}
    BY <1>1, <1>2, <2>2, IterationDefines
  <2>. QED BY <2>1, <2>3 DEF Iterations
<1>4. g = Body(g)
  <2>1. ASSUME NEW k \in 0..N
        PROVE  g[k] = IF k = 0 THEN {x} ELSE Grow(g[k - 1], kinds)
    <3>1. CASE k = 0
      BY <1>3, <3>1
    <3>2. CASE k # 0
      <4>1. k \in 1..N /\ k - 1 \in 0..N
        BY <1>1, <3>2
      <4>2. g[k - 1] \in V
        BY <4>1
      <4>. QED BY <1>3, <3>2, <4>1, <4>2
    <3>. QED BY <3>1, <3>2
  <2>. HIDE DEF N, V
  <2>. QED BY <1>3, <2>1
<1>5. grown = Body(grown)
  <2>. HIDE DEF Body
  <2>. QED BY <1>4
<1>6. Class(x, kinds) = grown[N]
  BY DEF Class, Grow
<1>7. PICK c : c = grown
  OBVIOUS
<1>8. c = Body(c)
  <2>. HIDE DEF grown
  <2>. QED BY <1>5, <1>7
<1>9. \A k \in 0..N : c[k] = IF k = 0 THEN {x} ELSE Grow(c[k - 1], kinds)
  BY <1>8
<1>10. 0 \in 0..N /\ \A k \in 1..N : k \in 0..N /\ k # 0
  BY <1>1
<1>. HIDE DEF grown, N
<1>11. c[0] = {x} /\ \A k \in 1..N : c[k] = Grow(c[k - 1], kinds)
  BY <1>9, <1>10
<1>. QED BY <1>1, <1>6, <1>7, <1>11 DEF N, Bound

LEMMA SearchedIs ==
  ASSUME NEW x, IsFiniteSet(DOMAIN required)
  PROVE  /\ Bound \in Nat
         /\ \E c : /\ SearchedFrom(x) = c[Bound] /\ c[0] = {x}
                  /\ \A k \in 1..Bound : c[k] = Search(c[k - 1])
<1> DEFINE N == Cardinality(DOMAIN required)
           V == SUBSET Reach(x)
           f == [S \in V |-> Search(S)]
           Body(c) == [k \in 0..N |-> IF k = 0 THEN {x} ELSE Search(c[k - 1])]
           reached == CHOOSE c : c = Body(c)
<1>1. N \in Nat
  BY FS_CardinalityType
<1>2. f \in [V -> V] /\ {x} \in V
  <2>1. \A y : Sources(y) \subseteq Reach(x)
    BY DEF Sources, Producers, Before, Reach
  <2>2. \A S \in V : Search(S) \in V
    BY <2>1 DEF Search
  <2>. QED BY <2>2 DEF Reach
<1>3. PICK g \in [0..N -> V] : g[0] = {x} /\ \A k \in 1..N : g[k] = f[g[k - 1]]
  <2>1. PICK b : b = {x}
    OBVIOUS
  <2>2. b \in V
    BY <1>2, <2>1
  <2>. HIDE DEF N, V, f
  <2>3. Iterations(N, V, b, f) # {}
    BY <1>1, <1>2, <2>2, IterationDefines
  <2>. QED BY <2>1, <2>3 DEF Iterations
<1>4. g = Body(g)
  <2>1. ASSUME NEW k \in 0..N
        PROVE  g[k] = IF k = 0 THEN {x} ELSE Search(g[k - 1])
    <3>1. CASE k = 0
      BY <1>3, <3>1
    <3>2. CASE k # 0
      <4>1. k \in 1..N /\ k - 1 \in 0..N
        BY <1>1, <3>2
      <4>2. g[k - 1] \in V
        BY <4>1
      <4>. QED BY <1>3, <3>2, <4>1, <4>2
    <3>. QED BY <3>1, <3>2
  <2>. HIDE DEF N, V
  <2>. QED BY <1>3, <2>1
<1>5. reached = Body(reached)
  <2>. HIDE DEF Body
  <2>. QED BY <1>4
<1>6. SearchedFrom(x) = reached[N]
  BY DEF SearchedFrom, Search
<1>7. PICK c : c = reached
  OBVIOUS
<1>8. c = Body(c)
  <2>. HIDE DEF reached
  <2>. QED BY <1>5, <1>7
<1>9. \A k \in 0..N : c[k] = IF k = 0 THEN {x} ELSE Search(c[k - 1])
  BY <1>8
<1>10. 0 \in 0..N /\ \A k \in 1..N : k \in 0..N /\ k # 0
  BY <1>1
<1>. HIDE DEF reached, N
<1>11. c[0] = {x} /\ \A k \in 1..N : c[k] = Search(c[k - 1])
  BY <1>9, <1>10
<1>. QED BY <1>1, <1>6, <1>7, <1>11 DEF N, Bound

\* What a set that contains x and is closed under the relations has in it.
LEMMA ClassStays ==
  ASSUME NEW x, NEW kinds, IsFiniteSet(DOMAIN required), NEW T, x \in T,
         \A r \in relations :
           r.kind \in kinds /\ Range(r.ends) \cap T # {} => Range(r.ends) \subseteq T
  PROVE  Class(x, kinds) \subseteq T
<1>0. Bound \in Nat
  BY GrownIs
<1>1. PICK c : /\ Class(x, kinds) = c[Bound] /\ c[0] = {x}
               /\ \A k \in 1..Bound : c[k] = Grow(c[k - 1], kinds)
  BY GrownIs
<1> DEFINE P == {k \in Nat : k <= Bound => c[k] \subseteq T}
<1>2. 0 \in P
  BY <1>1
<1>3. ASSUME NEW k \in Nat, k \in P PROVE k + 1 \in P
  <2>. SUFFICES ASSUME k + 1 <= Bound PROVE c[k + 1] \subseteq T
    OBVIOUS
  <2>1. k + 1 \in 1..Bound /\ (k + 1) - 1 = k /\ k <= Bound
    BY <1>0
  <2>2. c[k + 1] = Grow(c[k], kinds) /\ c[k] \subseteq T
    BY <1>1, <1>3, <2>1
  <2>3. ASSUME NEW y \in Grow(c[k], kinds) PROVE y \in T
    BY <2>2, <2>3 DEF Grow
  <2>. QED BY <2>2, <2>3
<1>4. \A k \in Nat : k \in P
  <2>. HIDE DEF P
  <2>. QED BY <1>2, <1>3, NaturalInduction
<1>. QED BY <1>0, <1>1, <1>4

\* The search from a variable finds every variable that must share its layout,
\* on whichever side of a relation.
LEMMA PeersAreFound ==
  ASSUME NEW x, IsFiniteSet(DOMAIN required)
  PROVE  Class(x, {"SameLayout"}) \subseteq SearchedFrom(x)
<1> DEFINE K == {"SameLayout"}
<1>0. Bound \in Nat
  BY GrownIs
<1>1. PICK c : /\ Class(x, K) = c[Bound] /\ c[0] = {x}
               /\ \A k \in 1..Bound : c[k] = Grow(c[k - 1], K)
  <2>1. ASSUME NEW kinds
        PROVE  \E c : /\ Class(x, kinds) = c[Bound] /\ c[0] = {x}
                      /\ \A k \in 1..Bound : c[k] = Grow(c[k - 1], kinds)
    BY GrownIs
  <2>. HIDE DEF K
  <2>. QED BY <2>1
<1>2. PICK d : /\ SearchedFrom(x) = d[Bound] /\ d[0] = {x}
               /\ \A k \in 1..Bound : d[k] = Search(d[k - 1])
  BY SearchedIs
<1>. HIDE DEF K
<1>3. ASSUME NEW S, NEW T, S \subseteq T
      PROVE  Grow(S, K) \subseteq Search(T)
  <2>. SUFFICES ASSUME NEW y \in Grow(S, K) PROVE y \in Search(T)
    OBVIOUS
  <2>1. CASE y \in S
    BY <1>3, <2>1 DEF Search
  <2>2. CASE y \notin S
    <3>1. PICK r \in relations : r.kind \in K /\ Range(r.ends) \cap S # {} /\ y \in Range(r.ends)
      BY <2>2 DEF Grow
    <3>2. PICK z \in S : z \in Range(r.ends)
      BY <3>1
    <3>3. y \in Sources(z)
      BY <3>1, <3>2 DEF Sources, K
    <3>. QED BY <1>3, <3>2, <3>3 DEF Search
  <2>. QED BY <2>1, <2>2
<1> DEFINE P == {k \in Nat : k <= Bound => c[k] \subseteq d[k]}
<1>4. 0 \in P
  BY <1>1, <1>2
<1>5. ASSUME NEW k \in Nat, k \in P PROVE k + 1 \in P
  <2>. SUFFICES ASSUME k + 1 <= Bound PROVE c[k + 1] \subseteq d[k + 1]
    OBVIOUS
  <2>1. k + 1 \in 1..Bound /\ (k + 1) - 1 = k /\ k <= Bound
    BY <1>0
  <2>2. c[k + 1] = Grow(c[k], K) /\ d[k + 1] = Search(d[k]) /\ c[k] \subseteq d[k]
    BY <1>1, <1>2, <1>5, <2>1
  <2>. QED BY <1>3, <2>2
<1>6. \A k \in Nat : k \in P
  <2>. HIDE DEF P
  <2>. QED BY <1>4, <1>5, NaturalInduction
<1>. QED BY <1>0, <1>1, <1>2, <1>6 DEF K

\* Before the limits, a relation with a count repeats the encoding of a value or
\* of an execution.
Declares(r) ==
  r.count = None \/ (\E v : r.ends = <<Value(v)>> /\ r.count = program.declared[v])
                 \/ (\E i : r.ends = <<Execution(i)>>)

\* No execution shares the layout of anything.
Parted(r) == r.kind = "SameLayout" => \A i : Execution(i) \notin Range(r.ends)

Plain(R) == \A r \in R : Declares(r) /\ Parted(r)

PeerInv ==
  /\ program \in Programs
  /\ IsFiniteSet(DOMAIN required)
  /\ \A r \in relations : Declares(r) \/ (r.kind = "ResourceLimit" /\ progress \notin Collecting)
  /\ \A r \in relations : Parted(r)

LEMMA RelationsArePlain ==
  /\ \A kind, ends : kind # "SameLayout" => Plain({Relation(kind, ends)})
  /\ \A x, y : (\A i : x # Execution(i) /\ y # Execution(i)) =>
               Plain({Relation("SameLayout", <<x, y>>)})
  /\ \A v, n : n = program.declared[v] => Plain({Limit("RequireEncoding", Value(v), n)})
  /\ \A i, n : Plain({Limit("RequireEncoding", Execution(i), n)})
<1>1. ASSUME NEW kind, NEW ends
      PROVE  /\ Declares(Relation(kind, ends))
             /\ Relation(kind, ends).kind = kind /\ Relation(kind, ends).ends = ends
  BY DEF Relation, Declares
<1>2. ASSUME NEW x, NEW n
      PROVE  /\ Limit("RequireEncoding", x, n).kind = "RequireEncoding"
             /\ Limit("RequireEncoding", x, n).ends = <<x>>
             /\ Limit("RequireEncoding", x, n).count = n
  BY DEF Limit
<1>3. \A kind, ends : kind # "SameLayout" => Plain({Relation(kind, ends)})
  BY <1>1 DEF Plain, Parted
<1>4. ASSUME NEW x, NEW y, \A i : x # Execution(i) /\ y # Execution(i)
      PROVE  Plain({Relation("SameLayout", <<x, y>>)})
  <2>1. Range(<<x, y>>) = {x, y}
    BY DEF Range
  <2>. QED BY <1>1, <1>4, <2>1 DEF Plain, Parted
<1>5. \A v, n : n = program.declared[v] => Plain({Limit("RequireEncoding", Value(v), n)})
  BY <1>2 DEF Plain, Parted, Declares
<1>6. \A i, n : Plain({Limit("RequireEncoding", Execution(i), n)})
  BY <1>2 DEF Plain, Parted, Declares
<1>. QED BY <1>3, <1>4, <1>5, <1>6

LEMMA NoExecution ==
  \A i : /\ \A v : Value(v) # Execution(i)
        /\ \A v : View(v) # Execution(i)
        /\ \A j, k : Use(j, k) # Execution(i)
        /\ \A f : FlowUse(f) # Execution(i)
BY DEF Value, View, Use, FlowUse, Execution

LEMMA CollectedArePlain ==
  /\ \A i : Plain(OwnUses(i))
  /\ \A i : Plain(CopyRelations(Ops[i], Execution(i)) \cup Pinned(Ops[i], Execution(i)))
  /\ program \in Programs => \A f \in program.flows : Plain(FlowRelations(f))
<1>1. ASSUME NEW i PROVE Plain(OwnUses(i))
  BY RelationsArePlain DEF Plain, OwnUses
<1>2. ASSUME NEW i
      PROVE  Plain(CopyRelations(Ops[i], Execution(i)) \cup Pinned(Ops[i], Execution(i)))
  <2>1. \A w : Plain(Access(Execution(i), w))
    BY RelationsArePlain DEF Plain, Access
  <2>2. Plain({Relation("Ownership", <<Execution(i)>>)})
        /\ Plain({Relation("CopyAccess", <<View(Ops[i].in[2]), View(Ops[i].in[1])>>)})
    BY RelationsArePlain
  <2>3. Plain(Pinned(Ops[i], Execution(i)))
    BY RelationsArePlain DEF Plain, Pinned
  <2>. QED BY <2>1, <2>2, <2>3 DEF Plain, CopyRelations
<1>3. ASSUME program \in Programs, NEW f \in program.flows PROVE Plain(FlowRelations(f))
  <2>1. f.kind \in {"convert", "agree", "permute"}
    BY <1>3, ProgramsAssumption
  <2>2. /\ \A ends : Plain({Relation("Convertible", ends)})
        /\ \A ends : Plain({Relation("TransformLayout", ends)})
        /\ Plain({Relation("SameLayout", <<FlowUse(f), Value(f.to)>>)})
    BY RelationsArePlain, NoExecution
  <2>. QED BY <2>1, <2>2 DEF Plain, FlowRelations
<1>. QED BY <1>1, <1>2, <1>3

LEMMA VariablesFinite ==
  ASSUME IsFiniteSet(DOMAIN required), NEW S, IsFiniteSet(S), NEW T, IsFiniteSet(T), NEW n
  PROVE  /\ IsFiniteSet(DOMAIN Created(S, required))
         /\ IsFiniteSet(DOMAIN Requiring(T, n, required))
         /\ IsFiniteSet(DOMAIN Requiring(T, n, Created(S, required)))
<1>1. DOMAIN Created(S, required) = DOMAIN required \cup S
  BY DEF Created, Overlaid
<1>2. \A f : DOMAIN Requiring(T, n, f) = T \cup DOMAIN f
  BY DEF Requiring, Overlaid
<1>3. IsFiniteSet(DOMAIN required \cup S)
  BY FS_Union
<1>4. IsFiniteSet(T \cup (DOMAIN required \cup S)) /\ IsFiniteSet(T \cup DOMAIN required)
  BY <1>3, FS_Union
<1>. QED BY <1>1, <1>2, <1>3, <1>4

\* The step that adds relations to the graph, or none.
LEMMA PeersKept ==
  ASSUME PeerInv, program' = program, IsFiniteSet(DOMAIN required'),
         NEW R, Plain(R), relations' = relations \cup R,
         progress' \in Collecting => progress \in Collecting
  PROVE  PeerInv'
<1>1. \A r : Declares(r)' <=> Declares(r)
  BY DEF Declares
<1>2. \A r : Parted(r)' <=> Parted(r)
  BY DEF Parted
<1>3. ASSUME NEW r \in relations'
      PROVE  Parted(r) /\ (Declares(r) \/ (r.kind = "ResourceLimit" /\ progress' \notin Collecting))
  BY DEF PeerInv, Plain
<1>. QED BY <1>1, <1>2, <1>3 DEF PeerInv

LEMMA PeersUntouched ==
  ASSUME PeerInv, UNCHANGED <<program, required, relations>>,
         progress' \in Collecting => progress \in Collecting
  PROVE  PeerInv'
<1>1. Plain({}) /\ relations' = relations \cup {}
  BY DEF Plain
<1>2. IsFiniteSet(DOMAIN required')
  BY DEF PeerInv
<1>3. PICK R : R = {}
  OBVIOUS
<1>. QED BY <1>1, <1>2, <1>3, PeersKept

LEMMA NextPeers == PeerInv /\ [CollectorsNext]_collectorsVars => PeerInv'
<1>. SUFFICES ASSUME PeerInv, [CollectorsNext]_collectorsVars PROVE PeerInv'
  OBVIOUS
<1>0. program \in Programs /\ IsFiniteSet(DOMAIN required)
  BY DEF PeerInv
<1>1. \A p \in DOMAIN Following : p \in Collecting
  BY DEF Following, Collecting
<1>2. "operations" \in DOMAIN Following /\ "mma" \in DOMAIN Following
      /\ "reductions" \in DOMAIN Following
  BY DEF Following
<1>3. ASSUME NEW i \in DOMAIN Ops, VisitOperation(i) PROVE PeerInv'
  <2> DEFINE S == {View(w) : w \in Range(Ops[i].in)}
             T == {Execution(i)}
             R == CopyRelations(Ops[i], Execution(i)) \cup Pinned(Ops[i], Execution(i))
             n == Threads(Ops[i], 32)
  <2>1. progress \in Collecting /\ program' = program
    BY <1>1, <1>2, <1>3 DEF VisitOperation, Visiting, Interrupt
  <2>2. \/ UNCHANGED <<required, relations>>
        \/ /\ required' = Requiring(T, n, Created(S, required))
           /\ relations' = relations \cup R
    <3>1. \/ UNCHANGED <<required, relations>>
          \/ /\ required' = Requiring(T, n, Created(S, required))
             /\ relations' = (relations \cup CopyRelations(Ops[i], Execution(i)))
                               \cup Pinned(Ops[i], Execution(i))
      BY <1>3 DEF VisitOperation, Interrupt
    <3>. HIDE DEF S, T, n
    <3>. QED BY <3>1
  <2>3. CASE UNCHANGED <<required, relations>>
    BY <2>1, <2>3, PeersUntouched
  <2>4. CASE /\ required' = Requiring(T, n, Created(S, required))
             /\ relations' = relations \cup R
    <3>1. IsFiniteSet(T)
      BY FS_Singleton
    <3>2. IsFiniteSet(S)
      <4>1. IsFiniteSet(DOMAIN Ops[i].in)
        BY <1>0, ProgramsAssumption DEF Ops
      <4> DEFINE f == [k \in DOMAIN Ops[i].in |-> View(Ops[i].in[k])]
      <4>2. \A y \in S : \E k \in DOMAIN f : f[k] = y
        BY DEF Range
      <4>3. IsFiniteSet(DOMAIN f)
        BY <4>1
      <4>. HIDE DEF f, S
      <4>. QED BY <4>2, <4>3, FiniteValues
    <3>3. Plain(R)
      BY CollectedArePlain
    <3>. HIDE DEF S, T, R, n
    <3>4. IsFiniteSet(DOMAIN required')
      BY <1>0, <2>4, <3>1, <3>2, VariablesFinite
    <3>. QED BY <2>1, <2>4, <3>3, <3>4, PeersKept
  <2>. QED BY <2>2, <2>3, <2>4
<1>4. ASSUME NEW i \in DOMAIN Ops, VisitMma(i) PROVE PeerInv'
  <2> DEFINE roles == MmaRoles(i)
             S == Range(roles)
             T == {x \in Range(roles) : x[1] # "view"}
             R == OwnUses(i) \cup {Relation("SameLayout", <<roles[3], roles[4]>>),
                                   Relation("InstructionContract", roles)}
             n == Threads(Ops[i], 128)
  <2>1. progress \in Collecting /\ program' = program
    BY <1>1, <1>2, <1>4 DEF VisitMma, Visiting, Interrupt
  <2>2. \/ UNCHANGED <<required, relations>>
        \/ /\ required' = Requiring(T, n, Created(S, required))
           /\ relations' = relations \cup R
    BY <1>4 DEF VisitMma, Interrupt
  <2>3. CASE UNCHANGED <<required, relations>>
    BY <2>1, <2>3, PeersUntouched
  <2>4. CASE /\ required' = Requiring(T, n, Created(S, required))
             /\ relations' = relations \cup R
    <3>2. IsFiniteSet(S)
      <4>1. DOMAIN roles = 1..4
        BY DEF MmaRoles
      <4>2. \A y \in S : \E k \in DOMAIN roles : roles[k] = y
        BY DEF Range
      <4>. HIDE DEF roles, S
      <4>3. IsFiniteSet(1..4)
        <5>1. 1 \in Int /\ 4 \in Int
          OBVIOUS
        <5>. QED BY <5>1, FS_Interval
      <4>. QED BY <4>1, <4>2, <4>3, FiniteValues
    <3>3. IsFiniteSet(T)
      BY <3>2, FS_Subset
    <3>4. \A j : roles[3] # Execution(j) /\ roles[4] # Execution(j)
      BY NoExecution DEF MmaRoles, Role
    <3>5. Plain(R)
      BY <3>4, RelationsArePlain, CollectedArePlain DEF Plain
    <3>. HIDE DEF S, T, R, n
    <3>6. IsFiniteSet(DOMAIN required')
      BY <1>0, <2>4, <3>2, <3>3, VariablesFinite
    <3>. QED BY <2>1, <2>4, <3>5, <3>6, PeersKept
  <2>. QED BY <2>2, <2>3, <2>4
<1>5. ASSUME NEW i \in DOMAIN Ops, VisitReduce(i) PROVE PeerInv'
  <2> DEFINE v == Ops[i].in[1]
             n == Threads(Ops[i], Inferred(Value(v)))
             T == {Use(i, 1), Value(Ops[i].out)} \cup (IF Adopts(v, n) THEN {Value(v)} ELSE {})
             R == OwnUses(i)
                    \cup {Relation("ReductionLayout", <<Use(i, 1), Value(Ops[i].out)>>)}
  <2>1. progress \in Collecting /\ program' = program
    BY <1>1, <1>2, <1>5 DEF VisitReduce, Visiting, Interrupt
  <2>2. \/ UNCHANGED <<required, relations>>
        \/ /\ required' = Requiring(T, n, required)
           /\ relations' = relations \cup R
    BY <1>5 DEF VisitReduce, Interrupt
  <2>3. CASE UNCHANGED <<required, relations>>
    BY <2>1, <2>3, PeersUntouched
  <2>4. CASE /\ required' = Requiring(T, n, required)
             /\ relations' = relations \cup R
    <3>1. IsFiniteSet(T)
      <4> DEFINE f == <<Use(i, 1), Value(Ops[i].out), Value(v)>>
      <4>1. DOMAIN f = 1..3 /\ f[1] = Use(i, 1) /\ f[2] = Value(Ops[i].out) /\ f[3] = Value(v)
        OBVIOUS
      <4>. HIDE DEF f
      <4>2. \A y \in T : \E k \in 1..3 : f[k] = y
        BY <4>1
      <4>. HIDE DEF T
      <4>3. IsFiniteSet(1..3)
        <5>1. 1 \in Int /\ 3 \in Int
          OBVIOUS
        <5>. QED BY <5>1, FS_Interval
      <4>. QED BY <4>1, <4>2, <4>3, FiniteValues
    <3>2. Plain(R)
      BY RelationsArePlain, CollectedArePlain DEF Plain
    <3>. HIDE DEF T, R, n
    <3>3. IsFiniteSet(DOMAIN required')
      BY <1>0, <2>4, <3>1, VariablesFinite
    <3>. QED BY <2>1, <2>4, <3>2, <3>3, PeersKept
  <2>. QED BY <2>2, <2>3, <2>4
<1>6. CASE CollectValues
  <2> DEFINE A == {Value(v) : v \in program.values}
             B == {FlowUse(f) : f \in {g \in program.flows : g.kind # "convert"}}
             S == A \cup B
             F == UNION {FlowRelations(f) : f \in program.flows}
             E == {Relation("SameLayout", <<Value(e[1]), Value(e[2])>>) : e \in program.same}
             D == {Limit("RequireEncoding", Value(v), program.declared[v]) :
                     v \in {w \in program.values : program.declared[w] # None}}
             R == F \cup E \cup D
  <2>1. /\ progress \in Collecting /\ program' = program
        /\ required' = Created(S, required)
    BY <1>6 DEF CollectValues, Collecting
  <2>2. relations' = relations \cup R
    <3>1. relations' = ((relations \cup F) \cup E) \cup D
      BY <1>6 DEF CollectValues
    <3>. HIDE DEF F, E, D
    <3>. QED BY <3>1
  <2>3. Plain(F)
    BY <1>0, CollectedArePlain DEF Plain
  <2>4. Plain(E)
    <3>1. \A v, w : Plain({Relation("SameLayout", <<Value(v), Value(w)>>)})
      BY RelationsArePlain, NoExecution
    <3>. QED BY <3>1 DEF Plain
  <2>5. Plain(D)
    BY RelationsArePlain DEF Plain
  <2>6. Plain(R)
    <3>. HIDE DEF F, E, D
    <3>. QED BY <2>3, <2>4, <2>5 DEF Plain
  <2>7. IsFiniteSet(S)
    <3> DEFINE f == [v \in program.values |-> Value(v)]
               G == {g \in program.flows : g.kind # "convert"}
               h == [g \in G |-> FlowUse(g)]
    <3>1. IsFiniteSet(program.values) /\ IsFiniteSet(program.flows)
      BY <1>0, ProgramsAssumption
    <3>2. IsFiniteSet(A)
      <4>1. IsFiniteSet(DOMAIN f) /\ \A y \in A : \E v \in DOMAIN f : f[v] = y
        BY <3>1
      <4>. HIDE DEF f, A
      <4>. QED BY <4>1, FiniteValues
    <3>3. IsFiniteSet(G)
      BY <3>1, FS_Subset
    <3>4. IsFiniteSet(B)
      <4>1. IsFiniteSet(DOMAIN h) /\ \A y \in B : \E v \in DOMAIN h : h[v] = y
        BY <3>3
      <4>. HIDE DEF h, B
      <4>. QED BY <4>1, FiniteValues
    <3>. HIDE DEF A, B
    <3>. QED BY <3>2, <3>4, FS_Union
  <2>. HIDE DEF S, R
  <2>8. IsFiniteSet(DOMAIN required')
    BY <1>0, <2>1, <2>7, VariablesFinite
  <2>. QED BY <2>1, <2>2, <2>6, <2>8, PeersKept
<1>7. CASE CollectLimits
  <2>1. progress' \notin Collecting
    BY <1>7 DEF CollectLimits, Collecting
  <2>2. DOMAIN required' = DOMAIN required
    BY <1>7 DEF CollectLimits
  <2>3. PICK X : relations' = relations \cup {Limit("ResourceLimit", x, LimitAt(x)) : x \in X}
    BY <1>7 DEF CollectLimits
  <2>4. \A x, n : Parted(Limit("ResourceLimit", x, n))
    BY DEF Parted, Limit
  <2>6. program' = program
    BY <1>7 DEF CollectLimits
  <2>5. \A r : (Parted(r)' <=> Parted(r)) /\ (Declares(r)' <=> Declares(r))
    BY <2>6 DEF Parted, Declares
  <2>7. \A x, n : Limit("ResourceLimit", x, n).kind = "ResourceLimit"
    BY DEF Limit
  <2>8. ASSUME NEW r \in relations'
        PROVE  Parted(r) /\ (Declares(r) \/ r.kind = "ResourceLimit")
    BY <2>3, <2>4, <2>7 DEF PeerInv
  <2>. QED BY <1>0, <2>1, <2>2, <2>5, <2>6, <2>8 DEF PeerInv
<1>8. CASE \E p \in DOMAIN Following : EndWalk(p)
  BY <1>1, <1>8, PeersUntouched DEF EndWalk
<1>9. ASSUME NEW i \in DOMAIN Ops, PrepareJoint(i) PROVE PeerInv'
  BY <1>9, PeersUntouched DEF PrepareJoint, Collecting
<1>10. CASE EndPreparation \/ UNCHANGED collectorsVars
  BY <1>10, PeersUntouched DEF EndPreparation, collectorsVars, Collecting
<1>. QED BY <1>3, <1>4, <1>5, <1>6, <1>7, <1>8, <1>9, <1>10 DEF CollectorsNext

\* What the graph demands of a peer has been seen by the search.
LEMMA DemandsAreSeen ==
  ASSUME PeerInv, progress \in Collecting, NEW v, NEW x \in Class(Value(v), {"SameLayout"})
  PROVE  Demanded(x) \subseteq CountsFrom(Value(v))
<1>1. x \in SearchedFrom(Value(v))
  BY PeersAreFound DEF PeerInv
<1>2. \A i : x # Execution(i)
  <2> DEFINE T == {y \in Reach(Value(v)) : \A i : y # Execution(i)}
             kinds == {"SameLayout"}
  <2>1. Value(v) \in T
    BY NoExecution DEF Reach
  <2>2. \A r \in relations : r.kind \in kinds => Range(r.ends) \subseteq T
    BY DEF PeerInv, Parted, Reach
  <2>3. x \in T
    <3>. HIDE DEF T, kinds
    <3>1. Class(Value(v), kinds) \subseteq T
      BY <2>1, <2>2, ClassStays DEF PeerInv
    <3>. QED BY <3>1 DEF kinds
  <2>. QED BY <2>3
<1>3. \A y, z : y \in Range(<<z>>) => y = z
  BY DEF Range
<1>4. ASSUME NEW n \in Demanded(x)
      PROVE  n \in {required[x], DeclaredAt(x)} /\ n # None
  <2>1. n # None
    BY DEF Demanded
  <2>2. CASE n = required[x]
    BY <2>1, <2>2
  <2>3. CASE n # required[x]
    <3>1. PICK r \in relations : r.count = n /\ x \in Range(r.ends)
      BY <2>3 DEF Demanded, Counts
    <3>2. Declares(r)
      BY DEF PeerInv
    <3>3. CASE \E w : r.ends = <<Value(w)>> /\ r.count = program.declared[w]
      <4>1. PICK w : r.ends = <<Value(w)>> /\ r.count = program.declared[w]
        BY <3>3
      <4>2. x = Value(w)
        BY <1>3, <3>1, <4>1
      <4>3. DeclaredAt(x) = program.declared[w]
        BY <4>2 DEF DeclaredAt, Value
      <4>. QED BY <2>1, <3>1, <4>1, <4>3
    <3>4. CASE \E i : r.ends = <<Execution(i)>>
      BY <1>2, <1>3, <3>1, <3>4
    <3>. QED BY <2>1, <3>1, <3>2, <3>3, <3>4 DEF Declares
  <2>. QED BY <2>2, <2>3
<1>. QED BY <1>1, <1>4 DEF CountsFrom

\* InheritsFromPeers: a reduction without threads of its own inherits those that
\* are demanded of its source's peers, in every program.
THEOREM ReductionsInherit == CollectorsSpec => InheritsFromPeers
<1> DEFINE Inherits ==
      \A i \in DOMAIN Ops :
        Visiting("reductions", i) /\ at' = i /\ ~ScopeOrAttribute(Ops[i]) =>
          \A x \in Class(Value(Ops[i].in[1]), {"SameLayout"}) :
            Demanded(x) \subseteq {decided'[i]}
<1>1. CollectorsInit => PeerInv
  BY FS_EmptySet DEF CollectorsInit, PeerInv
<1>2. PeerInv /\ [CollectorsNext]_collectorsVars => PeerInv'
  BY NextPeers
<1>3. PeerInv /\ [CollectorsNext]_collectorsVars => [Inherits]_collectorsVars
  <2>. SUFFICES ASSUME PeerInv, CollectorsNext, NEW i \in DOMAIN Ops, Visiting("reductions", i),
                       at' = i, ~ScopeOrAttribute(Ops[i]),
                       NEW x \in Class(Value(Ops[i].in[1]), {"SameLayout"}),
                       NEW m \in Demanded(x)
                PROVE  m = decided'[i]
    OBVIOUS
  <2>1. progress = "reductions" /\ i \in Nat /\ i # 0 /\ i > at
    BY ProgramsAssumption DEF Visiting, PeerInv, Ops
  <2>2. i # at
    BY <2>1
  <2>3. VisitReduce(i)
    <3>1. ASSUME NEW j \in DOMAIN Ops, VisitOperation(j) \/ VisitMma(j) PROVE FALSE
      BY <2>1, <3>1 DEF VisitOperation, VisitMma, Visiting
    <3>2. ASSUME NEW j \in DOMAIN Ops, VisitReduce(j) PROVE j = i
      BY <2>1, <3>2 DEF VisitReduce, Interrupt
    <3>3. ASSUME NEW j \in DOMAIN Ops, PrepareJoint(j) PROVE FALSE
      BY <2>1, <3>3 DEF PrepareJoint
    <3>4. ASSUME NEW p \in DOMAIN Following, EndWalk(p) PROVE FALSE
      BY <2>1, <3>4 DEF EndWalk
    <3>5. ~CollectValues /\ ~CollectLimits /\ ~EndPreparation
      BY <2>1 DEF CollectValues, CollectLimits, EndPreparation
    <3>. QED BY <3>1, <3>2, <3>3, <3>4, <3>5 DEF CollectorsNext
  <2> DEFINE s == Value(Ops[i].in[1])
             n == Threads(Ops[i], Inferred(s))
  <2>4. Inferable(s) /\ decided' = Deciding(i, n, decided)
    BY <2>1, <2>3 DEF VisitReduce, Interrupt
  <2>5. n = Inferred(s)
    BY DEF Threads, ScopeOrAttribute
  <2>6. m \in CountsFrom(s)
    BY <2>1, DemandsAreSeen DEF Collecting
  <2>7. Inferred(s) \in CountsFrom(s)
    BY <2>6 DEF Inferred
  <2>8. m = Inferred(s)
    BY <2>4, <2>6, <2>7 DEF Inferable
  <2>. HIDE DEF n
  <2>9. decided'[i] = n
    BY <2>4 DEF Deciding, Overlaid
  <2>. QED BY <2>5, <2>8, <2>9
<1>. QED BY <1>1, <1>2, <1>3, PTL DEF CollectorsSpec, InheritsFromPeers

-----------------------------------------------------------------------------
(* What a producer's adoption of threads can reach.                        *)

\* A walk of as many steps as there are variables ends in a set that is closed:
\* until it is, every step finds one variable more.
LEMMA ClassClosed ==
  ASSUME NEW x \in DOMAIN required, NEW kinds, IsFiniteSet(DOMAIN required),
         \A r \in relations : r.kind \in kinds => Range(r.ends) \subseteq DOMAIN required
  PROVE  /\ x \in Class(x, kinds)
         /\ Class(x, kinds) \subseteq DOMAIN required
         /\ \A r \in relations : r.kind \in kinds /\ Range(r.ends) \cap Class(x, kinds) # {} =>
              Range(r.ends) \subseteq Class(x, kinds)
<1>0. Bound \in Nat
  BY GrownIs
<1>1. PICK c : /\ Class(x, kinds) = c[Bound] /\ c[0] = {x}
               /\ \A k \in 1..Bound : c[k] = Grow(c[k - 1], kinds)
  BY ONLY IsFiniteSet(DOMAIN required), GrownIs
<1>2. \A S : S \subseteq DOMAIN required => /\ S \subseteq Grow(S, kinds)
                                            /\ Grow(S, kinds) \subseteq DOMAIN required
  BY DEF Grow
<1>3. \A S : S \subseteq DOMAIN required =>
        IsFiniteSet(S) /\ Cardinality(S) \in Nat /\ Cardinality(S) <= Bound
  BY FS_Subset, FS_CardinalityType DEF Bound
<1> DEFINE P == {k \in Nat : k <= Bound =>
                   /\ x \in c[k] /\ c[k] \subseteq DOMAIN required
                   /\ Grow(c[k], kinds) = c[k] \/ Cardinality(c[k]) >= k + 1}
<1>4. 0 \in P
  <2>1. IsFiniteSet({x}) /\ Cardinality({x}) = 1
    BY FS_Singleton
  <2>2. PICK S : S = {x}
    OBVIOUS
  <2>3. c[0] = S /\ Cardinality(S) = 1 /\ x \in S /\ S \subseteq DOMAIN required
    BY <1>1, <2>1, <2>2
  <2>. QED BY <2>3
<1>5. ASSUME NEW k \in Nat, k \in P PROVE k + 1 \in P
  <2>. SUFFICES ASSUME k + 1 <= Bound
                PROVE  /\ x \in c[k + 1] /\ c[k + 1] \subseteq DOMAIN required
                       /\ Grow(c[k + 1], kinds) = c[k + 1] \/ Cardinality(c[k + 1]) >= k + 2
    OBVIOUS
  <2>1. k + 1 \in 1..Bound /\ (k + 1) - 1 = k /\ k <= Bound
    BY <1>0
  <2>2. /\ c[k + 1] = Grow(c[k], kinds) /\ x \in c[k] /\ c[k] \subseteq DOMAIN required
        /\ Grow(c[k], kinds) = c[k] \/ Cardinality(c[k]) >= k + 1
    BY <1>1, <1>5, <2>1
  <2>3. PICK S, T : S = c[k] /\ T = c[k + 1]
    OBVIOUS
  <2>4. S \subseteq T /\ x \in T /\ T \subseteq DOMAIN required
    BY <1>2, <2>2, <2>3
  <2>5. CASE S = T
    BY <2>2, <2>3, <2>4, <2>5
  <2>6. CASE S # T
    <3>1. Cardinality(S) < Cardinality(T)
      BY <1>3, <2>4, <2>6, FS_Subset
    <3>2. Cardinality(S) >= k + 1
      BY <2>2, <2>3, <2>6
    <3>3. Cardinality(S) \in Nat /\ Cardinality(T) \in Nat
      BY <1>3, <2>4
    <3>4. Cardinality(T) >= k + 2
      BY <3>1, <3>2, <3>3
    <3>. QED BY <2>3, <2>4, <3>4
  <2>. QED BY <2>5, <2>6
<1>6. \A k \in Nat : k \in P
  <2>. HIDE DEF P
  <2>. QED BY <1>4, <1>5, NaturalInduction
<1>7. PICK C : C = Class(x, kinds)
  OBVIOUS
<1>8. /\ x \in C /\ C \subseteq DOMAIN required
      /\ Grow(C, kinds) = C \/ Cardinality(C) >= Bound + 1
  BY <1>0, <1>1, <1>6, <1>7
<1>9. Grow(C, kinds) = C
  BY <1>0, <1>3, <1>8
<1>10. ASSUME NEW r \in relations, r.kind \in kinds, Range(r.ends) \cap C # {}
       PROVE  Range(r.ends) \subseteq C
  BY <1>9, <1>10 DEF Grow
<1>. QED BY <1>7, <1>8, <1>10

\* A relation that keeps the thread count ends in a value: it leads to it from a
\* use of its own, from the other end of a slot, from the storage a matrix
\* product starts from or from an operand of the operation whose result it is.
Leads(y, w) ==
  \/ \E f \in program.flows : y = FlowUse(f) /\ f.to = w
  \/ \E e \in program.same : y = Value(e[1]) /\ e[2] = w
  \/ \E i \in DOMAIN decided :
       Ops[i].kind = "mma" /\ Ops[i].out = w /\ \E u : y = View(u)
  \/ \E i \in DOMAIN decided, k \in {1, 2, 3} :
       y = Use(i, k) /\ y \in Tiles(i) /\ Value(w) \in Tiles(i)

KeepsThreads(r) ==
  r.kind \in SameThreads =>
    \E w \in program.values, y \in DOMAIN required :
      /\ r.ends = <<y, Value(w)>> /\ Value(w) \in DOMAIN required
      /\ Leads(y, w)

\* What limits a variable when collection is done.
Limiting(r) ==
  \E x \in DOMAIN required :
    /\ r.ends = <<x>> /\ r.count = required[x] /\ x[1] # "view"
    /\ x[1] = "flow" => program.scope[x[3]] # None

\* No use of a flow requires threads; what an operation requires is no such use.
FlowsFree(f) == \A x \in DOMAIN f : x[1] = "flow" => f[x] = None
NoFlow(T)    == \A x \in T : x[1] # "flow"

AdoptInv ==
  /\ \A r \in relations : KeepsThreads(r)
  /\ \A v \in adopted : program.declared[v] = None /\ Value(v) \in DOMAIN required
  /\ progress \in Collecting => FlowsFree(required)
  /\ Collected => \A r \in relations : r.kind = "ResourceLimit" => Limiting(r)

LEMMA KeepsOn ==
  ASSUME NEW r, KeepsThreads(r), program' = program,
         DOMAIN required \subseteq DOMAIN required', DOMAIN decided \subseteq DOMAIN decided'
  PROVE  KeepsThreads(r)'
<1>1. \A i : Tiles(i)' = Tiles(i) /\ Ops'[i] = Ops[i]
  BY DEF Tiles, MmaRoles, Role, Ops
<1>2. \A y, w : Leads(y, w) => Leads(y, w)'
  BY <1>1 DEF Leads
<1>. QED BY <1>2 DEF KeepsThreads

\* A step of collection that gives uses of flows no threads of their own.
LEMMA CollectionAdopts ==
  ASSUME AdoptInv, program' = program, progress' \in Collecting,
         DOMAIN required \subseteq DOMAIN required', DOMAIN decided \subseteq DOMAIN decided',
         NEW R, relations' = relations \cup R, \A r \in R : KeepsThreads(r)',
         FlowsFree(required'),
         \A v \in adopted' \ adopted : program.declared[v] = None /\ Value(v) \in DOMAIN required'
  PROVE  AdoptInv'
<1>1. \A r \in relations' : KeepsThreads(r)'
  BY KeepsOn DEF AdoptInv
<1>2. \A v \in adopted' : program.declared[v] = None /\ Value(v) \in DOMAIN required'
  BY DEF AdoptInv
<1>3. ~Collected'
  BY DEF Collected, Collecting
<1>. QED BY <1>1, <1>2, <1>3 DEF AdoptInv

LEMMA NothingAdopted ==
  ASSUME AdoptInv, UNCHANGED <<program, required, relations, decided, adopted>>,
         progress' \in Collecting => progress \in Collecting,
         Collected' => Collected
  PROVE  AdoptInv'
<1>1. \A r : KeepsThreads(r) => KeepsThreads(r)'
  BY KeepsOn
<1>2. \A r : Limiting(r) => Limiting(r)'
  BY DEF Limiting
<1>. QED BY <1>1, <1>2 DEF AdoptInv

\* Relations that say nothing about the threads of two variables.
LEMMA KeepsNothing ==
  /\ \A kind, ends : kind \notin SameThreads => KeepsThreads(Relation(kind, ends))'
  /\ \A kind, x, n : kind \notin SameThreads => KeepsThreads(Limit(kind, x, n))'
  /\ \A i : \A r \in OwnUses(i) : KeepsThreads(r)'
  /\ \A o, e : \A r \in CopyRelations(o, e) \cup Pinned(o, e) : KeepsThreads(r)'
<1>1. \A kind, ends : kind \notin SameThreads => KeepsThreads(Relation(kind, ends))'
  BY DEF KeepsThreads, Relation
<1>2. \A kind, x, n : kind \notin SameThreads => KeepsThreads(Limit(kind, x, n))'
  BY DEF KeepsThreads, Limit
<1>3. {"Convertible", "StorageAccess", "Preference", "Ownership", "CopyAccess", "RequireEncoding"}
        \cap SameThreads = {}
  BY DEF SameThreads
<1>4. ASSUME NEW i, NEW r \in OwnUses(i) PROVE KeepsThreads(r)'
  BY <1>1, <1>3 DEF OwnUses
<1>5. ASSUME NEW o, NEW e, NEW r \in CopyRelations(o, e) \cup Pinned(o, e)
      PROVE  KeepsThreads(r)'
  <2>1. \A w : \A q \in Access(e, w) : KeepsThreads(q)'
    BY <1>1, <1>3 DEF Access
  <2>2. \A q \in CopyRelations(o, e) : KeepsThreads(q)'
    BY <1>1, <1>3, <2>1 DEF CopyRelations
  <2>3. \A q \in Pinned(o, e) : KeepsThreads(q)'
    BY <1>2, <1>3 DEF Pinned
  <2>. QED BY <2>2, <2>3
<1>. QED BY <1>1, <1>2, <1>4, <1>5

LEMMA FlowsUnlimited ==
  ASSUME FlowsFree(required), NEW S, NEW T, NoFlow(T), NEW n,
         required' \in {Created(S, required), Requiring(T, n, required),
                       Requiring(T, n, Created(S, required))}
  PROVE  /\ DOMAIN required \subseteq DOMAIN required'
         /\ FlowsFree(required')
<1>. USE DEF FlowsFree, NoFlow
<1>1. PICK f : f = Created(S, required)
  OBVIOUS
<1>2. /\ DOMAIN f = DOMAIN required \cup S
      /\ \A x \in DOMAIN required : f[x] = required[x]
      /\ \A x \in S \ DOMAIN required : f[x] = None
  BY <1>1 DEF Created, Overlaid
<1>3. \A x \in DOMAIN f : x[1] = "flow" => f[x] = None
  BY <1>2
<1>4. ASSUME NEW g, DOMAIN required \subseteq DOMAIN g,
             \A x \in DOMAIN g : x[1] = "flow" => g[x] = None,
             NEW h, h = Requiring(T, n, g)
      PROVE  /\ DOMAIN required \subseteq DOMAIN h
             /\ \A x \in DOMAIN h : x[1] = "flow" => h[x] = None
  <2>1. /\ DOMAIN h = T \cup DOMAIN g
        /\ \A x \in DOMAIN g \ T : h[x] = g[x]
    BY <1>4 DEF Requiring, Overlaid
  <2>. QED BY <1>4, <2>1
<1>5. CASE required' = f
  BY <1>2, <1>3, <1>5
<1>6. CASE required' = Requiring(T, n, required)
  BY <1>4, <1>6
<1>7. CASE required' = Requiring(T, n, f)
  BY <1>2, <1>3, <1>4, <1>7
<1>. QED BY <1>1, <1>5, <1>6, <1>7

LEMMA DecidedGrows ==
  \A i, n : /\ DOMAIN Deciding(i, n, decided) = DOMAIN decided \cup {i}
BY DEF Deciding, Overlaid

LEMMA VisitOperationAdopts ==
  ASSUME AdoptInv, NEW i \in DOMAIN Ops, VisitOperation(i)
  PROVE  AdoptInv'
<1> DEFINE S == {View(w) : w \in Range(Ops[i].in)}
           T == {Execution(i)}
           R == CopyRelations(Ops[i], Execution(i)) \cup Pinned(Ops[i], Execution(i))
           n == Threads(Ops[i], 32)
<1>1. /\ progress \in Collecting /\ progress' \in Collecting
      /\ program' = program /\ adopted' = adopted
  BY DEF VisitOperation, Visiting, Interrupt, Following, Collecting
<1>2. CASE UNCHANGED <<required, relations, decided>>
  BY <1>1, <1>2, NothingAdopted DEF Collected, Collecting
<1>3. CASE ~(UNCHANGED <<required, relations, decided>>)
  <2>1. /\ required' = Requiring(T, n, Created(S, required))
        /\ relations' = (relations \cup CopyRelations(Ops[i], Execution(i)))
                           \cup Pinned(Ops[i], Execution(i))
        /\ decided' = Deciding(i, n, decided)
    BY <1>3 DEF VisitOperation, Interrupt
  <2>2. NoFlow(T)
    BY DEF NoFlow, Execution
  <2>3. FlowsFree(required)
    BY <1>1 DEF AdoptInv
  <2>4. \A r \in R : KeepsThreads(r)'
    BY KeepsNothing
  <2>5. relations' = relations \cup R
    BY <2>1
  <2>. HIDE DEF S, T, R, n
  <2>6. /\ DOMAIN required \subseteq DOMAIN required'
        /\ FlowsFree(required')
    <3>1. required' \in {Created(S, required), Requiring(T, n, required),
                         Requiring(T, n, Created(S, required))}
      BY <2>1
    <3>. QED BY <2>2, <2>3, <3>1, FlowsUnlimited
  <2>7. DOMAIN decided \subseteq DOMAIN decided'
    BY <2>1, DecidedGrows
  <2>. QED BY <1>1, <2>4, <2>5, <2>6, <2>7, CollectionAdopts
<1>. QED BY <1>2, <1>3

LEMMA VisitMmaAdopts ==
  ASSUME DecidedInv, AdoptInv, NEW i \in DOMAIN Ops, VisitMma(i)
  PROVE  AdoptInv'
<1> DEFINE roles == MmaRoles(i)
           S == Range(roles)
           T == {x \in Range(roles) : x[1] # "view"}
           same == Relation("SameLayout", <<roles[3], roles[4]>>)
           R == OwnUses(i) \cup {same, Relation("InstructionContract", roles)}
           n == Threads(Ops[i], 128)
<1>1. /\ progress \in Collecting /\ progress' \in Collecting
      /\ program' = program /\ adopted' = adopted /\ Ops[i].kind = "mma"
  BY DEF VisitMma, Visiting, Interrupt, Following, Collecting, Visited
<1>2. CASE UNCHANGED <<required, relations, decided>>
  BY <1>1, <1>2, NothingAdopted DEF Collected, Collecting
<1>3. CASE ~(UNCHANGED <<required, relations, decided>>)
  <2>1. /\ required' = Requiring(T, n, Created(S, required))
        /\ relations' = relations \cup R
        /\ decided' = Deciding(i, n, decided)
    BY <1>3 DEF VisitMma, Interrupt
  <2>2. /\ roles[3] = Role(i, 3) /\ roles[4] = Value(Ops[i].out)
        /\ S = {Role(i, 1), Role(i, 2), Role(i, 3), Value(Ops[i].out)}
    BY DEF MmaRoles, Range
  <2>3. NoFlow(T)
    BY <2>2 DEF NoFlow, Role, Use, View, Value
  <2>4. FlowsFree(required)
    BY <1>1 DEF AdoptInv
  <2>5. S \subseteq DOMAIN required'
    <3>. HIDE DEF S, T, n
    <3>1. DOMAIN required' = T \cup (DOMAIN required \cup S)
      BY <2>1 DEF Requiring, Created, Overlaid
    <3>. QED BY <3>1
  <2>6. DOMAIN decided' = DOMAIN decided \cup {i}
    BY <2>1, DecidedGrows
  <2>7. ASSUME NEW r, r = same PROVE KeepsThreads(r)'
    <3>0. PICK w, y : w = Ops[i].out /\ y = Role(i, 3)
      OBVIOUS
    <3>1. r.ends = <<y, Value(w)>>
      BY <2>2, <2>7, <3>0 DEF Relation
    <3>2. w \in program.values
      BY <1>1, <3>0, ProgramsAssumption DEF DecidedInv, Ops
    <3>3. y \in DOMAIN required' /\ Value(w) \in DOMAIN required'
      BY <2>2, <2>5, <3>0
    <3>4. Leads(y, w)'
      <4>1. CASE Ops[i].in[3] \in program.values
        <5>1. y = Use(i, 3)
          BY <3>0, <4>1 DEF Role
        <5>2. Tiles(i)' = {x \in Range(roles) : x[1] # "view"}
          BY <1>1 DEF Tiles, MmaRoles, Role, Ops
        <5>3. y \in Tiles(i)' /\ Value(w) \in Tiles(i)'
          BY <2>2, <3>0, <5>1, <5>2 DEF Use, Value
        <5>4. i \in DOMAIN decided'
          BY <2>6
        <5>. QED BY <5>1, <5>3, <5>4 DEF Leads
      <4>2. CASE Ops[i].in[3] \notin program.values
        <5>1. y = View(Ops[i].in[3])
          BY <3>0, <4>2 DEF Role
        <5>2. i \in DOMAIN decided' /\ Ops'[i].kind = "mma" /\ Ops'[i].out = w
          BY <1>1, <2>6, <3>0 DEF Ops
        <5>. QED BY <5>1, <5>2 DEF Leads
      <4>. QED BY <4>1, <4>2
    <3>. HIDE DEF same
    <3>. QED BY <1>1, <3>1, <3>2, <3>3, <3>4 DEF KeepsThreads
  <2>8. \A r \in R : KeepsThreads(r)'
    <3>1. \A ends : KeepsThreads(Relation("InstructionContract", ends))'
      <4>1. "InstructionContract" \notin SameThreads
        BY DEF SameThreads
      <4>. QED BY <4>1, KeepsNothing
    <3>. HIDE DEF same, roles
    <3>. QED BY <2>7, <3>1, KeepsNothing
  <2>. HIDE DEF S, T, R, n
  <2>9. /\ DOMAIN required \subseteq DOMAIN required'
        /\ FlowsFree(required')
    <3>1. required' \in {Created(S, required), Requiring(T, n, required),
                         Requiring(T, n, Created(S, required))}
      BY <2>1
    <3>. QED BY <2>3, <2>4, <3>1, FlowsUnlimited
  <2>. QED BY <1>1, <2>1, <2>6, <2>8, <2>9, CollectionAdopts
<1>. QED BY <1>2, <1>3

LEMMA VisitReduceAdopts ==
  ASSUME DecidedInv, AdoptInv, NEW i \in DOMAIN Ops, VisitReduce(i)
  PROVE  AdoptInv'
<1> DEFINE v == Ops[i].in[1]
           w == Ops[i].out
           n == Threads(Ops[i], Inferred(Value(v)))
           T == {Use(i, 1), Value(w)} \cup (IF Adopts(v, n) THEN {Value(v)} ELSE {})
           step == Relation("ReductionLayout", <<Use(i, 1), Value(w)>>)
           R == OwnUses(i) \cup {step}
<1>1. /\ progress \in Collecting /\ progress' \in Collecting
      /\ program' = program /\ Ops[i].kind = "reduce"
  BY DEF VisitReduce, Visiting, Interrupt, Following, Collecting, Visited
<1>2. CASE UNCHANGED <<required, relations, decided, adopted>>
  BY <1>1, <1>2, NothingAdopted DEF Collected, Collecting
<1>3. CASE ~(UNCHANGED <<required, relations, decided, adopted>>)
  <2>1. /\ required' = Requiring(T, n, required)
        /\ relations' = relations \cup R
        /\ decided' = Deciding(i, n, decided)
        /\ adopted' = IF Adopts(v, n) THEN adopted \cup {v} ELSE adopted
    BY <1>3 DEF VisitReduce, Interrupt
  <2>2. NoFlow(T)
    BY DEF NoFlow, Use, Value
  <2>3. FlowsFree(required)
    BY <1>1 DEF AdoptInv
  <2>4. DOMAIN required' = T \cup DOMAIN required
    <3>. HIDE DEF T, n
    <3>. QED BY <2>1 DEF Requiring, Overlaid
  <2>5. DOMAIN decided' = DOMAIN decided \cup {i}
    BY <2>1, DecidedGrows
  <2>6. ASSUME NEW r, r = step PROVE KeepsThreads(r)'
    <3>0. PICK u : u = w
      OBVIOUS
    <3>1. r.ends = <<Use(i, 1), Value(u)>>
      BY <2>6, <3>0 DEF Relation
    <3>2. u \in program.values
      BY <1>1, <3>0, ProgramsAssumption DEF DecidedInv, Ops
    <3>3. Use(i, 1) \in DOMAIN required' /\ Value(u) \in DOMAIN required'
      BY <2>4, <3>0
    <3>4. Leads(Use(i, 1), u)'
      <4>1. Tiles(i)' = {Use(i, 1), Value(u)}
        BY <1>1, <3>0 DEF Tiles, Ops
      <4>2. i \in DOMAIN decided' /\ 1 \in {1, 2, 3}
        BY <2>5
      <4>. QED BY <4>1, <4>2 DEF Leads
    <3>. HIDE DEF step, w
    <3>. QED BY <1>1, <3>1, <3>2, <3>3, <3>4 DEF KeepsThreads
  <2>7. \A r \in R : KeepsThreads(r)'
    <3>. HIDE DEF step
    <3>. QED BY <2>6, KeepsNothing
  <2>8. \A u \in adopted' \ adopted :
          program.declared[u] = None /\ Value(u) \in DOMAIN required'
    BY <2>1, <2>4 DEF Adopts
  <2>. HIDE DEF T, R, n
  <2>9. /\ DOMAIN required \subseteq DOMAIN required'
        /\ FlowsFree(required')
    <3>1. PICK S : S = {}
      OBVIOUS
    <3>2. required' \in {Created(S, required), Requiring(T, n, required),
                         Requiring(T, n, Created(S, required))}
      BY <2>1
    <3>. QED BY <2>2, <2>3, <3>2, FlowsUnlimited
  <2>. QED BY <1>1, <2>1, <2>5, <2>7, <2>8, <2>9, CollectionAdopts
<1>. QED BY <1>2, <1>3

LEMMA CollectValuesAdopts ==
  ASSUME DecidedInv, AdoptInv, CollectValues
  PROVE  AdoptInv'
<1> DEFINE A == {Value(v) : v \in program.values}
           B == {FlowUse(f) : f \in {g \in program.flows : g.kind # "convert"}}
           S == A \cup B
           F == UNION {FlowRelations(f) : f \in program.flows}
           E == {Relation("SameLayout", <<Value(e[1]), Value(e[2])>>) : e \in program.same}
           D == {Limit("RequireEncoding", Value(v), program.declared[v]) :
                   v \in {w \in program.values : program.declared[w] # None}}
           R == F \cup E \cup D
<1>1. /\ progress \in Collecting /\ progress' \in Collecting
      /\ program' = program /\ adopted' = adopted /\ decided' = decided
      /\ required' = Created(S, required)
  BY DEF CollectValues, Collecting
<1>2. relations' = relations \cup R
  <2>1. relations' = ((relations \cup F) \cup E) \cup D
    BY DEF CollectValues
  <2>. HIDE DEF F, E, D
  <2>. QED BY <2>1
<1>3. program \in Programs
  BY DEF DecidedInv
<1>4. S \subseteq DOMAIN required' /\ DOMAIN required \subseteq DOMAIN required'
  <2>. HIDE DEF S
  <2>. QED BY <1>1 DEF Created, Overlaid
<1>5. \A v \in program.values : Value(v) \in DOMAIN required'
  BY <1>4
<1>6. ASSUME NEW f \in program.flows, NEW r \in FlowRelations(f)
      PROVE  KeepsThreads(r)'
  <2>1. f.kind \in {"convert", "agree", "permute"} /\ f.to \in program.values
    BY <1>3, ProgramsAssumption
  <2>2. \A ends : KeepsThreads(Relation("Convertible", ends))'
    <3>1. "Convertible" \notin SameThreads
      BY DEF SameThreads
    <3>. QED BY <3>1, KeepsNothing
  <2>3. ASSUME NEW kind, f.kind # "convert"
        PROVE  KeepsThreads(Relation(kind, <<FlowUse(f), Value(f.to)>>))'
    <3>1. FlowUse(f) \in DOMAIN required' /\ Value(f.to) \in DOMAIN required'
      <4>1. FlowUse(f) \in B
        BY <2>3
      <4>. QED BY <1>4, <1>5, <2>1, <4>1
    <3>2. Leads(FlowUse(f), f.to)'
      BY <1>1 DEF Leads
    <3>3. Relation(kind, <<FlowUse(f), Value(f.to)>>).ends = <<FlowUse(f), Value(f.to)>>
      BY DEF Relation
    <3>. QED BY <1>1, <2>1, <3>1, <3>2, <3>3 DEF KeepsThreads
  <2>. QED BY <1>6, <2>1, <2>2, <2>3 DEF FlowRelations
<1>7. ASSUME NEW e \in program.same
      PROVE  KeepsThreads(Relation("SameLayout", <<Value(e[1]), Value(e[2])>>))'
  <2>1. e[1] \in program.values /\ e[2] \in program.values
    BY <1>3, ProgramsAssumption
  <2>2. Value(e[1]) \in DOMAIN required' /\ Value(e[2]) \in DOMAIN required'
    BY <1>5, <2>1
  <2>3. Leads(Value(e[1]), e[2])'
    BY <1>1, <2>1 DEF Leads
  <2>4. Relation("SameLayout", <<Value(e[1]), Value(e[2])>>).ends = <<Value(e[1]), Value(e[2])>>
    BY DEF Relation
  <2>. QED BY <1>1, <2>1, <2>2, <2>3, <2>4 DEF KeepsThreads
<1>8. \A r \in D : KeepsThreads(r)'
  <2>1. "RequireEncoding" \notin SameThreads
    BY DEF SameThreads
  <2>. QED BY <2>1, KeepsNothing
<1>9. \A r \in R : KeepsThreads(r)'
  BY <1>6, <1>7, <1>8
<1>10. FlowsFree(required')
  <2>1. FlowsFree(required)
    BY <1>1 DEF AdoptInv
  <2>. HIDE DEF S
  <2>2. PICK T, n : T = {} /\ n = 0
    OBVIOUS
  <2>3. NoFlow(T)
    BY <2>2 DEF NoFlow
  <2>4. required' \in {Created(S, required), Requiring(T, n, required),
                       Requiring(T, n, Created(S, required))}
    BY <1>1
  <2>. QED BY <2>1, <2>3, <2>4, FlowsUnlimited
<1>. HIDE DEF R
<1>. QED BY <1>1, <1>2, <1>4, <1>9, <1>10, CollectionAdopts

LEMMA CollectLimitsAdopts ==
  ASSUME LimitInv, AdoptInv, CollectLimits
  PROVE  AdoptInv'
<1> DEFINE limited == {x \in Limited : LimitAt(x) \in SupportedCounts}
           R == {Limit("ResourceLimit", x, LimitAt(x)) : x \in limited}
<1>1. /\ progress \in Collecting /\ progress' \notin Collecting
      /\ program' = program /\ adopted' = adopted /\ decided' = decided
      /\ relations' = relations \cup R
      /\ required' = [x \in DOMAIN required |-> IF x \in limited THEN LimitAt(x) ELSE required[x]]
  BY DEF CollectLimits, Collecting
<1>2. DOMAIN required' = DOMAIN required /\ \A x \in limited : required'[x] = LimitAt(x)
  <2>1. limited \subseteq DOMAIN required
    BY DEF Limited
  <2>. HIDE DEF limited
  <2>. QED BY <1>1, <2>1
<1>3. \A r \in relations' : KeepsThreads(r)'
  <2>1. \A r \in relations : KeepsThreads(r)'
    BY <1>1, <1>2, KeepsOn DEF AdoptInv
  <2>2. \A x, n : KeepsThreads(Limit("ResourceLimit", x, n))'
    <3>1. "ResourceLimit" \notin SameThreads
      BY DEF SameThreads
    <3>. QED BY <3>1, KeepsNothing
  <2>. QED BY <1>1, <2>1, <2>2
<1>4. ASSUME NEW r \in relations', r.kind = "ResourceLimit"
      PROVE  Limiting(r)'
  <2>1. r \in R
    BY <1>1, <1>4 DEF LimitInv
  <2>2. PICK x \in limited : r = Limit("ResourceLimit", x, LimitAt(x))
    BY <2>1
  <2>3. /\ x \in DOMAIN required /\ x[1] # "view" /\ LimitAt(x) # None
        /\ r.ends = <<x>> /\ r.count = LimitAt(x)
    BY <2>2 DEF Limited, Limit
  <2>4. x[1] = "flow" => program.scope[x[3]] # None
    <3>. SUFFICES ASSUME x[1] = "flow" PROVE program.scope[x[3]] # None
      OBVIOUS
    <3>1. required[x] = None
      BY <1>1, <2>3 DEF AdoptInv, FlowsFree
    <3>2. LimitAt(x) = ScopeAt(x)
      BY <3>1 DEF LimitAt
    <3>3. ScopeAt(x) = program.scope[x[3]]
      BY DEF ScopeAt
    <3>. QED BY <2>3, <3>2, <3>3
  <2>5. required'[x] = LimitAt(x)
    BY <1>2
  <2>. QED BY <1>1, <1>2, <2>3, <2>4, <2>5 DEF Limiting
<1>5. \A v \in adopted : program.declared[v] = None /\ Value(v) \in DOMAIN required
  BY DEF AdoptInv
<1>. HIDE DEF R, limited
<1>. QED BY <1>1, <1>2, <1>3, <1>4, <1>5 DEF AdoptInv

LEMMA NextAdopts ==
  DecidedInv /\ LimitInv /\ AdoptInv /\ [CollectorsNext]_collectorsVars => AdoptInv'
<1>. SUFFICES ASSUME DecidedInv, LimitInv, AdoptInv, [CollectorsNext]_collectorsVars
              PROVE  AdoptInv'
  OBVIOUS
<1>1. ASSUME NEW i \in DOMAIN Ops, VisitOperation(i) \/ VisitMma(i) \/ VisitReduce(i)
      PROVE  AdoptInv'
  BY <1>1, VisitOperationAdopts, VisitMmaAdopts, VisitReduceAdopts
<1>2. CASE \E p \in DOMAIN Following : EndWalk(p)
  <2>1. \A p \in DOMAIN Following : p \in Collecting /\ Following[p] \in Collecting
    BY DEF Following, Collecting
  <2>2. progress \in Collecting /\ progress' \in Collecting
    BY <1>2, <2>1 DEF EndWalk
  <2>. QED BY <1>2, <2>2, NothingAdopted DEF EndWalk, Collected, Collecting
<1>3. ASSUME NEW i \in DOMAIN Ops, PrepareJoint(i) PROVE AdoptInv'
  <2>1. /\ UNCHANGED <<program, required, relations, decided, adopted>>
        /\ progress = "frozen" /\ progress' \in {"frozen", "refused"}
    BY <1>3 DEF PrepareJoint
  <2>. QED BY <2>1, NothingAdopted DEF Collected, Collecting
<1>4. CASE EndPreparation \/ UNCHANGED collectorsVars
  BY <1>4, NothingAdopted DEF EndPreparation, collectorsVars, Collected, Collecting
<1>. QED BY <1>1, <1>2, <1>3, <1>4, CollectValuesAdopts, CollectLimitsAdopts DEF CollectorsNext

\* The values whose layouts the ends of slots tie to v's: every set that has v in
\* it, and both ends of a slot or neither, has them.
Linked(v, w) ==
  \A S \in SUBSET program.values :
    v \in S /\ (\A e \in program.same : e[1] \in S <=> e[2] \in S) => w \in S

Lonely(v) == \A w \in program.values : Linked(v, w) => w = v

\* The relations between the ends of slots, and the variables of the values.
SlotsRelated ==
  /\ \A v \in program.values : Value(v) \in DOMAIN required
  /\ \A e \in program.same :
       Relation("SameLayout", <<Value(e[1]), Value(e[2])>>) \in relations

LEMMA LinkedBack ==
  ASSUME program \in Programs, NEW v \in program.values, NEW w, Linked(v, w)
  PROVE  w \in program.values /\ Linked(w, v)
<1>1. \A e \in program.same : e[1] \in program.values /\ e[2] \in program.values
  BY ProgramsAssumption
<1>2. w \in program.values
  <2>1. PICK S : S = program.values
    OBVIOUS
  <2>. QED BY <1>1, <2>1 DEF Linked
<1>3. ASSUME NEW S \in SUBSET program.values, w \in S,
             \A e \in program.same : e[1] \in S <=> e[2] \in S, v \notin S
      PROVE  FALSE
  <2>1. PICK T : T = program.values \ S
    OBVIOUS
  <2>2. v \in T /\ T \in SUBSET program.values /\ w \notin T
    BY <1>3, <2>1
  <2>3. \A e \in program.same : e[1] \in T <=> e[2] \in T
    BY <1>1, <1>3, <2>1
  <2>. QED BY <2>2, <2>3 DEF Linked
<1>. QED BY <1>2, <1>3 DEF Linked

\* What is linked has one scope, and unless it is one value no matrix product or
\* reduction has made it.
LEMMA LinkedAlike ==
  ASSUME program \in Programs, NEW v \in program.values, NEW w, Linked(v, w)
  PROVE  /\ program.scope[w] = program.scope[v]
         /\ w # v => \A i \in DOMAIN Ops :
                       Ops[i].kind \in {"mma", "reduce"} => Ops[i].out \notin {v, w}
<1>1. program.scope[w] = program.scope[v]
  <2>1. PICK S : S = {u \in program.values : program.scope[u] = program.scope[v]}
    OBVIOUS
  <2>2. \A e \in program.same : e[1] \in S <=> e[2] \in S
    BY <2>1, ProgramsAssumption
  <2>. QED BY <2>1, <2>2 DEF Linked
<1>2. ASSUME NEW u \in program.values, NEW t, Linked(u, t), t # u, NEW i \in DOMAIN Ops,
             Ops[i].kind \in {"mma", "reduce"}
      PROVE  Ops[i].out # u
  <2>1. PICK S : S = {u}
    OBVIOUS
  <2>2. \E e \in program.same : ~(e[1] \in S <=> e[2] \in S)
    BY <1>2, <2>1 DEF Linked
  <2>3. PICK e \in program.same : u \in {e[1], e[2]}
    BY <2>1, <2>2
  <2>4. Ops[i].out \notin {e[1], e[2]}
    BY <1>2, ProgramsAssumption DEF Ops
  <2>. QED BY <2>3, <2>4
<1>3. w \in program.values /\ Linked(w, v)
  BY LinkedBack
<1>. QED BY <1>1, <1>2, <1>3

\* One end of a slot leads to the other.
LEMMA LinkedOn ==
  ASSUME NEW v, NEW w, NEW e \in program.same, Linked(v, w), w \in {e[1], e[2]}
  PROVE  Linked(v, e[1]) /\ Linked(v, e[2])
BY DEF Linked

\* What is linked has to have one layout.
LEMMA LinkedArePeers ==
  ASSUME program \in Programs, SlotsRelated, IsFiniteSet(DOMAIN required), NEW v \in program.values,
         NEW w, Linked(v, w), NEW kinds, "SameLayout" \in kinds,
         \A r \in relations : r.kind \in kinds => Range(r.ends) \subseteq DOMAIN required
  PROVE  Value(w) \in Class(Value(v), kinds)
<1>1. Value(v) \in DOMAIN required
  BY DEF SlotsRelated
<1>2. PICK C : C = Class(Value(v), kinds)
  OBVIOUS
<1>3. /\ Value(v) \in C
      /\ \A r \in relations : r.kind \in kinds /\ Range(r.ends) \cap C # {} =>
           Range(r.ends) \subseteq C
  BY <1>1, <1>2, ClassClosed
<1>4. PICK S : S = {u \in program.values : Value(u) \in C}
  OBVIOUS
<1>5. ASSUME NEW e \in program.same PROVE Value(e[1]) \in C <=> Value(e[2]) \in C
  <2>1. PICK r \in relations : r = Relation("SameLayout", <<Value(e[1]), Value(e[2])>>)
    BY DEF SlotsRelated
  <2>2. r.kind = "SameLayout" /\ r.ends = <<Value(e[1]), Value(e[2])>>
    BY <2>1 DEF Relation
  <2>3. Range(r.ends) = {Value(e[1]), Value(e[2])}
    BY <2>2 DEF Range
  <2>. QED BY <1>3, <2>2, <2>3
<1>6. \A e \in program.same : e[1] \in program.values /\ e[2] \in program.values
  BY ProgramsAssumption
<1>7. \A e \in program.same : e[1] \in S <=> e[2] \in S
  BY <1>4, <1>5, <1>6
<1>8. v \in S /\ S \in SUBSET program.values
  BY <1>3, <1>4
<1>9. w \in S
  BY <1>7, <1>8 DEF Linked
<1>. QED BY <1>2, <1>4, <1>9

\* The reductions that took their threads to a producer which shares its layout
\* with other values had none of their own to give it.
Gentle ==
  \A i \in DOMAIN decided :
    Adopter(i) /\ ~Lonely(Ops[i].in[1]) => ~ScopeOrAttribute(Ops[i])

\* What w demands does not differ from what v took over.
InStep(v, w) == {required[Value(w)], program.declared[w]} \subseteq {None, required[Value(v)]}

SlotInv ==
  /\ progress \in {"operations", "values", "mma"} => adopted = {}
  /\ progress \notin {"operations", "values"} => SlotsRelated
  /\ \A v \in adopted :
       /\ v \in program.values /\ required[Value(v)] # None
       /\ \A i \in DOMAIN decided : Ops[i].kind = "mma" => Ops[i].out # v
  /\ Gentle => \A v \in adopted : program.scope[v] = None =>
                 \A w \in program.values : Linked(v, w) => InStep(v, w)

LEMMA SlotsUntouched ==
  ASSUME SlotInv, UNCHANGED <<program, required, relations, decided, adopted>>,
         progress' \in {"operations", "values", "mma"} =>
           progress \in {"operations", "values", "mma"},
         progress' \notin {"operations", "values"} => progress \notin {"operations", "values"}
  PROVE  SlotInv'
<1>1. /\ \A i : Adopter(i)' <=> Adopter(i)
      /\ \A v : Lonely(v)' <=> Lonely(v)
      /\ \A i : ScopeOrAttribute(Ops[i])' <=> ScopeOrAttribute(Ops[i])
  BY DEF Adopter, Lonely, Linked, ScopeOrAttribute, Ops
<1>2. Gentle' <=> Gentle
  BY <1>1 DEF Gentle, Ops
<1>3. \A v, w : (Linked(v, w)' <=> Linked(v, w)) /\ (InStep(v, w)' <=> InStep(v, w))
  BY DEF Linked, InStep
<1>4. SlotsRelated' <=> SlotsRelated
  BY DEF SlotsRelated
<1>5. Ops' = Ops
  BY DEF Ops
<1>. QED BY <1>2, <1>3, <1>4, <1>5 DEF SlotInv

\* Before the reductions nothing is adopted.
LEMMA SlotsBuilt ==
  ASSUME SlotInv, progress \in {"operations", "values", "mma"}, adopted' = adopted,
         progress' \notin {"operations", "values"} => SlotsRelated'
  PROVE  SlotInv'
<1>1. adopted = {} /\ adopted' = {}
  BY DEF SlotInv
<1>. QED BY <1>1 DEF SlotInv

\* Relations and variables are only added.
LEMMA SlotsStay ==
  ASSUME SlotsRelated, program' = program, DOMAIN required \subseteq DOMAIN required',
         relations \subseteq relations'
  PROVE  SlotsRelated'
BY DEF SlotsRelated

LEMMA CollectValuesSlots ==
  ASSUME DecidedInv, CollectValues
  PROVE  SlotsRelated'
<1> DEFINE A == {Value(v) : v \in program.values}
           B == {FlowUse(f) : f \in {g \in program.flows : g.kind # "convert"}}
           F == UNION {FlowRelations(f) : f \in program.flows}
           E == {Relation("SameLayout", <<Value(e[1]), Value(e[2])>>) : e \in program.same}
           D == {Limit("RequireEncoding", Value(v), program.declared[v]) :
                   v \in {w \in program.values : program.declared[w] # None}}
<1>1. /\ required' = Created(A \cup B, required) /\ program' = program
      /\ relations' = ((relations \cup F) \cup E) \cup D
  BY DEF CollectValues
<1>2. A \subseteq DOMAIN required'
  <2>. HIDE DEF A, B
  <2>. QED BY <1>1 DEF Created, Overlaid
<1>3. E \subseteq relations'
  <2>. HIDE DEF E, F, D
  <2>. QED BY <1>1
<1>4. \A v \in program.values : Value(v) \in DOMAIN required'
  BY <1>2
<1>5. \A e \in program.same :
        Relation("SameLayout", <<Value(e[1]), Value(e[2])>>) \in relations'
  BY <1>3
<1>. HIDE DEF A, B, E, F, D
<1>. QED BY <1>1, <1>4, <1>5 DEF SlotsRelated

\* A reduction that infers its threads has looked at everything linked to its
\* source.
LEMMA InferredInStep ==
  ASSUME PeerInv, AdoptInv, SlotsRelated, NEW v \in program.values, NEW w, Linked(v, w),
         Inferable(Value(v))
  PROVE  {required[Value(w)], program.declared[w]} \subseteq {None, Inferred(Value(v))}
<1> DEFINE K == {"SameLayout"}
<1>1. ASSUME NEW r \in relations, r.kind \in K
      PROVE  Range(r.ends) \subseteq DOMAIN required
  <2>1. r.kind \in SameThreads
    BY <1>1 DEF SameThreads
  <2>2. PICK u \in program.values, y \in DOMAIN required :
          r.ends = <<y, Value(u)>> /\ Value(u) \in DOMAIN required
    BY <2>1 DEF AdoptInv, KeepsThreads
  <2>3. Range(<<y, Value(u)>>) = {y, Value(u)}
    BY DEF Range
  <2>. QED BY <2>2, <2>3
<1>2. IsFiniteSet(DOMAIN required) /\ program \in Programs
  BY DEF PeerInv
<1>3. Value(w) \in Class(Value(v), K)
  <2>1. "SameLayout" \in K
    OBVIOUS
  <2>. HIDE DEF K
  <2>. QED BY <1>1, <1>2, <2>1, LinkedArePeers
<1>4. Value(w) \in SearchedFrom(Value(v))
  BY <1>2, <1>3, PeersAreFound
<1>5. DeclaredAt(Value(w)) = program.declared[w]
  BY DEF DeclaredAt, Value
<1>6. \A m \in {required[Value(w)], program.declared[w]} \ {None} : m \in CountsFrom(Value(v))
  BY <1>4, <1>5 DEF CountsFrom
<1>7. \A m \in CountsFrom(Value(v)) : m = Inferred(Value(v))
  BY DEF Inferable, Inferred
<1>. QED BY <1>6, <1>7

LEMMA VisitReduceSlots ==
  ASSUME DecidedInv, PeerInv, AdoptInv, AdoptInv', SlotInv, NEW i \in DOMAIN Ops, VisitReduce(i)
  PROVE  SlotInv'
<1> DEFINE v == Ops[i].in[1]
           o == Ops[i].out
           n == Threads(Ops[i], Inferred(Value(v)))
           T == {Use(i, 1), Value(o)} \cup (IF Adopts(v, n) THEN {Value(v)} ELSE {})
           R == OwnUses(i) \cup {Relation("ReductionLayout", <<Use(i, 1), Value(o)>>)}
<1>1. /\ progress = "reductions" /\ progress' \in {"reductions", "limits"}
      /\ program' = program /\ Ops[i].kind = "reduce"
  BY DEF VisitReduce, Visiting, Interrupt, Following, Visited
<1>2. CASE UNCHANGED <<required, relations, decided, adopted>>
  BY <1>1, <1>2, SlotsUntouched
<1>3. CASE ~(UNCHANGED <<required, relations, decided, adopted>>)
  <2>1. /\ required' = Requiring(T, n, required)
        /\ relations' = relations \cup R
        /\ decided' = Deciding(i, n, decided)
        /\ adopted' = IF Adopts(v, n) THEN adopted \cup {v} ELSE adopted
        /\ ~ScopeOrAttribute(Ops[i]) => Inferable(Value(v))
        /\ n \in SupportedCounts
    BY <1>3 DEF VisitReduce, Interrupt
  <2>2. /\ v \in program.values /\ o \in program.values /\ program \in Programs
        /\ Ops' = Ops
    BY <1>1, ProgramsAssumption DEF DecidedInv, Ops
  <2>3. n # None
    BY <2>1 DEF SupportedCounts, None
  <2>4. /\ DOMAIN decided' = DOMAIN decided \cup {i}
    BY <2>1, DecidedGrows
  <2>5. /\ DOMAIN required \subseteq DOMAIN required'
        /\ \A x \in T : required'[x] = n
        /\ \A x \in DOMAIN required \ T : required'[x] = required[x]
    <3>. HIDE DEF T, n
    <3>. QED BY <2>1 DEF Requiring, Overlaid
  <2>6. SlotsRelated /\ SlotsRelated'
    <3>1. SlotsRelated
      BY <1>1 DEF SlotInv
    <3>. HIDE DEF T, R, n
    <3>. QED BY <1>1, <2>1, <2>5, <3>1, SlotsStay
  <2>7. \A u \in program.values : Value(u) \in DOMAIN required
    BY <2>6 DEF SlotsRelated
  <2>8. \A u \in program.values :
          Value(u) \in T <=> u = o \/ (u = v /\ Adopts(v, n))
    <3>. HIDE DEF n, o, v
    <3>. QED BY DEF Value, Use
  <2>. HIDE DEF T, R
  <2>9. \A u \in adopted' : u \in adopted \/ (u = v /\ Adopts(v, n))
    BY <2>1
  <2>10. ASSUME NEW u \in adopted'
         PROVE  /\ u \in program.values /\ required'[Value(u)] # None
                /\ \A j \in DOMAIN decided' : Ops[j].kind = "mma" => Ops[j].out # u
    <3>1. u \in program.values
      BY <2>2, <2>9 DEF SlotInv
    <3>2. required'[Value(u)] # None
      BY <2>3, <2>5, <2>7, <2>8, <2>9, <3>1 DEF SlotInv
    <3>3. ASSUME NEW j \in DOMAIN decided', Ops[j].kind = "mma", Ops[j].out = u
          PROVE  FALSE
      <4>1. j \in DOMAIN decided
        BY <1>1, <2>4, <3>3
      <4>2. u = v /\ Adopts(v, n)
        BY <2>9, <3>3, <4>1 DEF SlotInv
      <4>3. Value(u) \in Tiles(j)
        BY <3>3 DEF Tiles, MmaRoles, Range, Value
      <4>4. required[Value(u)] # None
        BY <4>1, <4>3 DEF DecidedInv
      <4>. QED BY <4>2, <4>4 DEF Adopts
    <3>. QED BY <3>1, <3>2, <3>3
  <2>11. ASSUME Gentle', NEW u \in adopted', program.scope[u] = None,
                NEW w \in program.values, Linked(u, w)
         PROVE  InStep(u, w)'
    <3>0. u \in program.values /\ program.declared[u] = None
      BY <1>1, <2>10 DEF AdoptInv
    <3>1. CASE w = u
      BY <1>1, <3>0, <3>1 DEF InStep
    <3>2. CASE w # u
      <4>1. /\ Linked(w, u) /\ program.scope[w] = None
            /\ u # o /\ w # o
        BY <1>1, <2>2, <2>11, <3>0, <3>2, LinkedBack, LinkedAlike
      <4>2. CASE Adopts(v, n) /\ v \in {u, w}
        <5>1. v \in adopted' /\ program.scope[v] = None
          BY <2>1, <2>11, <4>1, <4>2
        <5>2. ~Lonely(v)
          BY <2>11, <3>0, <3>2, <4>1, <4>2 DEF Lonely
        <5>3. i \in DOMAIN decided' /\ Ops'[i] = Ops[i]
          BY <2>2, <2>4
        <5>4. Adopter(i)' /\ ~(Lonely(Ops[i].in[1])')
          <6>1. Adopter(i)'
            BY <1>1, <5>1, <5>3 DEF Adopter
          <6>2. Lonely(Ops[i].in[1])' <=> Lonely(Ops[i].in[1])
            BY <1>1, <2>2 DEF Lonely, Linked
          <6>. QED BY <5>2, <6>1, <6>2
        <5>5. ~ScopeOrAttribute(Ops[i])
          BY <2>11, <5>3, <5>4 DEF Gentle
        <5>6. n = Inferred(Value(v)) /\ Inferable(Value(v))
          BY <2>1, <5>5 DEF Threads, ScopeOrAttribute
        <5>7. ASSUME NEW z, Linked(v, z)
              PROVE  {required[Value(z)], program.declared[z]} \subseteq {None, n}
          BY <2>2, <2>6, <5>6, <5>7, InferredInStep
        <5>8. CASE u = v
          <6>1. required'[Value(u)] = n /\ required'[Value(w)] = required[Value(w)]
            BY <2>5, <2>7, <2>8, <3>0, <3>2, <4>1, <4>2, <5>8
          <6>. QED BY <1>1, <2>11, <5>7, <5>8, <6>1 DEF InStep
        <5>9. CASE w = v
          <6>1. required'[Value(w)] = n /\ required'[Value(u)] = required[Value(u)]
            BY <2>5, <2>7, <2>8, <3>0, <3>2, <4>1, <4>2, <5>9
          <6>2. required[Value(u)] = n
            <7>1. required[Value(u)] # None
              BY <2>9, <3>2, <5>9 DEF SlotInv
            <7>. QED BY <4>1, <5>7, <5>9, <7>1
          <6>3. program.declared[w] = None
            BY <4>2, <5>9 DEF Adopts
          <6>. QED BY <1>1, <6>1, <6>2, <6>3 DEF InStep
        <5>. QED BY <4>2, <5>8, <5>9
      <4>3. CASE ~(Adopts(v, n) /\ v \in {u, w})
        <5>1. u \in adopted
          BY <2>9, <4>3
        <5>2. required'[Value(u)] = required[Value(u)] /\ required'[Value(w)] = required[Value(w)]
          BY <2>5, <2>7, <2>8, <3>0, <4>1, <4>3
        <5>3. Gentle
          <6>1. \A j : /\ ScopeOrAttribute(Ops[j])' <=> ScopeOrAttribute(Ops[j])
                       /\ Lonely(Ops[j].in[1])' <=> Lonely(Ops[j].in[1])
            BY <1>1, <2>2 DEF ScopeOrAttribute, Lonely, Linked
          <6>2. \A j : Adopter(j) => Adopter(j)'
            BY <1>1, <2>1, <2>2 DEF Adopter
          <6>. QED BY <2>2, <2>4, <2>11, <6>1, <6>2 DEF Gentle
        <5>4. InStep(u, w)
          BY <2>11, <5>1, <5>3 DEF SlotInv
        <5>. QED BY <1>1, <5>2, <5>4 DEF InStep
      <4>. QED BY <4>2, <4>3
    <3>. QED BY <3>1, <3>2
  <2>12. \A u, w : Linked(u, w)' <=> Linked(u, w)
    BY <1>1 DEF Linked
  <2>. QED BY <1>1, <2>2, <2>6, <2>10, <2>11, <2>12 DEF SlotInv
<1>. QED BY <1>2, <1>3

LEMMA CollectLimitsSlots ==
  ASSUME DecidedInv, SlotInv, CollectLimits
  PROVE  SlotInv'
<1> DEFINE limited == {x \in Limited : LimitAt(x) \in SupportedCounts}
<1>1. /\ progress = "limits" /\ progress' \in {"refused", "frozen"}
      /\ program' = program /\ adopted' = adopted /\ decided' = decided
      /\ relations \subseteq relations'
      /\ required' = [x \in DOMAIN required |-> IF x \in limited THEN LimitAt(x) ELSE required[x]]
  BY DEF CollectLimits
<1>2. /\ DOMAIN required' = DOMAIN required
      /\ \A x \in DOMAIN required :
           required[x] # None \/ ScopeAt(x) = None => required'[x] = required[x]
  <2>1. \A x \in DOMAIN required : required[x] # None => LimitAt(x) = required[x]
    BY DEF LimitAt
  <2>2. \A x \in DOMAIN required : required[x] = None /\ ScopeAt(x) = None => x \notin limited
    BY DEF LimitAt, Limited
  <2>. HIDE DEF limited
  <2>. QED BY <1>1, <2>1, <2>2
<1>. HIDE DEF limited
<1>3. SlotsRelated /\ SlotsRelated'
  <2>1. SlotsRelated
    BY <1>1 DEF SlotInv
  <2>. QED BY <1>1, <1>2, <2>1, SlotsStay
<1>4. program \in Programs /\ Ops' = Ops
  BY <1>1 DEF DecidedInv, Ops
<1>5. \A u \in program.values :
        required[Value(u)] # None \/ program.scope[u] = None =>
          required'[Value(u)] = required[Value(u)]
  <2>1. \A u \in program.values : Value(u) \in DOMAIN required
    BY <1>3 DEF SlotsRelated
  <2>2. \A u : ScopeAt(Value(u)) = program.scope[u]
    BY DEF ScopeAt, Value
  <2>. QED BY <1>2, <2>1, <2>2
<1>6. Gentle' <=> Gentle
  BY <1>1, <1>4 DEF Gentle, Adopter, Lonely, Linked, ScopeOrAttribute
<1>7. ASSUME Gentle, NEW u \in adopted, program.scope[u] = None, NEW w \in program.values,
             Linked(u, w)
      PROVE  InStep(u, w)'
  <2>1. u \in program.values /\ InStep(u, w)
    BY <1>7 DEF SlotInv
  <2>2. program.scope[w] = None
    BY <1>4, <1>7, <2>1, LinkedAlike
  <2>. QED BY <1>1, <1>5, <1>7, <2>1, <2>2 DEF InStep
<1>8. \A v \in adopted :
        /\ v \in program.values /\ required'[Value(v)] # None
        /\ \A i \in DOMAIN decided : Ops[i].kind = "mma" => Ops[i].out # v
  BY <1>5 DEF SlotInv
<1>9. \A u, w : Linked(u, w)' <=> Linked(u, w)
  BY <1>1 DEF Linked
<1>. QED BY <1>1, <1>3, <1>4, <1>6, <1>7, <1>8, <1>9 DEF SlotInv

LEMMA NextSlots ==
  /\ DecidedInv /\ PeerInv /\ AdoptInv /\ SlotInv
  /\ [CollectorsNext]_collectorsVars /\ AdoptInv'
  => SlotInv'
<1>. SUFFICES ASSUME DecidedInv, PeerInv, AdoptInv, SlotInv, [CollectorsNext]_collectorsVars,
                     AdoptInv'
              PROVE  SlotInv'
  OBVIOUS
<1>1. ASSUME NEW i \in DOMAIN Ops, VisitOperation(i) PROVE SlotInv'
  BY <1>1, SlotsBuilt DEF VisitOperation, Visiting, Interrupt, Following
<1>2. ASSUME NEW i \in DOMAIN Ops, VisitMma(i) PROVE SlotInv'
  <2> DEFINE S == Range(MmaRoles(i))
             T == {x \in Range(MmaRoles(i)) : x[1] # "view"}
             n == Threads(Ops[i], 128)
             R == OwnUses(i) \cup {Relation("SameLayout", <<MmaRoles(i)[3], MmaRoles(i)[4]>>),
                                   Relation("InstructionContract", MmaRoles(i))}
  <2>1. /\ progress = "mma" /\ program' = program /\ adopted' = adopted
        /\ \/ UNCHANGED <<required, relations>>
           \/ required' = Requiring(T, n, Created(S, required)) /\ relations' = relations \cup R
    BY <1>2 DEF VisitMma, Visiting, Interrupt
  <2>. HIDE DEF S, T, n, R
  <2>2. DOMAIN Requiring(T, n, Created(S, required)) = T \cup (DOMAIN required \cup S)
    BY DEF Requiring, Created, Overlaid
  <2>3. DOMAIN required \subseteq DOMAIN required' /\ relations \subseteq relations'
    BY <2>1, <2>2
  <2>4. SlotsRelated
    BY <2>1 DEF SlotInv
  <2>5. SlotsRelated'
    BY <2>1, <2>3, <2>4, SlotsStay
  <2>. QED BY <2>1, <2>5, SlotsBuilt
<1>3. ASSUME NEW i \in DOMAIN Ops, VisitReduce(i) PROVE SlotInv'
  BY <1>3, VisitReduceSlots
<1>4. CASE CollectValues
  <2>1. SlotsRelated'
    BY <1>4, CollectValuesSlots
  <2>. QED BY <1>4, <2>1, SlotsBuilt DEF CollectValues
<1>5. CASE CollectLimits
  BY <1>5, CollectLimitsSlots
<1>6. CASE \E p \in DOMAIN Following : EndWalk(p)
  <2>1. /\ UNCHANGED <<program, required, relations, decided, adopted>>
        /\ \/ progress = "operations" /\ progress' = "values"
           \/ progress = "mma" /\ progress' = "reductions"
           \/ progress = "reductions" /\ progress' = "limits"
    BY <1>6 DEF EndWalk, Following
  <2>. QED BY <2>1, SlotsUntouched
<1>7. ASSUME NEW i \in DOMAIN Ops, PrepareJoint(i) PROVE SlotInv'
  <2>1. /\ UNCHANGED <<program, required, relations, decided, adopted>>
        /\ progress = "frozen" /\ progress' \in {"frozen", "refused"}
    BY <1>7 DEF PrepareJoint
  <2>. QED BY <2>1, SlotsUntouched
<1>8. CASE EndPreparation \/ UNCHANGED collectorsVars
  <2>1. /\ UNCHANGED <<program, required, relations, decided, adopted>>
        /\ progress' = progress \/ (progress = "frozen" /\ progress' = "prepared")
    BY <1>8 DEF EndPreparation, collectorsVars
  <2>. QED BY <2>1, SlotsUntouched
<1>. QED BY <1>1, <1>2, <1>3, <1>4, <1>5, <1>6, <1>7, <1>8 DEF CollectorsNext

\* Whatever is limited in the class of a producer repeats the threads it took
\* over: the class holds the values linked to it and what leads to them.
LEMMA AdoptionIsShared ==
  ASSUME DecidedInv, PeerInv, AdoptInv, SlotInv, Collected, Gentle,
         NEW v \in adopted, program.scope[v] = None,
         NEW x \in DOMAIN required, Value(v) \in Class(x, SameThreads),
         NEW y \in Class(x, SameThreads)
  PROVE  Counts(y, relations) \subseteq {required[Value(v)]}
<1> DEFINE C == Class(x, SameThreads)
           D == Class(Value(v), SameThreads)
<1>1. ASSUME NEW r \in relations, r.kind \in SameThreads
      PROVE  \E w \in program.values, z \in DOMAIN required :
               /\ Range(r.ends) = {z, Value(w)} /\ Value(w) \in DOMAIN required
               /\ Leads(z, w)
  <2>1. PICK w \in program.values, z \in DOMAIN required :
          /\ r.ends = <<z, Value(w)>> /\ Value(w) \in DOMAIN required
          /\ Leads(z, w)
    BY <1>1 DEF AdoptInv, KeepsThreads
  <2>2. Range(<<z, Value(w)>>) = {z, Value(w)}
    BY DEF Range
  <2>. QED BY <2>1, <2>2
<1>2. \A r \in relations : r.kind \in SameThreads => Range(r.ends) \subseteq DOMAIN required
  BY <1>1
<1>3. IsFiniteSet(DOMAIN required) /\ Value(v) \in DOMAIN required /\ program.declared[v] = None
  BY DEF PeerInv, AdoptInv
<1>4. /\ x \in C
      /\ \A r \in relations : r.kind \in SameThreads /\ Range(r.ends) \cap C # {} =>
           Range(r.ends) \subseteq C
  BY <1>2, <1>3, ClassClosed
<1>5. /\ Value(v) \in D
      /\ \A r \in relations : r.kind \in SameThreads /\ Range(r.ends) \cap D # {} =>
           Range(r.ends) \subseteq D
  BY <1>2, <1>3, ClassClosed
<1>6. x \in D
  <2>. SUFFICES ASSUME x \notin D PROVE FALSE
    OBVIOUS
  <2> DEFINE T == C \ D
  <2>1. x \in T
    BY <1>4
  <2>2. \A r \in relations : r.kind \in SameThreads /\ Range(r.ends) \cap T # {} =>
          Range(r.ends) \subseteq T
    <3>. HIDE DEF C, D
    <3>. QED BY <1>4, <1>5
  <2>3. Value(v) \notin T
    BY <1>5
  <2>4. Class(x, SameThreads) \subseteq T
    <3>. HIDE DEF T, C, D
    <3>. QED BY <1>3, <2>1, <2>2, ClassStays
  <2>. QED BY <2>3, <2>4
<1>7. C \subseteq D
  <2>. HIDE DEF D
  <2>. QED BY <1>3, <1>5, <1>6, ClassStays DEF C
<1> DEFINE T == {z \in Reach(Value(v)) : \E w : Linked(v, w) /\ (z = Value(w) \/ Leads(z, w))}
<1>. HIDE DEF C, D
<1>8. /\ program \in Programs /\ v \in program.values /\ SlotsRelated
      /\ \A w : Linked(v, w) => w \in program.values /\ program.scope[w] = None
  BY LinkedBack, LinkedAlike DEF DecidedInv, SlotInv, Collected
<1>9. ASSUME NEW w, Linked(v, w), NEW i \in DOMAIN decided
      PROVE  Ops[i].kind = "mma" => Ops[i].out # w
  <2>1. i \in DOMAIN Ops
    BY DEF DecidedInv
  <2>. QED BY <1>8, <1>9, <2>1, LinkedAlike DEF SlotInv
<1>10. ASSUME NEW z, NEW w, NEW u, Leads(z, w), Leads(z, u), Linked(v, u)
       PROVE  Linked(v, w)
  <2>1. CASE \E f \in program.flows : z = FlowUse(f) /\ f.to = u
    BY <1>10, <2>1 DEF Leads, FlowUse, Value, View, Use
  <2>2. CASE \E e \in program.same : z = Value(e[1]) /\ e[2] = u
    <3>1. PICK e \in program.same : z = Value(e[1]) /\ e[2] = u
      BY <2>2
    <3>2. PICK d \in program.same : z = Value(d[1]) /\ d[2] = w
      BY <1>10, <3>1 DEF Leads, FlowUse, Value, View, Use
    <3>3. Linked(v, e[1]) /\ e[1] = d[1]
      BY <1>10, <3>1, <3>2, LinkedOn DEF Value
    <3>. QED BY <3>2, <3>3, LinkedOn
  <2>3. CASE \E i \in DOMAIN decided, k \in {1, 2, 3} :
               z = Use(i, k) /\ z \in Tiles(i) /\ Value(u) \in Tiles(i)
    <3>1. PICK i \in DOMAIN decided, k \in {1, 2, 3} :
            z = Use(i, k) /\ z \in Tiles(i) /\ Value(u) \in Tiles(i)
      BY <2>3
    <3>2. PICK j \in DOMAIN decided, l \in {1, 2, 3} :
            z = Use(j, l) /\ Value(w) \in Tiles(j)
      BY <1>10, <3>1 DEF Leads, FlowUse, Value, View, Use
    <3>3. i = j
      BY <3>1, <3>2 DEF Use
    <3>4. \A t : Value(t) \in Tiles(i) => t = Ops[i].out
      <4>. SUFFICES ASSUME NEW t, Value(t) \in Tiles(i) PROVE t = Ops[i].out
        OBVIOUS
      <4>1. \/ Value(t) = Execution(i)
            \/ \E m \in {1, 2, 3} : Value(t) = Use(i, m)
            \/ Value(t) = Value(Ops[i].out)
        BY TileShape
      <4>. QED BY <4>1 DEF Value, Execution, Use
    <3>. QED BY <1>10, <3>1, <3>2, <3>3, <3>4
  <2>. QED BY <1>9, <1>10, <2>1, <2>2, <2>3 DEF Leads
<1>11. ASSUME NEW z, NEW w, Leads(Value(z), w), Linked(v, w) \/ Linked(v, z)
       PROVE  Linked(v, w) /\ Linked(v, z)
  <2>1. PICK e \in program.same : Value(z) = Value(e[1]) /\ e[2] = w
    BY <1>11 DEF Leads, FlowUse, Value, View, Use
  <2>2. z = e[1]
    BY <2>1 DEF Value
  <2>. QED BY <1>11, <2>1, <2>2, LinkedOn
<1>12. ASSUME NEW r \in relations, r.kind \in SameThreads, Range(r.ends) \cap T # {}
       PROVE  Range(r.ends) \subseteq T
  <2>1. PICK w \in program.values, z \in DOMAIN required :
          /\ Range(r.ends) = {z, Value(w)} /\ Value(w) \in DOMAIN required
          /\ Leads(z, w)
    BY <1>1, <1>12
  <2>2. Linked(v, w)
    <3>1. CASE Value(w) \in T
      <4>1. PICK u : Linked(v, u) /\ (Value(w) = Value(u) \/ Leads(Value(w), u))
        BY <3>1
      <4>2. CASE Value(w) = Value(u)
        BY <4>1, <4>2 DEF Value
      <4>3. CASE Leads(Value(w), u)
        BY <1>11, <4>1, <4>3
      <4>. QED BY <4>1, <4>2, <4>3
    <3>2. CASE z \in T
      <4>1. PICK u : Linked(v, u) /\ (z = Value(u) \/ Leads(z, u))
        BY <3>2
      <4>2. CASE z = Value(u)
        BY <1>11, <2>1, <4>1, <4>2
      <4>3. CASE Leads(z, u)
        BY <1>10, <2>1, <4>1, <4>3
      <4>. QED BY <4>1, <4>2, <4>3
    <3>. QED BY <1>12, <2>1, <3>1, <3>2
  <2>3. z \in Reach(Value(v)) /\ Value(w) \in Reach(Value(v))
    BY <2>1 DEF Reach
  <2>. QED BY <2>1, <2>2, <2>3
<1>13. PICK u : Linked(v, u) /\ (y = Value(u) \/ Leads(y, u))
  <2>1. Linked(v, v) /\ Value(v) \in Reach(Value(v))
    BY <1>8 DEF Linked, Reach
  <2>2. Value(v) \in T
    BY <2>1
  <2>3. D \subseteq T
    <3>. HIDE DEF T
    <3>. QED BY <1>3, <1>12, <2>2, ClassStays DEF D
  <2>4. y \in T
    BY <1>7, <2>3 DEF C
  <2>. QED BY <2>4
<1>. HIDE DEF T
<1>14. \A w : Linked(v, w) => InStep(v, w)
  BY <1>8 DEF SlotInv
<1>15. \A z, w : w \in Range(<<z>>) => w = z
  BY DEF Range
<1>16. ASSUME NEW r \in relations, r.count # None, y \in Range(r.ends)
       PROVE  r.count = required[Value(v)]
  <2>1. CASE r.kind = "ResourceLimit"
    <3>1. PICK z \in DOMAIN required :
            /\ r.ends = <<z>> /\ r.count = required[z] /\ z[1] # "view"
            /\ z[1] = "flow" => program.scope[z[3]] # None
      BY <2>1 DEF AdoptInv, Limiting
    <3>2. z = y
      BY <1>15, <1>16, <3>1
    <3>3. \A w : Linked(v, w) /\ y = Value(w) => r.count = required[Value(v)]
      BY <1>14, <1>16, <3>1, <3>2 DEF InStep
    <3>4. CASE y = Value(u)
      BY <1>13, <3>3, <3>4
    <3>5. CASE \E f \in program.flows : y = FlowUse(f) /\ f.to = u
      BY <1>8, <1>13, <3>1, <3>2, <3>5 DEF FlowUse
    <3>6. CASE \E e \in program.same : y = Value(e[1]) /\ e[2] = u
      BY <1>13, <3>3, <3>6, LinkedOn
    <3>7. CASE \E i \in DOMAIN decided, k \in {1, 2, 3} :
                 y = Use(i, k) /\ y \in Tiles(i) /\ Value(u) \in Tiles(i)
      <4>1. required[y] = required[Value(u)]
        BY <3>7 DEF DecidedInv
      <4>. QED BY <1>13, <1>14, <1>16, <3>1, <3>2, <4>1 DEF InStep
    <3>. QED BY <1>9, <1>13, <3>4, <3>5, <3>6, <3>7 DEF Leads
  <2>2. CASE \E w : r.ends = <<Value(w)>> /\ r.count = program.declared[w]
    <3>1. PICK w : r.ends = <<Value(w)>> /\ r.count = program.declared[w]
      BY <2>2
    <3>2. y = Value(w)
      BY <1>15, <1>16, <3>1
    <3>3. Linked(v, w)
      <4>1. CASE y = Value(u)
        BY <1>13, <3>2, <4>1 DEF Value
      <4>2. CASE Leads(y, u)
        BY <1>11, <1>13, <3>2, <4>2
      <4>. QED BY <1>13, <4>1, <4>2
    <3>. QED BY <1>14, <1>16, <3>1, <3>3 DEF InStep
  <2>3. CASE \E i : r.ends = <<Execution(i)>>
    <3>1. PICK i : y = Execution(i)
      BY <1>15, <1>16, <2>3
    <3>. QED BY <1>13, <3>1 DEF Leads, Execution, Value, FlowUse, View, Use
  <2>. QED BY <1>16, <2>1, <2>2, <2>3 DEF PeerInv, Declares
<1>. QED BY <1>16 DEF Counts

\* AdoptionExcludesNothing: taking over the threads of a consumer makes no
\* program impossible, although the layout may belong to several values with a
\* consumer each, unless a reduction that is told its threads gives them to one.
THEOREM AdoptionIsSafe == CollectorsSpec => []AdoptionExcludesNothing
<1>1. CollectorsInit => AdoptInv
  BY DEF CollectorsInit, AdoptInv, FlowsFree, Collected, Collecting
<1>2. CollectorsInit => PeerInv
  BY FS_EmptySet DEF CollectorsInit, PeerInv
<1>3. CollectorsInit => SlotInv
  BY DEF CollectorsInit, SlotInv
<1>4. DecidedInv /\ PeerInv /\ AdoptInv /\ SlotInv => AdoptionExcludesNothing
  <2>. SUFFICES ASSUME DecidedInv, PeerInv, AdoptInv, SlotInv, Collected,
                       Feasible(relations \ Adoptions),
                       \A i \in DOMAIN decided :
                         Adopter(i) /\ ~Alone(Ops[i].in[1]) => ~ScopeOrAttribute(Ops[i]),
                       NEW x \in DOMAIN required
                PROVE  Cardinality(UNION {Counts(y, relations) : y \in Class(x, SameThreads)}) <= 1
    BY DEF AdoptionExcludesNothing, Feasible
  <2>0. Gentle
    <3>1. ASSUME NEW v \in program.values, Alone(v) PROVE Lonely(v)
      <4>1. "SameLayout" \in SameThreads /\ IsFiniteSet(DOMAIN required)
        BY DEF SameThreads, PeerInv
      <4>2. \A r \in relations : r.kind \in SameThreads => Range(r.ends) \subseteq DOMAIN required
        BY DEF AdoptInv, KeepsThreads, Range
      <4>3. \A w : Linked(v, w) => Value(w) \in Class(Value(v), SameThreads)
        BY <4>1, <4>2, LinkedArePeers DEF DecidedInv, SlotInv, Collected
      <4>. QED BY <3>1, <4>3 DEF Alone, Lonely
    <3>2. \A i \in DOMAIN decided : Adopter(i) => Ops[i].in[1] \in program.values
      BY DEF Adopter, SlotInv
    <3>. QED BY <3>1, <3>2 DEF Gentle
  <2> DEFINE C == Class(x, SameThreads)
             U == UNION {Counts(y, relations) : y \in C}
  <2>1. CASE \E v \in adopted : program.scope[v] = None /\ Value(v) \in C
    <3>1. PICK v \in adopted : program.scope[v] = None /\ Value(v) \in C
      BY <2>1
    <3>2. \A y \in C : Counts(y, relations) \subseteq {required[Value(v)]}
      BY <2>0, <3>1, AdoptionIsShared
    <3>3. U \subseteq {required[Value(v)]}
      <4>. HIDE DEF C
      <4>. QED BY <3>2
    <3>4. U = {} \/ U = {required[Value(v)]}
      <4>. HIDE DEF U
      <4>. QED BY <3>3
    <3>5. Cardinality({}) = 0 /\ Cardinality({required[Value(v)]}) = 1
      BY FS_EmptySet, FS_Singleton
    <3>6. Cardinality(U) = 0 \/ Cardinality(U) = 1
      <4>. HIDE DEF U
      <4>. QED BY <3>4, <3>5
    <3>. HIDE DEF U
    <3>7. Cardinality(U) <= 1
      BY <3>6
    <3>. QED BY <3>7 DEF U, C
  <2>2. CASE ~\E v \in adopted : program.scope[v] = None /\ Value(v) \in C
    <3>1. ASSUME NEW y \in C
          PROVE  Counts(y, relations) = Counts(y, relations \ Adoptions)
      <4>1. \A z, w : w \in Range(<<z>>) => w = z
        BY DEF Range
      <4>2. \A r \in Adoptions : y \notin Range(r.ends)
        <5>. HIDE DEF C
        <5>. QED BY <2>2, <4>1 DEF Adoptions
      <4>. QED BY <4>2 DEF Counts
    <3>2. Cardinality(UNION {Counts(y, relations \ Adoptions) : y \in C}) <= 1
      BY DEF Feasible
    <3>3. U = UNION {Counts(y, relations \ Adoptions) : y \in C}
      <4>. HIDE DEF C
      <4>. QED BY <3>1
    <3>. HIDE DEF U, C
    <3>4. Cardinality(U) <= 1
      BY <3>2, <3>3
    <3>. QED BY <3>4 DEF U, C
  <2>. QED BY <2>1, <2>2
<1>5. CollectorsInv /\ AdoptInv /\ [CollectorsNext]_collectorsVars => AdoptInv'
  BY NextAdopts DEF CollectorsInv
<1>6. PeerInv /\ [CollectorsNext]_collectorsVars => PeerInv'
  BY NextPeers
<1>7. /\ CollectorsInv /\ PeerInv /\ AdoptInv /\ SlotInv
      /\ [CollectorsNext]_collectorsVars /\ AdoptInv'
      => SlotInv'
  BY NextSlots DEF CollectorsInv
<1>8. CollectorsInv => DecidedInv
  BY DEF CollectorsInv
<1>. QED BY <1>1, <1>2, <1>3, <1>4, <1>5, <1>6, <1>7, <1>8, CollectorsInductive, PTL DEF CollectorsSpec
================================================================================
