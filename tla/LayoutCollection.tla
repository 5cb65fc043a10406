---------------------------- MODULE LayoutCollection ----------------------------
(***************************************************************************)
(* The finite candidate domains the solver chooses from                    *)
(* (collectLayoutConstraints, lib/Dialect/Frisk/Analysis/                  *)
(* LayoutPropagation.cpp): explicit seeds are projected through the hard   *)
(* relations to a fixed point, then the variables that are still empty get *)
(* the target's own candidates, one variable at a time in ID order, each   *)
(* projected to a fixed point before the next.                             *)
(*                                                                         *)
(* A problem is a record                                                   *)
(*   vars        number of variables, which are 1..vars                    *)
(*   seeds       candidates a variable has before, by explicit bindings    *)
(*               and instruction proposals                                 *)
(*   enumerated  candidates the target proposes for a variable             *)
(*   valid       candidates target.verifyCandidate accepts for a variable  *)
(*   bound       variables with a hard RequireEncoding                     *)
(*   storage, roles, reductions  storage variables, instruction roles and  *)
(*               reduction results                                         *)
(*   relations   sequence of [vars, kind], the hard equalities and         *)
(*               reductions of the finalized graph                         *)
(* and Image(k, s, e, t) is the set of at most one encoding that candidate *)
(* e of s has as its counterpart for t under relation k.                   *)
(***************************************************************************)
EXTENDS Integers, Sequences

CONSTANTS
  Encodings,
  Kinds,              \* kinds of relations, "reduction" among them
  Image(_, _, _, _),  \* projectLayoutCandidate
  Problems

Vars(p) == 1..p.vars

WellFormed(p) ==
  /\ p.vars \in Nat
  /\ p.seeds \in [Vars(p) -> SUBSET Encodings]
  /\ p.enumerated \in [Vars(p) -> SUBSET Encodings]
  /\ p.valid \in [Vars(p) -> SUBSET Encodings]
  /\ p.bound \subseteq Vars(p) /\ p.storage \subseteq Vars(p)
  /\ p.roles \subseteq Vars(p) /\ p.reductions \subseteq Vars(p)
  /\ p.relations \in Seq([vars : Seq(Vars(p)), kind : Kinds])
  /\ \A v \in p.bound : p.seeds[v] # {}

\* An explicit binding is a RequireEncoding together with its seed.
ASSUME ProblemsAssumption == \A p \in Problems : WellFormed(p)

VARIABLES
  problem,
  domain,      \* candidates of every variable
  phase,       \* "project", "default", "check", "collected" or "conflict"
  relation,    \* next relation of the pass
  source,      \* next position in its variables
  added,       \* addedCandidate of the pass
  turn,        \* next variable to receive defaults
  defaulted    \* variables that received them

vars == <<problem, domain, phase, relation, source, added, turn, defaulted>>

Init ==
  /\ problem \in Problems
  /\ domain = problem.seeds
  /\ phase = "project" /\ relation = 1 /\ source = 1 /\ added = FALSE
  /\ turn = 1 /\ defaulted = {}

-----------------------------------------------------------------------------
(* projectCandidatesToFixedPoint.                                          *)

\* Variables of relation k that may receive projections: hard bindings keep
\* their seeds, and only the reduction itself proposes for its result.
Receives(p, k, t) ==
  /\ t \notin p.storage /\ t \notin p.bound
  /\ t \in p.reductions => k.kind = "reduction"

\* What the candidates d of variable s are projected to for t, as far as the
\* target accepts it.
Projected(p, d, k, s, t) ==
  IF s # t /\ s \notin p.storage /\ t \in {k.vars[j] : j \in DOMAIN k.vars} /\ Receives(p, k, t)
    THEN (UNION {Image(k, s, e, t) : e \in d[s]}) \cap p.valid[t]
    ELSE {}

Extended(p, d, k, s) == [t \in Vars(p) |-> d[t] \cup Projected(p, d, k, s, t)]

ProjectSource ==
  /\ phase = "project" /\ relation <= Len(problem.relations)
  /\ source <= Len(problem.relations[relation].vars)
  /\ LET k == problem.relations[relation]
     IN  /\ domain' = Extended(problem, domain, k, k.vars[source])
         /\ added' = (added \/ domain' # domain)
  /\ source' = source + 1
  /\ UNCHANGED <<problem, phase, relation, turn, defaulted>>

NextRelation ==
  /\ phase = "project" /\ relation <= Len(problem.relations)
  /\ source > Len(problem.relations[relation].vars)
  /\ relation' = relation + 1 /\ source' = 1
  /\ UNCHANGED <<problem, domain, phase, added, turn, defaulted>>

\* Another pass while one added something.
SettledAfterOnePass == TRUE
Settled == ~added

EndPass ==
  /\ phase = "project" /\ relation > Len(problem.relations)
  /\ phase' = IF ~Settled THEN "project"
              ELSE IF turn <= problem.vars + 1 THEN "default" ELSE "check"
  /\ relation' = 1 /\ source' = 1 /\ added' = FALSE
  /\ UNCHANGED <<problem, domain, turn, defaulted>>

-----------------------------------------------------------------------------
(* Defaults, and the check for empty domains.                              *)

NeedsDefaults(v) ==
  /\ domain[v] = {}
  /\ v \notin problem.storage \cup problem.roles \cup problem.reductions

AfterDefaults == "project"

Default ==
  /\ phase = "default" /\ turn <= problem.vars
  /\ turn' = turn + 1
  /\ IF NeedsDefaults(turn)
       THEN /\ domain' = [domain EXCEPT ![turn] = problem.enumerated[turn] \cap problem.valid[turn]]
            /\ defaulted' = defaulted \cup {turn}
            /\ phase' = AfterDefaults
       ELSE UNCHANGED <<domain, defaulted, phase>>
  /\ UNCHANGED <<problem, relation, source, added>>

LastProjection ==
  /\ phase = "default" /\ turn > problem.vars
  /\ turn' = turn + 1 /\ phase' = "project"
  /\ UNCHANGED <<problem, domain, relation, source, added, defaulted>>

\* updateState of every variable.
Check ==
  /\ phase = "check"
  /\ phase' = IF \E v \in Vars(problem) : domain[v] = {} THEN "conflict" ELSE "collected"
  /\ UNCHANGED <<problem, domain, relation, source, added, turn, defaulted>>

Next == ProjectSource \/ NextRelation \/ EndPass \/ Default \/ LastProjection \/ Check

Spec == Init /\ [][Next]_vars


-----------------------------------------------------------------------------
(* Properties.                                                             *)

TypeOK ==
  /\ WellFormed(problem)
  /\ domain \in [Vars(problem) -> SUBSET Encodings]
  /\ \A v \in Vars(problem) : domain[v] \subseteq problem.seeds[v] \cup problem.valid[v]
  /\ phase \in {"project", "default", "check", "collected", "conflict"}
  /\ relation \in 1..Len(problem.relations) + 1
  /\ source \in Nat \ {0}
  /\ added \in BOOLEAN
  /\ turn \in 1..problem.vars + 2 /\ (phase = "default" => turn <= problem.vars + 1)
  /\ defaulted \subseteq Vars(problem)

\* An explicit binding stays alone in its domain: no candidate that propagation
\* or the target proposes joins it, and pruning finds every contradiction.
BoundKeepSeeds == \A v \in problem.bound : domain[v] = problem.seeds[v]

\* The layouts of a reduction result are those its source's candidates have
\* under the reduction, and what was there before: a consumer that would like
\* another layout has to convert.
NaturalResults ==
  \A v \in problem.reductions : \A e \in domain[v] \ problem.seeds[v] :
    \E k \in DOMAIN problem.relations : \E s \in Vars(problem) :
      /\ problem.relations[k].kind = "reduction"
      /\ \E x \in domain[s] : e \in Image(problem.relations[k], s, x, v)

\* No projection of a candidate is missing from a domain.
Closed(p, d) ==
  \A k \in DOMAIN p.relations : \A j \in DOMAIN p.relations[k].vars : \A t \in Vars(p) :
    Projected(p, d, p.relations[k], p.relations[k].vars[j], t) \subseteq d[t]

\* Whenever defaults are given, and when the domains are handed to propagation
\* and search, they are closed under projection, whatever the order of the
\* relations: choosing a candidate never lacks its counterpart elsewhere.
ClosedWhenSettled == phase # "project" => Closed(problem, domain)
=============================================================================
