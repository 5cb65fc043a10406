------------------------ MODULE LayoutCandidateSolver ------------------------
(***************************************************************************)
(* solveLayoutGraph (lib/Dialect/Frisk/Analysis/LayoutCandidateSolver.cpp):*)
(* one search per hard-constraint component, exact while the product of    *)
(* its pruned domains is small, otherwise a beam, on a budget of attempted *)
(* extensions.  Variables and candidates are numbers: a LayoutVarID, and   *)
(* the rank of a candidate in the order of layoutCandidateKey, so a domain *)
(* is a set and its canonical order is <.  Costs are one number, compared  *)
(* as CostVector is: a total order the solver never looks inside.          *)
(***************************************************************************)
EXTENDS LayoutConstraintGraph

CONSTANTS
  InitialDomains,          \* candidate domains the solver may be handed
  Verified,                \* what verifyCandidate and the capacity proof accept
  Priced,                  \* candidates the cost model can evaluate
  StaticCost(_),           \* LayoutTarget::evaluate, and lowerBound when partial
  ConversionCost(_, _),    \* evaluateLayoutConversionCost
  EncodingsEqual(_, _),    \* layoutEncodingsEqual
  ExistingConversions,     \* Convertible relations that are already operations
  ExactCombinationLimit, BeamWidth, MaxExpandedStates,
  MaxUInt                  \* UINT64_MAX

\* The options are positive and the graph not empty (both are refused before any
\* search), and the collectors only add hard contracts, reductions and conversions.
ASSUME SolverAssumption ==
  /\ Vars \subseteq Nat /\ Vars # {} /\ Encodings \subseteq Nat
  /\ InitialDomains \subseteq Domains
  /\ Verified \in Domains /\ Priced \in Domains
  /\ ExistingConversions \subseteq Constraints
  /\ {ExactCombinationLimit, BeamWidth, MaxExpandedStates, MaxUInt} \subseteq Nat \ {0}
  /\ ExactCombinationLimit <= MaxUInt
  /\ \A c \in Constraints :
       Kind[c] \in SupportKinds \cup {"Convertible"} => Strength[c] = "Hard"

-----------------------------------------------------------------------------
(* Components of the hard constraints.                                     *)

\* A relation links its first endpoint with every other one.
Linked(v, w) ==
  \E c \in Hard : \/ v = Endpoints[c][1] /\ w \in EndpointVars(c)
                  \/ w = Endpoints[c][1] /\ v \in EndpointVars(c)

\* Everything reachable from v.
Component ==
  [v \in Vars |->
     {w \in Vars : \A S \in SUBSET Vars :
        v \in S /\ (\A x \in S, y \in Vars : Linked(x, y) => y \in S) => w \in S}]

\* Prices are counts.  Registers and replication are added up by variable, the
\* bytes of a buffer by root, and the views of one buffer are in one component.
ASSUME CostAssumption ==
  /\ \A x, y \in Encodings : ConversionCost(x, y) \in Nat
  /\ \A S \in SUBSET Vars : \A s \in [S -> Encodings] : StaticCost(s) \in Nat
  /\ \A S, T \in SUBSET Vars :
       S \cap T = {} /\ (\A v \in S : Component[v] \subseteq S) =>
         \A s \in [S \cup T -> Encodings] :
           StaticCost(s) = StaticCost(Restrict(s, S)) + StaticCost(Restrict(s, T))

\* Components are visited by their smallest variable.
Roots == {v \in Vars : \A w \in Component[v] : v <= w}

ConstraintsOf(C) == {c \in Hard : Endpoints[c][1] \in C}

\* How often hard constraints name v; all of them are in its component.
Degree ==
  [v \in Vars |->
     Cardinality(UNION {{c} \X {i \in DOMAIN Endpoints[c] : Endpoints[c][i] = v}
                          : c \in Hard})]

-----------------------------------------------------------------------------
(* Partial assignments: functions from some of the variables.              *)

Extend(s, v, e) == [x \in DOMAIN s \cup {v} |-> IF x = v THEN e ELSE s[x]]

\* satisfiesLayoutConstraint without requireComplete: a contract must keep a
\* live tuple, anything else is left alone until its endpoints are assigned.
SatisfiesPartly(c, s, D) ==
  /\ Kind[c] \in SupportKinds =>
       \E t \in Tuples[c] :
         /\ Live(c, t, D)
         /\ \A i \in DOMAIN Endpoints[c] :
              Endpoints[c][i] \in DOMAIN s => t[i] = s[Endpoints[c][i]]
  /\ Kind[c] \notin SupportKinds /\ EndpointVars(c) \subseteq DOMAIN s
       => Satisfies(c, s)

\* The Convertible relations whose two ends are assigned different layouts.
Converted(s) ==
  {c \in Hard : /\ Kind[c] = "Convertible"
                /\ EndpointVars(c) \subseteq DOMAIN s
                /\ ~EncodingsEqual(s[Endpoints[c][1]], s[Endpoints[c][2]])}

\* A conversion costs the same whether or not its operation is already there.
Bound(s) ==
  StaticCost(s) +
    SumFunction([c \in Converted(s) |->
                   ConversionCost(s[Endpoints[c][1]], s[Endpoints[c][2]])])

\* Keys are compared variable by variable; an unassigned one is the largest.
KeyLess(s, t) ==
  \E v \in DOMAIN s :
    /\ v \in DOMAIN t => s[v] < t[v]
    /\ \A u \in Vars : u < v =>
         /\ u \in DOMAIN s <=> u \in DOMAIN t
         /\ u \in DOMAIN s => s[u] = t[u]

Precedes(s, t) ==
  Bound(s) < Bound(t) \/ (Bound(s) = Bound(t) /\ KeyLess(s, t))

IsFirstByKey(s, S) == \A t \in S \ {s} : KeyLess(s, t)

IsFirst(s, S) == \A t \in S \ {s} : Precedes(s, t)

\* The best BeamWidth elements of S.
Best(S) == {s \in S : Cardinality({t \in S : Precedes(t, s)}) < BeamWidth}

-----------------------------------------------------------------------------
VARIABLES
  step,          \* "prune", "search", "bind", or how the call ended
  frozen,        \* the domains the caller handed over (history)
  domain,        \* LayoutVar::candidates, pruned in place
  root,          \* the component in hand
  pruned,        \* its variables pruned so far
  combinations,  \* product of the pruned domains, as an unsigned integer
  overflow,      \* productOverflow
  frontier,      \* states of this depth not yet expanded
  next,          \* their viable children
  expanded,      \* attempted extensions
  discarded,     \* states the beam dropped
  assignment,    \* LayoutSolution::assignments
  conversions,   \* constraints of LayoutSolution::conversions
  cost,          \* LayoutSolution::cost
  exhaustive     \* roots of the components searched exhaustively

searching == <<frontier, next, expanded, discarded>>
answer    == <<assignment, conversions, cost, exhaustive>>
vars == <<step, frozen, domain, root, pruned, combinations, overflow,
          searching, answer>>

InHand == Component[root]

Init ==
  /\ step = "prune"
  /\ frozen \in InitialDomains
  /\ domain = frozen
  /\ root \in Roots /\ \A r \in Roots : root <= r
  /\ pruned = {}
  /\ combinations = 1 /\ overflow = FALSE
  /\ frontier = {} /\ next = {} /\ expanded = 0 /\ discarded = 0
  /\ assignment = <<>> /\ conversions = {} /\ cost = 0 /\ exhaustive = {}

\* The overflow of a product saturates it and is remembered.
Product(value, factor) ==
  IF factor # 0 /\ value > MaxUInt \div factor
    THEN [value |-> MaxUInt, overflow |-> TRUE]
    ELSE [value |-> value * factor, overflow |-> FALSE]

\* The candidates of v that survive target, capacity and hard constraints.
KeptUnverified(v) ==
  {e \in domain[v] : \A c \in ConstraintsOf(InHand) :
     v \in EndpointVars(c) => SatisfiesPartly(c, Extend(<<>>, v, e), domain)}

Kept(v) ==
  {e \in domain[v] \cap Verified[v] : \A c \in ConstraintsOf(InHand) :
     v \in EndpointVars(c) => SatisfiesPartly(c, Extend(<<>>, v, e), domain)}

\* Variables of a component are pruned in the order of their IDs, each against
\* the domains its predecessors were left with.
Prune ==
  /\ step = "prune" /\ pruned # InHand
  /\ \E v \in InHand \ pruned :
       /\ \A u \in InHand \ pruned : v <= u
       /\ domain' = [domain EXCEPT ![v] = Kept(v)]
       /\ pruned' = pruned \cup {v}
       /\ IF Kept(v) = {}
            THEN /\ step' = "no-candidate"
                 /\ UNCHANGED <<combinations, overflow>>
            ELSE LET p == Product(combinations, Cardinality(Kept(v)))
                 IN  /\ combinations' = p.value
                     /\ overflow' = (overflow \/ p.overflow)
                     /\ UNCHANGED step
  /\ UNCHANGED <<frozen, root, searching, answer>>

UsedBeam == overflow \/ combinations > ExactCombinationLimit

StartSearch ==
  /\ step = "prune" /\ pruned = InHand
  /\ step' = "search"
  /\ frontier' = {<<>>} /\ next' = {}
  /\ expanded' = 0 /\ discarded' = 0
  /\ UNCHANGED <<frozen, domain, root, pruned, combinations, overflow, answer>>

-----------------------------------------------------------------------------
Viable(s) == \A c \in ConstraintsOf(InHand) : SatisfiesPartly(c, s, domain)

Unassigned(s) == InHand \ DOMAIN s

ViableExtensions(s, v) == {t \in {Extend(s, v, e) : e \in domain[v]} : Viable(t)}

\* Variables are probed in order up to the first that cannot be extended.
Probed(s) ==
  {v \in Unassigned(s) :
     \A u \in Unassigned(s) : u < v => ViableExtensions(s, u) # {}}

\* Every extension tried while probing, viable or not.
Attempts(s) == Cardinality(UNION {{v} \X domain[v] : v \in Probed(s)})

\* Fewest viable extensions, then most constraints, then smallest ID.
Preferred(s, v, u) ==
  LET m == Cardinality(ViableExtensions(s, v))
      n == Cardinality(ViableExtensions(s, u))
  IN  \/ m < n
      \/ m = n /\ Degree[v] > Degree[u]
      \/ m = n /\ Degree[v] = Degree[u] /\ v < u

\* The viable extensions of the variable that minimum remaining values picks.
Branches(s) ==
  UNION {ViableExtensions(s, v) :
           v \in {x \in Probed(s) : \A u \in Probed(s) \ {x} : Preferred(s, x, u)}}

Evaluable(s) == \A v \in DOMAIN s : s[v] \in Priced[v]

\* The best state of the frontier that is not complete yet is expanded; the
\* attempt that finds the budget spent ends the whole call.
Expand ==
  /\ step = "search"
  /\ \E s \in frontier :
       /\ IsFirst(s, frontier) /\ Unassigned(s) # {}
       /\ IF expanded + Attempts(s) > MaxExpandedStates
            THEN /\ step' = "budget-exceeded"
                 /\ expanded' = MaxExpandedStates
                 /\ UNCHANGED <<frontier, next>>
            ELSE /\ expanded' = expanded + Attempts(s)
                 /\ frontier' = frontier \ {s}
                 /\ next' = next \cup Branches(s)
                 /\ step' = IF \A t \in Branches(s) : Evaluable(t)
                              THEN step ELSE "cost-failed"
  /\ UNCHANGED <<frozen, domain, root, pruned, combinations, overflow,
                 discarded, answer>>

\* A depth is done: its children, cut to the beam, are the next frontier.
CloseDepth ==
  /\ step = "search" /\ frontier = {} /\ next # {}
  /\ IF UsedBeam /\ Cardinality(next) > BeamWidth
       THEN /\ frontier' = Best(next)
            /\ discarded' = discarded + (Cardinality(next) - BeamWidth)
       ELSE /\ frontier' = next
            /\ UNCHANGED discarded
  /\ next' = {}
  /\ UNCHANGED <<step, frozen, domain, root, pruned, combinations, overflow,
                 expanded, answer>>

\* An empty frontier proves nothing once the beam has dropped something; the
\* faulty form forgets the beam.
ExhaustedMeansNone == "no-assignment"

Exhausted == IF discarded = 0 THEN "no-assignment" ELSE "search-incomplete"

GiveUp ==
  /\ step = "search" /\ frontier = {} /\ next = {}
  /\ step' = Exhausted
  /\ UNCHANGED <<frozen, domain, root, pruned, combinations, overflow,
                 searching, answer>>

\* The front of the last frontier is the component's answer; components are
\* visited in ascending order of their roots and their costs add up.
TotalCost(s) == cost + Bound(s)

LaterRoots == {r \in Roots : r > root}

NewConversions(s) == Converted(s) \ ExistingConversions

Select ==
  /\ step = "search"
  /\ \E s \in frontier :
       /\ IsFirst(s, frontier) /\ Unassigned(s) = {}
       /\ assignment' = [v \in DOMAIN assignment \cup InHand |->
                           IF v \in InHand THEN s[v] ELSE assignment[v]]
       /\ conversions' = conversions \cup NewConversions(s)
       /\ cost' = TotalCost(s)
  /\ exhaustive' = IF discarded = 0 THEN exhaustive \cup {root} ELSE exhaustive
  /\ IF LaterRoots # {}
       THEN /\ root' \in LaterRoots /\ \A r \in LaterRoots : root' <= r
            /\ step' = "prune"
            /\ pruned' = {} /\ combinations' = 1 /\ overflow' = FALSE
       ELSE /\ step' = "bind"
            /\ UNCHANGED <<root, pruned, combinations, overflow>>
  /\ UNCHANGED <<frozen, domain, searching>>

\* Every contract looks up its binding for the chosen encodings; a missing one
\* fails the call without a diagnostic.
Bind ==
  /\ step = "bind"
  /\ step' = IF \A c \in Constraints :
                  Kind[c] \in SupportKinds => SatisfiesPartly(c, assignment, domain)
               THEN "solved" ELSE "unbound"
  /\ UNCHANGED <<frozen, domain, root, pruned, combinations, overflow,
                 searching, answer>>

Next == Prune \/ StartSearch \/ Expand \/ CloseDepth \/ GiveUp \/ Select \/ Bind

Spec == Init /\ [][Next]_vars

-----------------------------------------------------------------------------
(* The independent check of the answer (LayoutVerifier.cpp).               *)

ConversionAuthorized(c) ==
  /\ Kind[c] = "Convertible" /\ c \notin ExistingConversions
  /\ ~EncodingsEqual(assignment[Endpoints[c][1]], assignment[Endpoints[c][2]])

\* verifySolvedLayoutGraph: nothing the solver cached or assumed is reused.
VerifierAccepts ==
  /\ \A c \in conversions : ConversionAuthorized(c)
  /\ \A v \in Vars : /\ v \in DOMAIN assignment
                     /\ assignment[v] \in domain[v] \cap Verified[v]
  /\ \A c \in Constraints :
       /\ ConversionAuthorized(c) => c \in conversions
       /\ Strength[c] = "Hard" => Satisfies(c, assignment)

-----------------------------------------------------------------------------
\* Every variable stays in the range the code declares for it, and the beam
\* and the budget are never exceeded.
TypeOK ==
  /\ step \in {"prune", "search", "bind", "solved", "no-candidate", "no-assignment",
               "search-incomplete", "budget-exceeded", "cost-failed", "unbound"}
  /\ frozen \in Domains /\ domain \in Domains
  /\ root \in Roots /\ pruned \subseteq InHand
  /\ combinations \in 1..MaxUInt /\ overflow \in BOOLEAN
  /\ step = "search" =>
       \A s \in frontier \cup next :
         DOMAIN s \subseteq InHand /\ \A v \in DOMAIN s : s[v] \in domain[v]
  /\ UsedBeam /\ step = "search" => Cardinality(frontier) <= BeamWidth
  /\ expanded \in 0..MaxExpandedStates /\ discarded \in Nat
  /\ DOMAIN assignment \subseteq Vars
  /\ conversions \subseteq Hard /\ cost \in Nat /\ exhaustive \subseteq Roots

\* The assignments of one component the solver may answer with.
LegalOn(C, D) ==
  {s \in [C -> Encodings] :
     /\ \A v \in C : s[v] \in D[v] \cap Verified[v]
     /\ \A c \in ConstraintsOf(C) : Satisfies(c, s)}

\* A component whose search dropped nothing has its best legal assignment, the
\* one with the least key among those of least cost.
ExhaustiveIsOptimal ==
  \A r \in exhaustive : \A a \in LegalOn(Component[r], frozen) :
    ~Precedes(a, Restrict(assignment, Component[r]))

\* Whatever the solver answers passes the independent verifier, bindings are
\* never missing at the end, the answer was offered by the caller, and the cost
\* added up by component is that of the whole answer.
VerifierAgrees ==
  /\ step = "solved" =>
       /\ VerifierAccepts /\ cost = Bound(assignment)
       /\ \A v \in Vars : assignment[v] \in frozen[v]
  /\ step # "unbound"

\* The solver implements the promise of LayoutChoice.
Promise == INSTANCE LayoutChoice WITH
  offered <- frozen,
  outcome <- IF step \in {"prune", "search", "bind"} THEN "pending"
             ELSE IF step = "solved" THEN "chosen"
             ELSE IF step \in {"no-candidate", "no-assignment"} THEN "infeasible"
             ELSE "unknown",
  choice  <- IF step = "solved" THEN assignment ELSE <<>>,
  Legal   <- {s \in Solutions : \A v \in Vars : s[v] \in Verified[v]}

KeepsPromise == Promise!CSpec
=============================================================================
