---------------------- MODULE LayoutCandidateSolverProofs ----------------------
(***************************************************************************)
(* Theorems about LayoutCandidateSolver, for every graph, all domains and  *)
(* all budgets.                                                            *)
(***************************************************************************)
EXTENDS LayoutCandidateSolver, FiniteInduction

\* The components that have their answer, and the variables in them.
DoneRoots ==
  IF step \in {"bind", "solved", "unbound"} THEN Roots ELSE {r \in Roots : r < root}

DoneVars == UNION {Component[r] : r \in DoneRoots}

\* Assignments of some variables of C.
Partial(C) == UNION {[D -> Encodings] : D \in SUBSET C}

Agree(s, a) == \A v \in DOMAIN s : s[v] = a[v]

\* Pruning only takes what no legal assignment uses.
PruneInv ==
  /\ \A v \in Vars : domain[v] \subseteq frozen[v]
  /\ \A v \in Vars : v \in pruned \cup DoneVars => domain[v] \subseteq Verified[v]
  /\ step \notin {"prune", "no-candidate"} => pruned = InHand
  /\ \A r \in Roots : \A a \in LegalOn(Component[r], frozen) :
       \A v \in Component[r] : a[v] \in domain[v]

\* The states of a search are viable and, in one frontier, of one size; as long
\* as nothing was dropped every legal assignment extends one of them.
SearchInv ==
  step = "search" =>
    /\ frontier \cup next \subseteq Partial(InHand)
    /\ \A s \in frontier \cup next : DOMAIN s # {} => Viable(s)
    /\ \A s, t \in frontier : Cardinality(DOMAIN s) = Cardinality(DOMAIN t)
    /\ \A s, t \in next : Cardinality(DOMAIN s) = Cardinality(DOMAIN t)
    /\ \A s \in frontier, t \in next : Cardinality(DOMAIN t) = Cardinality(DOMAIN s) + 1
    /\ discarded = 0 =>
         \A a \in LegalOn(InHand, frozen) : \E s \in frontier \cup next : Agree(s, a)

\* The answer so far is the whole answer to the components that have one.
AnswerInv ==
  /\ assignment \in [DoneVars -> Encodings]
  /\ \A v \in DoneVars : assignment[v] \in domain[v]
  /\ \A c \in Hard : Endpoints[c][1] \in DoneVars => Satisfies(c, assignment)
  /\ conversions = Converted(assignment) \ ExistingConversions
  /\ cost = Bound(assignment)
  /\ exhaustive \subseteq DoneRoots /\ ExhaustiveIsOptimal
  /\ step # "unbound"

IInv == TypeOK /\ PruneInv /\ SearchInv /\ AnswerInv

-----------------------------------------------------------------------------
(* Components partition the variables.                                     *)

LEMMA GraphFacts ==
  /\ IsFiniteSet(Vars) /\ Vars # {} /\ Vars \subseteq Nat
  /\ IsFiniteSet(Encodings) /\ Encodings \subseteq Nat
  /\ \A c \in Constraints : /\ Kind[c] \in AllKinds
                            /\ Endpoints[c] \in Seq(Vars)
  /\ \A c \in Hard : 1 \in DOMAIN Endpoints[c]
  BY GraphAssumption, SolverAssumption DEF WellFormed, Hard

LEMMA LimitFacts ==
  /\ ExactCombinationLimit \in Nat \ {0} /\ BeamWidth \in Nat \ {0}
  /\ MaxExpandedStates \in Nat \ {0} /\ MaxUInt \in Nat \ {0}
  BY SolverAssumption

LEMMA ComponentHas ==
  ASSUME NEW v \in Vars
  PROVE  v \in Component[v] /\ Component[v] \subseteq Vars
  BY DEF Component

LEMMA ComponentClosed ==
  ASSUME NEW v \in Vars, NEW x \in Component[v], NEW y \in Vars, Linked(x, y)
  PROVE  y \in Component[v]
  BY DEF Component

LEMMA ComponentLeast ==
  ASSUME NEW v \in Vars, NEW S \in SUBSET Vars, v \in S,
         \A x \in S, y \in Vars : Linked(x, y) => y \in S
  PROVE  Component[v] \subseteq S
  BY DEF Component

LEMMA LinkedBothWays ==
  ASSUME NEW v, NEW w, Linked(v, w)
  PROVE  Linked(w, v)
  BY DEF Linked

LEMMA ComponentSame ==
  ASSUME NEW v \in Vars, NEW w \in Component[v]
  PROVE  Component[w] = Component[v]
<1>1. w \in Vars /\ v \in Component[v] /\ w \in Component[w]
      /\ Component[v] \subseteq Vars /\ Component[w] \subseteq Vars
  BY ComponentHas
<1>2. Component[w] \subseteq Component[v]
  BY <1>1, ComponentClosed, ComponentLeast
<1>3. CASE v \in Component[w]
  BY <1>1, <1>2, <1>3, ComponentClosed, ComponentLeast
<1>4. CASE v \notin Component[w]
  <2> DEFINE S == Component[v] \ Component[w]
  <2>1. S \in SUBSET Vars /\ v \in S
    BY <1>1, <1>4
  <2>2. ASSUME NEW x \in S, NEW y \in Vars, Linked(x, y) PROVE y \in S
    <3>1. y \in Component[v]
      BY <2>2, ComponentClosed
    <3>2. ASSUME y \in Component[w] PROVE FALSE
      <4>1. Linked(y, x) /\ x \in Vars
        BY <1>1, <2>2, LinkedBothWays
      <4> QED BY <1>1, <3>2, <4>1, <2>2, ComponentClosed
    <3> QED BY <3>1, <3>2
  <2>3. Component[v] \subseteq S
    <3> HIDE DEF S
    <3> QED BY <2>1, <2>2, ComponentLeast
  <2> QED
    BY <1>1, <2>3
<1> QED
  BY <1>3, <1>4

LEMMA RootOf ==
  ASSUME NEW v \in Vars
  PROVE  \E r \in Roots : v \in Component[r] /\ Component[r] = Component[v]
<1>1. Component[v] \in SUBSET Nat /\ Component[v] # {}
  BY ComponentHas, GraphFacts
<1>2. PICK r \in Component[v] : \A y \in Component[v] : r <= y
  BY <1>1, LeastNatural
<1>3. r \in Vars /\ Component[r] = Component[v] /\ v \in Component[v]
  BY ComponentHas, ComponentSame
<1> QED
  BY <1>2, <1>3 DEF Roots

LEMMA RootsApart ==
  ASSUME NEW r \in Roots, NEW q \in Roots, NEW v \in Component[r], v \in Component[q]
  PROVE  r = q
<1>1. r \in Vars /\ q \in Vars /\ r \in Nat /\ q \in Nat
  BY GraphFacts DEF Roots
<1>2. Component[r] = Component[q]
  BY <1>1, ComponentSame
<1>3. r \in Component[q] /\ q \in Component[r]
  BY <1>1, <1>2, ComponentHas
<1>4. r <= q /\ q <= r
  BY <1>3 DEF Roots
<1> QED
  BY <1>1, <1>4

\* All variables of a hard constraint are in one component.
LEMMA HardInOne ==
  ASSUME NEW c \in Hard, NEW v \in Vars, Endpoints[c][1] \in Component[v]
  PROVE  /\ EndpointVars(c) \subseteq Component[v]
         /\ \A i \in DOMAIN Endpoints[c] : Endpoints[c][i] \in Component[v]
<1>1. Endpoints[c] \in Seq(Vars) /\ 1 \in DOMAIN Endpoints[c]
  BY GraphFacts DEF Hard
<1>2. ASSUME NEW i \in DOMAIN Endpoints[c] PROVE Endpoints[c][i] \in Component[v]
  <2>1. Endpoints[c][i] \in EndpointVars(c) /\ Endpoints[c][i] \in Vars
    BY <1>1 DEF EndpointVars, Range
  <2>2. Linked(Endpoints[c][1], Endpoints[c][i])
    BY <2>1 DEF Linked
  <2> QED BY <2>1, <2>2, ComponentClosed
<1> QED
  BY <1>2 DEF EndpointVars, Range

\* A constraint that names a variable of a component is one of its own.
LEMMA OwnConstraints ==
  ASSUME NEW c \in Hard, NEW v \in Vars, NEW w \in EndpointVars(c), w \in Component[v]
  PROVE  Endpoints[c][1] \in Component[v]
<1>1. Endpoints[c] \in Seq(Vars) /\ 1 \in DOMAIN Endpoints[c]
  BY GraphFacts DEF Hard
<1>2. Endpoints[c][1] \in Vars
  BY <1>1
<1>3. Linked(w, Endpoints[c][1])
  BY DEF Linked
<1> QED
  BY <1>2, <1>3, ComponentClosed

-----------------------------------------------------------------------------
(* Partial assignments, their prices and their order.                      *)

LEMMA PartialFacts ==
  ASSUME NEW C \in SUBSET Vars, NEW s \in Partial(C)
  PROVE  /\ DOMAIN s \in SUBSET C /\ s \in [DOMAIN s -> Encodings]
         /\ IsFiniteSet(DOMAIN s)
         /\ \A v \in DOMAIN s : s[v] \in Nat
         /\ s \in Partial(Vars)
<1>1. PICK D \in SUBSET C : s \in [D -> Encodings]
  BY DEF Partial
<1>2. DOMAIN s = D
  BY <1>1
<1>3. IsFiniteSet(D)
  BY GraphFacts, FS_Subset
<1>4. \A v \in D : s[v] \in Nat
  BY <1>1, GraphFacts
<1> QED
  BY <1>1, <1>2, <1>3, <1>4 DEF Partial

LEMMA PartialFinite ==
  ASSUME NEW F, F \subseteq Partial(Vars)
  PROVE  IsFiniteSet(F)
<1>1. \A f \in F : \E D \in SUBSET Vars : f \in [D -> Encodings]
  BY DEF Partial
<1> QED
  BY <1>1, GraphFacts, FinitePartialFunctions

LEMMA HardFinite ==
  IsFiniteSet(Hard) /\ IsFiniteSet(Constraints)
<1>1. IsFiniteSet(Constraints)
  BY FS_Interval, GraphAssumption DEF Constraints, WellFormed
<1> QED
  BY <1>1, FS_Subset DEF Hard

ConversionPrices(s) ==
  [c \in Converted(s) |-> ConversionCost(s[Endpoints[c][1]], s[Endpoints[c][2]])]

LEMMA ConvertedFacts ==
  ASSUME NEW s \in Partial(Vars)
  PROVE  /\ IsFiniteSet(Converted(s)) /\ Converted(s) \subseteq Hard
         /\ \A c \in Converted(s) :
              /\ Endpoints[c][1] \in DOMAIN s /\ Endpoints[c][2] \in DOMAIN s
              /\ ConversionPrices(s)[c] \in Nat
<1>1. Converted(s) \subseteq Hard
  BY DEF Converted
<1>2. ASSUME NEW c \in Converted(s)
      PROVE  /\ Endpoints[c][1] \in DOMAIN s /\ Endpoints[c][2] \in DOMAIN s
             /\ ConversionPrices(s)[c] \in Nat
  <2>1. Kind[c] = "Convertible" /\ EndpointVars(c) \subseteq DOMAIN s /\ c \in Constraints
    BY DEF Converted, Hard
  <2>2. Len(Endpoints[c]) = 2 /\ Endpoints[c] \in Seq(Vars)
    BY <2>1, GraphAssumption DEF WellFormed, EqualityKinds
  <2>3. Endpoints[c][1] \in DOMAIN s /\ Endpoints[c][2] \in DOMAIN s
    BY <2>1, <2>2 DEF EndpointVars, Range
  <2>4. s[Endpoints[c][1]] \in Encodings /\ s[Endpoints[c][2]] \in Encodings
    BY <2>3, PartialFacts
  <2> QED BY <2>3, <2>4, CostAssumption DEF ConversionPrices
<1> QED
  BY <1>1, <1>2, HardFinite, FS_Subset

LEMMA BoundNat ==
  ASSUME NEW s \in Partial(Vars)
  PROVE  Bound(s) \in Nat
<1>1. StaticCost(s) \in Nat
  BY PartialFacts, CostAssumption
<1>2. SumFunctionOnSet(ConversionPrices(s), Converted(s)) \in Nat
  BY ConvertedFacts, SumNat
<1>3. Bound(s) = StaticCost(s) + SumFunctionOnSet(ConversionPrices(s), Converted(s))
  BY DEF Bound, SumFunction, ConversionPrices
<1> QED
  BY <1>1, <1>2, <1>3

LEMMA KeyIrreflexive ==
  ASSUME NEW s \in Partial(Vars)
  PROVE  ~KeyLess(s, s)
  BY PartialFacts DEF KeyLess

LEMMA KeyTransitive ==
  ASSUME NEW s \in Partial(Vars), NEW t \in Partial(Vars), NEW u \in Partial(Vars),
         KeyLess(s, t), KeyLess(t, u)
  PROVE  KeyLess(s, u)
<1>1. PICK v \in DOMAIN s : /\ v \in DOMAIN t => s[v] < t[v]
                            /\ \A x \in Vars : x < v =>
                                 /\ x \in DOMAIN s <=> x \in DOMAIN t
                                 /\ x \in DOMAIN s => s[x] = t[x]
  BY DEF KeyLess
<1>2. PICK w \in DOMAIN t : /\ w \in DOMAIN u => t[w] < u[w]
                            /\ \A x \in Vars : x < w =>
                                 /\ x \in DOMAIN t <=> x \in DOMAIN u
                                 /\ x \in DOMAIN t => t[x] = u[x]
  BY DEF KeyLess
<1>3. /\ DOMAIN s \subseteq Vars /\ DOMAIN t \subseteq Vars /\ Vars \subseteq Nat
      /\ \A x \in DOMAIN s : s[x] \in Nat
      /\ \A x \in DOMAIN t : t[x] \in Nat
      /\ \A x \in DOMAIN u : u[x] \in Nat
  BY PartialFacts, GraphFacts
<1>4. v \in Nat /\ w \in Nat /\ v \in Vars /\ w \in Vars
  BY <1>3
<1>5. CASE v < w
  BY <1>1, <1>2, <1>3, <1>4, <1>5 DEF KeyLess
<1>6. CASE v = w
  BY <1>1, <1>2, <1>3, <1>4, <1>6 DEF KeyLess
<1>7. CASE w < v
  <2>1. w \in DOMAIN s /\ s[w] = t[w]
    BY <1>1, <1>4, <1>7
  <2>2. w \in DOMAIN u => s[w] < u[w]
    BY <1>2, <2>1
  <2>3. ASSUME NEW x \in Vars, x < w
        PROVE  /\ x \in DOMAIN s <=> x \in DOMAIN u
               /\ x \in DOMAIN s => s[x] = u[x]
    <3>1. x < v
      BY <1>3, <1>4, <1>7, <2>3
    <3> QED BY <1>1, <1>2, <2>3, <3>1
  <2> QED BY <2>1, <2>2, <2>3 DEF KeyLess
<1> QED
  BY <1>4, <1>5, <1>6, <1>7

LEMMA KeyTotal ==
  ASSUME NEW s \in Partial(Vars), NEW t \in Partial(Vars), s # t
  PROVE  KeyLess(s, t) \/ KeyLess(t, s)
<1> DEFINE Differ == {v \in Vars : \/ ~(v \in DOMAIN s <=> v \in DOMAIN t)
                                   \/ v \in DOMAIN s /\ s[v] # t[v]}
<1>1. /\ DOMAIN s \subseteq Vars /\ DOMAIN t \subseteq Vars /\ Vars \subseteq Nat
      /\ s \in [DOMAIN s -> Encodings] /\ t \in [DOMAIN t -> Encodings]
      /\ \A x \in DOMAIN s : s[x] \in Nat
      /\ \A x \in DOMAIN t : t[x] \in Nat
  BY PartialFacts, GraphFacts
<1>2. Differ # {}
  <2> SUFFICES ASSUME Differ = {} PROVE FALSE
    OBVIOUS
  <2>1. DOMAIN s = DOMAIN t
    BY <1>1
  <2>2. \A x \in DOMAIN s : s[x] = t[x]
    BY <1>1
  <2> QED BY <1>1, <2>1, <2>2
<1>3. PICK v \in Differ : \A x \in Differ : v <= x
  <2>1. Differ \in SUBSET Nat
    BY <1>1
  <2> HIDE DEF Differ
  <2> QED BY <1>2, <2>1, LeastNatural
<1>4. v \in Vars /\ v \in Nat
  BY <1>1
<1>5. ASSUME NEW x \in Vars, x < v
      PROVE  /\ x \in DOMAIN s <=> x \in DOMAIN t
             /\ x \in DOMAIN s => s[x] = t[x]
             /\ x \in DOMAIN t => t[x] = s[x]
  <2>1. x \notin Differ
    <3> HIDE DEF Differ
    <3> QED BY <1>1, <1>3, <1>4, <1>5
  <2> QED BY <2>1
<1>6. CASE v \in DOMAIN s /\ v \in DOMAIN t
  <2>1. s[v] \in Nat /\ t[v] \in Nat /\ s[v] # t[v]
    BY <1>1, <1>6
  <2>2. s[v] < t[v] \/ t[v] < s[v]
    BY <2>1
  <2> HIDE DEF Differ
  <2> QED BY <1>5, <1>6, <2>2 DEF KeyLess
<1>7. CASE v \in DOMAIN s /\ v \notin DOMAIN t
  BY <1>5, <1>7 DEF KeyLess
<1>8. CASE v \notin DOMAIN s /\ v \in DOMAIN t
  BY <1>5, <1>8 DEF KeyLess
<1> QED
  BY <1>6, <1>7, <1>8

\* The order of a beam is a strict total order.
LEMMA PrecedesOrder ==
  /\ \A s \in Partial(Vars) : ~Precedes(s, s)
  /\ \A s, t, u \in Partial(Vars) : Precedes(s, t) /\ Precedes(t, u) => Precedes(s, u)
  /\ \A s, t \in Partial(Vars) : s # t => Precedes(s, t) \/ Precedes(t, s)
  /\ \A s, t \in Partial(Vars) : Precedes(s, t) => ~Precedes(t, s)
<1>1. \A s \in Partial(Vars) : ~Precedes(s, s)
  BY BoundNat, KeyIrreflexive DEF Precedes
<1>2. ASSUME NEW s \in Partial(Vars), NEW t \in Partial(Vars), NEW u \in Partial(Vars),
             Precedes(s, t), Precedes(t, u)
      PROVE  Precedes(s, u)
  <2>1. Bound(s) \in Nat /\ Bound(t) \in Nat /\ Bound(u) \in Nat
    BY BoundNat
  <2>2. KeyLess(s, t) /\ KeyLess(t, u) => KeyLess(s, u)
    BY KeyTransitive
  <2> QED BY <1>2, <2>1, <2>2 DEF Precedes
<1>3. ASSUME NEW s \in Partial(Vars), NEW t \in Partial(Vars), s # t
      PROVE  Precedes(s, t) \/ Precedes(t, s)
  <2>1. Bound(s) \in Nat /\ Bound(t) \in Nat
    BY BoundNat
  <2>2. KeyLess(s, t) \/ KeyLess(t, s)
    BY <1>3, KeyTotal
  <2> QED BY <2>1, <2>2 DEF Precedes
<1> QED
  BY <1>1, <1>2, <1>3, Zenon

LEMMA BestBounded ==
  ASSUME NEW F, F \subseteq Partial(Vars)
  PROVE  Best(F) \subseteq F /\ IsFiniteSet(Best(F)) /\ Cardinality(Best(F)) <= BeamWidth
<1> DEFINE R == {p \in Partial(Vars) \X Partial(Vars) : Precedes(p[1], p[2])}
<1>1. \A s, t \in F : <<s, t>> \in R <=> Precedes(s, t)
  OBVIOUS
<1>2. IsFiniteSet(F) /\ BeamWidth \in Nat
  BY PartialFinite, SolverAssumption
<1> HIDE DEF R
<1>3. \A x \in F : <<x, x>> \notin R
  BY <1>1, PrecedesOrder
<1>4. \A x, y, z \in F : <<x, y>> \in R /\ <<y, z>> \in R => <<x, z>> \in R
  <2>1. \A x, y, z \in F : Precedes(x, y) /\ Precedes(y, z) => Precedes(x, z)
    BY PrecedesOrder
  <2> QED BY <1>1, <2>1
<1>5. \A x, y \in F : x # y => <<x, y>> \in R \/ <<y, x>> \in R
  <2>1. \A x, y \in F : x # y => Precedes(x, y) \/ Precedes(y, x)
    BY PrecedesOrder
  <2> QED BY <1>1, <2>1
<1>6. IsFiniteSet(InitialOf(F, R, BeamWidth)) /\ Cardinality(InitialOf(F, R, BeamWidth)) <= BeamWidth
  <2>1. TotalOrderOn(F, R)
    BY <1>3, <1>4, <1>5 DEF TotalOrderOn, StrictOrderOn
  <2> QED BY <1>2, <2>1, FirstElements
<1>7. Best(F) = InitialOf(F, R, BeamWidth)
  <2>1. ASSUME NEW x \in F PROVE {y \in F : <<y, x>> \in R} = {y \in F : Precedes(y, x)}
    BY <1>1
  <2> QED BY <2>1 DEF Best, InitialOf
<1> QED
  BY <1>6, <1>7 DEF Best

-----------------------------------------------------------------------------
(* Complete and partial satisfaction.                                      *)

LEMMA SatisfiesLocal ==
  ASSUME NEW c \in Hard, NEW s, NEW t, Satisfies(c, s),
         \A i \in DOMAIN Endpoints[c] : s[Endpoints[c][i]] = t[Endpoints[c][i]]
  PROVE  Satisfies(c, t)
<1>1. 1 \in DOMAIN Endpoints[c]
  BY GraphFacts
<1>2. s[Endpoints[c][1]] = t[Endpoints[c][1]]
  BY <1>1
<1> QED
  BY <1>2 DEF Satisfies

\* What extends to a legal assignment passes every partial check.
LEMMA LegalSatisfiesPartly ==
  ASSUME NEW C, NEW D, NEW a, NEW s, NEW c \in Hard,
         \A i \in DOMAIN Endpoints[c] : Endpoints[c][i] \in C,
         \A v \in C : a[v] \in D[v],
         Satisfies(c, a), Agree(s, a)
  PROVE  SatisfiesPartly(c, s, D)
<1>1. ASSUME Kind[c] \in SupportKinds
      PROVE  \E t \in Tuples[c] :
               /\ Live(c, t, D)
               /\ \A i \in DOMAIN Endpoints[c] :
                    Endpoints[c][i] \in DOMAIN s => t[i] = s[Endpoints[c][i]]
  <2>1. PICK t \in Tuples[c] : \A i \in DOMAIN Endpoints[c] : t[i] = a[Endpoints[c][i]]
    BY <1>1 DEF Satisfies
  <2>2. Live(c, t, D)
    BY <2>1 DEF Live
  <2>3. \A i \in DOMAIN Endpoints[c] :
          Endpoints[c][i] \in DOMAIN s => t[i] = s[Endpoints[c][i]]
    BY <2>1 DEF Agree
  <2> QED BY <2>2, <2>3
<1>2. ASSUME EndpointVars(c) \subseteq DOMAIN s
      PROVE  Satisfies(c, s)
  <2>1. \A i \in DOMAIN Endpoints[c] : a[Endpoints[c][i]] = s[Endpoints[c][i]]
    BY <1>2 DEF Agree, EndpointVars, Range
  <2> QED BY <2>1, SatisfiesLocal
<1> QED
  BY <1>1, <1>2 DEF SatisfiesPartly

\* On assigned endpoints the partial check is the complete one.
LEMMA CompleteSatisfies ==
  ASSUME NEW c \in Hard, NEW s, NEW D, EndpointVars(c) \subseteq DOMAIN s,
         SatisfiesPartly(c, s, D)
  PROVE  Satisfies(c, s)
<1>1. CASE Kind[c] \notin SupportKinds
  BY <1>1 DEF SatisfiesPartly
<1>2. CASE Kind[c] \in SupportKinds
  <2>1. \A i \in DOMAIN Endpoints[c] : Endpoints[c][i] \in DOMAIN s
    BY DEF EndpointVars, Range
  <2>2. \E t \in Tuples[c] : \A i \in DOMAIN Endpoints[c] : t[i] = s[Endpoints[c][i]]
    BY <1>2, <2>1 DEF SatisfiesPartly
  <2>3. Kind[c] \notin EqualityKinds /\ Kind[c] \notin UnaryKinds \cup {"RequireEncoding"}
    BY <1>2 DEF SupportKinds, EqualityKinds, UnaryKinds
  <2> QED BY <2>2, <2>3 DEF Satisfies
<1> QED
  BY <1>1, <1>2

LEMMA ExtendFacts ==
  ASSUME NEW C \in SUBSET Vars, NEW s \in Partial(C), NEW v \in C \ DOMAIN s,
         NEW e \in Encodings
  PROVE  LET t == Extend(s, v, e)
         IN  /\ t \in Partial(C) /\ DOMAIN t = DOMAIN s \cup {v}
             /\ t[v] = e /\ \A u \in DOMAIN s : t[u] = s[u]
             /\ Cardinality(DOMAIN t) = Cardinality(DOMAIN s) + 1
<1> DEFINE t == Extend(s, v, e)
<1>1. /\ DOMAIN s \in SUBSET C /\ s \in [DOMAIN s -> Encodings] /\ IsFiniteSet(DOMAIN s)
  BY PartialFacts
<1>2. /\ DOMAIN t = DOMAIN s \cup {v} /\ t[v] = e /\ \A u \in DOMAIN s : t[u] = s[u]
      /\ t \in [DOMAIN s \cup {v} -> Encodings]
  BY <1>1 DEF Extend
<1>3. DOMAIN s \cup {v} \in SUBSET C
  BY <1>1
<1>4. t \in Partial(C)
  BY <1>2, <1>3 DEF Partial
<1>5. Cardinality(DOMAIN t) = Cardinality(DOMAIN s) + 1
  BY <1>1, <1>2, FS_AddElement
<1> QED
  BY <1>2, <1>4, <1>5

\* The empty assignment.
LEMMA EmptyAssignment ==
  /\ DOMAIN <<>> = {} /\ <<>> \in [{} -> Encodings]
  /\ \A C : <<>> \in Partial(C)
  /\ \A a : Agree(<<>>, a)
<1>1. DOMAIN <<>> = {} /\ <<>> \in [{} -> Encodings]
  OBVIOUS
<1> QED
  BY <1>1 DEF Partial, Agree

-----------------------------------------------------------------------------
(* The invariant holds initially.                                          *)

LEMMA HandFacts ==
  ASSUME root \in Roots
  PROVE  /\ InHand \in SUBSET Vars /\ InHand # {} /\ IsFiniteSet(InHand)
         /\ \A c \in ConstraintsOf(InHand) :
              /\ c \in Hard /\ EndpointVars(c) \subseteq InHand
              /\ \A i \in DOMAIN Endpoints[c] : Endpoints[c][i] \in InHand
<1>1. root \in Vars
  BY DEF Roots
<1>2. InHand \in SUBSET Vars /\ InHand # {}
  BY <1>1, ComponentHas DEF InHand
<1>3. \A c \in ConstraintsOf(InHand) :
        /\ c \in Hard /\ EndpointVars(c) \subseteq InHand
        /\ \A i \in DOMAIN Endpoints[c] : Endpoints[c][i] \in InHand
  BY <1>1, HardInOne DEF ConstraintsOf, InHand
<1> QED
  BY <1>2, <1>3, GraphFacts, FS_Subset

LEMMA DoneFacts ==
  /\ DoneRoots \subseteq Roots /\ DoneVars \in SUBSET Vars
  /\ \A v \in DoneVars : Component[v] \subseteq DoneVars
  /\ \A c \in Hard : Endpoints[c][1] \in DoneVars =>
       /\ EndpointVars(c) \subseteq DoneVars
       /\ \A i \in DOMAIN Endpoints[c] : Endpoints[c][i] \in DoneVars
  /\ \A c \in Hard : \A v \in EndpointVars(c) :
       v \in DoneVars => Endpoints[c][1] \in DoneVars
<1>1. DoneRoots \subseteq Roots /\ Roots \subseteq Vars
  BY DEF DoneRoots, Roots
<1>2. DoneVars \in SUBSET Vars
  BY <1>1, ComponentHas DEF DoneVars
<1>3. ASSUME NEW v \in DoneVars PROVE Component[v] \subseteq DoneVars
  <2>1. PICK r \in DoneRoots : v \in Component[r]
    BY DEF DoneVars
  <2>2. Component[v] = Component[r]
    BY <1>1, <2>1, ComponentSame
  <2> QED BY <2>2 DEF DoneVars
<1>4. ASSUME NEW c \in Hard, Endpoints[c][1] \in DoneVars
      PROVE  /\ EndpointVars(c) \subseteq DoneVars
             /\ \A i \in DOMAIN Endpoints[c] : Endpoints[c][i] \in DoneVars
  <2>1. PICK r \in DoneRoots : Endpoints[c][1] \in Component[r]
    BY <1>4 DEF DoneVars
  <2>2. r \in Vars
    BY <1>1
  <2>3. /\ EndpointVars(c) \subseteq Component[r]
        /\ \A i \in DOMAIN Endpoints[c] : Endpoints[c][i] \in Component[r]
    BY <2>1, <2>2, HardInOne
  <2> QED BY <2>3 DEF DoneVars
<1>5. ASSUME NEW c \in Hard, NEW v \in EndpointVars(c), v \in DoneVars
      PROVE  Endpoints[c][1] \in DoneVars
  <2>1. PICK r \in DoneRoots : v \in Component[r]
    BY <1>5 DEF DoneVars
  <2>2. r \in Vars
    BY <1>1
  <2>3. Endpoints[c][1] \in Component[r]
    BY <2>1, <2>2, OwnConstraints
  <2> QED BY <2>3 DEF DoneVars
<1> QED
  BY <1>1, <1>2, <1>3, <1>4, <1>5

LEMMA NotDoneYet ==
  ASSUME root \in Roots, step \notin {"bind", "solved", "unbound"}
  PROVE  DoneVars \cap InHand = {} /\ root \notin DoneRoots
<1>1. root \in Nat /\ \A r \in Roots : r \in Nat
  BY GraphFacts DEF Roots
<1>2. root \notin DoneRoots /\ DoneRoots \subseteq Roots
  BY <1>1 DEF DoneRoots
<1>3. ASSUME NEW v \in DoneVars, v \in InHand PROVE FALSE
  <2>1. PICK r \in DoneRoots : v \in Component[r]
    BY DEF DoneVars
  <2>2. r = root
    BY <1>2, <1>3, <2>1, RootsApart DEF InHand
  <2> QED BY <1>2, <2>2
<1> QED
  BY <1>2, <1>3

LEMMA LegalFacts ==
  ASSUME NEW r \in Roots, NEW D, NEW a \in LegalOn(Component[r], D)
  PROVE  /\ a \in [Component[r] -> Encodings]
         /\ \A v \in Component[r] : a[v] \in D[v] /\ a[v] \in Verified[v]
         /\ \A c \in ConstraintsOf(Component[r]) : Satisfies(c, a)
  BY DEF LegalOn

LEMMA EmptyIsFree ==
  Bound(<<>>) = 0 /\ Converted(<<>>) = {}
<1> DEFINE e == <<>>
<1>1. DOMAIN e = {} /\ e \in [{} -> Encodings] /\ e \in Partial(Vars)
  BY EmptyAssignment
<1>2. Restrict(e, {}) = e
  BY <1>1 DEF Restrict
<1>3. StaticCost(e) \in Nat /\ StaticCost(e) = StaticCost(Restrict(e, {})) + StaticCost(Restrict(e, {}))
  <2>1. {} \in SUBSET Vars /\ {} \cap {} = {} /\ {} \cup {} = {}
    OBVIOUS
  <2>2. \A v \in {} : Component[v] \subseteq {}
    OBVIOUS
  <2> HIDE DEF e
  <2> QED BY <1>1, <2>1, <2>2, CostAssumption
<1>4. StaticCost(e) = 0
  <2>1. \A x \in Nat : x = x + x => x = 0
    OBVIOUS
  <2> HIDE DEF e
  <2>2. StaticCost(e) = StaticCost(e) + StaticCost(e)
    BY <1>2, <1>3
  <2> QED BY <1>3, <2>1, <2>2
<1>5. Converted(e) = {}
  <2> HIDE DEF e
  <2>1. ASSUME NEW c \in Converted(e) PROVE FALSE
    <3>1. c \in Hard /\ EndpointVars(c) = {}
      BY <1>1 DEF Converted
    <3>2. 1 \in DOMAIN Endpoints[c]
      BY <3>1, GraphFacts
    <3> QED BY <3>1, <3>2 DEF EndpointVars, Range
  <2> QED BY <2>1
<1>6. SumFunctionOnSet(ConversionPrices(e), {}) = 0
  BY FS_EmptySet, SumStep
<1>7. Bound(e) = StaticCost(e) + SumFunctionOnSet(ConversionPrices(e), Converted(e))
  BY DEF Bound, SumFunction, ConversionPrices
<1> QED
  <2> HIDE DEF e
  <2>1. Bound(e) = 0 /\ Converted(e) = {}
    BY <1>4, <1>5, <1>6, <1>7
  <2> QED BY <2>1 DEF e

LEMMA InitInv ==
  ASSUME Init
  PROVE  IInv
<1> USE DEF Init
<1>1. root \in Roots /\ \A r \in Roots : r \in Nat /\ r \in Vars
  BY GraphFacts DEF Roots
<1>2. DoneRoots = {} /\ DoneVars = {}
  <2>1. DoneRoots = {}
    BY <1>1 DEF DoneRoots
  <2> QED BY <2>1 DEF DoneVars
<1>3. TypeOK
  <2>1. frozen \in Domains /\ 1 \in 1..MaxUInt /\ MaxExpandedStates \in Nat
    BY SolverAssumption
  <2>2. DOMAIN assignment = {}
    BY EmptyAssignment
  <2>3. /\ 0 \in 0..MaxExpandedStates /\ domain \in Domains /\ combinations \in 1..MaxUInt
    BY <2>1
  <2>5. overflow \in BOOLEAN /\ root \in Roots /\ pruned \subseteq InHand
    OBVIOUS
  <2>4. /\ step = "prune" /\ expanded = 0 /\ discarded \in Nat
        /\ DOMAIN assignment \subseteq Vars /\ conversions \subseteq Hard
        /\ cost \in Nat /\ exhaustive \subseteq Roots
    BY <2>2
  <2> HIDE DEF Init
  <2> QED BY <2>1, <2>3, <2>4, <2>5 DEF TypeOK
<1>4. PruneInv
  <2>1. frozen \in Domains
    BY SolverAssumption
  <2>2. \A r \in Roots : \A a \in LegalOn(Component[r], frozen) :
          \A v \in Component[r] : a[v] \in domain[v]
    BY LegalFacts
  <2> QED BY <1>2, <2>2 DEF PruneInv
<1>5. SearchInv
  BY DEF SearchInv
<1>6. AnswerInv
  <2>1. assignment \in [{} -> Encodings]
    BY EmptyAssignment
  <2>2. cost = Bound(assignment) /\ conversions = Converted(assignment) \ ExistingConversions
    BY EmptyIsFree
  <2>3. ExhaustiveIsOptimal
    BY DEF ExhaustiveIsOptimal
  <2> QED BY <1>2, <2>1, <2>2, <2>3 DEF AnswerInv
<1> QED
  BY <1>3, <1>4, <1>5, <1>6 DEF IInv

-----------------------------------------------------------------------------
(* Every action keeps the invariant.                                       *)

LEMMA AnswerKept ==
  ASSUME AnswerInv, UNCHANGED <<frozen, answer>>, DoneRoots' = DoneRoots,
         \A v \in DoneVars : domain'[v] = domain[v], step' # "unbound"
  PROVE  AnswerInv'
<1>1. DoneVars' = DoneVars
  BY DEF DoneVars
<1>2. /\ frozen' = frozen /\ assignment' = assignment /\ conversions' = conversions
      /\ cost' = cost /\ exhaustive' = exhaustive
  BY DEF answer
<1> QED
  BY <1>1, <1>2 DEF AnswerInv, ExhaustiveIsOptimal

LEMMA PruneKept ==
  ASSUME PruneInv, UNCHANGED <<frozen, domain, root, pruned>>, DoneRoots' = DoneRoots,
         step' \notin {"prune", "no-candidate"} => pruned = InHand
  PROVE  PruneInv'
<1>1. DoneVars' = DoneVars /\ InHand' = InHand
  BY DEF DoneVars, InHand
<1> QED
  BY <1>1 DEF PruneInv

LEMMA ViableKept ==
  ASSUME UNCHANGED <<domain, root>>, NEW s
  PROVE  Viable(s)' <=> Viable(s)
<1>1. InHand' = InHand /\ domain' = domain
  BY DEF InHand
<1> QED
  BY <1>1 DEF Viable

LEMMA StartSearchKeeps ==
  ASSUME IInv, StartSearch
  PROVE  IInv'
<1> USE DEF StartSearch
<1>1. /\ TypeOK /\ PruneInv /\ AnswerInv
      /\ UNCHANGED <<frozen, domain, root, pruned, combinations, overflow, answer>>
      /\ InHand' = InHand
  BY DEF IInv, InHand
<1>2. DoneRoots' = DoneRoots
  BY <1>1 DEF DoneRoots
<1> HIDE DEF StartSearch
<1>3. /\ step' = "search" /\ frontier' = {<<>>} /\ next' = {} /\ pruned = InHand
      /\ expanded' = 0 /\ discarded' = 0
  BY DEF StartSearch
<1>4. TypeOK'
  <2>1. \A s \in frontier' \cup next' : DOMAIN s = {}
    BY <1>3, EmptyAssignment
  <2>2. Cardinality(frontier') <= BeamWidth /\ 0 \in 0..MaxExpandedStates
    <3>1. Cardinality(frontier') = 1
      BY <1>3, FS_Singleton
    <3> QED BY <3>1, LimitFacts
  <2>3. assignment' = assignment /\ conversions' = conversions /\ cost' = cost
        /\ exhaustive' = exhaustive
    BY <1>1 DEF answer
  <2> QED BY <1>1, <1>3, <2>1, <2>2, <2>3 DEF TypeOK
<1>5. PruneInv'
  BY <1>1, <1>2, <1>3, PruneKept
<1>6. SearchInv'
  <2>1. frontier' \cup next' = {<<>>}
    BY <1>3
  <2>2. \A s, t \in frontier' : s = t
    BY <1>3
  <2> QED BY <1>3, <2>1, <2>2, EmptyAssignment DEF SearchInv
<1>7. AnswerInv'
  BY <1>1, <1>2, <1>3, AnswerKept
<1> QED
  BY <1>4, <1>5, <1>6, <1>7 DEF IInv

LEMMA CloseDepthKeeps ==
  ASSUME IInv, CloseDepth
  PROVE  IInv'
<1>1. /\ TypeOK /\ PruneInv /\ AnswerInv /\ SearchInv
      /\ step = "search" /\ step' = "search" /\ frontier = {} /\ next # {} /\ next' = {}
      /\ UNCHANGED <<frozen, domain, root, pruned, combinations, overflow, expanded, answer>>
      /\ InHand' = InHand
  BY DEF IInv, InHand, CloseDepth
<1>2. DoneRoots' = DoneRoots
  BY <1>1 DEF DoneRoots
<1>3. root \in Roots /\ InHand \in SUBSET Vars
  BY <1>1, HandFacts DEF TypeOK
<1>4. next \subseteq Partial(Vars) /\ next \subseteq Partial(InHand)
  BY <1>1, <1>3, PartialFacts DEF SearchInv
<1>5. IsFiniteSet(next) /\ Cardinality(next) \in Nat /\ BeamWidth \in Nat
  BY <1>4, PartialFinite, FS_CardinalityType, SolverAssumption
<1>6. /\ frontier' \subseteq next
      /\ UsedBeam => Cardinality(frontier') <= BeamWidth
      /\ discarded' \in Nat /\ (discarded' = 0 => discarded = 0 /\ frontier' = next)
  <2>1. discarded \in Nat
    BY <1>1 DEF TypeOK
  <2>2. CASE UsedBeam /\ Cardinality(next) > BeamWidth
    <3>1. frontier' = Best(next) /\ discarded' = discarded + (Cardinality(next) - BeamWidth)
      BY <2>2 DEF CloseDepth
    <3>2. Best(next) \subseteq next /\ Cardinality(Best(next)) <= BeamWidth
      BY <1>4, BestBounded
    <3> QED BY <1>5, <2>1, <2>2, <3>1, <3>2
  <2>3. CASE ~(UsedBeam /\ Cardinality(next) > BeamWidth)
    <3>1. frontier' = next /\ discarded' = discarded
      BY <2>3 DEF CloseDepth
    <3> QED BY <1>5, <2>1, <2>3, <3>1
  <2> QED BY <2>2, <2>3
<1>7. TypeOK'
  <2>1. \A s \in frontier' \cup next' :
          DOMAIN s \subseteq InHand /\ \A v \in DOMAIN s : s[v] \in domain[v]
    BY <1>1, <1>6 DEF TypeOK
  <2>2. UsedBeam' <=> UsedBeam
    BY <1>1 DEF UsedBeam
  <2>3. assignment' = assignment /\ conversions' = conversions /\ cost' = cost
        /\ exhaustive' = exhaustive
    BY <1>1 DEF answer
  <2> QED BY <1>1, <1>6, <2>1, <2>2, <2>3 DEF TypeOK
<1>8. PruneInv'
  BY <1>1, <1>2, PruneKept DEF PruneInv
<1>9. SearchInv'
  <2>1. /\ frontier' \cup next' \subseteq Partial(InHand)
        /\ \A s, t \in frontier' : Cardinality(DOMAIN s) = Cardinality(DOMAIN t)
    BY <1>1, <1>4, <1>6 DEF SearchInv
  <2>2. \A s \in frontier' \cup next' : DOMAIN s # {} => Viable(s)'
    BY <1>1, <1>6, ViableKept DEF SearchInv
  <2>3. discarded' = 0 =>
          \A a \in LegalOn(InHand, frozen) : \E s \in frontier' \cup next' : Agree(s, a)
    BY <1>1, <1>6 DEF SearchInv
  <2> QED BY <1>1, <2>1, <2>2, <2>3 DEF SearchInv
<1>10. AnswerInv'
  BY <1>1, <1>2, AnswerKept
<1> QED
  BY <1>7, <1>8, <1>9, <1>10 DEF IInv

LEMMA GiveUpKeeps ==
  ASSUME IInv, GiveUp
  PROVE  IInv'
<1>1. /\ TypeOK /\ PruneInv /\ AnswerInv
      /\ step = "search" /\ step' \in {"no-assignment", "search-incomplete"}
      /\ UNCHANGED <<frozen, domain, root, pruned, combinations, overflow, searching, answer>>
  BY DEF IInv, GiveUp, Exhausted
<1>2. DoneRoots' = DoneRoots
  BY <1>1 DEF DoneRoots
<1>3. InHand' = InHand
  BY <1>1 DEF InHand
<1>4. TypeOK'
  BY <1>1, <1>3 DEF TypeOK, searching, answer
<1>5. PruneInv'
  BY <1>1, <1>2, PruneKept DEF PruneInv
<1>6. SearchInv'
  BY <1>1 DEF SearchInv
<1>7. AnswerInv'
  BY <1>1, <1>2, AnswerKept
<1> QED
  BY <1>4, <1>5, <1>6, <1>7 DEF IInv

\* The product of positive sizes is positive and fits the counter.
LEMMA ProductFits ==
  ASSUME NEW x \in 1..MaxUInt, NEW n \in Nat \ {0}
  PROVE  Product(x, n).value \in 1..MaxUInt /\ Product(x, n).overflow \in BOOLEAN
<1>1. MaxUInt \in Nat \ {0} /\ x \in Nat
  BY LimitFacts
<1>2. CASE x > MaxUInt \div n
  BY <1>1, <1>2 DEF Product
<1>3. CASE ~(x > MaxUInt \div n)
  <2> DEFINE q == MaxUInt \div n
             m == MaxUInt % n
  <2>1. q \in Int /\ m \in 0..(n - 1) /\ MaxUInt = n * q + m
    BY <1>1
  <2>2. x <= q
    <3>1. ~(x > q)
      BY <1>3
    <3> HIDE DEF q, m
    <3> QED BY <1>1, <2>1, <3>1
  <2>3. x * n <= q * n
    <3>1. \A i, j \in Int, k \in Nat : i <= j => i * k <= j * k
      OBVIOUS
    <3> HIDE DEF q, m
    <3> QED BY <1>1, <2>1, <2>2, <3>1
  <2>4. q * n = n * q /\ n * q <= MaxUInt
    <3> HIDE DEF q, m
    <3> QED BY <1>1, <2>1
  <2>5. x * n \in Nat /\ x * n >= 1
    <3>1. \A i, j \in Nat \ {0} : i * j \in Nat /\ i * j >= 1
      OBVIOUS
    <3> QED BY <1>1, <3>1
  <2>6. x * n <= MaxUInt
    <3> HIDE DEF q, m
    <3> QED BY <1>1, <2>1, <2>3, <2>4, <2>5
  <2>7. Product(x, n) = [value |-> x * n, overflow |-> FALSE]
    BY <1>1, <1>3 DEF Product
  <2> QED BY <1>1, <2>5, <2>6, <2>7
<1> QED
  BY <1>2, <1>3

\* Pruning a variable keeps whatever a legal assignment gives it.
LEMMA KeptKeepsLegal ==
  ASSUME IInv, NEW v \in InHand, NEW a \in LegalOn(InHand, frozen)
  PROVE  a[v] \in Kept(v)
<1>1. root \in Roots /\ PruneInv
  BY DEF IInv, TypeOK
<1>2. /\ a \in [InHand -> Encodings]
      /\ \A u \in InHand : a[u] \in domain[u] /\ a[u] \in Verified[u]
      /\ \A c \in ConstraintsOf(InHand) : Satisfies(c, a)
  BY <1>1, LegalFacts DEF InHand, PruneInv
<1>3. ASSUME NEW c \in ConstraintsOf(InHand), v \in EndpointVars(c)
      PROVE  SatisfiesPartly(c, Extend(<<>>, v, a[v]), domain)
  <2> DEFINE s == Extend(<<>>, v, a[v])
  <2>1. Agree(s, a)
    BY EmptyAssignment DEF Extend, Agree
  <2>2. c \in Hard /\ \A i \in DOMAIN Endpoints[c] : Endpoints[c][i] \in InHand
    BY <1>1, HandFacts
  <2> HIDE DEF s
  <2>3. SatisfiesPartly(c, s, domain)
    BY <1>2, <2>1, <2>2, LegalSatisfiesPartly
  <2> QED BY <2>3 DEF s
<1> QED
  BY <1>2, <1>3 DEF Kept

LEMMA PruneKeeps ==
  ASSUME IInv, Prune
  PROVE  IInv'
<1>1. /\ TypeOK /\ PruneInv /\ AnswerInv /\ step = "prune"
      /\ UNCHANGED <<frozen, root, searching, answer>>
  BY DEF IInv, Prune
<1>2. PICK v \in InHand \ pruned :
        /\ domain' = [domain EXCEPT ![v] = Kept(v)]
        /\ pruned' = pruned \cup {v}
        /\ IF Kept(v) = {}
             THEN /\ step' = "no-candidate"
                  /\ UNCHANGED <<combinations, overflow>>
             ELSE LET p == Product(combinations, Cardinality(Kept(v)))
                  IN  /\ combinations' = p.value
                      /\ overflow' = (overflow \/ p.overflow)
                      /\ UNCHANGED step
  BY DEF Prune
<1>3. /\ root \in Roots /\ InHand \in SUBSET Vars /\ v \in Vars
      /\ domain \in Domains /\ frozen \in Domains
  BY <1>1, HandFacts DEF TypeOK
<1>4. InHand' = InHand /\ frozen' = frozen
  BY <1>1 DEF InHand
<1>5. step' \in {"prune", "no-candidate"}
  BY <1>1, <1>2
<1>6. DoneRoots' = DoneRoots /\ DoneVars' = DoneVars
  <2>1. DoneRoots' = DoneRoots
    BY <1>1, <1>5 DEF DoneRoots
  <2> QED BY <2>1 DEF DoneVars
<1>7. Kept(v) \subseteq domain[v] /\ Kept(v) \subseteq Verified[v] /\ Kept(v) \subseteq Encodings
  BY <1>3 DEF Kept, Domains
<1>8. /\ domain' \in Domains /\ domain'[v] = Kept(v)
      /\ \A u \in Vars : u # v => domain'[u] = domain[u]
      /\ \A u \in Vars : domain'[u] \subseteq domain[u]
  BY <1>2, <1>3, <1>7 DEF Domains
<1>9. combinations' \in 1..MaxUInt /\ overflow' \in BOOLEAN
  <2>1. combinations \in 1..MaxUInt /\ overflow \in BOOLEAN
    BY <1>1 DEF TypeOK
  <2>2. CASE Kept(v) = {}
    BY <1>2, <2>1, <2>2
  <2>3. CASE Kept(v) # {}
    <3>1. IsFiniteSet(Kept(v))
      BY <1>7, GraphFacts, FS_Subset
    <3>2. Cardinality(Kept(v)) \in Nat \ {0}
      BY <2>3, <3>1, FS_CardinalityType, FS_EmptySet
    <3> DEFINE p == Product(combinations, Cardinality(Kept(v)))
    <3>3. p.value \in 1..MaxUInt /\ p.overflow \in BOOLEAN
      BY <2>1, <3>2, ProductFits
    <3>4. combinations' = p.value /\ overflow' = (overflow \/ p.overflow)
      BY <1>2, <2>3
    <3> HIDE DEF p
    <3>5. combinations' \in 1..MaxUInt
      BY <3>3, <3>4
    <3>6. overflow' \in BOOLEAN
      BY <2>1, <3>3, <3>4, Zenon
    <3> QED BY <3>5, <3>6
  <2> QED BY <2>2, <2>3
<1>10. TypeOK'
  <2>1. pruned' \subseteq InHand
    BY <1>1, <1>2 DEF TypeOK
  <2>2. /\ expanded' = expanded /\ discarded' = discarded
        /\ assignment' = assignment /\ conversions' = conversions /\ cost' = cost
        /\ exhaustive' = exhaustive /\ root' = root
    BY <1>1 DEF answer, searching
  <2> QED BY <1>1, <1>3, <1>4, <1>5, <1>8, <1>9, <2>1, <2>2 DEF TypeOK
<1>11. PruneInv'
  <2>1. \A u \in Vars : domain'[u] \subseteq frozen[u]
    BY <1>1, <1>8 DEF PruneInv
  <2>2. ASSUME NEW u \in Vars, u \in pruned' \cup DoneVars PROVE domain'[u] \subseteq Verified[u]
    BY <1>1, <1>2, <1>7, <1>8, <2>2 DEF PruneInv
  <2>3. ASSUME NEW r \in Roots, NEW a \in LegalOn(Component[r], frozen),
               NEW u \in Component[r]
        PROVE  a[u] \in domain'[u]
    <3>1. a[u] \in domain[u] /\ u \in Vars
      BY <1>1, ComponentHas DEF PruneInv, Roots
    <3>2. CASE u = v
      <4>1. r = root
        BY <1>3, <3>2, RootsApart DEF InHand
      <4>2. a \in LegalOn(InHand, frozen)
        BY <4>1 DEF InHand
      <4> QED BY <1>8, <3>2, <4>2, KeptKeepsLegal
    <3>3. CASE u # v
      BY <1>8, <3>1, <3>3
    <3> QED BY <3>2, <3>3
  <2> QED BY <1>4, <1>5, <1>6, <2>1, <2>2, <2>3 DEF PruneInv
<1>12. SearchInv'
  BY <1>5 DEF SearchInv
<1>13. AnswerInv'
  <2>1. v \notin DoneVars /\ DoneVars \in SUBSET Vars
    BY <1>1, <1>3, NotDoneYet, DoneFacts
  <2>2. \A u \in DoneVars : domain'[u] = domain[u]
    BY <1>8, <2>1
  <2> QED BY <1>1, <1>4, <1>5, <1>6, <2>2, AnswerKept
<1> QED
  BY <1>10, <1>11, <1>12, <1>13 DEF IInv

LEMMA BindKeeps ==
  ASSUME IInv, Bind
  PROVE  IInv' /\ step' = "solved"
<1>1. /\ TypeOK /\ PruneInv /\ AnswerInv /\ step = "bind"
      /\ UNCHANGED <<frozen, domain, root, pruned, combinations, overflow, searching, answer>>
  BY DEF IInv, Bind
<1>2. DoneRoots = Roots /\ DoneVars = Vars
  <2>1. DoneRoots = Roots
    BY <1>1 DEF DoneRoots
  <2> QED BY <2>1, RootOf, DoneFacts DEF DoneVars
<1>3. ASSUME NEW c \in Constraints, Kind[c] \in SupportKinds
      PROVE  SatisfiesPartly(c, assignment, domain)
  <2>1. c \in Hard
    BY <1>3, SolverAssumption DEF Hard
  <2>2. \A i \in DOMAIN Endpoints[c] : Endpoints[c][i] \in Vars
    <3>1. Endpoints[c] \in Seq(Vars)
      BY GraphFacts
    <3> QED BY <3>1
  <2>3. Endpoints[c][1] \in Vars
    BY <2>1, <2>2, GraphFacts
  <2>4. Satisfies(c, assignment) /\ \A v \in Vars : assignment[v] \in domain[v]
    BY <1>1, <1>2, <2>1, <2>3 DEF AnswerInv
  <2>5. Agree(assignment, assignment)
    BY DEF Agree
  <2> QED BY <2>1, <2>2, <2>4, <2>5, LegalSatisfiesPartly
<1>4. step' = "solved"
  BY <1>3 DEF Bind
<1>5. DoneRoots' = DoneRoots
  BY <1>1, <1>4 DEF DoneRoots
<1>6. TypeOK'
  <2>1. InHand' = InHand
    BY <1>1 DEF InHand
  <2> QED BY <1>1, <1>4, <2>1 DEF TypeOK, searching, answer
<1>7. PruneInv'
  BY <1>1, <1>5, PruneKept DEF PruneInv
<1>8. SearchInv'
  BY <1>4 DEF SearchInv
<1>9. AnswerInv'
  BY <1>1, <1>4, <1>5, AnswerKept
<1> QED
  BY <1>4, <1>6, <1>7, <1>8, <1>9 DEF IInv

\* What is compared when a variable is chosen are numbers.
LEMMA DegreeNat ==
  \A v \in Vars : Degree[v] \in Nat
<1> SUFFICES ASSUME NEW v \in Vars PROVE Degree[v] \in Nat
  OBVIOUS
<1> DEFINE F == [c \in Hard |-> {c} \X {i \in DOMAIN Endpoints[c] : Endpoints[c][i] = v}]
<1>1. ASSUME NEW c \in Hard PROVE IsFiniteSet(F[c])
  <2>1. DOMAIN Endpoints[c] = 1..Len(Endpoints[c]) /\ Len(Endpoints[c]) \in Nat
    BY GraphFacts DEF Hard
  <2>2. IsFiniteSet(DOMAIN Endpoints[c])
    BY <2>1, FS_Interval
  <2>3. IsFiniteSet({i \in DOMAIN Endpoints[c] : Endpoints[c][i] = v}) /\ IsFiniteSet({c})
    BY <2>2, FS_Subset, FS_Singleton
  <2> QED BY <2>3, FS_Product
<1>2. IsFiniteSet(UNION {F[c] : c \in Hard})
  <2> HIDE DEF F
  <2> QED BY <1>1, HardFinite, FiniteUnion
<1>3. UNION {F[c] : c \in Hard} =
        UNION {{c} \X {i \in DOMAIN Endpoints[c] : Endpoints[c][i] = v} : c \in Hard}
  OBVIOUS
<1>4. Degree[v] = Cardinality(UNION {F[c] : c \in Hard})
  BY <1>3 DEF Degree
<1> QED
  BY <1>2, <1>4, FS_CardinalityType

LEMMA ExtensionFacts ==
  ASSUME root \in Roots, domain \in Domains, NEW s \in Partial(InHand),
         NEW v \in Unassigned(s)
  PROVE  /\ \A t \in ViableExtensions(s, v) :
              /\ Viable(t) /\ t \in Partial(InHand)
              /\ \E e \in domain[v] : t = Extend(s, v, e)
              /\ DOMAIN t = DOMAIN s \cup {v} /\ t[v] \in domain[v]
              /\ \A u \in DOMAIN s : t[u] = s[u]
              /\ Cardinality(DOMAIN t) = Cardinality(DOMAIN s) + 1
         /\ IsFiniteSet(ViableExtensions(s, v))
<1>1. InHand \in SUBSET Vars /\ v \in InHand \ DOMAIN s /\ v \in Vars
  BY HandFacts DEF Unassigned
<1>2. domain[v] \subseteq Encodings
  BY <1>1 DEF Domains
<1>3. ASSUME NEW t \in ViableExtensions(s, v)
      PROVE  /\ Viable(t) /\ t \in Partial(InHand)
             /\ \E e \in domain[v] : t = Extend(s, v, e)
             /\ DOMAIN t = DOMAIN s \cup {v} /\ t[v] \in domain[v]
             /\ \A u \in DOMAIN s : t[u] = s[u]
             /\ Cardinality(DOMAIN t) = Cardinality(DOMAIN s) + 1
  <2>1. PICK e \in domain[v] : t = Extend(s, v, e)
    BY DEF ViableExtensions
  <2>2. e \in Encodings /\ Viable(t)
    BY <1>2 DEF ViableExtensions
  <2>3. /\ t \in Partial(InHand) /\ DOMAIN t = DOMAIN s \cup {v}
        /\ t[v] = e /\ \A u \in DOMAIN s : t[u] = s[u]
        /\ Cardinality(DOMAIN t) = Cardinality(DOMAIN s) + 1
    <3> DEFINE x == Extend(s, v, e)
    <3>1. /\ x \in Partial(InHand) /\ DOMAIN x = DOMAIN s \cup {v}
          /\ x[v] = e /\ \A u \in DOMAIN s : x[u] = s[u]
          /\ Cardinality(DOMAIN x) = Cardinality(DOMAIN s) + 1
      BY <1>1, <2>2, ExtendFacts
    <3> HIDE DEF x
    <3> QED BY <2>1, <3>1 DEF x
  <2> QED BY <2>1, <2>2, <2>3
<1>4. ViableExtensions(s, v) \subseteq Partial(Vars)
  BY <1>1, <1>3, PartialFacts
<1> QED
  BY <1>3, <1>4, PartialFinite

\* One of the variables that could be probed is preferred to all others.
LEMMA OnePreferred ==
  ASSUME root \in Roots, domain \in Domains, NEW s \in Partial(InHand),
         NEW U \in SUBSET Unassigned(s), U # {}
  PROVE  \E x \in U : \A u \in U \ {x} : Preferred(s, x, u)
<1> DEFINE m(v) == Cardinality(ViableExtensions(s, v))
           R == {p \in U \X U : Preferred(s, p[1], p[2])}
<1>1. /\ \A v \in U : v \in Nat /\ v \in Vars /\ m(v) \in Nat /\ Degree[v] \in Nat
      /\ IsFiniteSet(U)
  <2>1. InHand \in SUBSET Vars /\ U \subseteq InHand
    BY HandFacts DEF Unassigned
  <2>2. \A v \in U : m(v) \in Nat
    BY ExtensionFacts, FS_CardinalityType
  <2> QED BY <2>1, <2>2, DegreeNat, GraphFacts, FS_Subset
<1>2. \A v, u \in U : Preferred(s, v, u) <=>
        \/ m(v) < m(u)
        \/ m(v) = m(u) /\ Degree[v] > Degree[u]
        \/ m(v) = m(u) /\ Degree[v] = Degree[u] /\ v < u
  BY DEF Preferred
<1>3. \A v, u \in U : <<v, u>> \in R <=> Preferred(s, v, u)
  OBVIOUS
<1>4. StrictOrderOn(U, R)
  <2> HIDE DEF R, m
  <2>1. \A x \in U : <<x, x>> \notin R
    BY <1>1, <1>2, <1>3
  <2>2. ASSUME NEW x \in U, NEW y \in U, NEW z \in U, <<x, y>> \in R, <<y, z>> \in R
        PROVE  <<x, z>> \in R
    BY <1>1, <1>2, <1>3, <2>2
  <2> QED BY <2>1, <2>2 DEF StrictOrderOn
<1>5. PICK x \in U : \A y \in U : <<y, x>> \notin R
  <2> HIDE DEF R
  <2> QED BY <1>1, <1>4, FirstElement
<1>6. ASSUME NEW u \in U, u # x PROVE Preferred(s, x, u)
  <2> HIDE DEF R, m
  <2>1. ~Preferred(s, u, x)
    BY <1>3, <1>5
  <2> QED BY <1>1, <1>2, <1>6, <2>1
<1> QED
  BY <1>6

\* A legal assignment that extends s extends one of its branches.
LEMMA LegalBranches ==
  ASSUME root \in Roots, domain \in Domains, NEW s \in Partial(InHand),
         Unassigned(s) # {}, NEW D, NEW a \in LegalOn(InHand, D), Agree(s, a),
         \A v \in InHand : a[v] \in domain[v]
  PROVE  \E t \in Branches(s) : Agree(t, a)
<1>1. /\ InHand \in SUBSET Vars
      /\ \A c \in ConstraintsOf(InHand) :
           /\ c \in Hard /\ Satisfies(c, a)
           /\ \A i \in DOMAIN Endpoints[c] : Endpoints[c][i] \in InHand
  BY HandFacts DEF LegalOn
<1>2. ASSUME NEW v \in Unassigned(s)
      PROVE  /\ Extend(s, v, a[v]) \in ViableExtensions(s, v)
             /\ Agree(Extend(s, v, a[v]), a)
  <2> DEFINE t == Extend(s, v, a[v])
  <2>1. v \in InHand /\ a[v] \in domain[v]
    BY DEF Unassigned
  <2>2. Agree(t, a)
    BY DEF Extend, Agree
  <2>3. Viable(t)
    <3> HIDE DEF t
    <3> QED BY <1>1, <2>2, LegalSatisfiesPartly DEF Viable
  <2> QED BY <2>1, <2>2, <2>3 DEF ViableExtensions
<1>3. Probed(s) = Unassigned(s)
  BY <1>2 DEF Probed
<1>4. PICK x \in Probed(s) : \A u \in Probed(s) \ {x} : Preferred(s, x, u)
  BY <1>3, OnePreferred
<1>5. Extend(s, x, a[x]) \in Branches(s)
  BY <1>2, <1>3, <1>4 DEF Branches
<1> QED
  BY <1>2, <1>3, <1>5

LEMMA AttemptsNat ==
  ASSUME root \in Roots, domain \in Domains, NEW s
  PROVE  Attempts(s) \in Nat
<1> DEFINE A == UNION {{v} \X domain[v] : v \in Probed(s)}
<1>1. Probed(s) \subseteq Vars
  BY HandFacts DEF Probed, Unassigned
<1>2. A \subseteq Vars \X Encodings
  BY <1>1 DEF Domains
<1>3. IsFiniteSet(Vars \X Encodings)
  BY GraphFacts, FS_Product
<1>4. IsFiniteSet(A)
  <2> HIDE DEF A
  <2> QED BY <1>2, <1>3, FS_Subset
<1>5. Cardinality(A) \in Nat
  <2> HIDE DEF A
  <2> QED BY <1>4, FS_CardinalityType
<1> QED
  BY <1>5 DEF Attempts

LEMMA BranchFacts ==
  ASSUME root \in Roots, domain \in Domains, NEW s \in Partial(InHand), NEW t \in Branches(s)
  PROVE  /\ Viable(t) /\ t \in Partial(InHand)
         /\ Cardinality(DOMAIN t) = Cardinality(DOMAIN s) + 1
         /\ DOMAIN t \subseteq InHand
         /\ (\A u \in DOMAIN s : s[u] \in domain[u]) => \A u \in DOMAIN t : t[u] \in domain[u]
<1>1. PICK v \in Unassigned(s) : t \in ViableExtensions(s, v)
  BY DEF Branches, Probed
<1>2. /\ Viable(t) /\ t \in Partial(InHand)
      /\ DOMAIN t = DOMAIN s \cup {v} /\ t[v] \in domain[v]
      /\ \A u \in DOMAIN s : t[u] = s[u]
      /\ Cardinality(DOMAIN t) = Cardinality(DOMAIN s) + 1
  BY <1>1, ExtensionFacts
<1>3. DOMAIN t \subseteq InHand
  BY <1>2, HandFacts, PartialFacts
<1> QED
  BY <1>2, <1>3

LEMMA ExpandKeeps ==
  ASSUME IInv, Expand
  PROVE  IInv'
<1>1. /\ TypeOK /\ PruneInv /\ AnswerInv /\ SearchInv /\ step = "search"
      /\ UNCHANGED <<frozen, domain, root, pruned, combinations, overflow, discarded, answer>>
      /\ InHand' = InHand
  BY DEF IInv, Expand, InHand
<1>2. PICK s \in frontier :
        /\ Unassigned(s) # {}
        /\ IF expanded + Attempts(s) > MaxExpandedStates
             THEN /\ step' = "budget-exceeded"
                  /\ expanded' = MaxExpandedStates
                  /\ UNCHANGED <<frontier, next>>
             ELSE /\ expanded' = expanded + Attempts(s)
                  /\ frontier' = frontier \ {s}
                  /\ next' = next \cup Branches(s)
                  /\ step' = IF \A t \in Branches(s) : Evaluable(t)
                               THEN step ELSE "cost-failed"
  BY DEF Expand
<1>3. step' \in {"search", "budget-exceeded", "cost-failed"}
  BY <1>1, <1>2
<1>4. DoneRoots' = DoneRoots
  BY <1>1, <1>3 DEF DoneRoots
<1>5. root \in Roots /\ InHand \in SUBSET Vars /\ domain \in Domains
  BY <1>1, HandFacts DEF TypeOK
<1>6. expanded' \in 0..MaxExpandedStates
  <2>1. Attempts(s) \in Nat /\ MaxExpandedStates \in Nat
    BY <1>5, AttemptsNat, LimitFacts
  <2>2. expanded \in 0..MaxExpandedStates
    BY <1>1 DEF TypeOK
  <2> QED BY <1>2, <2>1, <2>2
<1>7. /\ frontier \cup next \subseteq Partial(InHand)
      /\ s \in Partial(InHand) /\ \A u \in DOMAIN s : s[u] \in domain[u]
  BY <1>1 DEF SearchInv, TypeOK
<1>8. ASSUME step' = "search"
      PROVE  frontier' = frontier \ {s} /\ next' = next \cup Branches(s)
  BY <1>2, <1>8
<1>9. TypeOK'
  <2>1. ASSUME step' = "search"
        PROVE  /\ \A t \in frontier' \cup next' :
                    DOMAIN t \subseteq InHand /\ \A u \in DOMAIN t : t[u] \in domain[u]
               /\ UsedBeam => Cardinality(frontier') <= BeamWidth
    <3>1. \A t \in Branches(s) :
            DOMAIN t \subseteq InHand /\ \A u \in DOMAIN t : t[u] \in domain[u]
      BY <1>5, <1>7, BranchFacts
    <3>2. \A t \in frontier \cup next :
            DOMAIN t \subseteq InHand /\ \A u \in DOMAIN t : t[u] \in domain[u]
      BY <1>1 DEF TypeOK
    <3>3. IsFiniteSet(frontier)
      <4>1. frontier \subseteq Partial(Vars)
        BY <1>5, <1>7, PartialFacts
      <4> QED BY <4>1, PartialFinite
    <3>4. Cardinality(frontier \ {s}) <= Cardinality(frontier)
          /\ Cardinality(frontier) \in Nat /\ Cardinality(frontier \ {s}) \in Nat
      BY <3>3, FS_Subset, FS_CardinalityType
    <3>5. UsedBeam => Cardinality(frontier) <= BeamWidth
      BY <1>1 DEF TypeOK
    <3>6. UsedBeam => Cardinality(frontier \ {s}) <= BeamWidth
      BY <3>4, <3>5, LimitFacts
    <3> QED BY <1>8, <2>1, <3>1, <3>2, <3>6
  <2>2. UsedBeam' <=> UsedBeam
    BY <1>1 DEF UsedBeam
  <2>3. assignment' = assignment /\ conversions' = conversions /\ cost' = cost
        /\ exhaustive' = exhaustive
    BY <1>1 DEF answer
  <2> QED BY <1>1, <1>3, <1>6, <2>1, <2>2, <2>3 DEF TypeOK
<1>10. PruneInv'
  BY <1>1, <1>4, PruneKept DEF PruneInv
<1>11. SearchInv'
  <2> SUFFICES ASSUME step' = "search" PROVE SearchInv'
    BY DEF SearchInv
  <2>1. /\ frontier' = frontier \ {s} /\ next' = next \cup Branches(s)
        /\ frontier' \cup next' \subseteq frontier \cup next \cup Branches(s)
    BY <1>8
  <2>2. \A t \in Branches(s) : /\ Viable(t) /\ t \in Partial(InHand)
                               /\ Cardinality(DOMAIN t) = Cardinality(DOMAIN s) + 1
    BY <1>5, <1>7, BranchFacts
  <2>3. frontier' \cup next' \subseteq Partial(InHand)
    BY <1>7, <2>1, <2>2
  <2>4. \A t \in frontier' \cup next' : DOMAIN t # {} => Viable(t)'
    <3>1. \A t \in frontier' \cup next' : DOMAIN t # {} => Viable(t)
      BY <1>1, <2>1, <2>2 DEF SearchInv
    <3> QED BY <1>1, <3>1, ViableKept
  <2>5. /\ \A t, u \in frontier' : Cardinality(DOMAIN t) = Cardinality(DOMAIN u)
        /\ \A t, u \in next' : Cardinality(DOMAIN t) = Cardinality(DOMAIN u)
        /\ \A t \in frontier', u \in next' : Cardinality(DOMAIN u) = Cardinality(DOMAIN t) + 1
    <3>1. /\ \A t, u \in frontier : Cardinality(DOMAIN t) = Cardinality(DOMAIN u)
          /\ \A t, u \in next : Cardinality(DOMAIN t) = Cardinality(DOMAIN u)
          /\ \A t \in frontier, u \in next : Cardinality(DOMAIN u) = Cardinality(DOMAIN t) + 1
      BY <1>1 DEF SearchInv
    <3>2. \A u \in next' : Cardinality(DOMAIN u) = Cardinality(DOMAIN s) + 1
      BY <2>1, <2>2, <3>1
    <3>3. \A t \in frontier : Cardinality(DOMAIN t) = Cardinality(DOMAIN s)
      BY <3>1
    <3> QED BY <2>1, <3>2, <3>3
  <2>6. ASSUME discarded = 0, NEW a \in LegalOn(InHand, frozen)
        PROVE  \E t \in frontier' \cup next' : Agree(t, a)
    <3>1. PICK t \in frontier \cup next : Agree(t, a)
      BY <1>1, <2>6 DEF SearchInv
    <3>2. CASE t = s
      <4>1. \A v \in InHand : a[v] \in domain[v]
        BY <1>1, <1>5 DEF PruneInv, InHand
      <4>2. \E u \in Branches(s) : Agree(u, a)
        BY <1>2, <1>5, <1>7, <3>1, <3>2, <4>1, LegalBranches
      <4> QED BY <2>1, <4>2
    <3>3. CASE t # s
      BY <2>1, <3>1, <3>3
    <3> QED BY <3>2, <3>3
  <2> QED BY <1>1, <2>3, <2>4, <2>5, <2>6 DEF SearchInv
<1>12. AnswerInv'
  BY <1>1, <1>3, <1>4, AnswerKept
<1> QED
  BY <1>9, <1>10, <1>11, <1>12 DEF IInv

-----------------------------------------------------------------------------
(* Answers of components add up.                                           *)

LEMMA RestrictFacts ==
  ASSUME NEW S, NEW T, NEW f \in [S \cup T -> Encodings]
  PROVE  /\ Restrict(f, S) \in [S -> Encodings]
         /\ \A v \in S : Restrict(f, S)[v] = f[v]
  BY DEF Restrict

LEMMA ConvertedSplits ==
  ASSUME NEW S \in SUBSET Vars, NEW T \in SUBSET Vars, S \cap T = {},
         \A v \in S : Component[v] \subseteq S,
         NEW f \in [S \cup T -> Encodings],
         NEW g \in [S -> Encodings], \A v \in S : g[v] = f[v],
         NEW h \in [T -> Encodings], \A v \in T : h[v] = f[v]
  PROVE  /\ Converted(f) = Converted(g) \cup Converted(h)
         /\ Converted(g) \cap Converted(h) = {}
         /\ \A c \in Converted(g) : ConversionPrices(f)[c] = ConversionPrices(g)[c]
         /\ \A c \in Converted(h) : ConversionPrices(f)[c] = ConversionPrices(h)[c]
<1>1. DOMAIN f = S \cup T /\ DOMAIN g = S /\ DOMAIN h = T
  OBVIOUS
<1>2. f \in Partial(Vars) /\ g \in Partial(Vars) /\ h \in Partial(Vars)
  BY DEF Partial
<1>3. ASSUME NEW c \in Hard, EndpointVars(c) \subseteq S \cup T
      PROVE  EndpointVars(c) \subseteq S \/ EndpointVars(c) \subseteq T
  <2> DEFINE v == Endpoints[c][1]
  <2>1. v \in EndpointVars(c) /\ v \in S \cup T
    BY <1>3, GraphFacts DEF EndpointVars, Range
  <2>2. CASE v \in S
    <3>1. v \in Component[v]
      BY <2>2, ComponentHas
    <3>2. EndpointVars(c) \subseteq Component[v]
      BY <2>2, <3>1, HardInOne
    <3> QED BY <2>2, <3>2
  <2>3. CASE v \in T
    <3> SUFFICES ASSUME NEW w \in EndpointVars(c), w \in S PROVE FALSE
      BY <1>3
    <3>1. v \in Component[w]
      BY ComponentHas, OwnConstraints
    <3> QED BY <2>3, <3>1
  <2> QED BY <2>1, <2>2, <2>3
<1>4. ASSUME NEW c \in Hard
      PROVE  ~(EndpointVars(c) \subseteq S /\ EndpointVars(c) \subseteq T)
  <2>1. Endpoints[c][1] \in EndpointVars(c)
    BY GraphFacts DEF EndpointVars, Range
  <2> QED BY <2>1
<1>5. ASSUME NEW c \in Hard, Kind[c] = "Convertible"
      PROVE  /\ EndpointVars(c) = {Endpoints[c][1], Endpoints[c][2]}
             /\ EndpointVars(c) \subseteq S => c \in Converted(f) <=> c \in Converted(g)
             /\ EndpointVars(c) \subseteq T => c \in Converted(f) <=> c \in Converted(h)
  <2>1. Len(Endpoints[c]) = 2 /\ Endpoints[c] \in Seq(Vars)
    BY <1>5, GraphAssumption DEF WellFormed, EqualityKinds, Hard
  <2>2. EndpointVars(c) = {Endpoints[c][1], Endpoints[c][2]}
    BY <2>1 DEF EndpointVars, Range
  <2> QED BY <1>1, <1>5, <2>2 DEF Converted
<1>6. \A c \in Converted(f) \cup Converted(g) \cup Converted(h) :
        c \in Hard /\ Kind[c] = "Convertible"
  BY DEF Converted
<1>7. /\ \A c \in Converted(f) : EndpointVars(c) \subseteq S \cup T
      /\ \A c \in Converted(g) : EndpointVars(c) \subseteq S
      /\ \A c \in Converted(h) : EndpointVars(c) \subseteq T
  BY <1>1 DEF Converted
<1>8. Converted(f) = Converted(g) \cup Converted(h)
  BY <1>3, <1>5, <1>6, <1>7
<1>9. Converted(g) \cap Converted(h) = {}
  BY <1>4, <1>6, <1>7
<1>10. ASSUME NEW c \in Converted(g)
       PROVE  ConversionPrices(f)[c] = ConversionPrices(g)[c]
  <2>1. Endpoints[c][1] \in S /\ Endpoints[c][2] \in S /\ c \in Converted(f)
    BY <1>1, <1>2, <1>8, ConvertedFacts
  <2>2. /\ ConversionPrices(f)[c] = ConversionCost(f[Endpoints[c][1]], f[Endpoints[c][2]])
        /\ ConversionPrices(g)[c] = ConversionCost(g[Endpoints[c][1]], g[Endpoints[c][2]])
    BY <2>1 DEF ConversionPrices
  <2>3. f[Endpoints[c][1]] = g[Endpoints[c][1]] /\ f[Endpoints[c][2]] = g[Endpoints[c][2]]
    BY <2>1
  <2> QED BY <2>2, <2>3
<1>11. ASSUME NEW c \in Converted(h)
       PROVE  ConversionPrices(f)[c] = ConversionPrices(h)[c]
  <2>1. Endpoints[c][1] \in T /\ Endpoints[c][2] \in T /\ c \in Converted(f)
    BY <1>1, <1>2, <1>8, ConvertedFacts
  <2>2. /\ ConversionPrices(f)[c] = ConversionCost(f[Endpoints[c][1]], f[Endpoints[c][2]])
        /\ ConversionPrices(h)[c] = ConversionCost(h[Endpoints[c][1]], h[Endpoints[c][2]])
    BY <2>1 DEF ConversionPrices
  <2>3. f[Endpoints[c][1]] = h[Endpoints[c][1]] /\ f[Endpoints[c][2]] = h[Endpoints[c][2]]
    BY <2>1
  <2> QED BY <2>2, <2>3
<1> QED
  BY <1>8, <1>9, <1>10, <1>11

\* The price of an answer is the price of its parts, conversions included.
LEMMA BoundSplits ==
  ASSUME NEW S \in SUBSET Vars, NEW T \in SUBSET Vars, S \cap T = {},
         \A v \in S : Component[v] \subseteq S,
         NEW f \in [S \cup T -> Encodings],
         NEW g \in [S -> Encodings], \A v \in S : g[v] = f[v],
         NEW h \in [T -> Encodings], \A v \in T : h[v] = f[v]
  PROVE  Bound(f) = Bound(g) + Bound(h)
<1> DEFINE p(s) == ConversionPrices(s)
           Sum(s, C) == SumFunctionOnSet(p(s), C)
<1>1. f \in Partial(Vars) /\ g \in Partial(Vars) /\ h \in Partial(Vars)
  BY DEF Partial
<1>2. /\ Converted(f) = Converted(g) \cup Converted(h)
      /\ Converted(g) \cap Converted(h) = {}
      /\ \A c \in Converted(g) : p(f)[c] = p(g)[c]
      /\ \A c \in Converted(h) : p(f)[c] = p(h)[c]
  BY ConvertedSplits
<1>3. /\ \A s \in Partial(Vars) :
           /\ IsFiniteSet(Converted(s))
           /\ \A c \in Converted(s) : p(s)[c] \in Int
           /\ Sum(s, Converted(s)) \in Int
  <2>1. \A s \in Partial(Vars) : /\ IsFiniteSet(Converted(s))
                                 /\ \A c \in Converted(s) : p(s)[c] \in Int
    BY ConvertedFacts
  <2> HIDE DEF p
  <2> QED BY <2>1, SumStep
<1>4. Sum(f, Converted(f)) = Sum(f, Converted(g)) + Sum(f, Converted(h))
  <2>1. IsFiniteSet(Converted(g)) /\ IsFiniteSet(Converted(h))
    BY <1>1, <1>3
  <2>2. \A c \in Converted(g) \cup Converted(h) : p(f)[c] \in Int
    <3> HIDE DEF p
    <3> QED BY <1>1, <1>2, <1>3
  <2>3. Sum(f, Converted(g) \cup Converted(h)) = Sum(f, Converted(g)) + Sum(f, Converted(h))
    <3> HIDE DEF p
    <3> QED BY <1>2, <2>1, <2>2, SumUnion
  <2> QED
    <3> HIDE DEF Sum, p
    <3> QED BY <1>2, <2>3
<1>5. Sum(g, Converted(g)) = Sum(f, Converted(g)) /\ Sum(h, Converted(h)) = Sum(f, Converted(h))
  <2>1. IsFiniteSet(Converted(g)) /\ IsFiniteSet(Converted(h))
    BY <1>1, <1>3
  <2>2. \A c \in Converted(g) : p(g)[c] \in Int /\ p(f)[c] = p(g)[c]
    <3> HIDE DEF p
    <3> QED BY <1>1, <1>2, <1>3
  <2>3. \A c \in Converted(h) : p(h)[c] \in Int /\ p(f)[c] = p(h)[c]
    <3> HIDE DEF p
    <3> QED BY <1>1, <1>2, <1>3
  <2> HIDE DEF p
  <2> QED BY <2>1, <2>2, <2>3, SumAgree
<1>6. /\ StaticCost(f) = StaticCost(g) + StaticCost(h)
      /\ StaticCost(g) \in Nat /\ StaticCost(h) \in Nat
  <2>1. StaticCost(f) = StaticCost(Restrict(f, S)) + StaticCost(Restrict(f, T))
    BY CostAssumption
  <2>2. Restrict(f, S) = g /\ Restrict(f, T) = h
    BY DEF Restrict
  <2>3. StaticCost(g) \in Nat /\ StaticCost(h) \in Nat
    BY CostAssumption
  <2> QED BY <2>1, <2>2, <2>3
<1>7. \A s \in Partial(Vars) : Bound(s) = StaticCost(s) + Sum(s, Converted(s))
  BY DEF Bound, SumFunction, ConversionPrices
<1> QED
  <2> HIDE DEF Sum, p
  <2>1. /\ Bound(f) = StaticCost(f) + Sum(f, Converted(f))
        /\ Bound(g) = StaticCost(g) + Sum(g, Converted(g))
        /\ Bound(h) = StaticCost(h) + Sum(h, Converted(h))
    BY <1>1, <1>7
  <2>2. Sum(g, Converted(g)) \in Int /\ Sum(h, Converted(h)) \in Int
    BY <1>1, <1>3
  <2> QED BY <1>4, <1>5, <1>6, <2>1, <2>2

-----------------------------------------------------------------------------
(* The answer to a component.                                              *)

LEMMA SelectFacts ==
  ASSUME IInv, step = "search", NEW s \in frontier, Unassigned(s) = {}
  PROVE  /\ s \in [InHand -> Encodings]
         /\ \A v \in InHand : s[v] \in domain[v]
         /\ \A c \in ConstraintsOf(InHand) : Satisfies(c, s)
         /\ discarded = 0 => LegalOn(InHand, frozen) \subseteq frontier
<1>1. TypeOK /\ PruneInv /\ SearchInv /\ root \in Roots
  BY DEF IInv, TypeOK
<1>2. InHand \in SUBSET Vars /\ InHand # {} /\ IsFiniteSet(InHand)
  BY <1>1, HandFacts
<1>3. frontier \cup next \subseteq Partial(InHand)
  BY <1>1 DEF SearchInv
<1>4. \A t \in frontier \cup next : DOMAIN t \in SUBSET InHand /\ t \in [DOMAIN t -> Encodings]
  BY <1>2, <1>3, PartialFacts
<1>5. DOMAIN s = InHand /\ s \in [InHand -> Encodings]
  <2>1. DOMAIN s = InHand
    BY <1>4 DEF Unassigned
  <2>2. s \in [DOMAIN s -> Encodings]
    BY <1>4
  <2> QED BY <2>1, <2>2
<1>6. Viable(s) /\ \A v \in InHand : s[v] \in domain[v]
  <2>1. Viable(s)
    BY <1>1, <1>2, <1>5 DEF SearchInv
  <2>2. \A v \in DOMAIN s : s[v] \in domain[v]
    BY <1>1 DEF TypeOK
  <2> QED BY <1>5, <2>1, <2>2
<1>7. ASSUME NEW c \in ConstraintsOf(InHand) PROVE Satisfies(c, s)
  <2>1. c \in Hard /\ EndpointVars(c) \subseteq DOMAIN s
    BY <1>1, <1>5, HandFacts
  <2>2. SatisfiesPartly(c, s, domain)
    BY <1>6 DEF Viable
  <2> QED BY <2>1, <2>2, CompleteSatisfies
<1>8. ASSUME discarded = 0, NEW a \in LegalOn(InHand, frozen) PROVE a \in frontier
  <2>1. PICK t \in frontier \cup next : Agree(t, a)
    BY <1>1, <1>8 DEF SearchInv
  <2>2. /\ Cardinality(InHand) \in Nat /\ Cardinality(DOMAIN t) \in Nat
        /\ Cardinality(DOMAIN t) <= Cardinality(InHand)
    <3>1. IsFiniteSet(DOMAIN t)
      BY <1>2, <1>4, FS_Subset
    <3> QED BY <1>2, <1>4, <3>1, FS_Subset, FS_CardinalityType
  <2>3. t \in frontier
    <3>1. ASSUME t \in next PROVE FALSE
      <4>1. Cardinality(DOMAIN t) = Cardinality(InHand) + 1
        BY <1>1, <1>5, <3>1 DEF SearchInv
      <4> QED BY <2>2, <4>1
    <3> QED BY <2>1, <3>1
  <2>4. DOMAIN t = InHand
    <3>1. Cardinality(DOMAIN t) = Cardinality(InHand)
      BY <1>1, <1>5, <2>3 DEF SearchInv
    <3> QED BY <1>2, <1>4, <3>1, FS_Subset
  <2>5. a \in [InHand -> Encodings]
    BY DEF LegalOn
  <2>6. t \in [InHand -> Encodings]
    BY <1>4, <2>3, <2>4
  <2>7. t = a
    BY <2>1, <2>4, <2>5, <2>6 DEF Agree
  <2> QED BY <2>3, <2>7
<1> QED
  BY <1>5, <1>6, <1>7, <1>8

LEMMA SelectKeeps ==
  ASSUME IInv, Select
  PROVE  IInv'
<1>1. /\ TypeOK /\ PruneInv /\ SearchInv /\ AnswerInv /\ step = "search"
      /\ frozen' = frozen /\ domain' = domain /\ searching' = searching
      /\ exhaustive' = IF discarded = 0 THEN exhaustive \cup {root} ELSE exhaustive
      /\ IF LaterRoots # {}
           THEN /\ root' \in LaterRoots /\ \A r \in LaterRoots : root' <= r
                /\ step' = "prune"
                /\ pruned' = {} /\ combinations' = 1 /\ overflow' = FALSE
           ELSE /\ step' = "bind"
                /\ UNCHANGED <<root, pruned, combinations, overflow>>
  BY DEF IInv, Select
<1>2. PICK s \in frontier :
        /\ IsFirst(s, frontier) /\ Unassigned(s) = {}
        /\ assignment' = [v \in DOMAIN assignment \cup InHand |->
                            IF v \in InHand THEN s[v] ELSE assignment[v]]
        /\ conversions' = conversions \cup NewConversions(s)
        /\ cost' = TotalCost(s)
  BY DEF Select
<1>3. /\ root \in Roots /\ InHand \in SUBSET Vars /\ \A r \in Roots : r \in Nat /\ r \in Vars
  BY <1>1, HandFacts, GraphFacts DEF TypeOK, Roots
<1>4. step' \in {"prune", "bind"} /\ root' \in Roots /\ (step' = "bind" => root' = root)
  BY <1>1, <1>3 DEF LaterRoots
<1>5. DoneVars \cap InHand = {} /\ root \notin DoneRoots
  BY <1>1, <1>3, NotDoneYet
<1>6. DoneRoots' = DoneRoots \cup {root}
  <2>1. DoneRoots = {r \in Roots : r < root}
    BY <1>1 DEF DoneRoots
  <2>2. CASE LaterRoots # {}
    <3>1. DoneRoots' = {r \in Roots : r < root'}
      BY <1>1, <2>2 DEF DoneRoots
    <3>2. root' \in LaterRoots /\ \A r \in LaterRoots : root' <= r
      BY <1>1, <2>2
    <3>3. ASSUME NEW r \in Roots PROVE r < root' <=> (r < root \/ r = root)
      <4>1. r \in Nat /\ root \in Nat /\ root' \in Nat /\ root' > root
        BY <1>3, <3>2 DEF LaterRoots
      <4>2. r > root => root' <= r
        BY <3>2 DEF LaterRoots
      <4> QED BY <4>1, <4>2
    <3> QED BY <1>3, <2>1, <3>1, <3>3
  <2>3. CASE LaterRoots = {}
    <3>1. DoneRoots' = Roots
      BY <1>1, <2>3 DEF DoneRoots
    <3>2. \A r \in Roots : r < root \/ r = root
      BY <1>3, <2>3 DEF LaterRoots
    <3> QED BY <1>3, <2>1, <3>1, <3>2
  <2> QED BY <2>2, <2>3
<1>7. DoneVars' = DoneVars \cup InHand
  BY <1>6 DEF DoneVars, InHand
<1>8. /\ s \in [InHand -> Encodings]
      /\ \A v \in InHand : s[v] \in domain[v]
      /\ \A c \in ConstraintsOf(InHand) : Satisfies(c, s)
      /\ discarded = 0 => LegalOn(InHand, frozen) \subseteq frontier
  BY <1>1, <1>2, SelectFacts
<1>9. /\ assignment \in [DoneVars -> Encodings]
      /\ \A v \in DoneVars : assignment[v] \in domain[v]
      /\ \A c \in Hard : Endpoints[c][1] \in DoneVars => Satisfies(c, assignment)
      /\ conversions = Converted(assignment) \ ExistingConversions
      /\ cost = Bound(assignment)
      /\ exhaustive \subseteq DoneRoots /\ ExhaustiveIsOptimal
  BY <1>1 DEF AnswerInv
<1>10. /\ assignment' \in [DoneVars \cup InHand -> Encodings]
       /\ \A v \in InHand : assignment'[v] = s[v]
       /\ \A v \in DoneVars : assignment'[v] = assignment[v]
  <2>1. DOMAIN assignment = DoneVars
    BY <1>9
  <2> QED BY <1>2, <1>5, <1>8, <1>9, <2>1
<1>11. /\ DoneVars \in SUBSET Vars /\ DoneRoots \subseteq Roots
       /\ \A v \in DoneVars : Component[v] \subseteq DoneVars
  BY DoneFacts
<1>12. /\ Converted(assignment') = Converted(assignment) \cup Converted(s)
       /\ Bound(assignment') = Bound(assignment) + Bound(s)
  <2> DEFINE f == assignment'
  <2>1. f \in [DoneVars \cup InHand -> Encodings]
    BY <1>10
  <2>2. (\A v \in InHand : s[v] = f[v]) /\ (\A v \in DoneVars : assignment[v] = f[v])
    BY <1>10
  <2> HIDE DEF f
  <2>3. Converted(f) = Converted(assignment) \cup Converted(s)
    BY <1>3, <1>5, <1>8, <1>9, <1>11, <2>1, <2>2, ConvertedSplits
  <2>4. Bound(f) = Bound(assignment) + Bound(s)
    BY <1>3, <1>5, <1>8, <1>9, <1>11, <2>1, <2>2, BoundSplits
  <2> QED BY <2>3, <2>4 DEF f
<1>13. cost' = Bound(assignment') /\ cost' \in Nat
  <2>1. assignment \in Partial(Vars) /\ s \in Partial(Vars)
    BY <1>3, <1>8, <1>9, <1>11 DEF Partial
  <2>2. Bound(assignment) \in Nat /\ Bound(s) \in Nat
    BY <2>1, BoundNat
  <2> QED BY <1>2, <1>9, <1>12, <2>2 DEF TotalCost
<1>14. conversions' = Converted(assignment') \ ExistingConversions
  BY <1>2, <1>9, <1>12 DEF NewConversions
<1>15. TypeOK'
  <2>1. conversions' \subseteq Hard
    BY <1>14 DEF Converted
  <2>2. exhaustive' \subseteq Roots
    BY <1>1, <1>3 DEF TypeOK
  <2>3. DOMAIN assignment' \subseteq Vars
    BY <1>3, <1>10, <1>11
  <2>4. pruned' \subseteq InHand' /\ combinations' \in 1..MaxUInt /\ overflow' \in BOOLEAN
    <3>1. pruned \subseteq InHand /\ combinations \in 1..MaxUInt /\ overflow \in BOOLEAN
      BY <1>1 DEF TypeOK
    <3>2. CASE LaterRoots # {}
      <4>1. pruned' = {} /\ combinations' = 1 /\ overflow' = FALSE
        BY <1>1, <3>2
      <4>2. 1 \in 1..MaxUInt
        BY LimitFacts
      <4> QED BY <4>1, <4>2
    <3>3. CASE LaterRoots = {}
      <4>1. UNCHANGED <<root, pruned, combinations, overflow>>
        BY <1>1, <3>3
      <4> QED BY <3>1, <4>1 DEF InHand
    <3> QED BY <3>2, <3>3
  <2>5. expanded' = expanded /\ discarded' = discarded
    BY <1>1 DEF searching
  <2> QED BY <1>1, <1>4, <1>13, <2>1, <2>2, <2>3, <2>4, <2>5 DEF TypeOK
<1>16. PruneInv'
  <2>1. pruned = InHand
    BY <1>1 DEF PruneInv
  <2>2. \A v \in Vars : v \in pruned' \cup DoneVars' => domain'[v] \subseteq Verified[v]
    <3>1. pruned' \subseteq InHand
      BY <1>1, <2>1
    <3> QED BY <1>1, <1>7, <2>1, <3>1 DEF PruneInv
  <2>3. step' \notin {"prune", "no-candidate"} => pruned' = InHand'
    BY <1>1, <2>1 DEF InHand
  <2> QED BY <1>1, <2>2, <2>3 DEF PruneInv
<1>17. SearchInv'
  BY <1>4 DEF SearchInv
<1>18. AnswerInv'
  <2>1. \A v \in DoneVars' : assignment'[v] \in domain'[v]
    BY <1>1, <1>7, <1>8, <1>9, <1>10
  <2>2. ASSUME NEW c \in Hard, Endpoints[c][1] \in DoneVars' PROVE Satisfies(c, assignment')
    <3>1. CASE Endpoints[c][1] \in DoneVars
      <4>1. \A i \in DOMAIN Endpoints[c] : Endpoints[c][i] \in DoneVars
        BY <3>1, DoneFacts
      <4>2. Satisfies(c, assignment)
        BY <1>9, <3>1
      <4>3. \A i \in DOMAIN Endpoints[c] : assignment[Endpoints[c][i]] = assignment'[Endpoints[c][i]]
        BY <1>10, <4>1
      <4> QED BY <4>2, <4>3, SatisfiesLocal
    <3>2. CASE Endpoints[c][1] \in InHand
      <4>1. c \in ConstraintsOf(InHand)
        BY <3>2 DEF ConstraintsOf
      <4>2. \A i \in DOMAIN Endpoints[c] : Endpoints[c][i] \in InHand
        BY <1>3, <4>1, HandFacts
      <4>3. Satisfies(c, s)
        BY <1>8, <4>1
      <4>4. \A i \in DOMAIN Endpoints[c] : s[Endpoints[c][i]] = assignment'[Endpoints[c][i]]
        BY <1>10, <4>2
      <4> QED BY <4>3, <4>4, SatisfiesLocal
    <3> QED BY <1>7, <2>2, <3>1, <3>2
  <2>3. exhaustive' \subseteq DoneRoots'
    BY <1>1, <1>6, <1>9
  <2>4. ASSUME NEW r \in exhaustive', NEW a \in LegalOn(Component[r], frozen)
        PROVE  ~Precedes(a, Restrict(assignment', Component[r]))
    <3>1. CASE r \in exhaustive
      <4>1. Component[r] \subseteq DoneVars
        BY <1>9, <3>1 DEF DoneVars
      <4>2. Restrict(assignment', Component[r]) = Restrict(assignment, Component[r])
        BY <1>10, <4>1 DEF Restrict
      <4> QED BY <1>9, <3>1, <4>2 DEF ExhaustiveIsOptimal
    <3>2. CASE r \notin exhaustive
      <4>1. r = root /\ discarded = 0
        BY <1>1, <2>4, <3>2
      <4>2. Component[r] = InHand /\ Restrict(assignment', InHand) = s
        BY <1>8, <1>10, <4>1 DEF InHand, Restrict
      <4>3. a \in frontier /\ (a = s \/ Precedes(s, a))
        BY <1>2, <1>8, <4>1, <4>2 DEF IsFirst
      <4>4. a \in Partial(Vars) /\ s \in Partial(Vars)
        BY <1>3, <1>8, <4>2 DEF LegalOn, Partial
      <4> QED BY <4>2, <4>3, <4>4, PrecedesOrder
    <3> QED BY <3>1, <3>2
  <2>5. ExhaustiveIsOptimal'
    BY <1>1, <2>4 DEF ExhaustiveIsOptimal
  <2> QED BY <1>4, <1>7, <1>10, <1>13, <1>14, <2>1, <2>2, <2>3, <2>5 DEF AnswerInv
<1> QED
  BY <1>15, <1>16, <1>17, <1>18 DEF IInv

-----------------------------------------------------------------------------
LEMMA Inductive == Spec => []IInv
<1>1. Init => IInv
  BY InitInv
<1>2. IInv /\ [Next]_vars => IInv'
  <2> SUFFICES ASSUME IInv, [Next]_vars PROVE IInv'
    OBVIOUS
  <2>1. CASE Next
    BY <2>1, PruneKeeps, StartSearchKeeps, ExpandKeeps, CloseDepthKeeps, GiveUpKeeps,
       SelectKeeps, BindKeeps DEF Next
  <2>2. CASE UNCHANGED vars
    <3>1. /\ UNCHANGED <<step, frozen, domain, root, pruned, combinations, overflow>>
          /\ UNCHANGED <<frontier, next, expanded, discarded>>
          /\ UNCHANGED <<assignment, conversions, cost, exhaustive>>
      BY <2>2 DEF vars, searching, answer
    <3>2. TypeOK' <=> TypeOK
      BY <3>1 DEF TypeOK, UsedBeam, InHand
    <3>3. PruneInv' <=> PruneInv
      BY <3>1 DEF PruneInv, DoneVars, DoneRoots, InHand
    <3>4. SearchInv' <=> SearchInv
      <4>1. InHand' = InHand /\ \A s : Viable(s)' <=> Viable(s)
        BY <3>1, ViableKept DEF InHand
      <4> QED BY <3>1, <4>1 DEF SearchInv
    <3>5. AnswerInv' <=> AnswerInv
      BY <3>1 DEF AnswerInv, ExhaustiveIsOptimal, DoneVars, DoneRoots
    <3> QED BY <3>2, <3>3, <3>4, <3>5 DEF IInv
  <2> QED BY <2>1, <2>2
<1> QED
  BY <1>1, <1>2, PTL DEF Spec

\* Neither the beam nor the budget is ever exceeded, and the product of the
\* domain sizes stays in its integer range (LayoutCandidateSolver.cpp).
THEOREM TypeCorrect == Spec => []TypeOK
<1>1. IInv => TypeOK
  BY DEF IInv
<1> QED
  BY <1>1, Inductive, PTL

\* A component whose search dropped nothing has its best legal assignment,
\* however its domains were pruned and its variables ordered.
THEOREM SearchIsOptimal == Spec => []ExhaustiveIsOptimal
<1>1. IInv => ExhaustiveIsOptimal
  BY DEF IInv, AnswerInv
<1> QED
  BY <1>1, Inductive, PTL

LEMMA SolvedFacts ==
  ASSUME IInv, step \in {"bind", "solved"}
  PROVE  /\ DoneVars = Vars /\ assignment \in [Vars -> Encodings]
         /\ \A v \in Vars : assignment[v] \in domain[v] \cap Verified[v] /\ assignment[v] \in frozen[v]
         /\ \A c \in Hard : Satisfies(c, assignment)
<1>1. TypeOK /\ PruneInv /\ AnswerInv
  BY DEF IInv
<1>2. DoneVars = Vars
  <2>1. DoneRoots = Roots
    BY DEF DoneRoots
  <2> QED BY <2>1, RootOf, DoneFacts DEF DoneVars
<1>3. /\ assignment \in [Vars -> Encodings]
      /\ \A v \in Vars : assignment[v] \in domain[v]
  BY <1>1, <1>2 DEF AnswerInv
<1>4. \A v \in Vars : domain[v] \subseteq Verified[v] /\ domain[v] \subseteq frozen[v]
  BY <1>1, <1>2 DEF PruneInv
<1>5. ASSUME NEW c \in Hard PROVE Satisfies(c, assignment)
  <2>1. Endpoints[c] \in Seq(Vars) /\ 1 \in DOMAIN Endpoints[c]
    BY GraphFacts DEF Hard
  <2>2. Endpoints[c][1] \in Vars
    BY <2>1
  <2> QED BY <1>1, <1>2, <2>2 DEF AnswerInv
<1> QED
  BY <1>2, <1>3, <1>4, <1>5

\* Whatever the solver answers passes the verifier, is priced as a whole as it
\* was by component, and never misses a binding at the end.
THEOREM AnswersAreVerified == Spec => []VerifierAgrees
<1>1. IInv => VerifierAgrees
  <2> SUFFICES ASSUME IInv PROVE VerifierAgrees
    OBVIOUS
  <2>1. step # "unbound" /\ AnswerInv
    BY DEF IInv, AnswerInv
  <2>2. ASSUME step = "solved"
        PROVE  /\ VerifierAccepts /\ cost = Bound(assignment)
               /\ \A v \in Vars : assignment[v] \in frozen[v]
    <3>1. /\ assignment \in [Vars -> Encodings] /\ DOMAIN assignment = Vars
          /\ \A v \in Vars : assignment[v] \in domain[v] \cap Verified[v] /\ assignment[v] \in frozen[v]
          /\ \A c \in Hard : Satisfies(c, assignment)
      BY <2>2, SolvedFacts
    <3>2. conversions = Converted(assignment) \ ExistingConversions
      BY <2>1 DEF AnswerInv
    <3>3. ASSUME NEW c \in Constraints
          PROVE  ConversionAuthorized(c) <=> c \in conversions
      <4>1. CASE Kind[c] = "Convertible"
        <5>1. c \in Hard /\ EndpointVars(c) \subseteq DOMAIN assignment
          <6>1. Endpoints[c] \in Seq(Vars)
            BY GraphFacts
          <6>2. EndpointVars(c) \subseteq Vars
            BY <6>1 DEF EndpointVars, Range
          <6> QED BY <3>1, <4>1, <6>2, SolverAssumption DEF Hard
        <5> QED BY <3>2, <4>1, <5>1 DEF ConversionAuthorized, Converted
      <4>2. CASE Kind[c] # "Convertible"
        BY <3>2, <4>2 DEF ConversionAuthorized, Converted
      <4> QED BY <4>1, <4>2
    <3>4. conversions \subseteq Constraints
      BY <3>2 DEF Converted, Hard
    <3>5. VerifierAccepts
      BY <3>1, <3>3, <3>4 DEF VerifierAccepts, Hard
    <3> QED BY <2>1, <3>1, <3>5 DEF AnswerInv
  <2> QED BY <2>1, <2>2 DEF VerifierAgrees
<1> QED
  BY <1>1, Inductive, PTL

-----------------------------------------------------------------------------
(* The solver implements LayoutChoice.                                     *)

\* A legal answer to the whole graph answers each of its components.
LEMMA OffersRestrict ==
  ASSUME root \in Roots, NEW s \in Promise!LegalOffers
  PROVE  Restrict(s, InHand) \in LegalOn(InHand, frozen)
<1> DEFINE a == Restrict(s, InHand)
<1>1. /\ s \in [Vars -> Encodings] /\ \A c \in Hard : Satisfies(c, s)
      /\ \A v \in Vars : s[v] \in Verified[v] /\ s[v] \in frozen[v]
  BY DEF Promise!LegalOffers, Solutions
<1>2. /\ InHand \in SUBSET Vars
      /\ \A c \in ConstraintsOf(InHand) :
           c \in Hard /\ \A i \in DOMAIN Endpoints[c] : Endpoints[c][i] \in InHand
  BY HandFacts
<1>3. a \in [InHand -> Encodings] /\ \A v \in InHand : a[v] = s[v]
  BY <1>1, <1>2 DEF Restrict
<1>4. ASSUME NEW c \in ConstraintsOf(InHand) PROVE Satisfies(c, a)
  <2> HIDE DEF a
  <2>1. \A i \in DOMAIN Endpoints[c] : s[Endpoints[c][i]] = a[Endpoints[c][i]]
    BY <1>2, <1>3
  <2> QED BY <1>1, <1>2, <2>1, SatisfiesLocal
<1> HIDE DEF a
<1>5. \A v \in InHand : a[v] \in frozen[v] \cap Verified[v]
  BY <1>1, <1>2, <1>3
<1>6. a \in LegalOn(InHand, frozen)
  BY <1>3, <1>4, <1>5 DEF LegalOn
<1> QED
  BY <1>6 DEF a

LEMMA StepIsChoice ==
  ASSUME IInv, [Next]_vars, IInv'
  PROVE  [Promise!CNext]_(Promise!cvars)
<1> USE DEF Promise!cvars
<1>1. root \in Roots
  BY DEF IInv, TypeOK
<1>2. CASE StartSearch \/ CloseDepth \/ Select
  <2>1. /\ step \in {"prune", "search"} /\ step' \in {"prune", "search", "bind"}
        /\ frozen' = frozen
    BY <1>2 DEF StartSearch, CloseDepth, Select
  <2> QED BY <2>1
<1>3. CASE Prune
  <2>1. step = "prune" /\ frozen' = frozen
    BY <1>3 DEF Prune
  <2>2. PICK v \in InHand \ pruned :
          /\ domain' = [domain EXCEPT ![v] = Kept(v)]
          /\ (step' = "no-candidate" /\ Kept(v) = {}) \/ step' = "prune"
    BY <1>3, <2>1 DEF Prune
  <2>3. CASE step' = "prune"
    BY <2>1, <2>3
  <2>4. CASE Kept(v) = {} /\ step' = "no-candidate"
    <3>1. Promise!LegalOffers = {}
      <4> SUFFICES ASSUME NEW s \in Promise!LegalOffers PROVE FALSE
        OBVIOUS
      <4> DEFINE a == Restrict(s, InHand)
      <4>1. a \in LegalOn(InHand, frozen)
        BY <1>1, OffersRestrict
      <4> HIDE DEF a
      <4>2. a[v] \in Kept(v)
        BY <4>1, KeptKeepsLegal
      <4> QED BY <2>4, <4>2
    <3>2. Promise!Refuse
      BY <2>1, <2>4, <3>1 DEF Promise!Refuse
    <3> QED BY <3>2 DEF Promise!CNext
  <2> QED BY <2>2, <2>3, <2>4
<1>4. CASE Expand
  <2>1. /\ step = "search" /\ step' \in {"search", "budget-exceeded", "cost-failed"}
        /\ frozen' = frozen
    BY <1>4 DEF Expand
  <2>2. CASE step' = "search"
    BY <2>1, <2>2
  <2>3. CASE step' # "search"
    <3>1. Promise!Abandon
      BY <2>1, <2>3 DEF Promise!Abandon
    <3> QED BY <3>1 DEF Promise!CNext
  <2> QED BY <2>2, <2>3
<1>5. CASE GiveUp
  <2>1. /\ step = "search" /\ frozen' = frozen /\ frontier = {} /\ next = {}
        /\ step' = IF discarded = 0 THEN "no-assignment" ELSE "search-incomplete"
    BY <1>5 DEF GiveUp, Exhausted
  <2>2. CASE discarded = 0
    <3>1. LegalOn(InHand, frozen) = {}
      BY <2>1, <2>2 DEF IInv, SearchInv
    <3>2. Promise!LegalOffers = {}
      BY <1>1, <3>1, OffersRestrict
    <3>3. Promise!Refuse
      BY <2>1, <2>2, <3>2 DEF Promise!Refuse
    <3> QED BY <3>3 DEF Promise!CNext
  <2>3. CASE discarded # 0
    <3>1. Promise!Abandon
      BY <2>1, <2>3 DEF Promise!Abandon
    <3> QED BY <3>1 DEF Promise!CNext
  <2> QED BY <2>2, <2>3
<1>6. CASE Bind
  <2>1. step = "bind" /\ step' = "solved" /\ frozen' = frozen /\ assignment' = assignment
    BY <1>6, BindKeeps DEF Bind, answer
  <2>2. assignment \in Promise!LegalOffers
    BY <2>1, SolvedFacts DEF Promise!LegalOffers, Solutions
  <2>3. Promise!Choose
    BY <2>1, <2>2 DEF Promise!Choose
  <2> QED BY <2>3 DEF Promise!CNext
<1>7. CASE UNCHANGED vars
  BY <1>7 DEF vars, answer
<1> QED
  BY <1>2, <1>3, <1>4, <1>5, <1>6, <1>7 DEF Next

\* The search of LayoutCandidateSolver.cpp keeps its caller's promise: one
\* answer, chosen from what was offered, or the proof that there is none, or no
\* statement at all when a beam, a budget or a price stood in the way.
THEOREM ImplementsChoice == Spec => KeepsPromise
<1>1. Init => Promise!CInit
  <2>1. ASSUME Init PROVE frozen \in [Vars -> SUBSET Encodings]
    BY <2>1, SolverAssumption DEF Init, Domains
  <2> QED BY <2>1 DEF Init, Promise!CInit
<1> QED
  BY <1>1, Inductive, StepIsChoice, PTL DEF Spec, KeepsPromise, Promise!CSpec
=============================================================================
