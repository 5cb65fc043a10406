------------------------- MODULE LayoutPropagation -------------------------
(***************************************************************************)
(* The constraint worklist that narrows the candidate encodings of every   *)
(* layout variable before the solver chooses among them                    *)
(* (lib/Dialect/Frisk/Analysis/LayoutPropagation.cpp).  propagateStrict    *)
(* and propagateCommonToFixedPoint are the two phases of one sequential    *)
(* run.  One relation is popped at a time; its filters and the             *)
(* re-enqueueing loop after them are separate steps, in the order the code *)
(* performs them.                                                          *)
(***************************************************************************)
EXTENDS LayoutConstraintGraph

-----------------------------------------------------------------------------
(* The local meaning of one constraint.                                    *)

\* Candidates of v that some candidate of w is compatible with.
Supported(c, v, D, w, E) == {a \in D : \E b \in E : Compatible(c, v, a, w, b)}

\* Candidates of v that findInstructionSupport / findReductionSupport accept.
TupleSupported(c, v, D) ==
  {a \in D[v] : \E t \in Tuples[c] :
      /\ Live(c, t, D)
      /\ \A i \in DOMAIN Endpoints[c] : Endpoints[c][i] = v => t[i] = a}

PairConsistent(c, D, l, r) ==
  LET v == Endpoints[c][l]
      w == Endpoints[c][r]
  IN  /\ \A x \in D[v] : \E y \in D[w] : Compatible(c, v, x, w, y)
      /\ \A y \in D[w] : \E x \in D[v] : Compatible(c, w, y, v, x)

RoleConsistent(c, D, i) ==
  \A x \in D[Endpoints[c][i]] : \E t \in Tuples[c] : Live(c, t, D) /\ t[i] = x

\* Filtering by c would erase nothing.
LocallyConsistent(c, D) ==
  /\ Kind[c] \in EqualityKinds =>
       \A l, r \in DOMAIN Endpoints[c] : l < r => PairConsistent(c, D, l, r)
  /\ Kind[c] \in SupportKinds =>
       \A i \in DOMAIN Endpoints[c] : RoleConsistent(c, D, i)
  /\ Kind[c] \in UnaryKinds \cup {"RequireEncoding"} =>
       D[Endpoints[c][1]] \subseteq Admitted[c]

-----------------------------------------------------------------------------
VARIABLES
  phase,       \* "strict", "common", or how the run ended: "done", "failed"
  frozen,      \* the domains collectLayoutConstraints handed over (history)
  candidates,  \* LayoutVar::candidates
  state,       \* LayoutVar::state
  queue,       \* FIFO of constraint IDs
  inQueue,     \* one bit per constraint
  stage,       \* "idle" between two pops, then "filter", then "requeue"
  current,     \* the popped relation
  cursor,      \* next endpoint pair <<lhsIndex, rhsIndex>> of the filter loop
  before,      \* the domains the enqueued work accounts for
  failing,     \* the LogicalResult of the current relation is failure
  stats        \* PropagationStatistics of the running phase

vars == <<phase, frozen, candidates, state, queue, inQueue, stage, current,
          cursor, before, failing, stats>>

worklist == <<queue, inQueue>>

\* updateState.
StateOf(D) == IF D = {} THEN "Conflict"
              ELSE IF \E e \in D : D = {e} THEN "Resolved" ELSE "CandidateSet"

Propagated(c, strict) ==
  /\ Strength[c] = "Hard"
  /\ \/ Kind[c] \in EqualityKinds \cup UnaryKinds \cup SupportKinds
     \/ strict /\ Kind[c] = "RequireEncoding"

Active(p) == {c \in Constraints : Propagated(c, p = "strict")}

\* The relations that touch v; the faulty form leaves out those the strict phase
\* has to defer.
AdjacentAtOnce(p, v) ==
  {c \in Active(p) : v \in EndpointVars(c) /\ (p = "strict" => Kind[c] \notin EqualityKinds)}

AdjacentIn(p, v) == {c \in Active(p) : v \in EndpointVars(c)}

\* S in increasing order: the order of the loops over IDs and adjacency lists.
Ascending(S) ==
  [i \in 1..Cardinality(S) |->
     CHOOSE c \in S : Cardinality({d \in S : d < c}) = i - 1]

\* One element per candidate, and one per candidate and adjacent relation.
CandidatesOf(D) == UNION {{v} \X D[v] : v \in Vars}

WorkOnce(p, D) == CandidatesOf(D)

WorkOf(p, D) == UNION {{v} \X (D[v] \X AdjacentIn(p, v)) : v \in Vars}

StartStatistics(p, D) ==
  [initialCandidates   |-> Cardinality(CandidatesOf(D)),
   finalCandidates     |-> Cardinality(CandidatesOf(D)),
   deletedCandidates   |-> 0,
   queuePops           |-> 0,
   enqueues            |-> Cardinality(Active(p)),
   popUpperBound       |-> Cardinality(Active(p)),
   staticPopUpperBound |-> Cardinality(Active(p)) + Cardinality(WorkOf(p, D))]

\* runPropagationWorklist up to its loop: every propagated relation is queued.
StartPhase(p, D) ==
  [queue   |-> Ascending(Active(p)),
   inQueue |-> [c \in Constraints |-> c \in Active(p)],
   stats   |-> StartStatistics(p, D)]

\* Domains are frozen and non-empty: collectLayoutConstraints fails otherwise.
Init ==
  /\ phase = "strict"
  /\ frozen \in [Vars -> (SUBSET Encodings) \ {{}}]
  /\ candidates = frozen
  /\ state = [v \in Vars |-> StateOf(frozen[v])]
  /\ current = 0
  /\ queue = StartPhase("strict", frozen).queue
  /\ inQueue = StartPhase("strict", frozen).inQueue
  /\ stats = StartPhase("strict", frozen).stats
  /\ stage = "idle"
  /\ cursor = <<1, 2>>
  /\ before = frozen
  /\ failing = FALSE

-----------------------------------------------------------------------------
\* A relation no endpoint of which is decided waits for a seed in strict mode.
Seeded(c) == \E v \in EndpointVars(c) : Cardinality(candidates[v]) = 1

Deferred(c) == phase = "strict" /\ Kind[c] \in EqualityKinds /\ ~Seeded(c)

\* The bit is cleared by the pop itself, and a deferred relation is not put
\* back: it stays in the adjacency lists, so a later seed can enable it.
Dequeued(c) == [inQueue EXCEPT ![c] = FALSE]

Remaining(c) == Tail(queue)

Pop ==
  /\ phase \in {"strict", "common"} /\ stage = "idle"
  /\ queue # <<>>
  /\ LET c == Head(queue) IN
       /\ queue' = Remaining(c)
       /\ inQueue' = Dequeued(c)
       /\ stats' = [stats EXCEPT !.queuePops = @ + 1]
       /\ IF Deferred(c)
            THEN UNCHANGED <<stage, current, cursor>>
            ELSE /\ stage' = "filter"
                 /\ current' = c
                 /\ cursor' = <<1, 2>>
  /\ UNCHANGED <<phase, frozen, candidates, state, before, failing>>

\* applyEqualityConstraint on one endpoint pair.  Both sides are filtered
\* against the domains the pair had before either filter; an empty side puts
\* both variables in conflict and ends the loop.
FilterPair ==
  /\ stage = "filter" /\ Kind[current] \in EqualityKinds
  /\ LET n == Len(Endpoints[current])
         v == Endpoints[current][cursor[1]]
         w == Endpoints[current][cursor[2]]
         keepV == Supported(current, v, candidates[v], w, candidates[w])
         keepW == Supported(current, w, candidates[w], v, candidates[v])
         conflict == keepV = {} \/ keepW = {}
         last == cursor[1] = n - 1 /\ cursor[2] = n
     IN  /\ candidates' = [candidates EXCEPT ![v] = keepV, ![w] = keepW]
         /\ state' = [state EXCEPT
              ![v] = IF conflict THEN "Conflict" ELSE StateOf(keepV),
              ![w] = IF conflict THEN "Conflict" ELSE StateOf(keepW)]
         /\ failing' = conflict
         /\ stage' = IF conflict \/ last THEN "requeue" ELSE "filter"
         /\ cursor' = IF conflict \/ last THEN cursor
                      ELSE IF cursor[2] < n THEN <<cursor[1], cursor[2] + 1>>
                      ELSE <<cursor[1] + 1, cursor[1] + 2>>
  /\ UNCHANGED <<phase, frozen, worklist, current, before, stats>>

\* One endpoint of an instruction or reduction.  A variable listed twice is
\* filtered once, an emptied variable does not stop the loop over the others.
FilterRole ==
  /\ stage = "filter" /\ Kind[current] \in SupportKinds
  /\ LET i == cursor[1]
         v == Endpoints[current][i]
         repeated == \E j \in 1..(i - 1) : Endpoints[current][j] = v
         keep == IF repeated THEN candidates[v]
                 ELSE TupleSupported(current, v, candidates)
         last == i = Len(Endpoints[current])
     IN  /\ candidates' = [candidates EXCEPT ![v] = keep]
         /\ state' = [state EXCEPT ![v] = StateOf(keep)]
         /\ failing' = (failing \/ keep = {})
         /\ stage' = IF last THEN "requeue" ELSE "filter"
         /\ cursor' = IF last THEN cursor ELSE <<i + 1, i + 2>>
  /\ UNCHANGED <<phase, frozen, worklist, current, before, stats>>

FilterUnary ==
  /\ stage = "filter" /\ Kind[current] \in UnaryKinds \cup {"RequireEncoding"}
  /\ LET v == Endpoints[current][1]
         keep == candidates[v] \cap Admitted[current]
     IN  /\ candidates' = [candidates EXCEPT ![v] = keep]
         /\ state' = [state EXCEPT ![v] = StateOf(keep)]
         /\ failing' = (keep = {})
  /\ stage' = "requeue"
  /\ UNCHANGED <<phase, frozen, worklist, current, cursor, before, stats>>

Changed == {i \in DOMAIN Endpoints[current] :
              before[Endpoints[current][i]] # candidates[Endpoints[current][i]]}

\* The accounting loop: the next changed endpoint wakes every relation that
\* touches it, the current one included, unless it is already queued.
Requeue ==
  /\ stage = "requeue"
  /\ \E i \in Changed :
       /\ \A j \in Changed : i <= j
       /\ LET v == Endpoints[current][i]
              adjacent == AdjacentIn(phase, v)
              woken == {c \in adjacent : ~inQueue[c]}
              erased == Cardinality(before[v] \ candidates[v])
          IN  /\ queue' = queue \o Ascending(woken)
              /\ inQueue' = [c \in Constraints |-> inQueue[c] \/ c \in woken]
              /\ before' = [before EXCEPT ![v] = candidates[v]]
              /\ stats' = [stats EXCEPT
                   !.deletedCandidates = @ + erased,
                   !.finalCandidates = @ - erased,
                   !.popUpperBound = @ + Cardinality(adjacent),
                   !.enqueues = @ + Cardinality(woken)]
  /\ UNCHANGED <<phase, frozen, candidates, state, stage, current, cursor, failing>>

IgnoredVerdict == phase

Verdict == IF failing THEN "failed" ELSE phase

FinishRelation ==
  /\ stage = "requeue" /\ Changed = {}
  /\ stage' = "idle"
  /\ phase' = Verdict
  /\ UNCHANGED <<frozen, candidates, state, worklist, current, cursor, before,
                 failing, stats>>

\* propagateCommonToFixedPoint continues with the common relations; the faulty
\* form runs the strict phase over and over.
StartStrictAgain ==
  /\ phase = "strict" /\ stage = "idle" /\ queue = <<>>
  /\ queue' = StartPhase("strict", candidates).queue
  /\ inQueue' = StartPhase("strict", candidates).inQueue
  /\ stats' = StartPhase("strict", candidates).stats
  /\ UNCHANGED <<phase, frozen, candidates, state, stage, current, cursor, before, failing>>

StartCommon ==
  /\ phase = "strict" /\ stage = "idle" /\ queue = <<>>
  /\ phase' = "common"
  /\ queue' = StartPhase("common", candidates).queue
  /\ inQueue' = StartPhase("common", candidates).inQueue
  /\ stats' = StartPhase("common", candidates).stats
  /\ UNCHANGED <<frozen, candidates, state, stage, current, cursor, before, failing>>

Finish ==
  /\ phase = "common" /\ stage = "idle" /\ queue = <<>>
  /\ phase' = "done"
  /\ UNCHANGED <<frozen, candidates, state, worklist, stage, current, cursor,
                 before, failing, stats>>

Next == \/ Pop \/ FilterPair \/ FilterRole \/ FilterUnary
        \/ Requeue \/ FinishRelation \/ StartCommon \/ Finish

Spec == Init /\ [][Next]_vars

\* The propagator is one sequential call: it never stops between two steps.
FairSpec == Spec /\ WF_vars(Next)
-----------------------------------------------------------------------------
\* Every variable stays in the range the code declares for it.
TypeOK ==
  /\ phase \in {"strict", "common", "done", "failed"}
  /\ frozen \in Domains /\ candidates \in Domains /\ before \in Domains
  /\ state \in [Vars -> {"CandidateSet", "Resolved", "Conflict"}]
  /\ queue \in Seq(Constraints)
  /\ inQueue \in [Constraints -> BOOLEAN]
  /\ stage \in {"idle", "filter", "requeue"}
  /\ current \in Constraints \cup {0}
  /\ cursor \in (Nat \X Nat)
  /\ failing \in BOOLEAN
  /\ DOMAIN stats = DOMAIN StartStatistics("strict", frozen)

\* The membership bit of a relation says whether it is in the FIFO, and the
\* FIFO never holds a relation twice: the duplicate test in enqueue is the bit
\* alone, reset by every pop before the relation is processed.
QueueDiscipline ==
  /\ \A c \in Constraints : inQueue[c] <=> c \in Range(queue)
  /\ \A i, j \in DOMAIN queue : queue[i] = queue[j] => i = j

\* Between two pops no propagated relation can still erase a candidate unless
\* it is queued, or is deferred in strict mode for want of a decided endpoint:
\* no wake-up is ever lost, whichever endpoint changed and in whatever order.  The
\* common phase, which queues every relation again, would hide one that the
\* strict phase lost.
UnqueuedSettled ==
  phase \in {"strict", "common"} /\ stage = "idle" =>
    \A c \in Active(phase) :
      c \in Range(queue) \/ Deferred(c) \/ LocallyConsistent(c, candidates)

\* A successful run ends in a fixed point of every hard relation, the required
\* encodings of the strict phase included, and leaves each variable a state
\* that agrees with its non-empty domain.
FixedPoint ==
  phase = "done" =>
    /\ \A c \in Hard : LocallyConsistent(c, candidates)
    /\ \A v \in Vars : candidates[v] # {} /\ state[v] = StateOf(candidates[v])

ConsistentSubdomains ==
  {E \in Domains : \A c \in Hard : LocallyConsistent(c, E)}

\* The fixed point is the greatest one below the frozen domains, so neither the
\* order of the queue nor the strict phase before the common one can matter.
GreatestFixedPoint ==
  phase = "done" =>
    \A E \in ConsistentSubdomains :
      (\A v \in Vars : E[v] \subseteq frozen[v])
        => \A v \in Vars : E[v] \subseteq candidates[v]

Within(s, D) == \A v \in Vars : s[v] \in D[v]

\* Propagation never erases a candidate that the solver's own test of a
\* complete assignment (satisfiesLayoutConstraint) would still accept.
NoSolutionLost == \A s \in Solutions : Within(s, frozen) => Within(s, candidates)

\* The conflict diagnostic is only issued for a graph without a solution.
ConflictMeansInfeasible ==
  phase = "failed" => \A s \in Solutions : ~Within(s, frozen)

\* PropagationStatistics::hasValidBounds, asserted after every pop and at the
\* end of each phase: the dynamic bound never passes the one computed up front.
ValidBounds ==
  /\ stats.deletedCandidates <= stats.initialCandidates
  /\ stats.finalCandidates = stats.initialCandidates - stats.deletedCandidates
  /\ stats.queuePops <= stats.popUpperBound
  /\ stats.popUpperBound <= stats.staticPopUpperBound
  /\ stats.queuePops <= stats.enqueues

\* The worklist empties in both phases or ends in a conflict.
Termination == <>(phase \in {"done", "failed"})

\* The worklist implements the promise of LayoutNarrowing: each filter narrows
\* without losing an agreeing subdomain, the end of the common phase accepts
\* and the failing relation rejects.
Promise == INSTANCE LayoutNarrowing WITH
  domain      <- candidates,
  outcome     <- CASE phase = "done"   -> "accepted"
                   [] phase = "failed" -> "rejected"
                   [] OTHER            -> "running",
  Agreeing    <- ConsistentSubdomains,
  Assignments <- Solutions

KeepsPromise == Promise!NSpec
=============================================================================
