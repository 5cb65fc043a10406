---------------------- MODULE LayoutPropagationProofs ----------------------
(***************************************************************************)
(* Proofs about LayoutPropagation for every frozen graph that satisfies    *)
(* GraphAssumption and CompatibleAssumption.  The inductive invariant      *)
(* relates three domains: frozen (the input), before (what the enqueued    *)
(* work accounts for) and candidates (what the filters have left).         *)
(***************************************************************************)
EXTENDS LayoutPropagation, FiniteSetTheorems, TLAPS

Running == phase \in {"strict", "common"}

DeferredOn(c, D) ==
  /\ phase = "strict" /\ Kind[c] \in EqualityKinds
  /\ ~ \E v \in EndpointVars(c) : Cardinality(D[v]) = 1

\* Control: a relation is only processed while a phase runs, the cursor stays
\* inside its endpoints, and only its endpoints are narrowed.
FlowInv ==
  /\ stage # "idle" => Running /\ current \in Active(phase)
  /\ stage = "filter" =>
       /\ Kind[current] \in EqualityKinds =>
            /\ 1 <= cursor[1] /\ cursor[1] < cursor[2]
            /\ cursor[2] <= Len(Endpoints[current])
       /\ Kind[current] \in SupportKinds =>
            1 <= cursor[1] /\ cursor[1] <= Len(Endpoints[current])
       /\ Kind[current] \notin SupportKinds => ~failing
  /\ stage = "idle" => before = candidates
  /\ stage # "idle" =>
       \A v \in Vars \ EndpointVars(current) : before[v] = candidates[v]

\* Domains only shrink, and a failure is exactly an emptied domain.
DomainInv ==
  /\ \A v \in Vars : candidates[v] \subseteq before[v] /\ before[v] \subseteq frozen[v]
  /\ failing <=> \E v \in Vars : candidates[v] = {}
  /\ phase = "failed" => failing
  /\ Running /\ stage = "idle" => ~failing
  /\ phase = "done" => ~failing
  /\ ~failing => \A v \in Vars : state[v] = StateOf(candidates[v])

QueueInv ==
  /\ QueueDiscipline
  /\ Running => Range(queue) \subseteq Active(phase)

Settled(c, D) == DeferredOn(c, D) \/ LocallyConsistent(c, D)

\* Every propagated relation outside the queue agrees with the accounted
\* domains, save the one being processed.
SettledInv ==
  Running => \A c \in Active(phase) :
    c \in Range(queue) \/ (stage # "idle" /\ c = current) \/ Settled(c, before)

\* What the filters of the current relation have established so far, provided
\* they have erased nothing: an erasure re-queues the relation instead.
CurrentInv ==
  /\ stage = "filter" /\ before = candidates =>
       /\ Kind[current] \in EqualityKinds =>
            \A l, r \in DOMAIN Endpoints[current] :
              l < r /\ (l < cursor[1] \/ (l = cursor[1] /\ r < cursor[2]))
                => PairConsistent(current, candidates, l, r)
       /\ Kind[current] \in SupportKinds =>
            \A i \in DOMAIN Endpoints[current] :
              i < cursor[1] => RoleConsistent(current, candidates, i)
  /\ stage = "requeue" =>
       \/ current \in Range(queue)
       \/ failing
       \/ before = candidates => LocallyConsistent(current, candidates)

\* The relations no phase will look at again.
ClosedInv ==
  /\ phase \in {"common", "done"} =>
       \A c \in Hard : Kind[c] = "RequireEncoding" =>
         candidates[Endpoints[c][1]] \subseteq Admitted[c]
  /\ phase = "done" => \A c \in Hard : LocallyConsistent(c, candidates)

\* No agreeing subdomain of the input has lost an element.
AgreeingKept ==
  \A E \in ConsistentSubdomains :
    (\A v \in Vars : E[v] \subseteq frozen[v])
      => \A v \in Vars : E[v] \subseteq candidates[v]

IInv == /\ TypeOK /\ FlowInv /\ DomainInv /\ QueueInv
        /\ SettledInv /\ CurrentInv /\ ClosedInv

-----------------------------------------------------------------------------
(* Enumerating a set of constraint IDs in increasing order.                *)

\* The rank of an element in a finite set of naturals: it identifies the
\* element, and every rank below the cardinality is taken.
LEMMA Ranks ==
  ASSUME NEW S \in SUBSET Nat, IsFiniteSet(S)
  PROVE  LET rank(x) == Cardinality({y \in S : y < x}) IN
           /\ \A x \in S : rank(x) \in 0..(Cardinality(S) - 1)
           /\ \A x, y \in S : rank(x) = rank(y) => x = y
           /\ \A i \in 1..Cardinality(S) : \E x \in S : rank(x) = i - 1
<1> DEFINE n == Cardinality(S)
           below(x) == {y \in S : y < x}
           rank(x) == Cardinality(below(x))
<1>1. n \in Nat
  BY FS_CardinalityType
<1>2. ASSUME NEW x \in S
      PROVE  IsFiniteSet(below(x)) /\ rank(x) \in Nat
  BY FS_Subset, FS_CardinalityType
<1>3. ASSUME NEW x \in S
      PROVE  rank(x) \in 0..(n - 1)
  <2>1. IsFiniteSet(S \ {x}) /\ Cardinality(S \ {x}) = n - 1
    BY FS_RemoveElement
  <2>2. below(x) \in SUBSET (S \ {x})
    OBVIOUS
  <2>3. rank(x) <= n - 1
    BY <2>1, <2>2, FS_Subset
  <2>. QED BY <1>1, <1>2, <2>3
<1>4. ASSUME NEW x \in S, NEW y \in S, x < y
      PROVE  rank(x) < rank(y)
  <2>1. below(x) \cup {x} \in SUBSET below(y)
    <3>1. ASSUME NEW z \in S, z < x PROVE z < y
      <4>1. x \in Nat /\ y \in Nat /\ z \in Nat
        OBVIOUS
      <4>. QED BY <4>1, <3>1, <1>4
    <3>. QED BY <3>1, <1>4
  <2>2. Cardinality(below(x) \cup {x}) = rank(x) + 1
    <3>1. x \notin below(x)
      <4>1. x \in Nat OBVIOUS
      <4>. QED BY <4>1
    <3>2. IsFiniteSet(below(x))
      BY <1>2
    <3>. HIDE DEF below
    <3>. QED BY <3>1, <3>2, FS_AddElement
  <2>3. rank(x) + 1 <= rank(y)
    BY <1>2, <2>1, <2>2, FS_Subset
  <2>. QED BY <1>2, <2>3
<1>5. ASSUME NEW x \in S, NEW y \in S, rank(x) = rank(y)
      PROVE  x = y
  <2>1. x \in Nat /\ y \in Nat /\ rank(x) \in Nat /\ rank(y) \in Nat
    BY <1>2
  <2>2. ~(x < y) /\ ~(y < x)
    <3>1. x < y => rank(x) < rank(y) BY <1>4
    <3>2. y < x => rank(y) < rank(x) BY <1>4
    <3>. QED BY <3>1, <3>2, <1>5, <2>1
  <2>. QED BY <2>1, <2>2
<1>6. ASSUME NEW i \in 1..n
      PROVE  \E x \in S : rank(x) = i - 1
  <2>. SUFFICES ASSUME \A x \in S : rank(x) # i - 1
                PROVE  FALSE
    OBVIOUS
  <2> DEFINE I == 1..n
             T == I \ {i}
             f == [x \in S |-> rank(x) + 1]
  <2>1. IsFiniteSet(I) /\ Cardinality(I) = n /\ i \in I
    BY <1>1, FS_Interval
  <2>2. IsFiniteSet(T) /\ Cardinality(T) = n - 1
    <3>. HIDE DEF I, n
    <3>. QED BY <2>1, FS_RemoveElement
  <2>3. f \in [S -> T]
    <3>1. ASSUME NEW x \in S PROVE rank(x) + 1 \in T
      BY <1>1, <1>3
    <3>. QED BY <3>1
  <2>4. Cardinality(T) < Cardinality(S)
    BY <1>1, <2>2
  <2>5. \E x, y \in S : x # y /\ f[x] = f[y]
    <3>. HIDE DEF T, f
    <3>. QED BY <2>2, <2>3, <2>4, FS_PigeonHole
  <2>6. PICK x \in S, y \in S : x # y /\ f[x] = f[y]
    BY <2>5
  <2>7. rank(x) = rank(y)
    BY <1>2, <2>6
  <2>. QED BY <1>5, <2>6, <2>7
<1>. QED BY <1>3, <1>5, <1>6

\* Ascending lists each element of a finite set of constraints exactly once.
LEMMA AscendingEnumerates ==
  ASSUME NEW S \in SUBSET Constraints, IsFiniteSet(S)
  PROVE  /\ Ascending(S) \in Seq(S)
         /\ Len(Ascending(S)) = Cardinality(S)
         /\ Range(Ascending(S)) = S
         /\ \A i, j \in DOMAIN Ascending(S) :
              Ascending(S)[i] = Ascending(S)[j] => i = j
<1> DEFINE n == Cardinality(S)
           rank(x) == Cardinality({y \in S : y < x})
           s == Ascending(S)
<1>1. n \in Nat
  BY FS_CardinalityType
<1>2. S \in SUBSET Nat
  BY DEF Constraints
<1>3. /\ \A x \in S : rank(x) \in 0..(n - 1)
      /\ \A x, y \in S : rank(x) = rank(y) => x = y
      /\ \A i \in 1..n : \E x \in S : rank(x) = i - 1
  BY <1>2, Ranks
<1>4. s = [i \in 1..n |-> CHOOSE x \in S : rank(x) = i - 1]
  BY DEF Ascending
<1>. HIDE DEF n, rank, s
<1>5. \A i \in 1..n : s[i] \in S /\ rank(s[i]) = i - 1
  BY <1>3, <1>4
<1>6. DOMAIN s = 1..n
  BY <1>4
<1>7. s \in Seq(S) /\ Len(s) = n
  BY <1>1, <1>4, <1>5
<1>8. ASSUME NEW x \in S PROVE \E i \in 1..n : s[i] = x
  <2>1. rank(x) \in 0..(n - 1) /\ rank(x) + 1 \in 1..n
    BY <1>1, <1>3
  <2>2. rank(s[rank(x) + 1]) = rank(x) /\ s[rank(x) + 1] \in S
    BY <1>5, <2>1
  <2>. QED BY <1>3, <2>1, <2>2
<1>9. Range(s) = S
  BY <1>5, <1>6, <1>8 DEF Range
<1>10. ASSUME NEW i \in DOMAIN s, NEW j \in DOMAIN s, s[i] = s[j] PROVE i = j
  BY <1>1, <1>5, <1>6, <1>10
<1>. QED BY <1>7, <1>9, <1>10 DEF n, s

\* The propagated relations form a finite set of constraint IDs.
LEMMA ActiveFinite ==
  ASSUME NEW p, NEW v
  PROVE  /\ Active(p) \in SUBSET Constraints /\ IsFiniteSet(Active(p))
         /\ AdjacentIn(p, v) \in SUBSET Active(p) /\ IsFiniteSet(AdjacentIn(p, v))
         /\ Active(p) \subseteq Hard
<1>1. IsFiniteSet(Constraints)
  BY GraphAssumption, FS_Interval DEF WellFormed, Constraints
<1>2. Active(p) \in SUBSET Constraints /\ AdjacentIn(p, v) \in SUBSET Active(p)
  BY DEF Active, AdjacentIn
<1>. QED BY <1>1, <1>2, FS_Subset DEF Active, Propagated, Hard

-----------------------------------------------------------------------------
(* Facts about the frozen graph and the local meaning of its constraints.  *)

LEMMA EndpointFacts ==
  ASSUME NEW c \in Constraints
  PROVE  /\ Endpoints[c] \in Seq(Vars) /\ Len(Endpoints[c]) \in Nat
         /\ DOMAIN Endpoints[c] = 1..Len(Endpoints[c])
         /\ \A i \in DOMAIN Endpoints[c] :
              Endpoints[c][i] \in Vars /\ Endpoints[c][i] \in EndpointVars(c)
         /\ \A v \in EndpointVars(c) : \E i \in DOMAIN Endpoints[c] : v = Endpoints[c][i]
         /\ EndpointVars(c) \subseteq Vars
<1>1. Endpoints[c] \in Seq(Vars)
  BY GraphAssumption DEF WellFormed
<1>. QED BY <1>1 DEF EndpointVars, Range

\* Whether a constraint would erase anything depends on its endpoints alone.
LEMMA LocalFrame ==
  ASSUME NEW c \in Constraints, NEW D, NEW E,
         \A v \in EndpointVars(c) : D[v] = E[v]
  PROVE  /\ LocallyConsistent(c, D) <=> LocallyConsistent(c, E)
         /\ DeferredOn(c, D) <=> DeferredOn(c, E)
<1>1. \A i \in DOMAIN Endpoints[c] : D[Endpoints[c][i]] = E[Endpoints[c][i]]
  BY EndpointFacts
<1>2. \A t : Live(c, t, D) <=> Live(c, t, E)
  BY <1>1 DEF Live
<1>3. \A l, r \in DOMAIN Endpoints[c] : PairConsistent(c, D, l, r) <=> PairConsistent(c, E, l, r)
  BY <1>1 DEF PairConsistent
<1>4. \A i \in DOMAIN Endpoints[c] : RoleConsistent(c, D, i) <=> RoleConsistent(c, E, i)
  BY <1>1, <1>2 DEF RoleConsistent
<1>5. Kind[c] \in UnaryKinds \cup {"RequireEncoding"} =>
        D[Endpoints[c][1]] = E[Endpoints[c][1]]
  BY <1>1, EndpointFacts, GraphAssumption DEF WellFormed
<1>6. LocallyConsistent(c, D) <=> LocallyConsistent(c, E)
  BY <1>3, <1>4, <1>5 DEF LocallyConsistent
<1>7. DeferredOn(c, D) <=> DeferredOn(c, E)
  BY DEF DeferredOn
<1>. QED BY <1>6, <1>7

\* The pop's deferral test is DeferredOn the current domains.
LEMMA DeferredIsDeferredOn ==
  ASSUME NEW c
  PROVE  Deferred(c) <=> DeferredOn(c, candidates)
BY DEF Deferred, DeferredOn, Seeded

-----------------------------------------------------------------------------
(* Type correctness.                                                       *)

LEMMA StartPhaseType ==
  ASSUME NEW p, NEW D
  PROVE  /\ StartPhase(p, D).queue = Ascending(Active(p))
         /\ StartPhase(p, D).queue \in Seq(Constraints)
         /\ StartPhase(p, D).inQueue = [c \in Constraints |-> c \in Active(p)]
         /\ StartPhase(p, D).inQueue \in [Constraints -> BOOLEAN]
         /\ StartPhase(p, D).stats = StartStatistics(p, D)
<1>1. Ascending(Active(p)) \in Seq(Active(p))
  BY ActiveFinite, AscendingEnumerates
<1>2. Ascending(Active(p)) \in Seq(Constraints)
  BY <1>1 DEF Active
<1>3. \A c \in Constraints : (c \in Active(p)) \in BOOLEAN
  BY DEF Active, Propagated
<1>. QED BY <1>2, <1>3 DEF StartPhase

LEMMA StateOfType ==
  ASSUME NEW D
  PROVE  StateOf(D) \in {"CandidateSet", "Resolved", "Conflict"}
BY DEF StateOf

\* The program starts with every variable in range.
LEMMA InitTypeOK == Init => TypeOK
<1>. SUFFICES ASSUME Init PROVE TypeOK
  OBVIOUS
<1>1. frozen \in Domains /\ candidates \in Domains /\ before \in Domains
  BY DEF Init, Domains
<1>2. state \in [Vars -> {"CandidateSet", "Resolved", "Conflict"}]
  BY StateOfType DEF Init
<1>3. queue \in Seq(Constraints) /\ inQueue \in [Constraints -> BOOLEAN]
  BY StartPhaseType DEF Init
<1>4. DOMAIN stats = DOMAIN StartStatistics("strict", frozen)
  BY StartPhaseType DEF Init
<1>. QED BY <1>1, <1>2, <1>3, <1>4 DEF Init, TypeOK

\* Every step keeps every variable in range.
LEMMA NextTypeOK == TypeOK /\ [Next]_vars => TypeOK'
<1>. SUFFICES ASSUME TypeOK, [Next]_vars PROVE TypeOK'
  OBVIOUS
<1>0. DOMAIN StartStatistics("strict", frozen) = DOMAIN StartStatistics("common", candidates)
  BY DEF StartStatistics
<1>1. CASE Pop
  <2>1. Head(queue) \in Constraints /\ Tail(queue) \in Seq(Constraints)
    BY <1>1 DEF Pop, TypeOK
  <2>2. stats' = [stats EXCEPT !.queuePops = @ + 1]
    BY <1>1 DEF Pop
  <2>3. DOMAIN stats' = DOMAIN StartStatistics("strict", frozen')
    BY <1>1, <2>2 DEF Pop, TypeOK, StartStatistics
  <2>4. queue' = Tail(queue) /\ inQueue' = [inQueue EXCEPT ![Head(queue)] = FALSE]
    BY <1>1 DEF Pop, Remaining, Dequeued
  <2>5. /\ stage' \in {"idle", "filter", "requeue"}
        /\ current' \in Constraints \cup {0}
        /\ cursor' \in Nat \X Nat
    BY <1>1, <2>1 DEF Pop, TypeOK
  <2>. QED BY <1>1, <2>1, <2>3, <2>4, <2>5 DEF Pop, TypeOK
<1>2. CASE FilterPair
  <2> DEFINE v == Endpoints[current][cursor[1]]
             w == Endpoints[current][cursor[2]]
             keepV == Supported(current, v, candidates[v], w, candidates[w])
             keepW == Supported(current, w, candidates[w], v, candidates[v])
  <2>1. candidates' = [candidates EXCEPT ![v] = keepV, ![w] = keepW]
    BY <1>2 DEF FilterPair
  <2>2. keepV \subseteq candidates[v] /\ keepW \subseteq candidates[w]
    BY DEF Supported
  <2>3. candidates' \in Domains
    <3>. HIDE DEF v, w, keepV, keepW
    <3>. QED BY <2>1, <2>2 DEF TypeOK, Domains
  <2>4. state' \in [Vars -> {"CandidateSet", "Resolved", "Conflict"}]
    BY <1>2, StateOfType DEF FilterPair, TypeOK
  <2>5. failing' \in BOOLEAN /\ stage' \in {"idle", "filter", "requeue"}
    BY <1>2 DEF FilterPair
  <2>6. cursor' \in Nat \X Nat
    <3>1. cursor \in Nat \X Nat
      BY DEF TypeOK
    <3>2. \/ cursor' = cursor
          \/ cursor' = <<cursor[1], cursor[2] + 1>>
          \/ cursor' = <<cursor[1] + 1, cursor[1] + 2>>
      BY <1>2 DEF FilterPair
    <3>. QED BY <3>1, <3>2
  <2>. QED BY <1>2, <2>3, <2>4, <2>5, <2>6 DEF FilterPair, TypeOK, worklist
<1>3. CASE FilterRole
  <2> DEFINE i == cursor[1]
             v == Endpoints[current][i]
             repeated == \E j \in 1..(i - 1) : Endpoints[current][j] = v
             keep == IF repeated THEN candidates[v]
                     ELSE TupleSupported(current, v, candidates)
  <2>1. candidates' = [candidates EXCEPT ![v] = keep]
    BY <1>3 DEF FilterRole
  <2>2. keep \subseteq candidates[v]
    BY DEF TupleSupported
  <2>3. candidates' \in Domains
    <3>. HIDE DEF v, keep
    <3>. QED BY <2>1, <2>2 DEF TypeOK, Domains
  <2>4. state' \in [Vars -> {"CandidateSet", "Resolved", "Conflict"}]
    BY <1>3, StateOfType DEF FilterRole, TypeOK
  <2>5. failing' \in BOOLEAN /\ stage' \in {"idle", "filter", "requeue"}
    BY <1>3 DEF FilterRole, TypeOK
  <2>6. cursor' \in Nat \X Nat
    <3>1. cursor \in Nat \X Nat
      BY DEF TypeOK
    <3>2. cursor' = cursor \/ cursor' = <<cursor[1] + 1, cursor[1] + 2>>
      BY <1>3 DEF FilterRole
    <3>. QED BY <3>1, <3>2
  <2>. QED BY <1>3, <2>3, <2>4, <2>5, <2>6 DEF FilterRole, TypeOK, worklist
<1>4. CASE FilterUnary
  BY <1>4, StateOfType DEF FilterUnary, TypeOK, Domains, worklist
<1>5. CASE Requeue
  <2>1. PICK i \in Changed :
          LET v == Endpoints[current][i]
              woken == {c \in AdjacentIn(phase, v) : ~inQueue[c]}
          IN  /\ queue' = queue \o Ascending(woken)
              /\ inQueue' = [c \in Constraints |-> inQueue[c] \/ c \in woken]
              /\ before' = [before EXCEPT ![v] = candidates[v]]
    BY <1>5 DEF Requeue
  <2> DEFINE v == Endpoints[current][i]
             woken == {c \in AdjacentIn(phase, v) : ~inQueue[c]}
  <2>2. woken \in SUBSET Constraints /\ IsFiniteSet(woken)
    BY ActiveFinite, FS_Subset
  <2>3. Ascending(woken) \in Seq(Constraints)
    <3>. HIDE DEF woken
    <3>. QED BY <2>2, AscendingEnumerates
  <2>4. queue' \in Seq(Constraints)
    BY <2>1, <2>3 DEF TypeOK
  <2>5. inQueue' \in [Constraints -> BOOLEAN]
    BY <2>1 DEF TypeOK
  <2>6. before' \in Domains
    BY <2>1 DEF TypeOK, Domains
  <2>7. DOMAIN stats' = DOMAIN StartStatistics("strict", frozen')
    BY <1>5 DEF Requeue, TypeOK, StartStatistics
  <2>. QED BY <1>5, <2>4, <2>5, <2>6, <2>7 DEF Requeue, TypeOK
<1>6. CASE FinishRelation
  BY <1>6 DEF FinishRelation, Verdict, TypeOK, worklist, StartStatistics
<1>7. CASE StartCommon
  <2>1. /\ queue' = StartPhase("common", candidates).queue
        /\ inQueue' = StartPhase("common", candidates).inQueue
        /\ stats' = StartPhase("common", candidates).stats
        /\ phase' = "common"
    BY <1>7 DEF StartCommon
  <2>2. /\ UNCHANGED <<frozen, candidates, state>>
        /\ UNCHANGED <<stage, current, cursor, before, failing>>
    BY <1>7 DEF StartCommon
  <2>3. DOMAIN stats' = DOMAIN StartStatistics("strict", frozen')
    BY <1>0, <2>1, <2>2 DEF StartPhase
  <2>4. queue' \in Seq(Constraints) /\ inQueue' \in [Constraints -> BOOLEAN]
    BY <2>1, StartPhaseType
  <2>5. phase' \in {"strict", "common", "done", "failed"}
    BY <2>1
  <2>. HIDE <2>1
  <2>. QED BY <2>2, <2>3, <2>4, <2>5 DEF TypeOK
<1>8. CASE Finish
  BY <1>8 DEF Finish, TypeOK, worklist, StartStatistics
<1>9. CASE UNCHANGED vars
  BY <1>9 DEF vars, TypeOK, StartStatistics
<1>. QED BY <1>1, <1>2, <1>3, <1>4, <1>5, <1>6, <1>7, <1>8, <1>9 DEF Next

\* TypeOK: every variable of the propagator stays in its declared range, for
\* every graph and every choice of frozen domains.
THEOREM TypeCorrect == Spec => []TypeOK
<1>. QED BY InitTypeOK, NextTypeOK, PTL DEF Spec

-----------------------------------------------------------------------------
(* The inductive invariant, one lemma per action.                          *)

LEMMA InitIInv == Init => IInv
<1>. SUFFICES ASSUME Init PROVE IInv
  OBVIOUS
<1>1. TypeOK
  BY InitTypeOK
<1>2. /\ queue = Ascending(Active("strict"))
      /\ inQueue = [c \in Constraints |-> c \in Active("strict")]
  BY StartPhaseType DEF Init
<1>3. /\ Range(queue) = Active("strict")
      /\ \A i, j \in DOMAIN queue : queue[i] = queue[j] => i = j
  BY <1>2, ActiveFinite, AscendingEnumerates
<1>4. QueueInv
  BY <1>2, <1>3 DEF Init, QueueInv, QueueDiscipline
<1>5. SettledInv
  BY <1>3 DEF Init, SettledInv
<1>6. FlowInv /\ CurrentInv /\ ClosedInv
  BY DEF Init, FlowInv, CurrentInv, ClosedInv
<1>7. DomainInv
  BY DEF Init, DomainInv, Running
<1>. QED BY <1>1, <1>4, <1>5, <1>6, <1>7 DEF IInv

\* Popping a relation: a deferred one is settled for the time being, any other
\* becomes the current one with nothing established about it yet.
LEMMA PopIInv == IInv /\ Pop => IInv'
<1>. SUFFICES ASSUME IInv, Pop PROVE IInv'
  OBVIOUS
<1> DEFINE c == Head(queue)
<1>0. TypeOK'
  BY NextTypeOK DEF IInv, Next
<1>1. /\ stage = "idle" /\ Running /\ queue # <<>> /\ queue \in Seq(Constraints)
      /\ c \in Constraints /\ c \in Range(queue) /\ c \in Active(phase)
  BY DEF Pop, IInv, TypeOK, Running, QueueInv, Range
<1>2. /\ queue' = Tail(queue) /\ inQueue' = [inQueue EXCEPT ![c] = FALSE]
      /\ UNCHANGED <<phase, frozen, candidates, state, before, failing>>
  BY DEF Pop, Remaining, Dequeued
<1>3. \/ Deferred(c) /\ UNCHANGED <<stage, current, cursor>>
      \/ ~Deferred(c) /\ stage' = "filter" /\ current' = c /\ cursor' = <<1, 2>>
  BY DEF Pop
<1>4. /\ DOMAIN queue' = 1..(Len(queue) - 1)
      /\ \A i \in DOMAIN queue' : queue'[i] = queue[i + 1] /\ i + 1 \in DOMAIN queue
      /\ Len(queue) \in Nat /\ Len(queue) > 0 /\ DOMAIN queue = 1..Len(queue)
      /\ c = queue[1]
  BY <1>1, <1>2
<1>5. \A i, j \in DOMAIN queue : queue[i] = queue[j] => i = j
  BY DEF IInv, QueueInv, QueueDiscipline
<1>6. Range(queue') = Range(queue) \ {c}
  <2>1. \A x \in Range(queue') : x \in Range(queue) /\ x # c
    BY <1>4, <1>5 DEF Range
  <2>2. ASSUME NEW x \in Range(queue), x # c PROVE x \in Range(queue')
    <3>1. PICK i \in DOMAIN queue : x = queue[i]
      BY DEF Range
    <3>2. i \in 2..Len(queue)
      BY <1>4, <2>2, <3>1
    <3>3. i - 1 \in DOMAIN queue' /\ (i - 1) + 1 = i
      BY <1>4, <3>2
    <3>4. queue'[i - 1] = x
      BY <1>4, <3>1, <3>3
    <3>. QED BY <3>3, <3>4 DEF Range
  <2>. QED BY <2>1, <2>2
<1>7. QueueInv'
  <2>1. \A i, j \in DOMAIN queue' : queue'[i] = queue'[j] => i = j
    BY <1>4, <1>5
  <2>2. \A d \in Constraints : inQueue'[d] <=> d \in Range(queue')
    BY <1>2, <1>6 DEF IInv, TypeOK, QueueInv, QueueDiscipline
  <2>3. Running' => Range(queue') \subseteq Active(phase')
    BY <1>2, <1>6 DEF IInv, QueueInv, Running
  <2>. QED BY <2>1, <2>2, <2>3 DEF QueueInv, QueueDiscipline
<1>8. before = candidates /\ ~failing
  BY <1>1 DEF IInv, FlowInv, DomainInv
<1>9. SettledInv'
  <2>. SUFFICES ASSUME NEW d \in Active(phase)
                PROVE  \/ d \in Range(queue')
                       \/ stage' # "idle" /\ d = current'
                       \/ Settled(d, before)'
    BY <1>2 DEF SettledInv
  <2>1. CASE d = c
    BY <1>2, <1>3, <1>8, <2>1, DeferredIsDeferredOn DEF Settled, DeferredOn
  <2>2. CASE d # c /\ d \in Range(queue)
    BY <1>6, <2>2
  <2>3. CASE d \notin Range(queue)
    BY <1>1, <1>2, <2>3 DEF IInv, SettledInv, Settled, DeferredOn
  <2>. QED BY <2>1, <2>2, <2>3
<1>10. FlowInv'
  <2>1. CASE Deferred(c)
    BY <1>1, <1>2, <1>3, <2>1 DEF IInv, FlowInv, Running
  <2>2. CASE ~Deferred(c)
    <3>1. stage' = "filter" /\ current' = c /\ cursor' = <<1, 2>>
      BY <1>3, <2>2
    <3>2. Len(Endpoints[c]) \in Nat /\ Len(Endpoints[c]) > 0
      BY <1>1, EndpointFacts, ActiveFinite, GraphAssumption DEF WellFormed, Hard
    <3>3. Kind[c] \in EqualityKinds => 2 <= Len(Endpoints[c])
      BY <1>1, <3>2, GraphAssumption DEF WellFormed
    <3>. QED BY <1>1, <1>2, <1>8, <3>1, <3>2, <3>3 DEF FlowInv, Running
  <2>. QED BY <2>1, <2>2
<1>11. DomainInv'
  BY <1>1, <1>2, <1>3, <1>8 DEF IInv, DomainInv, Running
<1>12. CurrentInv'
  <2>1. CASE Deferred(c)
    BY <1>1, <1>3, <2>1 DEF CurrentInv
  <2>2. CASE ~Deferred(c)
    <3>1. stage' = "filter" /\ current' = c /\ cursor'[1] = 1 /\ cursor'[2] = 2
      BY <1>3, <2>2
    <3>2. DOMAIN Endpoints[c] \subseteq Nat \ {0}
      BY <1>1, EndpointFacts
    <3>. QED BY <3>1, <3>2 DEF CurrentInv
  <2>. QED BY <2>1, <2>2
<1>13. ClosedInv'
  BY <1>2 DEF IInv, ClosedInv
<1>. QED BY <1>0, <1>7, <1>9, <1>10, <1>11, <1>12, <1>13 DEF IInv

\* What every filter step has in common: only the current relation's endpoints
\* shrink, and the queue, the phase and the accounted domains stay.
Filtered ==
  /\ stage = "filter" /\ stage' \in {"filter", "requeue"}
  /\ UNCHANGED <<phase, frozen, queue, inQueue, current, before, stats>>
  /\ \A v \in Vars : candidates'[v] \subseteq candidates[v]
  /\ \A v \in Vars \ EndpointVars(current) : candidates'[v] = candidates[v]
  /\ failing' <=> \E v \in Vars : candidates'[v] = {}
  /\ ~failing' => \A v \in Vars : state'[v] = StateOf(candidates'[v])

LEMMA FilteredIInv ==
  ASSUME IInv, Filtered
  PROVE  DomainInv' /\ QueueInv' /\ SettledInv' /\ ClosedInv'
<1>1. stage # "idle" /\ stage' # "idle" /\ Running /\ current \in Active(phase)
  BY DEF IInv, FlowInv, Filtered
<1>2. DomainInv'
  BY <1>1 DEF IInv, DomainInv, Filtered, Running
<1>3. QueueInv'
  BY DEF IInv, QueueInv, QueueDiscipline, Filtered, Running
<1>4. SettledInv'
  BY <1>1 DEF IInv, SettledInv, Filtered, Running, Settled, DeferredOn
<1>5. ClosedInv'
  <2>1. phase # "done"
    BY <1>1 DEF Running
  <2>2. ASSUME NEW c \in Hard, Kind[c] = "RequireEncoding"
        PROVE  Endpoints[c][1] \in Vars
    BY <2>2, EndpointFacts, GraphAssumption DEF WellFormed, Hard
  <2>. QED BY <2>1, <2>2 DEF IInv, ClosedInv, Filtered
<1>. QED BY <1>2, <1>3, <1>4, <1>5

\* If nothing has been erased since the pop, neither has this step erased.
LEMMA NothingErased ==
  ASSUME IInv, TypeOK', Filtered, before' = candidates'
  PROVE  candidates' = candidates /\ before = candidates
<1>1. \A v \in Vars : candidates'[v] = candidates[v]
  BY DEF IInv, DomainInv, Filtered
<1>. QED BY <1>1 DEF IInv, TypeOK, Domains, Filtered

LEMMA FilterPairIInv == IInv /\ FilterPair => IInv'
<1>. SUFFICES ASSUME IInv, FilterPair PROVE IInv'
  OBVIOUS
<1> DEFINE c == current
           n == Len(Endpoints[c])
           l == cursor[1]
           r == cursor[2]
           v == Endpoints[c][l]
           w == Endpoints[c][r]
           keepV == Supported(c, v, candidates[v], w, candidates[w])
           keepW == Supported(c, w, candidates[w], v, candidates[v])
           conflict == keepV = {} \/ keepW = {}
           last == l = n - 1 /\ r = n
<1>0. TypeOK'
  BY NextTypeOK DEF IInv, Next
<1>1. /\ stage = "filter" /\ Kind[c] \in EqualityKinds
      /\ candidates' = [candidates EXCEPT ![v] = keepV, ![w] = keepW]
      /\ state' = [state EXCEPT
              ![v] = IF conflict THEN "Conflict" ELSE StateOf(keepV),
              ![w] = IF conflict THEN "Conflict" ELSE StateOf(keepW)]
      /\ failing' = conflict
      /\ stage' = IF conflict \/ last THEN "requeue" ELSE "filter"
      /\ cursor' = IF conflict \/ last THEN cursor
                   ELSE IF r < n THEN <<l, r + 1>> ELSE <<l + 1, l + 2>>
      /\ UNCHANGED <<phase, frozen, queue, inQueue, current, before, stats>>
  BY DEF FilterPair, worklist
<1>2. /\ Running /\ c \in Active(phase) /\ c \in Constraints
      /\ l \in Nat /\ r \in Nat /\ n \in Nat
      /\ 1 <= l /\ l < r /\ r <= n
      /\ l \in DOMAIN Endpoints[c] /\ r \in DOMAIN Endpoints[c]
      /\ v \in Vars /\ w \in Vars /\ v \in EndpointVars(c) /\ w \in EndpointVars(c)
  <2>1. Running /\ c \in Active(phase) /\ c \in Constraints
    BY <1>1 DEF IInv, FlowInv, Active
  <2>2. l \in Nat /\ r \in Nat /\ 1 <= l /\ l < r /\ r <= n
    BY <1>1 DEF IInv, FlowInv, TypeOK
  <2>. QED BY <2>1, <2>2, EndpointFacts
<1>3. Kind[c] \notin SupportKinds /\ ~failing
  <2>1. Kind[c] \notin SupportKinds
    BY <1>1 DEF EqualityKinds, SupportKinds
  <2>. QED BY <1>1, <2>1 DEF IInv, FlowInv
<1>4. keepV \subseteq candidates[v] /\ keepW \subseteq candidates[w] /\ (v = w => keepV = keepW)
  BY DEF Supported
<1>5. /\ candidates'[v] = keepV /\ candidates'[w] = keepW
      /\ \A x \in Vars \ {v, w} : candidates'[x] = candidates[x]
  <2>. HIDE DEF keepV, keepW, v, w
  <2>. QED BY <1>1, <1>2, <1>4 DEF IInv, TypeOK, Domains
<1>6. Filtered
  <2>1. \A x \in Vars : candidates'[x] \subseteq candidates[x]
    BY <1>4, <1>5
  <2>2. \A x \in Vars \ EndpointVars(c) : candidates'[x] = candidates[x]
    BY <1>2, <1>5
  <2>3. \A x \in Vars : candidates[x] # {} /\ state[x] = StateOf(candidates[x])
    BY <1>3 DEF IInv, DomainInv
  <2>4. failing' <=> \E x \in Vars : candidates'[x] = {}
    BY <1>1, <1>2, <1>5, <2>3
  <2>5. ~failing' => \A x \in Vars : state'[x] = StateOf(candidates'[x])
    <3>1. ASSUME ~conflict
          PROVE  state' = [state EXCEPT ![v] = StateOf(keepV), ![w] = StateOf(keepW)]
      BY <1>1, <3>1
    <3>. HIDE DEF conflict, keepV, keepW, v, w
    <3>. QED BY <1>1, <1>2, <1>4, <1>5, <2>3, <3>1 DEF IInv, TypeOK
  <2>. QED BY <1>1, <2>1, <2>2, <2>4, <2>5 DEF Filtered
<1>7. DomainInv' /\ QueueInv' /\ SettledInv' /\ ClosedInv'
  BY <1>6, FilteredIInv
<1>8. FlowInv'
  <2>1. stage' = "filter" => ~failing'
    BY <1>1
  <2>2. stage' = "filter" => 1 <= cursor'[1] /\ cursor'[1] < cursor'[2] /\ cursor'[2] <= n
    <3>1. stage' = "filter" =>
            ~last /\ cursor' = IF r < n THEN <<l, r + 1>> ELSE <<l + 1, l + 2>>
      BY <1>1
    <3>2. last <=> l = n - 1 /\ r = n
      OBVIOUS
    <3>. HIDE DEF n, l, r, last
    <3>. QED BY <1>2, <3>1, <3>2
  <2>3. \A x \in Vars \ EndpointVars(c) : before'[x] = candidates'[x]
    BY <1>1, <1>6 DEF IInv, FlowInv, Filtered
  <2>. QED BY <1>1, <1>2, <1>3, <2>1, <2>2, <2>3 DEF FlowInv, Running
<1>9. CurrentInv'
  <2>1. CASE before' # candidates' \/ failing'
    <3>1. failing' => stage' = "requeue"
      BY <1>1
    <3>. QED BY <2>1, <3>1 DEF CurrentInv
  <2>2. CASE before' = candidates' /\ ~failing'
    <3>1. candidates' = candidates /\ before = candidates
      BY <1>0, <1>6, <2>2, NothingErased
    <3>2. PairConsistent(c, candidates, l, r)
      BY <1>5, <3>1 DEF PairConsistent, Supported
    <3>3. \A i, j \in DOMAIN Endpoints[c] :
            i < j /\ (i < l \/ (i = l /\ j < r)) => PairConsistent(c, candidates, i, j)
      BY <1>1, <3>1 DEF IInv, CurrentInv
    <3>4. DOMAIN Endpoints[c] = 1..n
      BY <1>2, EndpointFacts
    <3>5. ASSUME NEW i \in DOMAIN Endpoints[c], NEW j \in DOMAIN Endpoints[c], i < j,
                 i < l \/ (i = l /\ j <= r)
          PROVE  PairConsistent(c, candidates, i, j)
      <4>1. i \in Nat /\ j \in Nat
        BY <3>4
      <4>2. CASE i = l /\ j = r
        BY <3>2, <4>2
      <4>3. CASE ~(i = l /\ j = r)
        BY <1>2, <3>3, <3>5, <4>1, <4>3
      <4>. QED BY <4>2, <4>3
    <3>6. CASE last
      <4>1. ASSUME NEW i \in DOMAIN Endpoints[c], NEW j \in DOMAIN Endpoints[c], i < j
            PROVE  PairConsistent(c, candidates, i, j)
        <5>. HIDE DEF n, l, r
        <5>1. i < l \/ (i = l /\ j <= r)
          <6>. USE DEF last
          <6>. QED BY <1>2, <3>4, <3>6, <4>1
        <5>. QED BY <3>5, <4>1, <5>1
      <4>2. Kind[c] \notin UnaryKinds \cup {"RequireEncoding"} \cup SupportKinds
        BY <1>1 DEF EqualityKinds, UnaryKinds, SupportKinds
      <4>3. LocallyConsistent(c, candidates)
        BY <4>1, <4>2 DEF LocallyConsistent
      <4>4. stage' = "requeue"
        BY <1>1, <3>6
      <4>. QED BY <1>1, <3>1, <4>3, <4>4 DEF CurrentInv
    <3>7. CASE ~last
      <4>1. stage' = "filter" /\ cursor' = IF r < n THEN <<l, r + 1>> ELSE <<l + 1, l + 2>>
        BY <1>1, <2>2, <3>7
      <4>2. ASSUME NEW i \in DOMAIN Endpoints[c], NEW j \in DOMAIN Endpoints[c], i < j,
                   i < cursor'[1] \/ (i = cursor'[1] /\ j < cursor'[2])
            PROVE  PairConsistent(c, candidates, i, j)
        <5>. HIDE DEF n, l, r
        <5>1. i < l \/ (i = l /\ j <= r)
          BY <1>2, <3>4, <4>1, <4>2
        <5>. QED BY <3>5, <4>2, <5>1
      <4>3. current' = c
        BY <1>1
      <4>. HIDE DEF c, l, r, n, v, w, keepV, keepW, conflict, last
      <4>. QED BY <1>3, <3>1, <4>1, <4>2, <4>3 DEF CurrentInv
    <3>. QED BY <3>6, <3>7
  <2>. QED BY <2>1, <2>2
<1>. QED BY <1>0, <1>7, <1>8, <1>9 DEF IInv

LEMMA FilterRoleIInv == IInv /\ FilterRole => IInv'
<1>. SUFFICES ASSUME IInv, FilterRole PROVE IInv'
  OBVIOUS
<1> DEFINE c == current
           n == Len(Endpoints[c])
           i == cursor[1]
           v == Endpoints[c][i]
           repeated == \E j \in 1..(i - 1) : Endpoints[c][j] = v
           keep == IF repeated THEN candidates[v]
                   ELSE TupleSupported(c, v, candidates)
           last == i = n
<1>0. TypeOK'
  BY NextTypeOK DEF IInv, Next
<1>1. /\ stage = "filter" /\ Kind[c] \in SupportKinds
      /\ candidates' = [candidates EXCEPT ![v] = keep]
      /\ state' = [state EXCEPT ![v] = StateOf(keep)]
      /\ failing' = (failing \/ keep = {})
      /\ stage' = IF last THEN "requeue" ELSE "filter"
      /\ cursor' = IF last THEN cursor ELSE <<i + 1, i + 2>>
      /\ UNCHANGED <<phase, frozen, queue, inQueue, current, before, stats>>
  BY DEF FilterRole, worklist
<1>2. /\ Running /\ c \in Active(phase) /\ c \in Constraints
      /\ i \in Nat /\ n \in Nat /\ 1 <= i /\ i <= n
      /\ DOMAIN Endpoints[c] = 1..n /\ i \in DOMAIN Endpoints[c]
      /\ v \in Vars /\ v \in EndpointVars(c)
  <2>1. Running /\ c \in Active(phase) /\ c \in Constraints
    BY <1>1 DEF IInv, FlowInv, Active
  <2>2. i \in Nat /\ 1 <= i /\ i <= n
    BY <1>1 DEF IInv, FlowInv, TypeOK
  <2>. QED BY <2>1, <2>2, EndpointFacts
<1>3. Kind[c] \notin EqualityKinds \cup UnaryKinds \cup {"RequireEncoding"}
  BY <1>1 DEF EqualityKinds, SupportKinds, UnaryKinds
<1>4. keep \subseteq candidates[v]
  BY DEF TupleSupported
<1>5. candidates'[v] = keep /\ \A x \in Vars \ {v} : candidates'[x] = candidates[x]
  <2>. HIDE DEF keep, v
  <2>. QED BY <1>1, <1>2 DEF IInv, TypeOK, Domains
<1>6. Filtered
  <2>1. \A x \in Vars : candidates'[x] \subseteq candidates[x]
    BY <1>4, <1>5
  <2>2. \A x \in Vars \ EndpointVars(c) : candidates'[x] = candidates[x]
    BY <1>2, <1>5
  <2>3. failing' <=> \E x \in Vars : candidates'[x] = {}
    <3>1. failing <=> \E x \in Vars : candidates[x] = {}
      BY DEF IInv, DomainInv
    <3>. HIDE DEF keep, v
    <3>. QED BY <1>1, <1>2, <1>4, <1>5, <3>1
  <2>4. ~failing' => \A x \in Vars : state'[x] = StateOf(candidates'[x])
    <3>1. ~failing => \A x \in Vars : state[x] = StateOf(candidates[x])
      BY DEF IInv, DomainInv
    <3>. HIDE DEF keep, v
    <3>. QED BY <1>1, <1>2, <1>5, <3>1 DEF IInv, TypeOK
  <2>. QED BY <1>1, <2>1, <2>2, <2>3, <2>4 DEF Filtered
<1>7. DomainInv' /\ QueueInv' /\ SettledInv' /\ ClosedInv'
  BY <1>6, FilteredIInv
<1>8. FlowInv'
  <2>1. stage' = "filter" => 1 <= cursor'[1] /\ cursor'[1] <= n
    BY <1>1, <1>2
  <2>2. \A x \in Vars \ EndpointVars(c) : before'[x] = candidates'[x]
    BY <1>1, <1>6 DEF IInv, FlowInv, Filtered
  <2>. QED BY <1>1, <1>2, <1>3, <2>1, <2>2 DEF FlowInv, Running
<1>9. CurrentInv'
  <2>1. CASE before' # candidates'
    <3>1. stage' = "requeue" => last
      BY <1>1
    <3>. QED BY <2>1 DEF CurrentInv
  <2>2. CASE before' = candidates'
    <3>1. candidates' = candidates /\ before = candidates
      BY <1>0, <1>6, <2>2, NothingErased
    <3>2. \A j \in DOMAIN Endpoints[c] : j < i => RoleConsistent(c, candidates, j)
      BY <1>1, <3>1 DEF IInv, CurrentInv
    <3>3. RoleConsistent(c, candidates, i)
      <4>1. CASE repeated
        <5>1. PICK j \in 1..(i - 1) : Endpoints[c][j] = v
          BY <4>1
        <5>2. j \in DOMAIN Endpoints[c] /\ j < i
          BY <1>2
        <5>3. RoleConsistent(c, candidates, j)
          BY <3>2, <5>2
        <5>4. \A t \in Tuples[c] : t[i] = t[j]
          <6>1. \A t \in Tuples[c] :
                  /\ t \in [DOMAIN Endpoints[c] -> Encodings]
                  /\ \A a, b \in DOMAIN t : Endpoints[c][a] = Endpoints[c][b] => t[a] = t[b]
            BY <1>2, GraphAssumption DEF WellFormed
          <6>. QED BY <1>2, <5>1, <5>2, <6>1
        <5>. QED BY <5>1, <5>3, <5>4 DEF RoleConsistent
      <4>2. CASE ~repeated
        <5>1. candidates[v] = TupleSupported(c, v, candidates)
          BY <1>5, <3>1, <4>2
        <5>. QED BY <1>2, <5>1 DEF RoleConsistent, TupleSupported
      <4>. QED BY <4>1, <4>2
    <3>4. ASSUME NEW j \in DOMAIN Endpoints[c], j <= i
          PROVE  RoleConsistent(c, candidates, j)
      <4>1. j \in Nat
        BY <1>2
      <4>2. j = i \/ j < i
        BY <1>2, <3>4, <4>1
      <4>. QED BY <3>2, <3>3, <4>2
    <3>5. CASE last
      <4>1. \A j \in DOMAIN Endpoints[c] : RoleConsistent(c, candidates, j)
        <5>. HIDE DEF n, i
        <5>1. \A j \in DOMAIN Endpoints[c] : j <= i
          BY <1>2, <3>5
        <5>. QED BY <3>4, <5>1
      <4>2. LocallyConsistent(c, candidates)
        BY <1>3, <4>1 DEF LocallyConsistent
      <4>3. stage' = "requeue"
        BY <1>1, <3>5
      <4>. QED BY <1>1, <3>1, <4>2, <4>3 DEF CurrentInv
    <3>6. CASE ~last
      <4>1. stage' = "filter" /\ cursor'[1] = i + 1 /\ current' = c
        BY <1>1, <3>6
      <4>2. \A j \in DOMAIN Endpoints[c] : j < i + 1 => j <= i
        <5>. HIDE DEF i, n
        <5>. QED BY <1>2
      <4>3. \A j \in DOMAIN Endpoints[c] : j < cursor'[1] => RoleConsistent(c, candidates, j)
        BY <3>4, <4>1, <4>2
      <4>. QED BY <1>3, <3>1, <4>1, <4>3 DEF CurrentInv
    <3>. QED BY <3>5, <3>6
  <2>. QED BY <2>1, <2>2
<1>. QED BY <1>0, <1>7, <1>8, <1>9 DEF IInv

LEMMA FilterUnaryIInv == IInv /\ FilterUnary => IInv'
<1>. SUFFICES ASSUME IInv, FilterUnary PROVE IInv'
  OBVIOUS
<1> DEFINE c == current
           v == Endpoints[c][1]
           keep == candidates[v] \cap Admitted[c]
<1>0. TypeOK'
  BY NextTypeOK DEF IInv, Next
<1>1. /\ stage = "filter" /\ stage' = "requeue"
      /\ Kind[c] \in UnaryKinds \cup {"RequireEncoding"}
      /\ candidates' = [candidates EXCEPT ![v] = keep]
      /\ state' = [state EXCEPT ![v] = StateOf(keep)]
      /\ failing' = (keep = {})
      /\ UNCHANGED <<phase, frozen, queue, inQueue, current, before, stats>>
  BY DEF FilterUnary, worklist
<1>2. /\ Running /\ c \in Active(phase) /\ c \in Constraints
      /\ v \in Vars /\ v \in EndpointVars(c)
  <2>1. Running /\ c \in Active(phase) /\ c \in Constraints
    BY <1>1 DEF IInv, FlowInv, Active
  <2>2. Len(Endpoints[c]) = 1
    BY <1>1, <2>1, GraphAssumption DEF WellFormed
  <2>. QED BY <2>1, <2>2, EndpointFacts
<1>3. Kind[c] \notin EqualityKinds \cup SupportKinds /\ ~failing
  <2>1. Kind[c] \notin EqualityKinds \cup SupportKinds
    BY <1>1 DEF EqualityKinds, SupportKinds, UnaryKinds
  <2>. QED BY <1>1, <2>1 DEF IInv, FlowInv
<1>4. candidates'[v] = keep /\ \A x \in Vars \ {v} : candidates'[x] = candidates[x]
  <2>. HIDE DEF keep, v
  <2>. QED BY <1>1, <1>2 DEF IInv, TypeOK, Domains
<1>5. Filtered
  <2>1. \A x \in Vars : candidates[x] # {} /\ state[x] = StateOf(candidates[x])
    BY <1>3 DEF IInv, DomainInv
  <2>2. \A x \in Vars \ EndpointVars(c) : candidates'[x] = candidates[x]
    BY <1>2, <1>4
  <2>3. \A x \in Vars : candidates'[x] \subseteq candidates[x]
    BY <1>4
  <2>4. failing' <=> \E x \in Vars : candidates'[x] = {}
    <3>. HIDE DEF keep, v
    <3>. QED BY <1>1, <1>2, <1>4, <2>1
  <2>5. ~failing' => \A x \in Vars : state'[x] = StateOf(candidates'[x])
    <3>. HIDE DEF keep, v
    <3>. QED BY <1>1, <1>2, <1>4, <2>1 DEF IInv, TypeOK
  <2>. QED BY <1>1, <2>2, <2>3, <2>4, <2>5 DEF Filtered
<1>6. DomainInv' /\ QueueInv' /\ SettledInv' /\ ClosedInv'
  BY <1>5, FilteredIInv
<1>7. FlowInv'
  BY <1>1, <1>2, <1>5 DEF IInv, FlowInv, Filtered, Running
<1>8. CurrentInv'
  <2>1. before' = candidates' => LocallyConsistent(c, candidates')
    <3>. SUFFICES ASSUME before' = candidates' PROVE LocallyConsistent(c, candidates')
      OBVIOUS
    <3>1. candidates' = candidates
      BY <1>0, <1>5, NothingErased
    <3>2. candidates[v] = keep
      BY <1>4, <3>1
    <3>. QED BY <1>3, <3>1, <3>2 DEF LocallyConsistent
  <2>. QED BY <1>1, <2>1 DEF CurrentInv
<1>. QED BY <1>0, <1>6, <1>7, <1>8 DEF IInv

\* Appending relations that are not queued keeps the queue free of duplicates.
LEMMA AppendFresh ==
  ASSUME NEW q \in Seq(Constraints), NEW S \in SUBSET Constraints, IsFiniteSet(S),
         \A i, j \in DOMAIN q : q[i] = q[j] => i = j,
         S \cap Range(q) = {}
  PROVE  LET r == q \o Ascending(S) IN
           /\ Range(r) = Range(q) \cup S
           /\ \A i, j \in DOMAIN r : r[i] = r[j] => i = j
<1> DEFINE a == Ascending(S)
           r == q \o a
<1>1. /\ a \in Seq(Constraints) /\ Range(a) = S
      /\ \A i, j \in DOMAIN a : a[i] = a[j] => i = j
  <2>1. a \in Seq(S) /\ Range(a) = S /\ \A i, j \in DOMAIN a : a[i] = a[j] => i = j
    BY AscendingEnumerates
  <2>. QED BY <2>1
<1>. HIDE DEF a
<1>2. /\ Len(q) \in Nat /\ DOMAIN q = 1..Len(q)
      /\ Len(a) \in Nat /\ DOMAIN a = 1..Len(a)
      /\ DOMAIN r = 1..(Len(q) + Len(a))
      /\ \A i \in DOMAIN r : r[i] = IF i <= Len(q) THEN q[i] ELSE a[i - Len(q)]
  BY <1>1
<1>3. \A i \in DOMAIN r : (i <= Len(q) /\ i \in DOMAIN q)
                           \/ (i > Len(q) /\ i - Len(q) \in DOMAIN a)
  BY <1>2
<1>. HIDE DEF r
<1>4. Range(r) = Range(q) \cup S
  <2>1. \A x \in Range(r) : x \in Range(q) \cup S
    BY <1>1, <1>2, <1>3 DEF Range
  <2>2. ASSUME NEW x \in Range(q) PROVE x \in Range(r)
    <3>1. PICK i \in DOMAIN q : x = q[i]
      BY DEF Range
    <3>2. i \in DOMAIN r /\ r[i] = x
      BY <1>2, <3>1
    <3>. QED BY <3>2 DEF Range
  <2>3. ASSUME NEW x \in S PROVE x \in Range(r)
    <3>1. PICK i \in DOMAIN a : x = a[i]
      BY <1>1 DEF Range
    <3>2. i + Len(q) \in DOMAIN r /\ i + Len(q) > Len(q) /\ (i + Len(q)) - Len(q) = i
      BY <1>2, <3>1
    <3>3. r[i + Len(q)] = x
      BY <1>2, <3>1, <3>2
    <3>. QED BY <3>2, <3>3 DEF Range
  <2>. QED BY <2>1, <2>2, <2>3
<1>5. ASSUME NEW i \in DOMAIN r, NEW j \in DOMAIN r, r[i] = r[j] PROVE i = j
  <2>0. i \in Nat /\ j \in Nat
    BY <1>2
  <2>1. CASE i <= Len(q) /\ j <= Len(q)
    BY <1>2, <1>3, <1>5, <2>0, <2>1
  <2>2. CASE i > Len(q) /\ j > Len(q)
    <3>1. i - Len(q) = j - Len(q)
      BY <1>1, <1>2, <1>3, <1>5, <2>0, <2>2
    <3>. QED BY <1>2, <2>0, <3>1
  <2>3. CASE i <= Len(q) /\ j > Len(q)
    <3>1. r[i] \in Range(q) /\ r[j] \in S
      BY <1>1, <1>2, <1>3, <2>0, <2>3 DEF Range
    <3>. QED BY <1>5, <3>1
  <2>4. CASE i > Len(q) /\ j <= Len(q)
    <3>1. r[j] \in Range(q) /\ r[i] \in S
      BY <1>1, <1>2, <1>3, <2>0, <2>4 DEF Range
    <3>. QED BY <1>5, <3>1
  <2>. QED BY <1>2, <2>0, <2>1, <2>2, <2>3, <2>4
<1>. QED BY <1>4, <1>5 DEF r, a

\* Waking the relations of one changed endpoint: the accounted domain catches
\* up at that endpoint only, and every relation that sees it is now queued.
LEMMA RequeueIInv == IInv /\ Requeue => IInv'
<1>. SUFFICES ASSUME IInv, Requeue PROVE IInv'
  OBVIOUS
<1>0. TypeOK'
  BY NextTypeOK DEF IInv, Next
<1>1. PICK i \in Changed :
        LET v == Endpoints[current][i]
            woken == {c \in AdjacentIn(phase, v) : ~inQueue[c]}
        IN  /\ queue' = queue \o Ascending(woken)
            /\ inQueue' = [c \in Constraints |-> inQueue[c] \/ c \in woken]
            /\ before' = [before EXCEPT ![v] = candidates[v]]
  BY DEF Requeue
<1> DEFINE v == Endpoints[current][i]
           woken == {c \in AdjacentIn(phase, v) : ~inQueue[c]}
<1>2. /\ stage = "requeue"
      /\ UNCHANGED <<phase, frozen, candidates, state, stage, current, cursor, failing>>
  BY DEF Requeue
<1>3. /\ Running /\ current \in Active(phase) /\ current \in Constraints
      /\ v \in Vars /\ v \in EndpointVars(current)
  <2>1. Running /\ current \in Active(phase) /\ current \in Constraints
    BY <1>2 DEF IInv, FlowInv, Active
  <2>2. i \in DOMAIN Endpoints[current]
    BY DEF Changed
  <2>. QED BY <2>1, <2>2, EndpointFacts
<1>4. before'[v] = candidates[v] /\ \A x \in Vars \ {v} : before'[x] = before[x]
  <2>. HIDE DEF v
  <2>. QED BY <1>1, <1>3 DEF IInv, TypeOK, Domains, v
<1>5. /\ woken \in SUBSET Constraints /\ IsFiniteSet(woken)
      /\ woken \subseteq Active(phase) /\ woken \cap Range(queue) = {}
  <2>1. AdjacentIn(phase, v) \in SUBSET Constraints /\ IsFiniteSet(AdjacentIn(phase, v))
    BY ActiveFinite
  <2>2. woken \in SUBSET AdjacentIn(phase, v)
    OBVIOUS
  <2>3. IsFiniteSet(woken)
    BY <2>1, <2>2, FS_Subset
  <2>4. woken \subseteq Active(phase)
    BY ActiveFinite
  <2>5. woken \cap Range(queue) = {}
    BY <2>1 DEF IInv, QueueInv, QueueDiscipline
  <2>. QED BY <2>1, <2>2, <2>3, <2>4, <2>5
<1>6. /\ Range(queue') = Range(queue) \cup woken
      /\ \A k, j \in DOMAIN queue' : queue'[k] = queue'[j] => k = j
  <2>1. queue' = queue \o Ascending(woken)
    BY <1>1
  <2>2. queue \in Seq(Constraints) /\ \A k, j \in DOMAIN queue : queue[k] = queue[j] => k = j
    BY DEF IInv, TypeOK, QueueInv, QueueDiscipline
  <2>. HIDE DEF woken
  <2>. QED BY <1>5, <2>1, <2>2, AppendFresh
<1>7. QueueInv'
  <2>1. \A c \in Constraints : inQueue'[c] <=> c \in Range(queue')
    <3>1. inQueue' = [c \in Constraints |-> inQueue[c] \/ c \in woken]
      BY <1>1
    <3>2. \A c \in Constraints : inQueue[c] <=> c \in Range(queue)
      BY DEF IInv, QueueInv, QueueDiscipline
    <3>. HIDE DEF woken
    <3>. QED BY <1>6, <3>1, <3>2
  <2>2. Range(queue') \subseteq Active(phase)
    BY <1>3, <1>5, <1>6 DEF IInv, QueueInv
  <2>. QED BY <1>2, <1>6, <2>1, <2>2 DEF QueueInv, QueueDiscipline
<1>8. \A c \in AdjacentIn(phase, v) : c \in Range(queue')
  <2>1. ASSUME NEW c \in AdjacentIn(phase, v) PROVE c \in Range(queue')
    <3>1. c \in Constraints
      BY ActiveFinite
    <3>2. c \in woken \/ c \in Range(queue)
      BY <3>1 DEF IInv, QueueInv, QueueDiscipline
    <3>. QED BY <1>6, <3>2
  <2>. QED BY <2>1
<1>9. SettledInv'
  <2>. SUFFICES ASSUME NEW c \in Active(phase)
                PROVE  c \in Range(queue') \/ c = current \/ Settled(c, before)'
    BY <1>2 DEF SettledInv
  <2>1. CASE v \in EndpointVars(c)
    BY <1>8, <2>1 DEF AdjacentIn
  <2>2. CASE v \notin EndpointVars(c) /\ c \notin Range(queue) /\ c # current
    <3>1. c \in Constraints
      BY DEF Active
    <3>2. \A x \in EndpointVars(c) : before'[x] = before[x]
      BY <1>4, <2>2, <3>1, EndpointFacts
    <3>3. Settled(c, before)
      BY <1>2, <1>3, <2>2 DEF IInv, SettledInv
    <3>4. DeferredOn(c, before) \/ LocallyConsistent(c, before)
      BY <3>3 DEF Settled
    <3>5. LocallyConsistent(c, before) => LocallyConsistent(c, before')
      BY <3>1, <3>2, LocalFrame
    <3>6. DeferredOn(c, before) => DeferredOn(c, before)'
      BY <1>2, <3>2 DEF DeferredOn
    <3>7. LocallyConsistent(c, before') <=> LocallyConsistent(c, before)'
      OBVIOUS
    <3>. QED BY <3>4, <3>5, <3>6, <3>7 DEF Settled
  <2>3. CASE c \in Range(queue)
    BY <1>6, <2>3
  <2>. QED BY <2>1, <2>2, <2>3
<1>10. FlowInv'
  BY <1>2, <1>3, <1>4 DEF IInv, FlowInv, Running
<1>11. DomainInv'
  <2>1. \A x \in Vars : candidates[x] \subseteq before'[x] /\ before'[x] \subseteq frozen[x]
    BY <1>4 DEF IInv, DomainInv
  <2>. QED BY <1>2, <2>1 DEF IInv, DomainInv, Running
<1>12. CurrentInv'
  <2>1. current \in Range(queue')
    BY <1>3, <1>8 DEF AdjacentIn
  <2>. QED BY <1>2, <2>1 DEF CurrentInv
<1>13. ClosedInv'
  BY <1>2 DEF IInv, ClosedInv
<1>. QED BY <1>0, <1>7, <1>9, <1>10, <1>11, <1>12, <1>13 DEF IInv

\* A relation is left when all it changed is accounted for.
LEMMA FinishRelationIInv == IInv /\ FinishRelation => IInv'
<1>. SUFFICES ASSUME IInv, FinishRelation PROVE IInv'
  OBVIOUS
<1>0. TypeOK'
  BY NextTypeOK DEF IInv, Next
<1>1. /\ stage = "requeue" /\ Changed = {} /\ stage' = "idle"
      /\ phase' = IF failing THEN "failed" ELSE phase
      /\ UNCHANGED <<frozen, candidates, state, queue, inQueue, current, cursor, before, failing>>
  BY DEF FinishRelation, Verdict, worklist
<1>2. Running /\ current \in Active(phase) /\ current \in Constraints
  BY <1>1 DEF IInv, FlowInv, Active
<1>3. before = candidates
  <2>1. \A x \in EndpointVars(current) : before[x] = candidates[x]
    BY <1>1, <1>2, EndpointFacts DEF Changed
  <2>2. \A x \in Vars : before[x] = candidates[x]
    BY <1>1, <2>1 DEF IInv, FlowInv
  <2>. QED BY <2>2 DEF IInv, TypeOK, Domains
<1>4. QueueInv'
  BY <1>1, <1>2 DEF IInv, QueueInv, QueueDiscipline, Running
<1>5. SettledInv'
  <2>. SUFFICES ASSUME Running', NEW c \in Active(phase')
                PROVE  c \in Range(queue) \/ Settled(c, before)'
    BY <1>1 DEF SettledInv
  <2>1. ~failing /\ phase' = phase
    BY <1>1 DEF Running
  <2>2. CASE c = current
    BY <1>1, <1>3, <2>1, <2>2 DEF IInv, CurrentInv, Settled
  <2>3. CASE c # current /\ c \notin Range(queue)
    <3>1. Settled(c, before)
      BY <1>2, <2>1, <2>3 DEF IInv, SettledInv
    <3>. QED BY <1>1, <2>1, <3>1 DEF Settled, DeferredOn
  <2>. QED BY <2>2, <2>3
<1>6. FlowInv'
  BY <1>1, <1>3 DEF FlowInv
<1>7. DomainInv'
  BY <1>1, <1>2 DEF IInv, DomainInv, Running
<1>8. CurrentInv'
  BY <1>1 DEF CurrentInv
<1>9. ClosedInv'
  BY <1>1, <1>2 DEF IInv, ClosedInv, Running
<1>. QED BY <1>0, <1>4, <1>5, <1>6, <1>7, <1>8, <1>9 DEF IInv

\* The strict phase ends: its required encodings are settled for good, because
\* only equality relations can be deferred.
LEMMA StartCommonIInv == IInv /\ StartCommon => IInv'
<1>. SUFFICES ASSUME IInv, StartCommon PROVE IInv'
  OBVIOUS
<1>0. TypeOK'
  BY NextTypeOK DEF IInv, Next
<1>1. /\ phase = "strict" /\ stage = "idle" /\ queue = <<>> /\ phase' = "common"
      /\ queue' = Ascending(Active("common"))
      /\ inQueue' = [c \in Constraints |-> c \in Active("common")]
      /\ UNCHANGED <<frozen, candidates, state, stage, current, cursor, before, failing>>
  BY StartPhaseType DEF StartCommon
<1>2. /\ Range(queue') = Active("common")
      /\ \A i, j \in DOMAIN queue' : queue'[i] = queue'[j] => i = j
  BY <1>1, ActiveFinite, AscendingEnumerates
<1>3. QueueInv'
  BY <1>1, <1>2 DEF QueueInv, QueueDiscipline
<1>4. SettledInv'
  BY <1>1, <1>2 DEF SettledInv
<1>5. FlowInv' /\ CurrentInv'
  BY <1>1 DEF IInv, FlowInv, CurrentInv
<1>6. DomainInv'
  BY <1>1 DEF IInv, DomainInv, Running
<1>7. ClosedInv'
  <2>. SUFFICES ASSUME NEW c \in Hard, Kind[c] = "RequireEncoding"
                PROVE  candidates[Endpoints[c][1]] \subseteq Admitted[c]
    BY <1>1 DEF ClosedInv
  <2>1. c \in Active(phase) /\ c \in Constraints
    BY <1>1 DEF Active, Propagated, Hard
  <2>2. Settled(c, before) /\ before = candidates
    BY <1>1, <2>1 DEF IInv, SettledInv, FlowInv, Running, Range
  <2>3. ~DeferredOn(c, before)
    BY DEF DeferredOn, EqualityKinds
  <2>. QED BY <2>2, <2>3 DEF Settled, LocallyConsistent
<1>. QED BY <1>0, <1>3, <1>4, <1>5, <1>6, <1>7 DEF IInv

\* The common phase ends: nothing is deferred in it, so all relations agree.
LEMMA FinishIInv == IInv /\ Finish => IInv'
<1>. SUFFICES ASSUME IInv, Finish PROVE IInv'
  OBVIOUS
<1>0. TypeOK'
  BY NextTypeOK DEF IInv, Next
<1>1. /\ phase = "common" /\ stage = "idle" /\ queue = <<>> /\ phase' = "done"
      /\ UNCHANGED <<frozen, candidates, state, queue, inQueue, stage, current,
                     cursor, before, failing>>
  BY DEF Finish, worklist
<1>2. QueueInv' /\ SettledInv' /\ FlowInv' /\ CurrentInv'
  BY <1>1 DEF IInv, QueueInv, QueueDiscipline, SettledInv, FlowInv, CurrentInv, Running
<1>3. DomainInv'
  BY <1>1 DEF IInv, DomainInv, Running
<1>4. ASSUME NEW c \in Hard PROVE LocallyConsistent(c, candidates)
  <2>1. CASE c \in Active("common")
    <3>1. Settled(c, before) /\ before = candidates
      BY <1>1, <2>1 DEF IInv, SettledInv, FlowInv, Running, Range
    <3>. QED BY <1>1, <3>1 DEF Settled, DeferredOn
  <2>2. CASE c \notin Active("common")
    <3>1. Kind[c] \notin EqualityKinds \cup UnaryKinds \cup SupportKinds
      BY <2>2 DEF Active, Propagated, Hard
    <3>2. Kind[c] = "RequireEncoding" => candidates[Endpoints[c][1]] \subseteq Admitted[c]
      BY <1>1 DEF IInv, ClosedInv
    <3>. QED BY <3>1, <3>2 DEF LocallyConsistent
  <2>. QED BY <2>1, <2>2
<1>5. ClosedInv'
  BY <1>1, <1>4 DEF IInv, ClosedInv
<1>. QED BY <1>0, <1>2, <1>3, <1>5 DEF IInv

LEMMA NextIInv == IInv /\ [Next]_vars => IInv'
<1>. SUFFICES ASSUME IInv, [Next]_vars PROVE IInv'
  OBVIOUS
<1>1. CASE Next
  BY <1>1, PopIInv, FilterPairIInv, FilterRoleIInv, FilterUnaryIInv, RequeueIInv,
     FinishRelationIInv, StartCommonIInv, FinishIInv DEF Next
<1>2. CASE UNCHANGED vars
  BY <1>2 DEF vars, IInv, TypeOK, FlowInv, DomainInv, QueueInv, QueueDiscipline, SettledInv,
     CurrentInv, ClosedInv, Running, Settled, DeferredOn
<1>. QED BY <1>1, <1>2

\* The worklist loop keeps its queue, its deferral rule and its accounting in
\* agreement at every step of both phases.
THEOREM Inductive == Spec => []IInv
<1>. QED BY InitIInv, NextIInv, PTL DEF Spec

\* The membership bits of runPropagationWorklist are exactly the queue, which
\* never holds a relation twice.
THEOREM QueueIsDisciplined == Spec => []QueueDiscipline
<1>1. IInv => QueueDiscipline
  BY DEF IInv, QueueInv
<1>. QED BY <1>1, Inductive, PTL

\* No relation that could still erase a candidate is ever left out of the queue
\* between two pops, except one the strict phase has deferred.
THEOREM NoLostWakeup == Spec => []UnqueuedSettled
<1>1. IInv => UnqueuedSettled
  <2>. SUFFICES ASSUME IInv, phase \in {"strict", "common"}, stage = "idle",
                       NEW c \in Active(phase)
                PROVE  c \in Range(queue) \/ Deferred(c) \/ LocallyConsistent(c, candidates)
    BY DEF UnqueuedSettled
  <2>1. before = candidates
    BY DEF IInv, FlowInv
  <2>2. c \in Range(queue) \/ Settled(c, before)
    BY DEF IInv, SettledInv, Running
  <2>. QED BY <2>1, <2>2, DeferredIsDeferredOn DEF Settled
<1>. QED BY <1>1, Inductive, PTL

\* propagateCommonToFixedPoint succeeds only at a fixed point of every hard
\* relation, with every domain inhabited and every state up to date.
THEOREM EndsInFixedPoint == Spec => []FixedPoint
<1>1. IInv => FixedPoint
  BY DEF IInv, DomainInv, ClosedInv, FixedPoint
<1>. QED BY <1>1, Inductive, PTL

-----------------------------------------------------------------------------
(* What filtering can never erase.                                         *)

\* An equality filter keeps what an agreeing subdomain needs on both sides.
LEMMA PairKeeps ==
  ASSUME NEW c \in Constraints, Kind[c] \in EqualityKinds,
         NEW D \in Domains, NEW E \in Domains, LocallyConsistent(c, E),
         \A x \in Vars : E[x] \subseteq D[x],
         NEW l \in DOMAIN Endpoints[c], NEW r \in DOMAIN Endpoints[c], l < r
  PROVE  LET v == Endpoints[c][l]
             w == Endpoints[c][r]
         IN  /\ E[v] \subseteq Supported(c, v, D[v], w, D[w])
             /\ E[w] \subseteq Supported(c, w, D[w], v, D[v])
<1>1. PairConsistent(c, E, l, r)
  BY DEF LocallyConsistent
<1>2. Endpoints[c][l] \in Vars /\ Endpoints[c][r] \in Vars
  BY EndpointFacts
<1>. QED BY <1>1, <1>2 DEF PairConsistent, Supported

\* An instruction or reduction filter keeps every element of an agreeing
\* subdomain: its live tuple agrees with itself at every repeated endpoint.
LEMMA RoleKeeps ==
  ASSUME NEW c \in Constraints, Kind[c] \in SupportKinds,
         NEW D \in Domains, NEW E \in Domains, LocallyConsistent(c, E),
         \A x \in Vars : E[x] \subseteq D[x],
         NEW i \in DOMAIN Endpoints[c]
  PROVE  E[Endpoints[c][i]] \subseteq TupleSupported(c, Endpoints[c][i], D)
<1> DEFINE v == Endpoints[c][i]
<1>. SUFFICES ASSUME NEW x \in E[v]
              PROVE  x \in TupleSupported(c, v, D)
  OBVIOUS
<1>1. \A j \in DOMAIN Endpoints[c] : Endpoints[c][j] \in Vars
  BY EndpointFacts
<1>2. PICK t \in Tuples[c] : Live(c, t, E) /\ t[i] = x
  BY DEF LocallyConsistent, RoleConsistent
<1>3. Live(c, t, D)
  BY <1>1, <1>2 DEF Live
<1>4. /\ t \in [DOMAIN Endpoints[c] -> Encodings]
      /\ \A j, k \in DOMAIN t : Endpoints[c][j] = Endpoints[c][k] => t[j] = t[k]
  BY GraphAssumption DEF WellFormed
<1>5. \A j \in DOMAIN Endpoints[c] : Endpoints[c][j] = v => t[j] = x
  BY <1>2, <1>4
<1>6. x \in D[v]
  BY <1>1
<1>. QED BY <1>3, <1>5, <1>6 DEF TupleSupported

\* No step erases an element of an agreeing subdomain of the current domains.
LEMMA StepKeepsAgreeing ==
  ASSUME IInv, [Next]_vars, NEW E \in ConsistentSubdomains,
         \A v \in Vars : E[v] \subseteq candidates[v]
  PROVE  \A v \in Vars : E[v] \subseteq candidates'[v]
<1> DEFINE c == current
<1>2. \A v \in Vars : E[v] \subseteq candidates[v]
  OBVIOUS
<1>3. E \in Domains /\ candidates \in Domains
  BY DEF ConsistentSubdomains, IInv, TypeOK
<1>4. stage = "filter" => c \in Constraints /\ LocallyConsistent(c, E)
  <2>. SUFFICES ASSUME stage = "filter" PROVE c \in Hard
    BY DEF ConsistentSubdomains, Hard
  <2>. QED BY ActiveFinite DEF IInv, FlowInv
<1>5. CASE FilterPair
  <2> DEFINE l == cursor[1]
             r == cursor[2]
             v == Endpoints[c][l]
             w == Endpoints[c][r]
             keepV == Supported(c, v, candidates[v], w, candidates[w])
             keepW == Supported(c, w, candidates[w], v, candidates[v])
  <2>1. /\ stage = "filter" /\ Kind[c] \in EqualityKinds
        /\ candidates' = [candidates EXCEPT ![v] = keepV, ![w] = keepW]
    BY <1>5 DEF FilterPair
  <2>2. l \in DOMAIN Endpoints[c] /\ r \in DOMAIN Endpoints[c] /\ l < r
    <3>1. l \in Nat /\ r \in Nat /\ 1 <= l /\ l < r /\ r <= Len(Endpoints[c])
      BY <2>1 DEF IInv, FlowInv, TypeOK
    <3>. QED BY <1>4, <2>1, <3>1, EndpointFacts
  <2>3. E[v] \subseteq keepV /\ E[w] \subseteq keepW
    BY <1>2, <1>3, <1>4, <2>1, <2>2, PairKeeps
  <2>. HIDE DEF keepV, keepW, v, w
  <2>. QED BY <1>2, <1>3, <2>1, <2>3 DEF Domains
<1>6. CASE FilterRole
  <2> DEFINE i == cursor[1]
             v == Endpoints[c][i]
             repeated == \E j \in 1..(i - 1) : Endpoints[c][j] = v
             keep == IF repeated THEN candidates[v]
                     ELSE TupleSupported(c, v, candidates)
  <2>1. /\ stage = "filter" /\ Kind[c] \in SupportKinds
        /\ candidates' = [candidates EXCEPT ![v] = keep]
    BY <1>6 DEF FilterRole
  <2>2. i \in DOMAIN Endpoints[c] /\ v \in Vars
    <3>1. i \in Nat /\ 1 <= i /\ i <= Len(Endpoints[c])
      BY <2>1 DEF IInv, FlowInv, TypeOK
    <3>. QED BY <1>4, <2>1, <3>1, EndpointFacts
  <2>3. E[v] \subseteq TupleSupported(c, v, candidates)
    BY <1>2, <1>3, <1>4, <2>1, <2>2, RoleKeeps
  <2>4. E[v] \subseteq keep
    BY <1>2, <2>2, <2>3
  <2>. HIDE DEF keep, v
  <2>. QED BY <1>2, <1>3, <2>1, <2>4 DEF Domains
<1>7. CASE FilterUnary
  <2> DEFINE v == Endpoints[c][1]
             keep == candidates[v] \cap Admitted[c]
  <2>1. /\ stage = "filter" /\ Kind[c] \in UnaryKinds \cup {"RequireEncoding"}
        /\ candidates' = [candidates EXCEPT ![v] = keep]
    BY <1>7 DEF FilterUnary
  <2>2. v \in Vars /\ E[v] \subseteq Admitted[c]
    BY <1>4, <2>1, EndpointFacts, GraphAssumption DEF WellFormed, LocallyConsistent
  <2>3. E[v] \subseteq keep
    BY <1>2, <2>2
  <2>. HIDE DEF keep, v
  <2>. QED BY <1>2, <1>3, <2>1, <2>3 DEF Domains
<1>8. CASE UNCHANGED candidates
  BY <1>2, <1>8
<1>. QED BY <1>5, <1>6, <1>7, <1>8 DEF Next, Pop, Requeue, FinishRelation, StartCommon,
         Finish, vars

LEMMA NextAgreeingKept == IInv /\ AgreeingKept /\ [Next]_vars => AgreeingKept'
<1>. SUFFICES ASSUME IInv, AgreeingKept, [Next]_vars,
                     NEW E \in ConsistentSubdomains,
                     \A v \in Vars : E[v] \subseteq frozen'[v]
              PROVE  \A v \in Vars : E[v] \subseteq candidates'[v]
  BY DEF AgreeingKept
<1>1. frozen' = frozen
  BY DEF Next, Pop, FilterPair, FilterRole, FilterUnary, Requeue, FinishRelation,
         StartCommon, Finish, vars
<1>. QED BY <1>1, StepKeepsAgreeing DEF AgreeingKept

\* Nothing an agreeing subdomain needs is ever erased, at any step.
THEOREM AgreementSurvives == Spec => []AgreeingKept
<1>1. Init => AgreeingKept
  BY DEF Init, AgreeingKept
<1>. QED BY <1>1, Inductive, NextAgreeingKept, PTL DEF Spec

\* The fixed point propagation reaches is the greatest one: the order of the
\* worklist and the strict phase before the common one cannot change it.
THEOREM ReachesGreatestFixedPoint == Spec => []GreatestFixedPoint
<1>1. AgreeingKept => GreatestFixedPoint
  BY DEF AgreeingKept, GreatestFixedPoint
<1>. QED BY <1>1, AgreementSurvives, PTL

\* A complete assignment that satisfies every hard constraint is, taken as
\* singletons, an agreeing subdomain.  The solver only compares the first
\* endpoint of a SameLayout relation with the others; that the others agree
\* with each other as well is what CompatibleAssumption adds.
LEMMA SolutionAgrees ==
  ASSUME NEW s \in Solutions
  PROVE  [v \in Vars |-> {s[v]}] \in ConsistentSubdomains
<1> DEFINE E == [v \in Vars |-> {s[v]}]
<1>1. s \in [Vars -> Encodings] /\ E \in Domains
  BY DEF Solutions, Domains
<1>2. ASSUME NEW c \in Hard PROVE LocallyConsistent(c, E)
  <2>1. c \in Constraints /\ Satisfies(c, s)
    BY DEF Solutions, Hard
  <2>2. \A i \in DOMAIN Endpoints[c] :
          /\ Endpoints[c][i] \in Vars
          /\ s[Endpoints[c][i]] \in Encodings
          /\ E[Endpoints[c][i]] = {s[Endpoints[c][i]]}
    BY <1>1, <2>1, EndpointFacts
  <2>3. ASSUME Kind[c] \in EqualityKinds,
               NEW l \in DOMAIN Endpoints[c], NEW r \in DOMAIN Endpoints[c], l < r
        PROVE  PairConsistent(c, E, l, r)
    <3> DEFINE e(i) == Endpoints[c][i]
               K(i, j) == Compatible(c, e(i), s[e(i)], e(j), s[e(j)])
    <3>1. /\ l \in Nat /\ r \in Nat /\ 1 <= l /\ 1 < r /\ 1 \in DOMAIN Endpoints[c]
          /\ Len(Endpoints[c]) \in Nat /\ r <= Len(Endpoints[c])
      BY <2>1, <2>3, EndpointFacts
    <3>2. K(1, r)
      BY <2>1, <2>3, <3>1 DEF Satisfies
    <3>3. K(l, r)
      <4>1. CASE l = 1
        BY <3>2, <4>1
      <4>2. CASE l # 1
        <5>1. K(1, l)
          <6>1. l > 1
            BY <3>1, <4>2
          <6>. QED BY <2>1, <2>3, <6>1 DEF Satisfies
        <5>2. K(l, 1)
          BY <2>1, <2>2, <2>3, <3>1, <4>2, <5>1, CompatibleAssumption
        <5>3. Kind[c] = "SameLayout"
          <6>1. Len(Endpoints[c]) # 2
            BY <3>1, <2>3, <4>2
          <6>. QED BY <2>1, <2>3, <6>1, GraphAssumption DEF WellFormed
        <5>. QED BY <2>1, <2>2, <2>3, <3>1, <3>2, <4>2, <5>2, <5>3, CompatibleAssumption
      <4>. QED BY <4>1, <4>2
    <3>4. K(r, l)
      <4>1. l # r
        BY <3>1, <2>3
      <4>. QED BY <2>1, <2>2, <2>3, <3>3, <4>1, CompatibleAssumption
    <3>. QED BY <2>2, <3>3, <3>4 DEF PairConsistent
  <2>4. ASSUME Kind[c] \in SupportKinds, NEW i \in DOMAIN Endpoints[c]
        PROVE  RoleConsistent(c, E, i)
    BY <2>1, <2>2, <2>4 DEF Satisfies, RoleConsistent, Live
  <2>5. ASSUME Kind[c] \in UnaryKinds \cup {"RequireEncoding"}
        PROVE  E[Endpoints[c][1]] \subseteq Admitted[c]
    <3>1. 1 \in DOMAIN Endpoints[c]
      BY <2>1, <2>5, EndpointFacts, GraphAssumption DEF WellFormed
    <3>. QED BY <2>1, <2>2, <2>5, <3>1 DEF Satisfies
  <2>. QED BY <2>3, <2>4, <2>5 DEF LocallyConsistent
<1>. QED BY <1>1, <1>2 DEF ConsistentSubdomains

\* Propagation erases no candidate of a complete assignment the solver would
\* accept.
THEOREM KeepsEverySolution == Spec => []NoSolutionLost
<1>1. AgreeingKept => NoSolutionLost
  <2>. SUFFICES ASSUME AgreeingKept, NEW s \in Solutions, Within(s, frozen)
                PROVE  Within(s, candidates)
    BY DEF NoSolutionLost
  <2>1. [v \in Vars |-> {s[v]}] \in ConsistentSubdomains
    BY SolutionAgrees
  <2>2. \A v \in Vars : [x \in Vars |-> {s[x]}][v] \subseteq frozen[v]
    BY DEF Within
  <2>3. \A v \in Vars : [x \in Vars |-> {s[x]}][v] \subseteq candidates[v]
    BY <2>1, <2>2 DEF AgreeingKept
  <2>. QED BY <2>3 DEF Within
<1>. QED BY <1>1, AgreementSurvives, PTL

\* A conflict is reported only for a graph no assignment satisfies.
THEOREM ConflictIsGenuine == Spec => []ConflictMeansInfeasible
<1>1. IInv /\ NoSolutionLost => ConflictMeansInfeasible
  BY DEF IInv, DomainInv, NoSolutionLost, ConflictMeansInfeasible, Within
<1>. QED BY <1>1, Inductive, KeepsEverySolution, PTL

-----------------------------------------------------------------------------
(* PropagationStatistics: why the bound computed up front is never passed. *)

StatsType ==
  [initialCandidates : Nat, finalCandidates : Nat, deletedCandidates : Nat,
   queuePops : Nat, enqueues : Nat, popUpperBound : Nat, staticPopUpperBound : Nat]

\* The two bounds are paid for by different sets.  An enqueue is paid for by
\* the initial queue or by a wake-up; the wake-ups that erasing one candidate
\* may cause are charged to its pairs with the adjacent relations, and those
\* the domains still hold have not been spent.
AccountInv ==
  /\ stats \in StatsType
  /\ stats.finalCandidates = Cardinality(CandidatesOf(before))
  /\ stats.initialCandidates = stats.finalCandidates + stats.deletedCandidates
  /\ stats.enqueues = stats.queuePops + Len(queue)
  /\ stats.enqueues <= stats.popUpperBound
  /\ Running => stats.popUpperBound + Cardinality(WorkOf(phase, before))
                  <= stats.staticPopUpperBound
  /\ stats.popUpperBound <= stats.staticPopUpperBound

Tagged(F) == UNION {{v} \X F[v] : v \in Vars}

\* Every set the statistics count in is finite.
LEMMA GraphIsFinite ==
  /\ IsFiniteSet(Vars) /\ IsFiniteSet(Encodings) /\ IsFiniteSet(Constraints)
  /\ IsFiniteSet(Encodings \X Constraints)
<1>1. IsFiniteSet(Vars) /\ IsFiniteSet(Encodings) /\ NumConstraints \in Nat
  BY GraphAssumption DEF WellFormed
<1>2. IsFiniteSet(Constraints)
  BY <1>1, FS_Interval DEF Constraints
<1>. QED BY <1>1, <1>2, FS_Product

\* Tagging elements with their variable keeps a family of finite sets finite,
\* and what one variable loses is what the whole family loses.
LEMMA TaggedFinite ==
  ASSUME NEW F, NEW T, IsFiniteSet(T), \A v \in Vars : F[v] \subseteq T
  PROVE  IsFiniteSet(Tagged(F)) /\ Cardinality(Tagged(F)) \in Nat
<1>1. IsFiniteSet(Vars \X T)
  BY GraphIsFinite, FS_Product
<1>2. Tagged(F) \in SUBSET (Vars \X T)
  BY DEF Tagged
<1>. QED BY <1>1, <1>2, FS_Subset, FS_CardinalityType

LEMMA TaggedShrinks ==
  ASSUME NEW F, NEW G, NEW T, IsFiniteSet(T), NEW v \in Vars,
         \A x \in Vars : F[x] \subseteq T,
         G[v] \subseteq F[v], \A x \in Vars \ {v} : G[x] = F[x]
  PROVE  /\ IsFiniteSet(F[v] \ G[v])
         /\ Cardinality(Tagged(F)) = Cardinality(Tagged(G)) + Cardinality(F[v] \ G[v])
<1> DEFINE lost == F[v] \ G[v]
<1>1. \A x \in Vars : G[x] \subseteq T
  OBVIOUS
<1>2. IsFiniteSet(Tagged(G)) /\ Cardinality(Tagged(G)) \in Nat
  BY <1>1, TaggedFinite
<1>3. IsFiniteSet(lost) /\ Cardinality(lost) \in Nat
  BY FS_Subset, FS_CardinalityType
<1>4. IsFiniteSet({v}) /\ Cardinality({v}) = 1
  BY FS_Singleton
<1>5. IsFiniteSet({v} \X lost) /\ Cardinality({v} \X lost) = Cardinality(lost)
  <2>. HIDE DEF lost
  <2>1. IsFiniteSet({v} \X lost) /\ Cardinality({v} \X lost) = 1 * Cardinality(lost)
    BY <1>3, <1>4, FS_Product
  <2>. QED BY <1>3, <2>1
<1>6. Tagged(F) = Tagged(G) \cup ({v} \X lost)
  <2>1. \A e : e \in Tagged(F) <=> \E x \in Vars : e \in {x} \X F[x]
    BY DEF Tagged
  <2>2. \A e : e \in Tagged(G) <=> \E x \in Vars : e \in {x} \X G[x]
    BY DEF Tagged
  <2>3. ASSUME NEW x \in Vars, NEW e \in {x} \X F[x]
        PROVE  e \in Tagged(G) \cup ({v} \X lost)
    BY <2>2
  <2>4. ASSUME NEW x \in Vars, NEW e \in {x} \X G[x]
        PROVE  e \in Tagged(F)
    BY <2>1
  <2>5. \A e \in {v} \X lost : e \in Tagged(F)
    BY <2>1
  <2>. QED BY <2>1, <2>2, <2>3, <2>4, <2>5
<1>7. Tagged(G) \cap ({v} \X lost) = {}
  BY DEF Tagged
<1>8. Cardinality({}) = 0
  BY FS_EmptySet
<1>. HIDE DEF lost
<1>9. Cardinality(Tagged(F)) = Cardinality(Tagged(G)) + Cardinality({v} \X lost) - 0
  BY <1>2, <1>5, <1>6, <1>7, <1>8, FS_Union
<1>. QED BY <1>2, <1>3, <1>5, <1>9 DEF lost

\* What accounting for one endpoint takes out of the two sets.
LEMMA WorkShrinks ==
  ASSUME NEW p, NEW D \in Domains, NEW E \in Domains, NEW v \in Vars,
         E[v] \subseteq D[v], \A x \in Vars \ {v} : E[x] = D[x]
  PROVE  /\ Cardinality(CandidatesOf(D)) \in Nat /\ Cardinality(CandidatesOf(E)) \in Nat
         /\ Cardinality(WorkOf(p, D)) \in Nat /\ Cardinality(WorkOf(p, E)) \in Nat
         /\ IsFiniteSet(D[v] \ E[v]) /\ Cardinality(D[v] \ E[v]) \in Nat
         /\ Cardinality(AdjacentIn(p, v)) \in Nat
         /\ Cardinality(CandidatesOf(D))
              = Cardinality(CandidatesOf(E)) + Cardinality(D[v] \ E[v])
         /\ Cardinality(WorkOf(p, D))
              = Cardinality(WorkOf(p, E))
                + Cardinality(D[v] \ E[v]) * Cardinality(AdjacentIn(p, v))
<1> DEFINE F == [x \in Vars |-> D[x] \X AdjacentIn(p, x)]
           G == [x \in Vars |-> E[x] \X AdjacentIn(p, x)]
           T == Encodings \X Constraints
           lost == D[v] \ E[v]
           adjacent == AdjacentIn(p, v)
<1>1. IsFiniteSet(Encodings) /\ IsFiniteSet(T)
  BY GraphIsFinite
<1>2. /\ CandidatesOf(D) = Tagged(D) /\ CandidatesOf(E) = Tagged(E)
      /\ WorkOf(p, D) = Tagged(F) /\ WorkOf(p, E) = Tagged(G)
  BY DEF CandidatesOf, WorkOf, Tagged
<1>3. \A x \in Vars : D[x] \subseteq Encodings /\ E[x] \subseteq Encodings
  BY DEF Domains
<1>4. \A x \in Vars : AdjacentIn(p, x) \subseteq Constraints
  BY DEF AdjacentIn, Active
<1>5. \A x \in Vars : F[x] \subseteq T /\ G[x] \subseteq T
  BY <1>3, <1>4
<1>6. G[v] \subseteq F[v] /\ (\A x \in Vars \ {v} : G[x] = F[x]) /\ F[v] \ G[v] = lost \X adjacent
  OBVIOUS
<1>7. IsFiniteSet(adjacent) /\ Cardinality(adjacent) \in Nat
  BY ActiveFinite, FS_CardinalityType
<1>8. IsFiniteSet(lost) /\ Cardinality(lost) \in Nat
  BY <1>1, <1>3, FS_Subset, FS_CardinalityType
<1>9. /\ Cardinality(Tagged(D)) \in Nat /\ Cardinality(Tagged(E)) \in Nat
      /\ Cardinality(Tagged(D)) = Cardinality(Tagged(E)) + Cardinality(lost)
  <2>1. Cardinality(Tagged(D)) \in Nat
    BY <1>1, <1>3, TaggedFinite
  <2>2. Cardinality(Tagged(E)) \in Nat
    BY <1>1, <1>3, TaggedFinite
  <2>3. Cardinality(Tagged(D)) = Cardinality(Tagged(E)) + Cardinality(D[v] \ E[v])
    BY <1>1, <1>3, TaggedShrinks
  <2>. QED BY <2>1, <2>2, <2>3
<1>10. /\ Cardinality(Tagged(F)) \in Nat /\ Cardinality(Tagged(G)) \in Nat
       /\ Cardinality(Tagged(F)) = Cardinality(Tagged(G)) + Cardinality(F[v] \ G[v])
  <2>. HIDE DEF F, G, T
  <2>1. Cardinality(Tagged(F)) \in Nat
    BY <1>1, <1>5, TaggedFinite
  <2>2. Cardinality(Tagged(G)) \in Nat
    BY <1>1, <1>5, TaggedFinite
  <2>3. Cardinality(Tagged(F)) = Cardinality(Tagged(G)) + Cardinality(F[v] \ G[v])
    <3>1. \A x \in Vars : F[x] \subseteq T
      BY <1>5
    <3>2. G[v] \subseteq F[v] /\ \A x \in Vars \ {v} : G[x] = F[x]
      BY <1>6
    <3>3. IsFiniteSet(T)
      BY <1>1
    <3>4. PICK f : f = F
      OBVIOUS
    <3>5. PICK g : g = G
      OBVIOUS
    <3>6. PICK t : t = T
      OBVIOUS
    <3>7. /\ IsFiniteSet(t) /\ (\A x \in Vars : f[x] \subseteq t)
          /\ g[v] \subseteq f[v] /\ \A x \in Vars \ {v} : g[x] = f[x]
      BY <3>1, <3>2, <3>3, <3>4, <3>5, <3>6
    <3>8. Cardinality(Tagged(f)) = Cardinality(Tagged(g)) + Cardinality(f[v] \ g[v])
      BY ONLY <3>7, v \in Vars, TaggedShrinks
    <3>. QED BY <3>4, <3>5, <3>8
  <2>. QED BY <2>1, <2>2, <2>3
<1>11. Cardinality(lost \X adjacent) = Cardinality(lost) * Cardinality(adjacent)
  <2>. HIDE DEF lost, adjacent
  <2>. QED BY <1>7, <1>8, FS_Product
<1>. QED BY <1>2, <1>6, <1>7, <1>8, <1>9, <1>10, <1>11

\* A phase starts with as many enqueues as its bound allows so far.
LEMMA StartAccount ==
  ASSUME NEW p, NEW D \in Domains
  PROVE  /\ StartStatistics(p, D) \in StatsType
         /\ StartStatistics(p, D).finalCandidates = Cardinality(CandidatesOf(D))
         /\ StartStatistics(p, D).initialCandidates
              = StartStatistics(p, D).finalCandidates + StartStatistics(p, D).deletedCandidates
         /\ StartStatistics(p, D).enqueues
              = StartStatistics(p, D).queuePops + Len(Ascending(Active(p)))
         /\ StartStatistics(p, D).enqueues <= StartStatistics(p, D).popUpperBound
         /\ StartStatistics(p, D).popUpperBound + Cardinality(WorkOf(p, D))
              <= StartStatistics(p, D).staticPopUpperBound
         /\ StartStatistics(p, D).popUpperBound <= StartStatistics(p, D).staticPopUpperBound
<1>1. Cardinality(CandidatesOf(D)) \in Nat /\ Cardinality(WorkOf(p, D)) \in Nat
  <2> DEFINE T == Encodings \X Constraints
             F == [x \in Vars |-> D[x] \X AdjacentIn(p, x)]
  <2>1. IsFiniteSet(Encodings) /\ IsFiniteSet(T)
    BY GraphIsFinite
  <2>2. CandidatesOf(D) = Tagged(D) /\ WorkOf(p, D) = Tagged(F)
    BY DEF CandidatesOf, WorkOf, Tagged
  <2>3. \A x \in Vars : D[x] \subseteq Encodings /\ AdjacentIn(p, x) \subseteq Constraints
    BY DEF Domains, AdjacentIn, Active
  <2>4. \A x \in Vars : F[x] \subseteq T
    BY <2>3
  <2>5. Cardinality(Tagged(D)) \in Nat
    BY <2>1, <2>3, TaggedFinite
  <2>6. Cardinality(Tagged(F)) \in Nat
    <3>. HIDE DEF F, T
    <3>. QED BY <2>1, <2>4, TaggedFinite
  <2>. QED BY <2>2, <2>5, <2>6
<1>2. Active(p) \in SUBSET Constraints /\ IsFiniteSet(Active(p))
  BY ActiveFinite
<1>3. Cardinality(Active(p)) \in Nat /\ Len(Ascending(Active(p))) = Cardinality(Active(p))
  BY <1>2, FS_CardinalityType, AscendingEnumerates
<1>. QED BY <1>1, <1>3 DEF StartStatistics, StatsType

LEMMA InitAccount == Init => AccountInv
<1>. SUFFICES ASSUME Init PROVE AccountInv
  OBVIOUS
<1>1. frozen \in Domains /\ before = frozen /\ phase = "strict"
  BY DEF Init, Domains
<1>2. queue = Ascending(Active("strict")) /\ stats = StartStatistics("strict", frozen)
  BY StartPhaseType DEF Init
<1>. HIDE DEF Running
<1>. QED BY <1>1, <1>2, StartAccount DEF AccountInv

\* The record arithmetic of the two steps that update the statistics.
LEMMA PopStats ==
  ASSUME NEW s \in StatsType, NEW t, t = [s EXCEPT !.queuePops = @ + 1]
  PROVE  /\ t \in StatsType
         /\ t.queuePops = s.queuePops + 1
         /\ t.initialCandidates = s.initialCandidates
         /\ t.finalCandidates = s.finalCandidates
         /\ t.deletedCandidates = s.deletedCandidates
         /\ t.enqueues = s.enqueues
         /\ t.popUpperBound = s.popUpperBound
         /\ t.staticPopUpperBound = s.staticPopUpperBound
BY DEF StatsType

AfterRequeue(s, t, e, a, w) ==
  /\ t \in StatsType
  /\ t.queuePops = s.queuePops
  /\ t.initialCandidates = s.initialCandidates
  /\ t.finalCandidates = s.finalCandidates - e
  /\ t.deletedCandidates = s.deletedCandidates + e
  /\ t.enqueues = s.enqueues + w
  /\ t.popUpperBound = s.popUpperBound + a
  /\ t.staticPopUpperBound = s.staticPopUpperBound

LEMMA RequeueStats ==
  ASSUME NEW s \in StatsType, NEW t, NEW e \in Nat, NEW a \in Nat, NEW w \in Nat,
         e <= s.finalCandidates
  PROVE  t = [s EXCEPT !.deletedCandidates = @ + e, !.finalCandidates = @ - e,
                       !.popUpperBound = @ + a, !.enqueues = @ + w]
           => AfterRequeue(s, t, e, a, w)
<1>1. PICK d : d = [s EXCEPT !.deletedCandidates = @ + e]
  OBVIOUS
<1>2. PICK f : f = [d EXCEPT !.finalCandidates = s.finalCandidates - e]
  OBVIOUS
<1>3. PICK b : b = [f EXCEPT !.popUpperBound = s.popUpperBound + a]
  OBVIOUS
<1>4. ASSUME t = [s EXCEPT !.deletedCandidates = @ + e, !.finalCandidates = @ - e,
                           !.popUpperBound = @ + a, !.enqueues = @ + w]
      PROVE  t = [b EXCEPT !.enqueues = s.enqueues + w]
  BY <1>1, <1>2, <1>3, <1>4
<1>5. /\ d \in StatsType
      /\ d.deletedCandidates = s.deletedCandidates + e
      /\ d.initialCandidates = s.initialCandidates /\ d.finalCandidates = s.finalCandidates
      /\ d.queuePops = s.queuePops /\ d.enqueues = s.enqueues
      /\ d.popUpperBound = s.popUpperBound /\ d.staticPopUpperBound = s.staticPopUpperBound
  BY <1>1 DEF StatsType
<1>6. /\ f \in StatsType
      /\ f.finalCandidates = s.finalCandidates - e
      /\ f.initialCandidates = d.initialCandidates /\ f.deletedCandidates = d.deletedCandidates
      /\ f.queuePops = d.queuePops /\ f.enqueues = d.enqueues
      /\ f.popUpperBound = d.popUpperBound /\ f.staticPopUpperBound = d.staticPopUpperBound
  BY <1>2, <1>5 DEF StatsType
<1>7. /\ b \in StatsType
      /\ b.popUpperBound = s.popUpperBound + a
      /\ b.initialCandidates = f.initialCandidates /\ b.deletedCandidates = f.deletedCandidates
      /\ b.queuePops = f.queuePops /\ b.enqueues = f.enqueues
      /\ b.finalCandidates = f.finalCandidates /\ b.staticPopUpperBound = f.staticPopUpperBound
  BY <1>3, <1>6 DEF StatsType
<1>8. ASSUME t = [b EXCEPT !.enqueues = s.enqueues + w]
      PROVE  AfterRequeue(s, t, e, a, w)
  <2>1. /\ t \in StatsType
        /\ t.enqueues = s.enqueues + w
        /\ t.initialCandidates = b.initialCandidates
        /\ t.deletedCandidates = b.deletedCandidates
        /\ t.queuePops = b.queuePops /\ t.popUpperBound = b.popUpperBound
        /\ t.finalCandidates = b.finalCandidates
        /\ t.staticPopUpperBound = b.staticPopUpperBound
    BY <1>7, <1>8 DEF StatsType
  <2>. QED BY <1>5, <1>6, <1>7, <2>1 DEF AfterRequeue
<1>. QED BY <1>4, <1>8, Zenon

LEMMA NextAccount == IInv /\ AccountInv /\ [Next]_vars /\ IInv' => AccountInv'
<1>. SUFFICES ASSUME IInv, AccountInv, [Next]_vars, IInv' PROVE AccountInv'
  OBVIOUS
<1>1. ASSUME UNCHANGED <<queue, before, stats>>, phase' = phase \/ ~Running'
      PROVE  AccountInv'
  <2>1. WorkOf(phase, before)' = WorkOf(phase', before)
    BY <1>1 DEF WorkOf, AdjacentIn, Active
  <2>2. CandidatesOf(before)' = CandidatesOf(before)
    BY <1>1 DEF CandidatesOf
  <2>3. CASE ~Running'
    BY <1>1, <2>2, <2>3 DEF AccountInv
  <2>4. CASE phase' = phase
    BY <1>1, <2>1, <2>2, <2>4 DEF AccountInv, Running
  <2>. QED BY <1>1, <2>3, <2>4
<1>2. CASE Pop
  <2>1. /\ stats' = [stats EXCEPT !.queuePops = @ + 1] /\ queue # <<>> /\ queue' = Tail(queue)
        /\ phase' = phase /\ before' = before
    BY <1>2 DEF Pop, Remaining
  <2>2. Len(queue) \in Nat /\ Len(queue') = Len(queue) - 1
    BY <2>1 DEF IInv, TypeOK
  <2>3. /\ stats' \in StatsType
        /\ stats'.queuePops = stats.queuePops + 1
        /\ stats'.initialCandidates = stats.initialCandidates
        /\ stats'.finalCandidates = stats.finalCandidates
        /\ stats'.deletedCandidates = stats.deletedCandidates
        /\ stats'.enqueues = stats.enqueues
        /\ stats'.popUpperBound = stats.popUpperBound
        /\ stats'.staticPopUpperBound = stats.staticPopUpperBound
    <3>1. stats \in StatsType
      BY DEF AccountInv
    <3>2. PICK t : t = stats'
      OBVIOUS
    <3>. QED BY <2>1, <3>1, <3>2, PopStats
  <2>4. stats.queuePops \in Nat
    BY DEF AccountInv, StatsType
  <2>5. WorkOf(phase, before)' = WorkOf(phase, before)
    BY <2>1 DEF WorkOf, AdjacentIn, Active
  <2>6. CandidatesOf(before)' = CandidatesOf(before)
    BY <2>1 DEF CandidatesOf
  <2>. QED BY <2>1, <2>2, <2>3, <2>4, <2>5, <2>6 DEF AccountInv, Running
<1>3. CASE Requeue
  <2>1. PICK i \in Changed :
          LET v == Endpoints[current][i]
              adjacent == AdjacentIn(phase, v)
              woken == {c \in adjacent : ~inQueue[c]}
              erased == Cardinality(before[v] \ candidates[v])
          IN  /\ queue' = queue \o Ascending(woken)
              /\ before' = [before EXCEPT ![v] = candidates[v]]
              /\ stats' = [stats EXCEPT
                   !.deletedCandidates = @ + erased,
                   !.finalCandidates = @ - erased,
                   !.popUpperBound = @ + Cardinality(adjacent),
                   !.enqueues = @ + Cardinality(woken)]
    BY <1>3 DEF Requeue
  <2> DEFINE v == Endpoints[current][i]
             adjacent == AdjacentIn(phase, v)
             woken == {c \in adjacent : ~inQueue[c]}
             lost == before[v] \ candidates[v]
             erased == Cardinality(lost)
             a == Cardinality(adjacent)
             w == Cardinality(woken)
  <2>2. /\ v \in Vars /\ Running /\ phase' = phase /\ before[v] # candidates[v]
        /\ candidates[v] \subseteq before[v]
    <3>1. Running /\ current \in Constraints /\ phase' = phase
      BY <1>3 DEF Requeue, IInv, FlowInv, Active
    <3>2. i \in DOMAIN Endpoints[current] /\ before[v] # candidates[v]
      BY DEF Changed
    <3>3. v \in Vars
      BY <3>1, <3>2, EndpointFacts
    <3>. QED BY <3>1, <3>2, <3>3 DEF IInv, DomainInv
  <2>3. before \in Domains /\ before' \in Domains /\ queue \in Seq(Constraints)
    BY DEF IInv, TypeOK
  <2>4. before'[v] = candidates[v] /\ \A x \in Vars \ {v} : before'[x] = before[x]
    <3>. HIDE DEF v
    <3>. QED BY <2>1, <2>2, <2>3 DEF Domains, v
  <2>5. /\ Cardinality(CandidatesOf(before)) \in Nat
        /\ Cardinality(CandidatesOf(before')) \in Nat
        /\ Cardinality(WorkOf(phase, before)) \in Nat
        /\ Cardinality(WorkOf(phase, before')) \in Nat
        /\ IsFiniteSet(lost) /\ erased \in Nat /\ a \in Nat
        /\ Cardinality(CandidatesOf(before)) = Cardinality(CandidatesOf(before')) + erased
        /\ Cardinality(WorkOf(phase, before)) = Cardinality(WorkOf(phase, before')) + erased * a
    <3>. HIDE DEF v
    <3>1. PICK D \in Domains : D = before
      BY <2>3
    <3>2. PICK E \in Domains : E = before'
      BY <2>3
    <3>3. E[v] \subseteq D[v] /\ \A x \in Vars \ {v} : E[x] = D[x]
      BY <2>2, <2>4, <3>1, <3>2
    <3>4. D[v] \ E[v] = lost
      BY <2>4, <3>1, <3>2
    <3>5. PICK p : p = phase
      OBVIOUS
    <3>. HIDE DEF lost, adjacent
    <3>. QED BY <2>2, <3>1, <3>2, <3>3, <3>4, <3>5, WorkShrinks DEF adjacent
  <2>6. erased >= 1
    <3>1. lost # {}
      BY <2>2
    <3>. QED BY <2>5, <3>1, FS_EmptySet
  <2>7. erased * a >= a
    <3>. HIDE DEF erased, a
    <3>. QED BY <2>5, <2>6
  <2>8. w \in Nat /\ w <= a /\ Len(queue') = Len(queue) + w /\ Len(queue) \in Nat
    <3>1. adjacent \in SUBSET Constraints /\ IsFiniteSet(adjacent) /\ woken \in SUBSET adjacent
      BY ActiveFinite
    <3>. HIDE DEF adjacent, woken
    <3>2. IsFiniteSet(woken) /\ w <= a /\ w \in Nat /\ woken \in SUBSET Constraints
      BY <3>1, FS_Subset, FS_CardinalityType
    <3>3. Ascending(woken) \in Seq(woken) /\ Len(Ascending(woken)) = w
      BY <3>2, AscendingEnumerates
    <3>4. queue' = queue \o Ascending(woken)
      BY <2>1 DEF woken, adjacent
    <3>5. Ascending(woken) \in Seq(Constraints)
      BY <3>2, <3>3
    <3>6. PICK t \in Seq(Constraints) : t = Ascending(woken)
      BY <3>5
    <3>7. Len(queue \o t) = Len(queue) + Len(t) /\ Len(queue) \in Nat
      BY <2>3
    <3>. QED BY <3>2, <3>3, <3>4, <3>6, <3>7
  <2>9. AfterRequeue(stats, stats', erased, a, w)
    <3>1. stats \in StatsType /\ erased <= stats.finalCandidates
      BY <2>5 DEF AccountInv
    <3>2. stats' = [stats EXCEPT !.deletedCandidates = @ + erased,
                                 !.finalCandidates = @ - erased,
                                 !.popUpperBound = @ + a, !.enqueues = @ + w]
      BY <2>1
    <3>. HIDE DEF erased, a, w
    <3>3. PICK t : t = stats'
      OBVIOUS
    <3>4. AfterRequeue(stats, t, erased, a, w)
      BY <2>5, <2>8, <3>1, <3>2, <3>3, RequeueStats
    <3>. QED BY <3>3, <3>4
  <2>10. CandidatesOf(before)' = CandidatesOf(before')
    BY DEF CandidatesOf
  <2>11. WorkOf(phase, before)' = WorkOf(phase, before')
    BY <2>2 DEF WorkOf, AdjacentIn, Active
  <2>. HIDE DEF v, adjacent, woken, lost, erased, a, w
  <2>12. /\ stats \in StatsType
         /\ stats.finalCandidates = Cardinality(CandidatesOf(before))
         /\ stats.initialCandidates = stats.finalCandidates + stats.deletedCandidates
         /\ stats.enqueues = stats.queuePops + Len(queue)
         /\ stats.enqueues <= stats.popUpperBound
         /\ stats.popUpperBound + Cardinality(WorkOf(phase, before))
              <= stats.staticPopUpperBound
    BY <2>2 DEF AccountInv
  <2>13. /\ stats.deletedCandidates \in Nat /\ stats.enqueues \in Nat
         /\ stats.popUpperBound \in Nat /\ stats.finalCandidates \in Nat
         /\ stats.queuePops \in Nat /\ stats.staticPopUpperBound \in Nat
    BY <2>12 DEF StatsType
  <2>14. PICK m \in Nat : m = erased * a
    BY <2>5
  <2>19. /\ Cardinality(CandidatesOf(before)) = Cardinality(CandidatesOf(before')) + erased
         /\ Cardinality(CandidatesOf(before')) \in Nat /\ erased \in Nat /\ a \in Nat
    BY <2>5
  <2>20. /\ Cardinality(WorkOf(phase, before)) = Cardinality(WorkOf(phase, before')) + m
         /\ Cardinality(WorkOf(phase, before')) \in Nat /\ a <= m
    BY <2>5, <2>7, <2>14
  <2>15. /\ stats' \in StatsType
         /\ stats'.queuePops = stats.queuePops
         /\ stats'.initialCandidates = stats.initialCandidates
         /\ stats'.finalCandidates = stats.finalCandidates - erased
         /\ stats'.deletedCandidates = stats.deletedCandidates + erased
         /\ stats'.enqueues = stats.enqueues + w
         /\ stats'.popUpperBound = stats.popUpperBound + a
         /\ stats'.staticPopUpperBound = stats.staticPopUpperBound
    BY <2>9 DEF AfterRequeue
  <2>16. /\ stats'.finalCandidates = Cardinality(CandidatesOf(before'))
         /\ stats'.initialCandidates = stats'.finalCandidates + stats'.deletedCandidates
         /\ stats'.enqueues = stats'.queuePops + Len(queue')
         /\ stats'.enqueues <= stats'.popUpperBound
    <3>1. stats.finalCandidates = Cardinality(CandidatesOf(before')) + erased
      BY <2>12, <2>19
    <3>2. stats'.finalCandidates = Cardinality(CandidatesOf(before'))
      BY <2>15, <2>19, <3>1
    <3>3. stats'.initialCandidates = stats'.finalCandidates + stats'.deletedCandidates
      BY <2>12, <2>13, <2>15, <2>19
    <3>4. stats'.enqueues = stats'.queuePops + Len(queue')
      BY <2>8, <2>12, <2>13, <2>15
    <3>5. stats'.enqueues <= stats'.popUpperBound
      <4>1. /\ stats'.enqueues = stats.enqueues + w /\ w \in Nat /\ w <= a /\ a \in Nat
            /\ stats'.popUpperBound = stats.popUpperBound + a
        BY <2>8, <2>15, <2>19
      <4>2. /\ stats.enqueues <= stats.popUpperBound
            /\ stats.enqueues \in Nat /\ stats.popUpperBound \in Nat
        BY <2>12, <2>13
      <4>. QED BY <4>1, <4>2
    <3>. QED BY <3>2, <3>3, <3>4, <3>5
  <2>17. stats'.popUpperBound + Cardinality(WorkOf(phase, before')) <= stats'.staticPopUpperBound
    BY <2>12, <2>13, <2>15, <2>19, <2>20
  <2>18. stats'.popUpperBound <= stats'.staticPopUpperBound
    BY <2>5, <2>13, <2>15, <2>17
  <2>. QED BY <2>10, <2>11, <2>15, <2>16, <2>17, <2>18 DEF AccountInv
<1>4. CASE StartCommon
  <2>1. /\ queue' = Ascending(Active("common")) /\ phase' = "common"
        /\ stats' = StartStatistics("common", candidates) /\ before' = candidates
    BY <1>4, StartPhaseType DEF StartCommon, IInv, FlowInv
  <2>2. candidates \in Domains
    BY DEF IInv, TypeOK
  <2>3. CandidatesOf(before)' = CandidatesOf(candidates)
    BY <2>1 DEF CandidatesOf
  <2>4. WorkOf(phase, before)' = WorkOf("common", candidates)
    BY <2>1 DEF WorkOf, AdjacentIn, Active
  <2>. QED BY <2>1, <2>2, <2>3, <2>4, StartAccount DEF AccountInv
<1>5. CASE FilterPair \/ FilterRole \/ FilterUnary
  BY <1>1, <1>5 DEF FilterPair, FilterRole, FilterUnary, worklist
<1>6. CASE FinishRelation
  <2>1. phase' = phase \/ ~Running'
    BY <1>6 DEF FinishRelation, Verdict, Running
  <2>. QED BY <1>1, <1>6, <2>1 DEF FinishRelation, worklist
<1>7. CASE Finish
  <2>1. ~Running'
    BY <1>7 DEF Finish, Running
  <2>. QED BY <1>1, <1>7, <2>1 DEF Finish, worklist
<1>8. CASE UNCHANGED vars
  BY <1>1, <1>8 DEF vars
<1>. QED BY <1>2, <1>3, <1>4, <1>5, <1>6, <1>7, <1>8 DEF Next

\* The statistics hasValidBounds asserts are valid at every step, for every
\* graph: neither the dynamic bound nor the static one is ever passed.
THEOREM BoundsAreValid == Spec => []ValidBounds
<1>1. AccountInv => ValidBounds
  <2>. SUFFICES ASSUME AccountInv PROVE ValidBounds
    OBVIOUS
  <2>1. /\ stats.deletedCandidates \in Nat /\ stats.initialCandidates \in Nat
        /\ stats.popUpperBound \in Nat /\ stats.finalCandidates \in Nat
        /\ stats.queuePops \in Nat /\ stats.staticPopUpperBound \in Nat
        /\ stats.enqueues \in Nat
    BY DEF AccountInv, StatsType
  <2>2. Len(queue) \in Nat \/ Len(queue) \notin Nat
    OBVIOUS
  <2>. QED BY <2>1, <2>2 DEF AccountInv, ValidBounds
<1>. QED BY <1>1, InitAccount, NextAccount, Inductive, PTL DEF Spec

-----------------------------------------------------------------------------
(* The worklist implements LayoutNarrowing.                                *)

LEMMA StepIsNarrowing ==
  ASSUME IInv, AgreeingKept, [Next]_vars, IInv'
  PROVE  [Promise!NNext]_(Promise!nvars)
<1> USE DEF Promise!nvars
<1>1. CASE FilterPair \/ FilterRole \/ FilterUnary
  <2>1. Running /\ phase' = phase
    BY <1>1 DEF FilterPair, FilterRole, FilterUnary, IInv, FlowInv
  <2>2. candidates' \in [Vars -> SUBSET Encodings]
    BY DEF IInv, TypeOK, Domains
  <2>3. \A v \in Vars : candidates'[v] \subseteq candidates[v]
    <3>1. CASE FilterPair
      <4> DEFINE v == Endpoints[current][cursor[1]]
                 w == Endpoints[current][cursor[2]]
                 keepV == Supported(current, v, candidates[v], w, candidates[w])
                 keepW == Supported(current, w, candidates[w], v, candidates[v])
      <4>1. candidates' = [candidates EXCEPT ![v] = keepV, ![w] = keepW]
        BY <3>1 DEF FilterPair
      <4>2. keepV \subseteq candidates[v] /\ keepW \subseteq candidates[w]
        BY DEF Supported
      <4>. HIDE DEF v, w, keepV, keepW
      <4>. QED BY <4>1, <4>2 DEF IInv, TypeOK, Domains
    <3>2. CASE FilterRole
      BY <3>2 DEF FilterRole, TupleSupported, IInv, TypeOK, Domains
    <3>3. CASE FilterUnary
      BY <3>3 DEF FilterUnary, IInv, TypeOK, Domains
    <3>. QED BY <1>1, <3>1, <3>2, <3>3
  <2>4. \A E \in ConsistentSubdomains :
          (\A v \in Vars : E[v] \subseteq candidates[v])
            => \A v \in Vars : E[v] \subseteq candidates'[v]
    BY StepKeepsAgreeing
  <2>5. Promise!Narrow
    BY <2>1, <2>2, <2>3, <2>4 DEF Promise!Narrow, Promise!Below, Running
  <2>. QED BY <2>5 DEF Promise!NNext
<1>2. CASE FinishRelation
  <2>1. Running /\ candidates' = candidates /\ phase' = IF failing THEN "failed" ELSE phase
    BY <1>2 DEF FinishRelation, Verdict, IInv, FlowInv
  <2>2. CASE failing
    <3>1. PICK v \in Vars : candidates[v] = {}
      BY <2>2 DEF IInv, DomainInv
    <3>2. Promise!Reject
      BY <2>1, <2>2, <3>1 DEF Promise!Reject, Running
    <3>. QED BY <3>2 DEF Promise!NNext
  <2>3. CASE ~failing
    BY <2>1, <2>3
  <2>. QED BY <2>2, <2>3
<1>3. CASE Finish
  <2>1. phase = "common" /\ phase' = "done" /\ candidates' = candidates
    BY <1>3 DEF Finish
  <2>2. candidates \in ConsistentSubdomains /\ \A v \in Vars : candidates[v] # {}
    BY <2>1 DEF IInv, TypeOK, DomainInv, ClosedInv, ConsistentSubdomains
  <2>3. Promise!Accept
    BY <2>1, <2>2 DEF Promise!Accept
  <2>. QED BY <2>3 DEF Promise!NNext
<1>4. CASE Pop \/ Requeue \/ StartCommon \/ UNCHANGED vars
  BY <1>4 DEF Pop, Requeue, StartCommon, vars
<1>. QED BY <1>1, <1>2, <1>3, <1>4 DEF Next

\* The worklist of LayoutPropagation.cpp implements the promise a caller relies
\* on: narrowing that loses no agreeing subdomain, acceptance only at a fixed
\* point, rejection only of graphs without a solution.
THEOREM ImplementsNarrowing == Spec => KeepsPromise
<1>1. Init => Promise!NInit
  BY DEF Init, Promise!NInit
<1>. QED BY <1>1, Inductive, AgreementSurvives, StepIsNarrowing, PTL
     DEF Spec, KeepsPromise, Promise!NSpec
=============================================================================
