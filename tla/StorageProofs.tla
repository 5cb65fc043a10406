----------------------------- MODULE StorageProofs -----------------------------
(***************************************************************************)
(* Proofs about StorageCandidates, for every problem, about                *)
(* StorageContracts, for every program, every dominance relation and every *)
(* agreement of layouts that is symmetric, and about LayoutRelations and   *)
(* LayoutCost.                                                             *)
(*                                                                         *)
(* Candidates: WalkInv says where the counterparts of a walk's candidates  *)
(* are: a variable that was visited waits in the queue, is in front of it  *)
(* with the relations before the cursor followed, or is closed.            *)
(* TemplatesInv says which templates of an initialized buffer its views    *)
(* have seen.                                                              *)
(*                                                                         *)
(* Contracts: Accepts compares a pair of declarations only where one       *)
(* dominates the other; that this covers every point where both are in     *)
(* effect is the chain of dominators (TogetherComparable).  That a second  *)
(* run is silent needs to know what the first one left behind              *)
(* (PreservedInv): every view of the walk so far is written down, and      *)
(* stays so.                                                               *)
(*                                                                         *)
(* Relations and prices, for every graph whose candidates verify: the      *)
(* caches hold what building again would give (AnswersInv), a sweep over   *)
(* sorted footprints that do not overlap themselves misses no conflict,    *)
(* and counts that stop at a largest one are sums cut off there, so that   *)
(* more charges are never cheaper (CostInv).                               *)
(***************************************************************************)
EXTENDS StorageCandidates, StorageContracts, LayoutCost, FiniteInduction, SequenceTheorems, TLAPS

\* The steps of a walk, and those that leave domains and the walk alone.
LEMMA ProblemKept ==
  ASSUME [Next]_vars
  PROVE  problem' = problem
  BY DEF Next, Contract, Validate, NextOrigin, OriginsDone, Start, Started, Follow, Pop, EndWalk,
         Default, Template, TemplatesDone, Finish, Walk, vars

LEMMA ProblemFacts ==
  ASSUME NEW p, WellFormed(p)
  PROVE  /\ p.vars \in Nat
         /\ Vars(p) = 1..p.vars
         /\ Len(p.contracts) \in Nat /\ DOMAIN p.contracts = 1..Len(p.contracts)
         /\ Len(p.relations) \in Nat /\ DOMAIN p.relations = 1..Len(p.relations)
         /\ \A i \in DOMAIN p.contracts :
              p.contracts[i].var \in Vars(p) /\ p.contracts[i].image \subseteq Encodings
         /\ \A i \in DOMAIN p.relations :
              p.relations[i][1] \in Vars(p) /\ p.relations[i][2] \in Vars(p)
         /\ \A v \in Vars(p) : /\ p.root[v] \in Roots
                               /\ p.seeds[v] \subseteq Encodings
                               /\ p.proven[v] \subseteq Encodings
         /\ \A r \in Roots : p.templates[r] \in Nat
  <1> DEFINE C == [var : Vars(p), image : SUBSET Encodings]
             R == Vars(p) \X Vars(p)
  <1>1. p.vars \in Nat /\ Vars(p) = 1..p.vars BY DEF WellFormed, Vars
  <1>2. p.contracts \in Seq(C) /\ p.relations \in Seq(R) BY DEF WellFormed
  <1>3. Len(p.contracts) \in Nat /\ DOMAIN p.contracts = 1..Len(p.contracts)
        /\ \A i \in DOMAIN p.contracts : p.contracts[i] \in C
    <2> HIDE DEF C
    <2> QED BY <1>2
  <1>4. Len(p.relations) \in Nat /\ DOMAIN p.relations = 1..Len(p.relations)
        /\ \A i \in DOMAIN p.relations : p.relations[i] \in R
    <2> HIDE DEF R
    <2> QED BY <1>2
  <1>5. \A i \in DOMAIN p.contracts :
          p.contracts[i].var \in Vars(p) /\ p.contracts[i].image \subseteq Encodings
    BY <1>3
  <1>6. \A i \in DOMAIN p.relations :
          p.relations[i][1] \in Vars(p) /\ p.relations[i][2] \in Vars(p)
    BY <1>4
  <1>7. \A v \in Vars(p) : /\ p.root[v] \in Roots
                           /\ p.seeds[v] \subseteq Encodings
                           /\ p.proven[v] \subseteq Encodings
    BY DEF WellFormed
  <1>8. \A r \in Roots : p.templates[r] \in Nat BY DEF WellFormed
  <1> QED BY <1>1, <1>3, <1>4, <1>5, <1>6, <1>7, <1>8

\* What enqueue does to a variable, and that it does nothing to the others.
LEMMA EnqueueFacts ==
  ASSUME TypeOK, NEW v \in Vars(problem), NEW e, Enqueue(v, e)
  PROVE  /\ offered' \in [Vars(problem) -> SUBSET Encodings]
         /\ domain' \in [Vars(problem) -> SUBSET Encodings]
         /\ \A w \in Vars(problem) \ {v} : offered'[w] = offered[w] /\ domain'[w] = domain[w]
         /\ offered[v] # {} => offered'[v] = offered[v]
         /\ offered[v] = {} => offered'[v] = Usable(problem, v, e)
         /\ domain[v] \subseteq domain'[v] /\ domain'[v] \subseteq domain[v] \cup Usable(problem, v, e)
         /\ offered[v] = {} => Usable(problem, v, e) \subseteq domain'[v]
         /\ queue' \in Seq(Vars(problem))
         /\ queue' = queue \/ (queue' = Append(queue, v) /\ offered[v] = {} /\ offered'[v] # {})
         /\ queue' = queue => offered' = offered
  <1> DEFINE c == Usable(problem, v, e)
  <1>1. c \subseteq Encodings BY ProblemFacts DEF Usable, TypeOK
  <1>2. CASE offered[v] = {} /\ c # {}
    <2>1. /\ offered' = [offered EXCEPT ![v] = c]
          /\ domain' = [domain EXCEPT ![v] = @ \cup c]
          /\ queue' = Append(queue, v)
      BY <1>2 DEF Enqueue, Receives
    <2> HIDE DEF c
    <2>2. /\ offered' \in [Vars(problem) -> SUBSET Encodings]
          /\ domain' \in [Vars(problem) -> SUBSET Encodings]
      BY <1>1, <2>1 DEF TypeOK
    <2>3. /\ offered'[v] = c /\ domain'[v] = domain[v] \cup c
          /\ \A w \in Vars(problem) \ {v} : offered'[w] = offered[w] /\ domain'[w] = domain[w]
      BY <2>1 DEF TypeOK
    <2>4. queue' \in Seq(Vars(problem)) /\ queue' # queue
      <3>1. queue \in Seq(Vars(problem)) BY DEF TypeOK
      <3>2. Len(queue') = Len(queue) + 1 /\ Len(queue) \in Nat BY <2>1, <3>1
      <3>3. queue' \in Seq(Vars(problem)) BY <2>1, <3>1
      <3> QED BY <3>2, <3>3
    <2> QED BY <1>2, <2>1, <2>2, <2>3, <2>4 DEF c
  <1>3. CASE ~(offered[v] = {} /\ c # {})
    <2>1. UNCHANGED <<offered, domain, queue>> BY <1>3 DEF Enqueue, Receives
    <2> QED BY <1>3, <2>1 DEF TypeOK
  <1> QED BY <1>2, <1>3

-----------------------------------------------------------------------------
\* The queue stays free of duplicates.
LEMMA QueueKept ==
  ASSUME TypeOK, NEW v \in Vars(problem), NEW e, Enqueue(v, e)
  PROVE  /\ \A i \in DOMAIN queue' : offered'[queue'[i]] # {}
         /\ \A i, j \in DOMAIN queue' : queue'[i] = queue'[j] => i = j
  <1>1. queue \in Seq(Vars(problem)) BY DEF TypeOK
  <1>2. Len(queue) \in Nat /\ DOMAIN queue = 1..Len(queue)
        /\ \A i \in DOMAIN queue : queue[i] \in Vars(problem)
    BY <1>1
  <1>3. \A i \in DOMAIN queue : offered[queue[i]] # {} BY DEF TypeOK
  <1>4. \A i \in DOMAIN queue : offered'[queue[i]] # {}
    <2> TAKE i \in DOMAIN queue
    <2>1. CASE queue[i] = v BY <1>3, <2>1, EnqueueFacts
    <2>2. CASE queue[i] # v BY <1>2, <1>3, <2>2, EnqueueFacts
    <2> QED BY <2>1, <2>2
  <1>5. CASE queue' = queue BY <1>4, <1>5 DEF TypeOK
  <1>6. CASE queue' = Append(queue, v) /\ offered[v] = {} /\ offered'[v] # {}
    <2>1. DOMAIN queue' = 1..(Len(queue) + 1) /\ queue'[Len(queue) + 1] = v
          /\ \A i \in 1..Len(queue) : queue'[i] = queue[i]
      BY <1>1, <1>6
    <2>2. \A i \in DOMAIN queue : queue[i] # v BY <1>3, <1>6
    <2>3. ASSUME NEW i \in DOMAIN queue' PROVE offered'[queue'[i]] # {}
      <3>1. i \in 1..Len(queue) \/ i = Len(queue) + 1 BY <1>2, <2>1
      <3> QED BY <1>2, <1>4, <1>6, <2>1, <3>1
    <2>4. ASSUME NEW i \in DOMAIN queue', NEW j \in DOMAIN queue', queue'[i] = queue'[j]
          PROVE  i = j
      <3>1. i \in 1..Len(queue) \/ i = Len(queue) + 1 BY <1>2, <2>1
      <3>2. j \in 1..Len(queue) \/ j = Len(queue) + 1 BY <1>2, <2>1
      <3>3. CASE i \in 1..Len(queue) /\ j \in 1..Len(queue)
        <4>1. queue[i] = queue[j] BY <2>1, <2>4, <3>3
        <4> QED BY <1>2, <3>3, <4>1 DEF TypeOK
      <3>4. CASE i \in 1..Len(queue) /\ j = Len(queue) + 1
        BY <1>2, <2>1, <2>2, <2>4, <3>4
      <3>5. CASE i = Len(queue) + 1 /\ j \in 1..Len(queue)
        BY <1>2, <2>1, <2>2, <2>4, <3>5
      <3> QED BY <3>1, <3>2, <3>3, <3>4, <3>5
    <2> QED BY <2>3, <2>4
  <1> QED BY <1>5, <1>6, EnqueueFacts
\* What a step of a walk hands to enqueue.
LEMMA WalkTargets ==
  ASSUME TypeOK
  PROVE  /\ Start => cursor \in Vars(problem)
         /\ Follow => /\ cursor \in DOMAIN problem.relations
                      /\ queue # <<>> /\ Head(queue) \in Vars(problem)
                      /\ Head(queue) = queue[1] /\ 1 \in DOMAIN queue
                      /\ Other(problem.relations[cursor], Head(queue)) \in Vars(problem)
  <1>1. WellFormed(problem) /\ queue \in Seq(Vars(problem)) /\ cursor \in Nat \ {0}
    BY DEF TypeOK
  <1>2. Start => cursor \in Vars(problem) BY <1>1, ProblemFacts DEF Start
  <1>3. ASSUME Follow
        PROVE  /\ cursor \in DOMAIN problem.relations
               /\ queue # <<>> /\ Head(queue) \in Vars(problem)
               /\ Head(queue) = queue[1] /\ 1 \in DOMAIN queue
               /\ Other(problem.relations[cursor], Head(queue)) \in Vars(problem)
    <2>1. cursor \in DOMAIN problem.relations /\ queue # <<>>
      BY <1>1, <1>3, ProblemFacts DEF Follow
    <2>2. Head(queue) \in Vars(problem) /\ Head(queue) = queue[1] /\ 1 \in DOMAIN queue
      BY <1>1, <2>1
    <2>3. problem.relations[cursor][1] \in Vars(problem)
          /\ problem.relations[cursor][2] \in Vars(problem)
      BY <1>1, <2>1, ProblemFacts
    <2> QED BY <2>1, <2>2, <2>3 DEF Other
  <1> QED BY <1>2, <1>3

\* A step of a walk is an enqueue or leaves the walk and the domains alone.
LEMMA WalkSteps ==
  ASSUME TypeOK, Start \/ Follow
  PROVE  \/ Start /\ Enqueue(cursor, starts[cursor])
         \/ LET k == problem.relations[cursor]
                v == Head(queue)
            IN  /\ Follow /\ Touches(k, v)
                /\ Enqueue(Other(k, v), Offered(problem, k, v, offered[v]))
         \/ /\ Follow /\ ~Touches(problem.relations[cursor], Head(queue))
            /\ UNCHANGED <<offered, domain, queue>>
  BY DEF Start, Follow, Follows

\* Types are kept, and the queue of a walk holds every variable at most once and
\* only after it was offered something: propagateOrigin's deque is bounded.
THEOREM CandidatesTypeCorrect == Spec => []TypeOK
  <1>1. Init => TypeOK
    <2> SUFFICES ASSUME Init PROVE TypeOK OBVIOUS
    <2>1. WellFormed(problem) BY ProblemsAssumption DEF Init
    <2>2. domain \in [Vars(problem) -> SUBSET Encodings] BY <2>1 DEF Init, WellFormed
    <2>3. offered \in [Vars(problem) -> SUBSET Encodings] /\ DOMAIN starts = Vars(problem)
      BY DEF Init, Nothing
    <2>4. queue = <<>> /\ queue \in Seq(Vars(problem)) /\ DOMAIN queue = {} BY DEF Init
    <2>5. contract \in 1..Len(problem.contracts) + 1 /\ turn \in 1..problem.vars + 1
      BY <2>1, ProblemFacts DEF Init
    <2>6. phase = "contracts" /\ template = 0 /\ cursor \in Nat \ {0} /\ template \in Nat
          /\ origins \subseteq Vars(problem) \X Encodings /\ initialized \subseteq Roots
      BY DEF Init
    <2> QED BY <2>1, <2>2, <2>3, <2>4, <2>5, <2>6 DEF TypeOK
  <1>2. TypeOK /\ [Next]_vars => TypeOK'
    <2> SUFFICES ASSUME TypeOK, [Next]_vars PROVE TypeOK' OBVIOUS
    <2>1. problem' = problem BY ProblemKept
    <2>2. WellFormed(problem) /\ WellFormed(problem)' BY <2>1 DEF TypeOK
    <2>3. /\ problem.vars \in Nat /\ Vars(problem) = 1..problem.vars
          /\ Len(problem.contracts) \in Nat /\ Len(problem.relations) \in Nat
      BY <2>2, ProblemFacts
    \* What the steps below leave alone keeps its type.
    <2>4. /\ domain' = domain => domain' \in [Vars(problem)' -> SUBSET Encodings]
          /\ UNCHANGED <<offered, queue>> =>
               /\ offered' \in [Vars(problem)' -> SUBSET Encodings]
               /\ queue' \in Seq(Vars(problem)')
               /\ \A i \in DOMAIN queue' : offered'[queue'[i]] # {}
               /\ \A i, j \in DOMAIN queue' : queue'[i] = queue'[j] => i = j
      BY <2>1 DEF TypeOK
    <2>5. CASE Contract
      <3> DEFINE k == problem.contracts[contract]
      <3>1. contract \in DOMAIN problem.contracts /\ contract' \in 1..Len(problem.contracts) + 1
        BY <2>2, <2>3, <2>5, ProblemFacts DEF Contract, TypeOK
      <3>2. k.var \in Vars(problem) /\ k.image \subseteq Encodings BY <2>2, <3>1, ProblemFacts
      <3>3. domain' = domain \/ domain' = [domain EXCEPT ![k.var] = @ \cup k.image]
        BY <2>5 DEF Contract
      <3> HIDE DEF k
      <3>4. domain' \in [Vars(problem) -> SUBSET Encodings] BY <3>2, <3>3 DEF TypeOK
      <3>5. phase' \in {"contracts", "failed"} BY <2>5 DEF Contract
      <3> QED BY <2>1, <2>2, <2>4, <2>5, <3>1, <3>4, <3>5 DEF Contract, TypeOK
    <2>6. CASE Validate
      <3>1. phase' \in {"origins", "failed"} /\ origins' \subseteq Vars(problem) \X Encodings
        BY <2>6 DEF Validate
      <3> QED BY <2>1, <2>2, <2>4, <2>6, <3>1 DEF Validate, TypeOK
    <2>7. ASSUME NEW s, DOMAIN s = Vars(problem), Walk(s),
                 UNCHANGED <<problem, domain, contract, turn, initialized>>,
                 origins' \subseteq origins, template' \in Nat,
                 template' # 0 => turn <= problem.vars
          PROVE  TypeOK'
      <3>1. /\ offered' \in [Vars(problem) -> SUBSET Encodings]
            /\ queue' \in Seq(Vars(problem)) /\ DOMAIN queue' = {}
        BY <2>7 DEF Walk, Nothing
      <3>2. phase' = "starts" /\ cursor' = 1 /\ DOMAIN starts' = Vars(problem)
        BY <2>7 DEF Walk
      <3> QED BY <2>1, <2>2, <2>4, <2>7, <3>1, <3>2 DEF TypeOK
    <2>8. CASE NextOrigin
      <3>1. PICK o \in origins :
              /\ origins' = origins \ {o}
              /\ Walk([v \in Vars(problem) |-> IF v = o[1] THEN {o[2]} ELSE {}])
        BY <2>8 DEF NextOrigin
      <3>2. /\ UNCHANGED <<problem, domain, contract, turn, initialized>>
            /\ template' = template /\ template \in Nat /\ (template # 0 => turn <= problem.vars)
        BY <2>8 DEF NextOrigin, TypeOK
      <3> QED BY <2>7, <3>1, <3>2
    <2>9. CASE Template
      <3>1. /\ UNCHANGED <<problem, domain, contract, turn, initialized>>
            /\ origins' = origins /\ template' = template + 1
            /\ Walk([v \in Vars(problem) |-> TemplateFor(problem, problem.root[turn], template, v)])
        BY <2>9 DEF Template
      <3>2. template' \in Nat /\ turn <= problem.vars BY <2>9, <3>1 DEF Template, TypeOK
      <3> QED BY <2>7, <3>1, <3>2
    <2>10. CASE Start \/ Follow
      <3>1. /\ UNCHANGED <<problem, phase, contract, origins, starts, turn, template, initialized>>
            /\ cursor' = cursor + 1
        BY <2>10 DEF Start, Follow
      <3>2. ASSUME NEW v \in Vars(problem), NEW e, Enqueue(v, e) PROVE TypeOK'
        <4>1. /\ offered' \in [Vars(problem) -> SUBSET Encodings]
              /\ domain' \in [Vars(problem) -> SUBSET Encodings]
              /\ queue' \in Seq(Vars(problem))
          BY <3>2, EnqueueFacts
        <4>2. /\ \A i \in DOMAIN queue' : offered'[queue'[i]] # {}
              /\ \A i, j \in DOMAIN queue' : queue'[i] = queue'[j] => i = j
          BY <3>2, QueueKept
        <4>3. cursor' \in Nat \ {0} BY <3>1 DEF TypeOK
        <4> QED BY <2>1, <2>2, <3>1, <4>1, <4>2, <4>3 DEF TypeOK
      <3>3. ASSUME UNCHANGED <<offered, domain, queue>> PROVE TypeOK'
        <4>1. cursor' \in Nat \ {0} BY <3>1 DEF TypeOK
        <4> QED BY <2>1, <2>2, <2>4, <3>1, <3>3, <4>1 DEF TypeOK
      <3> QED BY <2>10, <3>2, <3>3, WalkSteps, WalkTargets
    <2>11. CASE Pop
      <3>1. /\ queue \in Seq(Vars(problem)) /\ queue # <<>> /\ queue' = Tail(queue)
            /\ offered' = offered
        BY <2>11 DEF Pop, TypeOK
      <3>2. /\ queue' \in Seq(Vars(problem))
            /\ \A i \in DOMAIN queue' : i + 1 \in DOMAIN queue /\ queue'[i] = queue[i + 1] /\ i \in Nat
        BY <3>1
      <3>3. \A i \in DOMAIN queue' : offered'[queue'[i]] # {} BY <3>1, <3>2 DEF TypeOK
      <3>4. ASSUME NEW i \in DOMAIN queue', NEW j \in DOMAIN queue', queue'[i] = queue'[j]
            PROVE  i = j
        <4>1. i + 1 = j + 1 BY <3>2, <3>4 DEF TypeOK
        <4> QED BY <3>2, <4>1
      <3> QED BY <2>1, <2>2, <2>4, <2>11, <3>1, <3>2, <3>3, <3>4 DEF Pop, TypeOK
    <2>12. CASE Default
      <3>1. turn \in Vars(problem) /\ turn + 1 \in 1..problem.vars + 1 /\ template = 0
        BY <2>3, <2>12 DEF Default, TypeOK
      <3>2. problem.root[turn] \in Roots BY <2>2, <3>1, ProblemFacts
      <3>3. /\ phase' \in {"defaults", "failed", "templates"}
            /\ turn' \in {turn, turn + 1} /\ template' \in {template, 1}
            /\ initialized' \subseteq Roots
            /\ (phase' = "templates" \/ template' # 0) => turn' <= problem.vars
            /\ phase' = "defaults" => template' = 0
        BY <2>3, <2>12, <3>1, <3>2 DEF Default, TypeOK
      <3>4. turn' \in 1..problem.vars + 1 /\ template' \in Nat BY <3>1, <3>3 DEF TypeOK
      <3> QED BY <2>1, <2>2, <2>4, <2>12, <3>3, <3>4 DEF Default, TypeOK
    <2>13. CASE TemplatesDone
      <3>1. turn \in Nat /\ 1 <= turn /\ turn <= problem.vars BY <2>3, <2>13 DEF TemplatesDone, TypeOK
      <3>2. turn' \in 1..problem.vars + 1 BY <2>3, <2>13, <3>1 DEF TemplatesDone
      <3> QED BY <2>1, <2>2, <2>4, <2>13, <3>2 DEF TemplatesDone, TypeOK
    <2>14. CASE EndWalk
      <3>1. phase' \in {"origins", "templates"} /\ (phase' = "templates" => template # 0)
        BY <2>14 DEF EndWalk
      <3> QED BY <2>1, <2>2, <2>4, <2>14, <3>1 DEF EndWalk, TypeOK
    <2>15. CASE Started BY <2>1, <2>2, <2>4, <2>15 DEF Started, TypeOK
    <2>16. CASE OriginsDone BY <2>1, <2>2, <2>4, <2>16 DEF OriginsDone, TypeOK
    <2>17. CASE Finish BY <2>1, <2>2, <2>4, <2>17 DEF Finish, TypeOK
    <2>18. CASE UNCHANGED vars BY <2>1, <2>2, <2>4, <2>18 DEF vars, TypeOK
    <2> QED BY <2>5, <2>6, <2>8, <2>9, <2>10, <2>11, <2>12, <2>13, <2>14, <2>15, <2>16, <2>17, <2>18
            DEF Next
  <1> QED BY <1>1, <1>2, PTL DEF Spec

-----------------------------------------------------------------------------
\* Once the explicit candidates were validated, nothing unproven joins a domain.
THEOREM CandidatesProven == Spec => []AllProven
  <1>1. Init => AllProven BY DEF Init, AllProven
  <1>2. TypeOK /\ AllProven /\ [Next]_vars => AllProven'
    <2> SUFFICES ASSUME TypeOK, AllProven, [Next]_vars PROVE AllProven' OBVIOUS
    <2>1. problem' = problem BY ProblemKept
    <2>2. CASE Contract BY <2>2 DEF Contract, AllProven
    <2>3. CASE Validate BY <2>1, <2>3 DEF Validate, Refuted, AllProven
    <2>4. CASE Start \/ Follow
      <3>1. phase \in {"starts", "walk"} BY <2>4 DEF Start, Follow
      <3>2. ASSUME NEW v \in Vars(problem), NEW e, Enqueue(v, e), NEW w \in Vars(problem)
            PROVE  domain'[w] \subseteq problem.proven[w]
        <4>1. domain[w] \subseteq problem.proven[w] BY <3>1 DEF AllProven
        <4>2. CASE w = v
          <5>1. domain'[v] \subseteq domain[v] \cup Usable(problem, v, e) BY <3>2, EnqueueFacts
          <5>2. Usable(problem, v, e) \subseteq problem.proven[v] BY DEF Usable
          <5> QED BY <4>1, <4>2, <5>1, <5>2
        <4>3. CASE w # v
          <5>1. domain'[w] = domain[w] BY <3>2, <4>3, EnqueueFacts
          <5> QED BY <4>1, <5>1
        <4> QED BY <4>2, <4>3
      <3>3. ASSUME UNCHANGED <<offered, domain, queue>> PROVE AllProven'
        BY <2>1, <3>1, <3>3 DEF AllProven
      <3> QED BY <2>1, <2>4, <3>2, <3>3, WalkSteps, WalkTargets DEF AllProven
    <2>5. ASSUME domain' = domain, phase \notin {"contracts", "failed"} PROVE AllProven'
      BY <2>1, <2>5 DEF AllProven
    <2>6. CASE NextOrigin \/ OriginsDone \/ Started \/ Pop \/ EndWalk \/ Default \/ Template
               \/ TemplatesDone \/ Finish
      <3>1. domain' = domain /\ phase \notin {"contracts", "failed"}
        BY <2>6 DEF NextOrigin, OriginsDone, Started, Pop, EndWalk, Default, Template,
                    TemplatesDone, Finish
      <3> QED BY <2>5, <3>1
    <2>7. CASE UNCHANGED vars BY <2>7 DEF vars, AllProven
    <2> QED BY <2>2, <2>3, <2>4, <2>6, <2>7 DEF Next
  <1> QED BY <1>1, <1>2, CandidatesTypeCorrect, PTL DEF Spec

-----------------------------------------------------------------------------
(* The walk.                                                               *)

Waiting(v) == \E i \in DOMAIN queue : queue[i] = v

ClosedAt(i, v) ==
  LET k == problem.relations[i]
      w == Other(k, v)
  IN  Touches(k, v) /\ offered[v] # {} /\ offered[w] = {} =>
        Usable(problem, w, Offered(problem, k, v, offered[v])) = {}

WalkInv ==
  /\ phase \in {"starts", "walk"} =>
       \A v \in Vars(problem) : offered[v] # {} =>
         Waiting(v) \/ (phase = "walk" /\ \A i \in DOMAIN problem.relations : ClosedAt(i, v))
  /\ phase = "walk" /\ queue # <<>> =>
       \A i \in DOMAIN problem.relations : i < cursor => ClosedAt(i, Head(queue))

\* An enqueue opens no relation of a variable that was visited before.
LEMMA ClosedStays ==
  ASSUME TypeOK, problem' = problem, NEW v \in Vars(problem), NEW e, Enqueue(v, e),
         NEW i \in DOMAIN problem.relations, NEW u \in Vars(problem),
         offered[u] # {}, ClosedAt(i, u)
  PROVE  ClosedAt(i, u)'
  <1> DEFINE k == problem.relations[i]
             w == Other(k, u)
  <1>1. offered'[u] = offered[u] BY EnqueueFacts
  <1>2. k[1] \in Vars(problem) /\ k[2] \in Vars(problem) BY ProblemFacts DEF TypeOK
  <1>3. w \in Vars(problem) BY <1>2 DEF Other
  <1>4. offered'[w] = {} => offered[w] = {}
    <2>1. CASE w = v BY <2>1, EnqueueFacts
    <2>2. CASE w # v BY <1>3, <2>2, EnqueueFacts
    <2> QED BY <2>1, <2>2
  <1> HIDE DEF w
  <1>5. Touches(k, u) /\ offered'[u] # {} /\ offered'[w] = {} =>
          Usable(problem, w, Offered(problem, k, u, offered'[u])) = {}
    BY <1>1, <1>4 DEF ClosedAt, w
  <1> QED BY <1>5 DEF ClosedAt, w

\* A variable that waits keeps waiting while others are enqueued, and the front
\* of the queue stays.
LEMMA WaitingStays ==
  ASSUME TypeOK, NEW v \in Vars(problem), NEW e, Enqueue(v, e)
  PROVE  /\ \A u \in Vars(problem) : Waiting(u) => Waiting(u)'
         /\ offered[v] = {} /\ offered'[v] # {} => Waiting(v)'
         /\ queue # <<>> => queue' # <<>> /\ Head(queue') = Head(queue)
  <1>1. queue \in Seq(Vars(problem)) BY DEF TypeOK
  <1>2. CASE queue' = queue
    <2>1. offered' = offered BY <1>2, EnqueueFacts
    <2> QED BY <1>2, <2>1 DEF Waiting
  <1>3. CASE queue' = Append(queue, v)
    <2>1. /\ Len(queue) \in Nat /\ DOMAIN queue = 1..Len(queue)
          /\ DOMAIN queue' = 1..(Len(queue) + 1) /\ queue'[Len(queue) + 1] = v
          /\ \A i \in 1..Len(queue) : queue'[i] = queue[i]
      BY <1>1, <1>3
    <2>2. \A u \in Vars(problem) : Waiting(u) => Waiting(u)' BY <2>1 DEF Waiting
    <2>3. Waiting(v)' BY <2>1 DEF Waiting
    <2>4. queue # <<>> => queue' # <<>> /\ Head(queue') = Head(queue) BY <1>1, <1>3
    <2> QED BY <2>2, <2>3, <2>4
  <1> QED BY <1>2, <1>3, EnqueueFacts

LEMMA WalkInvariant == Spec => []WalkInv
  <1>1. Init => WalkInv BY DEF Init, WalkInv
  <1>2. TypeOK /\ WalkInv /\ [Next]_vars => WalkInv'
    <2> SUFFICES ASSUME TypeOK, WalkInv, [Next]_vars PROVE WalkInv' OBVIOUS
    <2>1. problem' = problem BY ProblemKept
    <2>2. /\ WellFormed(problem) /\ Vars(problem)' = Vars(problem)
          /\ Len(problem.relations) \in Nat /\ DOMAIN problem.relations = 1..Len(problem.relations)
      BY <2>1, ProblemFacts DEF TypeOK
    <2>3. CASE Start
      <3>1. /\ phase = "starts" /\ phase' = "starts" /\ cursor \in Vars(problem)
            /\ Enqueue(cursor, starts[cursor])
        BY <2>3, WalkTargets DEF Start
      <3>2. ASSUME NEW u \in Vars(problem), offered'[u] # {} PROVE Waiting(u)'
        <4>1. CASE offered[u] # {} BY <3>1, <4>1, WaitingStays DEF WalkInv
        <4>2. CASE offered[u] = {}
          <5>1. u = cursor BY <3>1, <3>2, <4>2, EnqueueFacts
          <5> QED BY <3>1, <3>2, <4>2, <5>1, WaitingStays
        <4> QED BY <4>1, <4>2
      <3> QED BY <2>2, <3>1, <3>2 DEF WalkInv
    <2>4. CASE Started
      <3>1. phase = "starts" /\ phase' = "walk" /\ cursor' = 1 /\ UNCHANGED <<offered, queue>>
        BY <2>4 DEF Started
      <3>2. \A v \in Vars(problem) : offered'[v] # {} => Waiting(v)'
        BY <3>1 DEF WalkInv, Waiting
      <3>3. \A i \in DOMAIN problem.relations : ~ i < cursor' BY <2>2, <3>1
      <3> QED BY <2>1, <2>2, <3>1, <3>2, <3>3 DEF WalkInv
    <2>5. CASE Follow
      <3>1. /\ phase = "walk" /\ phase' = "walk" /\ cursor' = cursor + 1 /\ queue # <<>>
            /\ cursor \in DOMAIN problem.relations
            /\ Head(queue) \in Vars(problem) /\ Head(queue) = queue[1] /\ 1 \in DOMAIN queue
            /\ Other(problem.relations[cursor], Head(queue)) \in Vars(problem)
        BY <2>5, WalkTargets DEF Follow
      <3>2. PICK c \in DOMAIN problem.relations : c = cursor BY <3>1
      <3>3. PICK h \in Vars(problem) : h = Head(queue) BY <3>1
      <3>4. offered[h] # {} BY <3>1, <3>3 DEF TypeOK
      <3>5. \A i \in DOMAIN problem.relations : i < cursor' => i < cursor \/ i = c
        BY <2>2, <3>1, <3>2
      <3> DEFINE k == problem.relations[c]
      <3>6. ASSUME NEW w \in Vars(problem), w = Other(k, h), Touches(k, h),
                   NEW e, e = Offered(problem, k, h, offered[h]), Enqueue(w, e)
            PROVE  WalkInv'
        <4>1. queue' # <<>> /\ Head(queue') = h BY <3>1, <3>3, <3>6, WaitingStays
        <4>2. ASSUME NEW i \in DOMAIN problem.relations, NEW u \in Vars(problem), offered[u] # {},
                     ClosedAt(i, u)
              PROVE  ClosedAt(i, u)'
          BY <2>1, <3>6, <4>2, ClosedStays
        <4>3. ASSUME NEW u \in Vars(problem), offered'[u] # {}
              PROVE  Waiting(u)' \/ \A i \in DOMAIN problem.relations : ClosedAt(i, u)'
          <5>1. CASE offered[u] = {}
            <6>1. u = w BY <3>6, <4>3, <5>1, EnqueueFacts
            <6> QED BY <3>6, <4>3, <5>1, <6>1, WaitingStays
          <5>2. CASE offered[u] # {} /\ Waiting(u) BY <3>6, <5>2, WaitingStays
          <5>3. CASE offered[u] # {} /\ ~Waiting(u)
            <6>1. \A i \in DOMAIN problem.relations : ClosedAt(i, u) BY <3>1, <5>3 DEF WalkInv
            <6> QED BY <4>2, <5>3, <6>1
          <5> QED BY <5>1, <5>2, <5>3
        <4>4. ClosedAt(c, h)'
          <5>1. offered'[h] = offered[h]
            <6>1. CASE h = w BY <3>4, <3>6, <6>1, EnqueueFacts
            <6>2. CASE h # w BY <3>6, <6>2, EnqueueFacts
            <6> QED BY <6>1, <6>2
          <5>2. offered'[w] = {} => Usable(problem, w, e) = {} BY <3>6, EnqueueFacts
          <5>3. ASSUME offered'[Other(k, h)] = {}
                PROVE  Usable(problem, Other(k, h), Offered(problem, k, h, offered'[h])) = {}
            BY <3>6, <5>1, <5>2, <5>3
          <5> QED BY <2>1, <5>3 DEF ClosedAt
        <4>5. ASSUME NEW i \in DOMAIN problem.relations, i < cursor' PROVE ClosedAt(i, h)'
          <5>1. CASE i < cursor
            <6>1. ClosedAt(i, h) BY <3>1, <3>3, <5>1 DEF WalkInv
            <6> QED BY <3>4, <4>2, <6>1
          <5>2. CASE i = c BY <4>4, <5>2
          <5> QED BY <3>5, <4>5, <5>1, <5>2
        <4>6. \A i \in DOMAIN problem.relations : i < cursor' => ClosedAt(i, Head(queue))'
          BY <4>1, <4>5 DEF ClosedAt
        <4> QED BY <2>1, <2>2, <3>1, <4>1, <4>3, <4>6 DEF WalkInv
      <3>7. CASE ~Touches(k, h) /\ UNCHANGED <<offered, domain, queue>>
        <4>1. \A i, u : (ClosedAt(i, u)' <=> ClosedAt(i, u)) /\ (Waiting(u)' <=> Waiting(u))
          BY <2>1, <3>7 DEF ClosedAt, Waiting
        <4>2. ClosedAt(c, h) BY <3>7 DEF ClosedAt
        <4>3. \A i \in DOMAIN problem.relations : i < cursor' => ClosedAt(i, h)
          BY <3>1, <3>3, <3>5, <4>2 DEF WalkInv
        <4>4. \A i \in DOMAIN problem.relations : i < cursor' => ClosedAt(i, Head(queue))'
          BY <2>1, <3>3, <3>7, <4>3 DEF ClosedAt
        <4>5. \A u \in Vars(problem) : offered'[u] # {} =>
                Waiting(u)' \/ \A i \in DOMAIN problem.relations : ClosedAt(i, u)'
          BY <3>1, <3>7, <4>1 DEF WalkInv
        <4> QED BY <2>1, <2>2, <3>1, <4>4, <4>5 DEF WalkInv
      <3>8. \/ Touches(k, h) /\ Enqueue(Other(k, h), Offered(problem, k, h, offered[h]))
            \/ ~Touches(k, h) /\ UNCHANGED <<offered, domain, queue>>
        BY <2>5, <3>2, <3>3 DEF Follow, Follows
      <3> QED BY <3>1, <3>2, <3>3, <3>6, <3>7, <3>8
    <2>6. CASE Pop
      <3>1. /\ phase = "walk" /\ phase' = "walk" /\ cursor' = 1 /\ cursor > Len(problem.relations)
            /\ queue \in Seq(Vars(problem)) /\ queue # <<>> /\ queue' = Tail(queue)
            /\ offered' = offered
        BY <2>6 DEF Pop, TypeOK
      <3>0. PICK h \in Vars(problem) : h = Head(queue) BY <3>1
      <3>2. \A i, u : ClosedAt(i, u)' <=> ClosedAt(i, u) BY <2>1, <3>1 DEF ClosedAt
      <3>3. \A i \in DOMAIN problem.relations : ClosedAt(i, h)
        <4>1. cursor \in Nat BY DEF TypeOK
        <4>2. \A i \in DOMAIN problem.relations : i < cursor BY <2>2, <3>1, <4>1
        <4> QED BY <3>0, <3>1, <4>2 DEF WalkInv
      <3>4. ASSUME NEW u \in Vars(problem), Waiting(u), u # h PROVE Waiting(u)'
        <4>1. PICK i \in DOMAIN queue : queue[i] = u BY <3>4 DEF Waiting
        <4>2. i \in 1..Len(queue) /\ i # 1 /\ Len(queue) \in Nat
          BY <3>0, <3>1, <3>4, <4>1
        <4>3. i - 1 \in DOMAIN queue' /\ queue'[i - 1] = queue[i] BY <3>1, <4>2
        <4> QED BY <4>1, <4>3 DEF Waiting
      <3>5. ASSUME NEW u \in Vars(problem), offered'[u] # {}
            PROVE  Waiting(u)' \/ \A i \in DOMAIN problem.relations : ClosedAt(i, u)'
        <4>1. CASE u = h BY <3>2, <3>3, <4>1
        <4>2. CASE u # h
          <5>1. Waiting(u) \/ \A i \in DOMAIN problem.relations : ClosedAt(i, u)
            BY <3>1, <3>5 DEF WalkInv
          <5> QED BY <3>2, <3>4, <4>2, <5>1
        <4> QED BY <4>1, <4>2
      <3>6. \A i \in DOMAIN problem.relations : ~ i < cursor' BY <2>2, <3>1
      <3> QED BY <2>1, <2>2, <3>1, <3>5, <3>6 DEF WalkInv
    <2>7. CASE NextOrigin \/ Template
      <3>1. phase' = "starts" /\ offered' = Nothing(problem)
        BY <2>7 DEF NextOrigin, Template, Walk
      <3>2. \A v \in Vars(problem) : offered'[v] = {} BY <3>1 DEF Nothing
      <3> QED BY <2>2, <3>1, <3>2 DEF WalkInv
    <2>8. CASE Contract \/ Validate \/ OriginsDone \/ EndWalk \/ Default \/ TemplatesDone \/ Finish
      <3>1. phase' \notin {"starts", "walk"}
        BY <2>8 DEF Contract, Validate, OriginsDone, EndWalk, Default, TemplatesDone, Finish
      <3> QED BY <3>1 DEF WalkInv
    <2>9. CASE UNCHANGED vars
      <3>1. \A i, u : (ClosedAt(i, u)' <=> ClosedAt(i, u)) /\ (Waiting(u)' <=> Waiting(u))
        BY <2>9 DEF vars, ClosedAt, Waiting
      <3> QED BY <2>2, <2>9, <3>1 DEF vars, WalkInv
    <2> QED BY <2>3, <2>4, <2>5, <2>6, <2>7, <2>8, <2>9 DEF Next
  <1> QED BY <1>1, <1>2, CandidatesTypeCorrect, PTL DEF Spec

\* A finished walk has left out no variable its candidates have a usable
\* counterpart for, in copy cycles too.
THEOREM WalksCover == Spec => []OriginCovers
  <1>1. TypeOK /\ WalkInv => OriginCovers
    <2> SUFFICES ASSUME TypeOK, WalkInv, phase = "walk", queue = <<>>,
                        NEW i \in DOMAIN problem.relations, NEW v \in Vars(problem)
                 PROVE  ClosedAt(i, v)
      BY DEF OriginCovers, ClosedAt
    <2>1. ~Waiting(v) BY DEF Waiting
    <2>2. CASE offered[v] # {} BY <2>1, <2>2 DEF WalkInv
    <2>3. CASE offered[v] = {} BY <2>3 DEF ClosedAt
    <2> QED BY <2>2, <2>3
  <1> QED BY <1>1, CandidatesTypeCorrect, WalkInvariant, PTL

-----------------------------------------------------------------------------
(* Where candidates come from.                                             *)

FromTemplate(v, e) ==
  \E t \in 1..problem.templates[problem.root[v]] :
    e \in RootImage(problem, problem.root[v], t, v)

FromRelation(v, e) ==
  \E i \in DOMAIN problem.relations : \E u \in Vars(problem) :
    LET k == problem.relations[i]
    IN  /\ Touches(k, u) /\ v = Other(k, u)
        /\ \E d \in domain[u] : e \in Image(problem, k, u, d)

Origin(v, e) ==
  \/ e \in problem.seeds[v]
  \/ \E i \in DOMAIN problem.contracts :
       problem.contracts[i].var = v /\ e \in problem.contracts[i].image
  \/ FromTemplate(v, e)
  \/ FromRelation(v, e)

OriginInv ==
  /\ \A v \in Vars(problem) : \A e \in domain[v] : Origin(v, e)
  /\ \A v \in Vars(problem) : offered[v] \subseteq domain[v]
  /\ \A o \in origins : o[1] \in Vars(problem) /\ o[2] \in domain[o[1]]
  /\ phase = "starts" =>
       \A v \in Vars(problem) : \A e \in starts[v] : e \in domain[v] \/ FromTemplate(v, e)
  /\ phase = "templates" => template # 0

\* Domains only grow, so what explains a candidate is never withdrawn.
LEMMA DomainsGrow ==
  ASSUME TypeOK, [Next]_vars
  PROVE  \A v \in Vars(problem) : domain[v] \subseteq domain'[v]
  <1>1. CASE Contract
    <2> DEFINE k == problem.contracts[contract]
    <2>1. domain' = domain \/ domain' = [domain EXCEPT ![k.var] = @ \cup k.image]
      BY <1>1 DEF Contract
    <2> HIDE DEF k
    <2> QED BY <2>1 DEF TypeOK
  <1>2. CASE Start \/ Follow
    <2>1. ASSUME NEW v \in Vars(problem), NEW e, Enqueue(v, e), NEW w \in Vars(problem)
          PROVE  domain[w] \subseteq domain'[w]
      <3>1. CASE w = v BY <2>1, <3>1, EnqueueFacts
      <3>2. CASE w # v BY <2>1, <3>2, EnqueueFacts
      <3> QED BY <3>1, <3>2
    <2> QED BY <1>2, <2>1, WalkSteps, WalkTargets
  <1>3. CASE ~(Contract \/ Start \/ Follow)
    <2>1. domain' = domain
      BY <1>3 DEF Next, Validate, NextOrigin, OriginsDone, Started, Pop, EndWalk, Default,
                  Template, TemplatesDone, Finish, vars
    <2> QED BY <2>1
  <1> QED BY <1>1, <1>2, <1>3

LEMMA OriginsKept ==
  ASSUME TypeOK, [Next]_vars, NEW v \in Vars(problem), NEW e, Origin(v, e)
  PROVE  Origin(v, e)'
  <1>1. problem' = problem /\ \A u \in Vars(problem) : domain[u] \subseteq domain'[u]
    BY ProblemKept, DomainsGrow
  <1>2. FromTemplate(v, e)' <=> FromTemplate(v, e) BY <1>1 DEF FromTemplate
  <1>3. ASSUME FromRelation(v, e) PROVE FromRelation(v, e)'
    <2>1. PICK i \in DOMAIN problem.relations, u \in Vars(problem) :
            /\ Touches(problem.relations[i], u) /\ v = Other(problem.relations[i], u)
            /\ \E d \in domain[u] : e \in Image(problem, problem.relations[i], u, d)
      BY <1>3 DEF FromRelation
    <2>2. \E d \in domain'[u] : e \in Image(problem, problem.relations[i], u, d) BY <1>1, <2>1
    <2> QED BY <1>1, <2>1, <2>2 DEF FromRelation
  <1> QED BY <1>1, <1>2, <1>3 DEF Origin

LEMMA OriginInvariant == Spec => []OriginInv
  <1>1. Init => OriginInv
    <2> SUFFICES ASSUME Init PROVE OriginInv OBVIOUS
    <2>1. \A v \in Vars(problem) : offered[v] = {} BY DEF Init, Nothing
    <2> QED BY <2>1 DEF Init, OriginInv, Origin
  <1>2. TypeOK /\ OriginInv /\ [Next]_vars => OriginInv'
    <2> SUFFICES ASSUME TypeOK, OriginInv, [Next]_vars PROVE OriginInv' OBVIOUS
    <2>1. problem' = problem BY ProblemKept
    <2>2. Vars(problem)' = Vars(problem) /\ WellFormed(problem) BY <2>1 DEF TypeOK
    <2>3. \A v \in Vars(problem) : domain[v] \subseteq domain'[v] BY DomainsGrow
    <2>4. \A v, e : FromTemplate(v, e)' <=> FromTemplate(v, e) BY <2>1 DEF FromTemplate
    <2>5. \A v \in Vars(problem) : \A e \in domain[v] : Origin(v, e)'
      BY OriginsKept DEF OriginInv
    <2>6. \A o \in origins : o[1] \in Vars(problem) /\ o[2] \in domain'[o[1]]
      BY <2>3 DEF OriginInv
    <2>7. CASE Contract
      <3> DEFINE k == problem.contracts[contract]
      <3>1. contract \in DOMAIN problem.contracts
        BY <2>2, <2>7, ProblemFacts DEF Contract, TypeOK
      <3>2. k.var \in Vars(problem) BY <2>2, <3>1, ProblemFacts
      <3>3. domain' = domain \/ domain' = [domain EXCEPT ![k.var] = @ \cup k.image]
        BY <2>7 DEF Contract
      <3>4. ASSUME NEW v \in Vars(problem), NEW e \in domain'[v] PROVE Origin(v, e)'
        <4>1. CASE e \in domain[v] BY <2>5, <4>1
        <4>2. CASE e \notin domain[v]
          <5>1. v = k.var /\ e \in k.image
            <6> HIDE DEF k
            <6> QED BY <3>2, <3>3, <4>2 DEF TypeOK
          <5> QED BY <2>1, <3>1, <5>1 DEF Origin
        <4> QED BY <4>1, <4>2
      <3>5. phase' \in {"contracts", "failed"} /\ offered' = offered /\ origins' = origins
        BY <2>7 DEF Contract
      <3>6. \A v \in Vars(problem) : offered'[v] \subseteq domain'[v]
        BY <2>3, <3>5 DEF OriginInv
      <3> QED BY <2>2, <2>6, <3>4, <3>5, <3>6 DEF OriginInv
    <2>8. CASE Start \/ Follow
      <3>1. /\ origins' = origins /\ starts' = starts /\ phase' = phase
            /\ phase \in {"starts", "walk"}
        BY <2>8 DEF Start, Follow
      <3>2. ASSUME NEW v \in Vars(problem), NEW e, Enqueue(v, e),
                   \A x \in Usable(problem, v, e) : x \notin domain[v] => Origin(v, x)
            PROVE  OriginInv'
        <4>1. ASSUME NEW w \in Vars(problem), NEW x \in domain'[w] PROVE Origin(w, x)'
          <5>1. CASE x \in domain[w] BY <2>5, <5>1
          <5>2. CASE x \notin domain[w]
            <6>1. w = v /\ x \in Usable(problem, v, e) BY <3>2, <5>2, EnqueueFacts
            <6> QED BY <3>2, <5>2, <6>1, OriginsKept
          <5> QED BY <5>1, <5>2
        <4>2. ASSUME NEW w \in Vars(problem) PROVE offered'[w] \subseteq domain'[w]
          <5>1. CASE w # v
            <6>1. offered'[w] = offered[w] /\ domain'[w] = domain[w] BY <3>2, <5>1, EnqueueFacts
            <6> QED BY <6>1 DEF OriginInv
          <5>2. CASE w = v /\ offered[v] # {}
            <6>1. offered'[v] = offered[v] BY <3>2, <5>2, EnqueueFacts
            <6> QED BY <2>3, <5>2, <6>1 DEF OriginInv
          <5>3. CASE w = v /\ offered[v] = {}
            <6>1. offered'[v] = Usable(problem, v, e) /\ Usable(problem, v, e) \subseteq domain'[v]
              BY <3>2, <5>3, EnqueueFacts
            <6> QED BY <5>3, <6>1
          <5> QED BY <5>1, <5>2, <5>3
        <4>3. phase' = "starts" =>
                \A w \in Vars(problem) : \A x \in starts'[w] : x \in domain'[w] \/ FromTemplate(w, x)'
          BY <2>3, <2>4, <3>1 DEF OriginInv
        <4> QED BY <2>2, <2>6, <3>1, <4>1, <4>2, <4>3 DEF OriginInv
      <3>3. ASSUME UNCHANGED <<offered, domain, queue>> PROVE OriginInv'
        <4>1. phase' = "starts" =>
                \A w \in Vars(problem) : \A x \in starts'[w] : x \in domain'[w] \/ FromTemplate(w, x)'
          BY <2>3, <2>4, <3>1 DEF OriginInv
        <4> QED BY <2>2, <2>5, <2>6, <3>1, <3>3, <4>1 DEF OriginInv
      <3>4. CASE Start
        <4>1. cursor \in Vars(problem) /\ phase = "starts" /\ Enqueue(cursor, starts[cursor])
          BY <3>4, WalkTargets DEF Start
        <4>2. \A x \in Usable(problem, cursor, starts[cursor]) :
                x \notin domain[cursor] => Origin(cursor, x)
          BY <4>1 DEF Usable, OriginInv, Origin
        <4> QED BY <3>2, <4>1, <4>2
      <3>5. CASE Follow
        <4> DEFINE k == problem.relations[cursor]
                   h == Head(queue)
                   e == Offered(problem, k, h, offered[h])
        <4>1. cursor \in DOMAIN problem.relations /\ h \in Vars(problem) /\ Other(k, h) \in Vars(problem)
          BY <3>5, WalkTargets
        <4>2. ASSUME Touches(k, h), NEW x \in e PROVE FromRelation(Other(k, h), x)
          <5>1. PICK d \in offered[h] : x \in Image(problem, k, h, d) BY <4>2 DEF Offered
          <5>2. d \in domain[h] BY <4>1, <5>1 DEF OriginInv
          <5>3. \E d1 \in domain[h] : x \in Image(problem, k, h, d1) BY <5>1, <5>2
          <5> QED BY <4>1, <4>2, <5>3 DEF FromRelation
        <4>3. Usable(problem, Other(k, h), e) \subseteq e BY DEF Usable
        <4>4. CASE Touches(k, h) /\ Enqueue(Other(k, h), e)
          <5>1. \A x \in Usable(problem, Other(k, h), e) : Origin(Other(k, h), x)
            BY <4>2, <4>3, <4>4 DEF Origin
          <5> QED BY <3>2, <4>1, <4>4, <5>1
        <4> QED BY <3>3, <3>5, <4>4 DEF Follow, Follows
      <3> QED BY <2>8, <3>4, <3>5
    <2>9. CASE NextOrigin
      <3>1. PICK o \in origins :
              /\ origins' = origins \ {o}
              /\ Walk([v \in Vars(problem) |-> IF v = o[1] THEN {o[2]} ELSE {}])
        BY <2>9 DEF NextOrigin
      <3>2. domain' = domain /\ phase' = "starts" /\ offered' = Nothing(problem)
            /\ starts' = [v \in Vars(problem) |-> IF v = o[1] THEN {o[2]} ELSE {}]
        BY <2>9, <3>1 DEF NextOrigin, Walk
      <3>3. \A v \in Vars(problem) : \A e \in starts'[v] : e \in domain'[v]
        BY <3>1, <3>2 DEF OriginInv
      <3>4. \A v \in Vars(problem) : offered'[v] = {} BY <3>2 DEF Nothing
      <3> QED BY <2>2, <2>5, <2>6, <3>1, <3>2, <3>3, <3>4 DEF OriginInv
    <2>10. CASE Template
      <3>1. /\ domain' = domain /\ phase' = "starts" /\ offered' = Nothing(problem)
            /\ origins' = origins
            /\ starts' = [v \in Vars(problem) |->
                            TemplateFor(problem, problem.root[turn], template, v)]
        BY <2>10 DEF Template, Walk
      <3>2. template \in 1..problem.templates[problem.root[turn]]
        <4>1. turn \in Vars(problem) BY <2>2, <2>10, ProblemFacts DEF Template, TypeOK
        <4>2. problem.templates[problem.root[turn]] \in Nat BY <2>2, <4>1, ProblemFacts
        <4>3. template \in Nat /\ template # 0 BY <2>10 DEF Template, TypeOK, OriginInv
        <4> QED BY <2>10, <4>2, <4>3 DEF Template
      <3>3. \A v \in Vars(problem) : \A e \in starts'[v] : FromTemplate(v, e)
        BY <3>1, <3>2 DEF TemplateFor, FromTemplate
      <3>4. \A v \in Vars(problem) : offered'[v] = {} BY <3>1 DEF Nothing
      <3> QED BY <2>2, <2>4, <2>5, <2>6, <3>1, <3>3, <3>4 DEF OriginInv
    <2>11. ASSUME domain' = domain, offered' = offered, phase' # "starts",
                  \A o \in origins' : o[1] \in Vars(problem) /\ o[2] \in domain[o[1]],
                  phase' = "templates" => template' # 0
           PROVE  OriginInv'
      BY <2>2, <2>5, <2>11 DEF OriginInv
    <2>12. CASE Validate
      <3>1. /\ domain' = domain /\ offered' = offered /\ phase' \notin {"starts", "templates"}
            /\ \A o \in origins' : o[1] \in Vars(problem) /\ o[2] \in domain[o[1]]
        BY <2>12 DEF Validate
      <3> QED BY <2>11, <3>1
    <2>13. CASE OriginsDone \/ Started \/ Pop \/ TemplatesDone \/ Finish \/ EndWalk \/ Default
      <3>1. /\ domain' = domain /\ offered' = offered /\ phase' # "starts" /\ origins' = origins
            /\ phase' = "templates" => template' # 0
        BY <2>13 DEF OriginsDone, Started, Pop, TemplatesDone, Finish, EndWalk, Default
      <3> QED BY <2>11, <3>1 DEF OriginInv
    <2>14. CASE UNCHANGED vars
      <3>1. UNCHANGED <<domain, offered, phase, origins, starts, template>> BY <2>14 DEF vars
      <3> QED BY <2>2, <2>4, <2>5, <3>1 DEF OriginInv
    <2> QED BY <2>7, <2>8, <2>9, <2>10, <2>12, <2>13, <2>14 DEF Next
  <1> QED BY <1>1, <1>2, CandidatesTypeCorrect, PTL DEF Spec

\* Every candidate has an origin among bindings, contracts, templates and the
\* candidates of related variables.
THEOREM CandidatesExplained == Spec => []Explained
  <1>1. OriginInv => Explained
    BY DEF OriginInv, Origin, FromTemplate, FromRelation, Explained
  <1> QED BY <1>1, OriginInvariant, PTL

-----------------------------------------------------------------------------
(* Templates.                                                              *)

Tried(v, t) == Usable(problem, v, RootImage(problem, problem.root[v], t, v)) \subseteq domain[v]

\* Template t of the buffer of v is still to come.
Pending(v, t) ==
  /\ template # 0 /\ problem.root[v] = problem.root[turn]
  /\ t >= template \/ (t = template - 1 /\ phase = "starts" /\ v >= cursor)

TemplatesInv ==
  /\ \A v \in Vars(problem) : problem.root[v] \in initialized =>
       \A t \in 1..problem.templates[problem.root[v]] : Tried(v, t) \/ Pending(v, t)
  /\ \A v \in Vars(problem) : v < turn => domain[v] # {} \/ problem.root[v] \in initialized
  /\ template # 0 => problem.root[turn] \in initialized
  /\ phase = "starts" =>
       /\ \A v \in Vars(problem) : v >= cursor => offered[v] = {}
       /\ template # 0 => \A v \in Vars(problem) :
            problem.root[v] = problem.root[turn] =>
              starts[v] = RootImage(problem, problem.root[v], template - 1, v)
  /\ phase = "templates" => template # 0
  /\ phase = "done" => turn > problem.vars

LEMMA TriedStays ==
  ASSUME TypeOK, [Next]_vars, NEW v \in Vars(problem), NEW t, Tried(v, t)
  PROVE  Tried(v, t)'
  <1>1. problem' = problem /\ domain[v] \subseteq domain'[v] BY ProblemKept, DomainsGrow
  <1> QED BY <1>1 DEF Tried

LEMMA TemplatesInvariant == Spec => []TemplatesInv
  <1>1. Init => TemplatesInv
    <2> SUFFICES ASSUME Init PROVE TemplatesInv OBVIOUS
    <2>1. \A v \in Vars(problem) : ~ v < turn
      BY ProblemsAssumption, ProblemFacts DEF Init
    <2> QED BY <2>1 DEF Init, TemplatesInv
  <1>2. TypeOK /\ TemplatesInv /\ [Next]_vars => TemplatesInv'
    <2> SUFFICES ASSUME TypeOK, TemplatesInv, [Next]_vars PROVE TemplatesInv' OBVIOUS
    <2>1. problem' = problem BY ProblemKept
    <2>2. /\ Vars(problem)' = Vars(problem) /\ WellFormed(problem)
          /\ problem.vars \in Nat /\ Vars(problem) = 1..problem.vars
          /\ turn \in Nat /\ template \in Nat /\ cursor \in Nat \ {0}
      BY <2>1, ProblemFacts DEF TypeOK
    <2>3. \A v \in Vars(problem) : domain[v] \subseteq domain'[v] BY DomainsGrow
    <2>4. ASSUME NEW v \in Vars(problem), NEW t, Tried(v, t) PROVE Tried(v, t)'
      BY <2>4, TriedStays
    \* What holds of the variables behind the turn stays.
    <2>5. initialized \subseteq initialized' => \A v \in Vars(problem) :
            v < turn => domain'[v] # {} \/ problem.root[v] \in initialized'
      BY <2>3 DEF TemplatesInv
    <2>6. CASE Start
      <3>1. /\ phase = "starts" /\ phase' = "starts" /\ cursor \in Vars(problem)
            /\ cursor' = cursor + 1
            /\ UNCHANGED <<starts, turn, template, initialized>>
            /\ Enqueue(cursor, starts[cursor])
        BY <2>6, WalkTargets DEF Start
      <3>2. PICK c \in Vars(problem) : c = cursor BY <3>1
      <3>3. offered[c] = {} BY <2>2, <3>1, <3>2 DEF TemplatesInv
      <3>4. ASSUME NEW v \in Vars(problem), problem.root[v] \in initialized,
                   NEW t \in 1..problem.templates[problem.root[v]]
            PROVE  Tried(v, t)' \/ Pending(v, t)'
        <4>1. CASE Tried(v, t) BY <2>4, <4>1
        <4>2. CASE Pending(v, t) /\ ~(v = c /\ t = template - 1)
          <5>1. t >= template \/ v >= cursor' BY <2>2, <3>1, <3>2, <4>2 DEF Pending
          <5> QED BY <2>1, <3>1, <4>2, <5>1 DEF Pending
        <4>3. CASE Pending(v, t) /\ v = c /\ t = template - 1
          <5>1. starts[c] = RootImage(problem, problem.root[c], t, c)
            BY <3>1, <4>3 DEF Pending, TemplatesInv
          <5>2. Usable(problem, c, starts[c]) \subseteq domain'[c]
            BY <3>1, <3>2, <3>3, EnqueueFacts
          <5> QED BY <2>1, <4>3, <5>1, <5>2 DEF Tried
        <4>4. Tried(v, t) \/ Pending(v, t) BY <3>4 DEF TemplatesInv
        <4> QED BY <4>1, <4>2, <4>3, <4>4
      <3>5. ASSUME NEW v \in Vars(problem), v >= cursor' PROVE offered'[v] = {}
        <4>1. v # c /\ v >= cursor BY <2>2, <3>1, <3>2, <3>5
        <4>2. offered'[v] = offered[v] BY <3>1, <3>2, <4>1, EnqueueFacts
        <4> QED BY <3>1, <4>1, <4>2 DEF TemplatesInv
      <3> QED BY <2>1, <2>2, <2>5, <3>1, <3>4, <3>5 DEF TemplatesInv
    <2>7. CASE Follow
      <3>1. phase = "walk" /\ phase' = "walk" /\ UNCHANGED <<turn, template, initialized>>
        BY <2>7 DEF Follow
      <3>2. \A v, t : Pending(v, t) => Pending(v, t)' BY <2>1, <3>1 DEF Pending
      <3> QED BY <2>1, <2>2, <2>4, <2>5, <3>1, <3>2 DEF TemplatesInv
    \* The end of the starts leaves no variable for the template that was walked.
    <2>8. CASE Started
      <3>1. /\ phase = "starts" /\ phase' = "walk" /\ cursor > problem.vars
            /\ UNCHANGED <<turn, template, initialized>>
        BY <2>8 DEF Started
      <3>2. \A v \in Vars(problem) : ~ v >= cursor BY <2>2, <3>1
      <3>3. \A v \in Vars(problem) : \A t : Pending(v, t) => Pending(v, t)'
        BY <2>1, <3>1, <3>2 DEF Pending
      <3> QED BY <2>1, <2>2, <2>4, <2>5, <3>1, <3>3 DEF TemplatesInv
    <2>9. CASE Template
      <3>1. /\ phase = "templates" /\ phase' = "starts" /\ cursor' = 1 /\ template' = template + 1
            /\ UNCHANGED <<turn, initialized>> /\ offered' = Nothing(problem)
            /\ starts' = [v \in Vars(problem) |->
                            TemplateFor(problem, problem.root[turn], template, v)]
        BY <2>9 DEF Template, Walk
      <3>2. \A v \in Vars(problem) : v \in Nat /\ v >= 1 BY <2>2
      <3>3. ASSUME NEW v \in Vars(problem), NEW t \in Nat, Pending(v, t) PROVE Pending(v, t)'
        <4>1. t >= template /\ problem.root[v] = problem.root[turn] BY <3>1, <3>3 DEF Pending
        <4>2. t >= template' \/ t = template' - 1 BY <2>2, <3>1, <4>1
        <4> QED BY <2>1, <2>2, <3>1, <3>2, <4>1, <4>2 DEF Pending
      <3>4. ASSUME NEW v \in Vars(problem), problem.root[v] \in initialized,
                   NEW t \in 1..problem.templates[problem.root[v]]
            PROVE  Tried(v, t)' \/ Pending(v, t)'
        <4>1. t \in Nat BY <2>2, ProblemFacts
        <4>2. Tried(v, t) \/ Pending(v, t) BY <3>4 DEF TemplatesInv
        <4> QED BY <2>4, <3>3, <4>1, <4>2
      <3>5. \A v \in Vars(problem) : offered'[v] = {} BY <3>1 DEF Nothing
      <3>6. template' - 1 = template BY <2>2, <3>1
      <3>7. \A v \in Vars(problem) : problem.root[v] = problem.root[turn] =>
              starts'[v] = RootImage(problem, problem.root[v], template' - 1, v)
        BY <3>1, <3>6 DEF TemplateFor
      <3>8. problem.root[turn] \in initialized BY <3>1 DEF TemplatesInv
      <3> QED BY <2>1, <2>2, <2>5, <3>1, <3>4, <3>5, <3>7, <3>8 DEF TemplatesInv
    <2>10. CASE TemplatesDone
      <3>1. /\ phase = "templates" /\ phase' = "defaults" /\ template' = 0 /\ turn' = turn + 1
            /\ initialized' = initialized /\ template > problem.templates[problem.root[turn]]
        BY <2>10 DEF TemplatesDone
      <3>2. turn \in Vars(problem) BY <2>2, <3>1 DEF TypeOK
      <3>3. ASSUME NEW v \in Vars(problem), problem.root[v] \in initialized,
                   NEW t \in 1..problem.templates[problem.root[v]]
            PROVE  Tried(v, t)'
        <4>1. problem.templates[problem.root[v]] \in Nat BY <2>2, ProblemFacts
        <4>2. ~Pending(v, t) BY <2>2, <3>1, <4>1 DEF Pending
        <4> QED BY <2>4, <3>3, <4>2 DEF TemplatesInv
      <3>4. problem.root[turn] \in initialized BY <3>1 DEF TypeOK, TemplatesInv
      <3>5. \A v \in Vars(problem) : v < turn' => v < turn \/ v = turn BY <2>2, <3>1
      <3> QED BY <2>1, <2>2, <2>5, <3>1, <3>3, <3>4, <3>5 DEF TemplatesInv
    <2>11. CASE Default
      <3>1. phase = "defaults" /\ template = 0 /\ domain' = domain /\ turn \in Vars(problem)
        BY <2>2, <2>11 DEF Default, TypeOK
      <3>2. \A v, t : ~Pending(v, t) BY <3>1 DEF Pending
      <3>3. CASE ~NeedsTemplates(turn)
        <4>1. turn' = turn + 1 /\ UNCHANGED <<phase, template, initialized>>
          BY <2>11, <3>3 DEF Default
        <4>2. domain[turn] # {} \/ problem.root[turn] \in initialized
          BY <3>3 DEF NeedsTemplates
        <4>3. \A v \in Vars(problem) : v < turn' => v < turn \/ v = turn BY <2>2, <4>1
        <4> QED BY <2>1, <2>2, <2>4, <2>5, <3>1, <3>2, <4>1, <4>2, <4>3 DEF TemplatesInv
      <3>4. CASE NeedsTemplates(turn) /\ problem.templates[problem.root[turn]] = 0
        <4>1. phase' = "failed" /\ UNCHANGED <<turn, template, initialized>>
          BY <2>11, <3>4 DEF Default
        <4> QED BY <2>1, <2>2, <2>4, <2>5, <3>1, <3>2, <4>1 DEF TemplatesInv
      <3>5. CASE NeedsTemplates(turn) /\ problem.templates[problem.root[turn]] # 0
        <4>1. /\ initialized' = initialized \cup {problem.root[turn]}
              /\ template' = 1 /\ phase' = "templates" /\ turn' = turn
          BY <2>11, <3>5 DEF Default
        <4>2. ASSUME NEW v \in Vars(problem), problem.root[v] \in initialized',
                     NEW t \in 1..problem.templates[problem.root[v]]
              PROVE  Tried(v, t)' \/ Pending(v, t)'
          <5>1. t \in Nat /\ t >= 1 BY <2>2, ProblemFacts
          <5>2. CASE problem.root[v] \in initialized
            BY <2>4, <3>2, <4>2, <5>2 DEF TemplatesInv
          <5>3. CASE problem.root[v] = problem.root[turn]
            BY <2>1, <4>1, <5>1, <5>3 DEF Pending
          <5> QED BY <4>1, <4>2, <5>2, <5>3
        <4> QED BY <2>1, <2>2, <2>5, <3>1, <4>1, <4>2 DEF TemplatesInv
      <3> QED BY <3>3, <3>4, <3>5
    <2>12. CASE NextOrigin
      <3>1. /\ phase = "origins" /\ template = 0 /\ phase' = "starts" /\ domain' = domain
            /\ UNCHANGED <<turn, template, initialized>> /\ offered' = Nothing(problem)
        BY <2>12 DEF NextOrigin, Walk, TypeOK
      <3>2. \A v \in Vars(problem) : offered'[v] = {} BY <3>1 DEF Nothing
      <3>3. \A v, t : ~Pending(v, t) BY <3>1 DEF Pending
      <3> QED BY <2>1, <2>2, <2>4, <2>5, <3>1, <3>2, <3>3 DEF TemplatesInv
    <2>13. CASE Contract \/ Validate \/ OriginsDone \/ Pop \/ EndWalk \/ Finish
      <3>1. /\ UNCHANGED <<turn, template, initialized>>
            /\ phase # "starts" /\ phase' # "starts"
            /\ phase' = "templates" => template # 0
            /\ phase' = "done" => turn > problem.vars
        BY <2>13 DEF Contract, Validate, OriginsDone, Pop, EndWalk, Finish
      <3>2. \A v, t : Pending(v, t) => Pending(v, t)' BY <2>1, <3>1 DEF Pending
      <3> QED BY <2>1, <2>2, <2>4, <2>5, <3>1, <3>2 DEF TemplatesInv
    <2>14. CASE UNCHANGED vars
      <3>1. \A v, t : Pending(v, t) => Pending(v, t)' BY <2>14 DEF vars, Pending
      <3> QED BY <2>1, <2>2, <2>4, <2>5, <2>14, <3>1 DEF vars, TemplatesInv
    <2> QED BY <2>6, <2>7, <2>8, <2>9, <2>10, <2>11, <2>12, <2>13, <2>14 DEF Next
  <1> QED BY <1>1, <1>2, CandidatesTypeCorrect, PTL DEF Spec

\* No view is left without candidates while a template of its buffer would do.
THEOREM EmptyIsExhausted == Spec => []EmptyOnlyIfRejected
  <1>1. TypeOK /\ TemplatesInv => EmptyOnlyIfRejected
    <2> SUFFICES ASSUME TypeOK, TemplatesInv, phase = "done",
                        NEW v \in Vars(problem), domain[v] = {}
                 PROVE  /\ problem.root[v] \in initialized
                        /\ \A t \in 1..problem.templates[problem.root[v]] :
                             Usable(problem, v, RootImage(problem, problem.root[v], t, v)) = {}
      BY DEF EmptyOnlyIfRejected
    <2>1. turn > problem.vars /\ template = 0 BY DEF TypeOK, TemplatesInv
    <2>2. v < turn
      <3>1. problem.vars \in Nat /\ Vars(problem) = 1..problem.vars /\ turn \in Nat
        BY ProblemFacts DEF TypeOK
      <3> QED BY <2>1, <3>1
    <2>3. problem.root[v] \in initialized BY <2>2 DEF TemplatesInv
    <2>4. \A t \in 1..problem.templates[problem.root[v]] : Tried(v, t)
      BY <2>1, <2>3 DEF TemplatesInv, Pending
    <2> QED BY <2>3, <2>4 DEF Tried
  <1> QED BY <1>1, CandidatesTypeCorrect, TemplatesInvariant, PTL

-----------------------------------------------------------------------------
(* Contracts *)

\* Nothing is left to do for view i.
Written(i) ==
  bound[i] # Unbound =>
    /\ program.views[i].kind \in {"whole", "part"}
    /\ program.views[i].kind = "whole" => Exists(program, declared, program.views[i], bound[i])

PreservedInv ==
  /\ progress = "views" => \A i \in DOMAIN program.views : i < next => Written(i)
  /\ again => \A i \in DOMAIN program.views : Written(i)
  /\ again => progress \in {"views", "preserved"}
  /\ again \/ progress = "preserved" => Accepts(program, declared)

-----------------------------------------------------------------------------

\* Declarations in effect at one point dominate one another: storageContractDominates.
LEMMA TogetherComparable ==
  ASSUME NEW p, WellFormedProgram(p), NEW d, NEW e, NEW x \in ProgramPoints(p),
         d.at \in ProgramPoints(p), e.at \in ProgramPoints(p),
         Effective(p, d, x), Effective(p, e, x)
  PROVE  Comparable(p, d, e)
<1>1. CASE d.at \in p.above[x] /\ e.at \in p.above[x]
  <2>1. d.at = e.at \/ d.at \in p.above[e.at] \/ e.at \in p.above[d.at]
    BY <1>1 DEF WellFormedProgram
  <2> QED BY <2>1 DEF Comparable, Effective
<1>2. CASE d.at = x \/ e.at = x
  BY <1>2 DEF Comparable, Effective
<1> QED BY <1>1, <1>2 DEF Effective

\* A declaration that stands for a binding stands for it after others are added.
LEMMA ExistsKept ==
  ASSUME NEW p, NEW D, NEW D2, NEW w, NEW layout,
         DOMAIN D \subseteq DOMAIN D2, \A i \in DOMAIN D : D2[i] = D[i],
         Exists(p, D, w, layout)
  PROVE  Exists(p, D2, w, layout)
BY DEF Exists

LEMMA Appended ==
  ASSUME NEW S, NEW s \in Seq(S), NEW e \in S
  PROVE  /\ Append(s, e) \in Seq(S)
         /\ DOMAIN Append(s, e) = 1..Len(s) + 1
         /\ DOMAIN s = 1..Len(s) /\ Len(s) \in Nat
         /\ \A i \in 1..Len(s) : Append(s, e)[i] = s[i]
         /\ Append(s, e)[Len(s) + 1] = e
OBVIOUS

-----------------------------------------------------------------------------

LEMMA Elements ==
  ASSUME NEW S, NEW s \in Seq(S)
  PROVE  DOMAIN s = 1..Len(s) /\ Len(s) \in Nat /\ \A i \in DOMAIN s : s[i] \in S
OBVIOUS

\* What the walk is at.
LEMMA ViewFacts ==
  ASSUME ContractsTypeOK
  PROVE  /\ next \in Nat /\ Len(program.views) \in Nat
         /\ DOMAIN program.views = 1..Len(program.views)
         /\ \A i \in DOMAIN program.views :
              /\ program.views[i].at \in ProgramPoints(program) /\ program.views[i].root \in Buffers
              /\ program.views[i].kind \in {"whole", "part", "unknown"}
<1> DEFINE V == [at : ProgramPoints(program), root : Buffers, kind : {"whole", "part", "unknown"}]
<1>1. program.views \in Seq(V)
  BY DEF ContractsTypeOK, WellFormedProgram
<1>2. /\ DOMAIN program.views = 1..Len(program.views) /\ Len(program.views) \in Nat
      /\ \A i \in DOMAIN program.views : program.views[i] \in V
  <2> HIDE DEF V
  <2> QED BY <1>1, Elements
<1>3. next \in Nat
  BY <1>2 DEF ContractsTypeOK
<1> QED BY <1>2, <1>3

LEMMA InitType == ContractsInit => ContractsTypeOK
<1> SUFFICES ASSUME ContractsInit PROVE ContractsTypeOK
  OBVIOUS
<1>1. WellFormedProgram(program) /\ declared = program.declared /\ bound = program.bound
  BY ContractsAssumption DEF ContractsInit
<1>2. /\ declared \in Seq(Declaration(program)) /\ \A i \in DOMAIN declared : ~declared[i].added
      /\ bound \in [DOMAIN program.views -> Layouts \cup {Unbound}]
  BY <1>1 DEF WellFormedProgram
<1> DEFINE V == [at : ProgramPoints(program), root : Buffers, kind : {"whole", "part", "unknown"}]
<1>3. program.views \in Seq(V)
  BY <1>1 DEF WellFormedProgram
<1>4. Len(program.views) \in Nat
  <2> HIDE DEF V
  <2> QED BY <1>3, Elements
<1>5. next \in 1..Len(program.views) + 1
  BY <1>4 DEF ContractsInit
<1> QED BY <1>1, <1>2, <1>5 DEF ContractsInit, ContractsTypeOK

LEMMA NextType == ContractsTypeOK /\ [ContractsNext]_contractVars => ContractsTypeOK'
<1> SUFFICES ASSUME ContractsTypeOK, [ContractsNext]_contractVars PROVE ContractsTypeOK'
  OBVIOUS
<1>0. /\ next \in Nat /\ Len(program.views) \in Nat
      /\ DOMAIN program.views = 1..Len(program.views)
  BY ViewFacts
<1>1. CASE Preserve
  BY <1>1, <1>0 DEF Preserve, ContractsTypeOK
<1>2. CASE Skip
  BY <1>2, <1>0 DEF Skip, ContractsTypeOK
<1>3. CASE Refuse
  BY <1>3 DEF Refuse, ContractsTypeOK
<1>4. CASE Add
  <2> DEFINE e == [at |-> PlaceFor(program, View), root |-> View.root,
                   layout |-> bound[next], added |-> TRUE]
  <2>1. next \in DOMAIN program.views /\ next + 1 \in 1..Len(program.views) + 1
    BY <1>4, <1>0 DEF Add, ContractsTypeOK
  <2>2. View.at \in ProgramPoints(program) /\ View.root \in Buffers
    BY <2>1, ViewFacts DEF View
  <2>3. bound[next] \in Layouts
    BY <2>1, <1>4 DEF Add, ContractsTypeOK
  <2>4. e \in Declaration(program) /\ e.added
    BY <2>2, <2>3 DEF Declaration, PlaceFor
  <2>5. e.at \in program.scoped
    BY <1>4 DEF Add, Invalid, PlaceFor
  <2>6. declared' = Append(declared, e) /\ UNCHANGED <<program, bound, progress, again>> /\ next' = next + 1
    BY <1>4 DEF Add
  <2> HIDE DEF e
  <2>7. declared \in Seq(Declaration(program))
    BY DEF ContractsTypeOK
  <2>8. \A i \in DOMAIN Append(declared, e) :
          Append(declared, e)[i].added => Append(declared, e)[i].at \in program.scoped
    <3> SUFFICES ASSUME NEW i \in DOMAIN Append(declared, e), Append(declared, e)[i].added
                 PROVE  Append(declared, e)[i].at \in program.scoped
      OBVIOUS
    <3>1. CASE i = Len(declared) + 1
      BY <3>1, <2>4, <2>5, <2>7, Appended
    <3>2. CASE i # Len(declared) + 1
      <4>1. i \in DOMAIN declared /\ Append(declared, e)[i] = declared[i]
        BY <3>2, <2>4, <2>7, Appended
      <4> QED BY <4>1 DEF ContractsTypeOK
    <3> QED BY <3>1, <3>2
  <2>9. Append(declared, e) \in Seq(Declaration(program))
    BY <2>4, <2>7, Appended
  <2> QED BY <2>1, <2>6, <2>8, <2>9 DEF ContractsTypeOK
<1>5. CASE FinishPreserving
  BY <1>5 DEF FinishPreserving, ContractsTypeOK
<1>6. CASE Infer
  BY <1>6 DEF Infer, ContractsTypeOK
<1>7. CASE UNCHANGED contractVars
  BY <1>7 DEF contractVars, ContractsTypeOK
<1> QED BY <1>1, <1>2, <1>3, <1>4, <1>5, <1>6, <1>7 DEF ContractsNext

\* Types, and that declarations are added only where dominance is understood.
THEOREM ContractsTypeCorrect == ContractsSpec => []ContractsTypeOK
BY InitType, NextType, PTL DEF ContractsSpec

-----------------------------------------------------------------------------

LEMMA InitPreserved == ContractsInit => PreservedInv
BY DEF ContractsInit, PreservedInv

LEMMA NextPreserved == ContractsTypeOK /\ PreservedInv /\ [ContractsNext]_contractVars => PreservedInv'
<1> SUFFICES ASSUME ContractsTypeOK, PreservedInv, [ContractsNext]_contractVars PROVE PreservedInv'
  OBVIOUS
<1>0. next \in Nat /\ Len(program.views) \in Nat
      /\ DOMAIN program.views = 1..Len(program.views)
  BY ViewFacts
<1>1. CASE Preserve
  <2>1. UNCHANGED <<program, declared, bound>> /\ next' = 1
        /\ progress \in {"fresh", "preserved"}
        /\ progress' = (IF Accepts(program, declared) THEN "views" ELSE "refused")
        /\ again' = (progress = "preserved" /\ again)
    BY <1>1 DEF Preserve
  <2>2. \A i \in DOMAIN program.views : Written(i)' = Written(i)
    BY <2>1 DEF Written
  <2>3. \A i \in DOMAIN program.views : ~(i < 1)
    BY <1>0
  <2>4. progress' # "preserved"
    BY <2>1
  <2>5. again' => again /\ Accepts(program, declared)
    BY <2>1 DEF PreservedInv
  <2>6. (progress' = "views" => \A i \in DOMAIN program.views : i < next' => Written(i)')
    BY <2>1, <2>3
  <2>7. again' => \A i \in DOMAIN program.views : Written(i)'
    BY <2>2, <2>5 DEF PreservedInv
  <2>8. again' => progress' \in {"views", "preserved"}
    BY <2>1, <2>5
  <2> QED BY <2>1, <2>4, <2>5, <2>6, <2>7, <2>8 DEF PreservedInv
<1>2. CASE Skip
  <2>1. UNCHANGED <<program, declared, bound, progress, again>> /\ next' = next + 1 /\ progress = "views"
    BY <1>2 DEF Skip
  <2>2. \A i \in DOMAIN program.views : Written(i)' = Written(i)
    BY <2>1 DEF Written
  <2>3. Written(next)
    BY <1>2 DEF Skip, Written, View
  <2>4. \A i \in DOMAIN program.views : i < next' => Written(i)
    <3> SUFFICES ASSUME NEW i \in DOMAIN program.views, i < next' PROVE Written(i)
      OBVIOUS
    <3>1. i < next \/ i = next
      BY <1>0, <2>1
    <3> QED BY <3>1, <2>1, <2>3 DEF PreservedInv
  <2> QED BY <2>1, <2>2, <2>4 DEF PreservedInv
<1>3. CASE Refuse
  <2>1. UNCHANGED <<program, declared, bound, next, again>> /\ progress' = "refused"
        /\ next \in DOMAIN program.views
    BY <1>3, <1>0 DEF Refuse, ContractsTypeOK
  <2>2. ~Written(next)
    BY <1>3 DEF Refuse, Written, Invalid, View, Exists, Effective
  <2>3. ~again
    BY <2>1, <2>2 DEF PreservedInv
  <2> QED BY <2>1, <2>3 DEF PreservedInv
<1>4. CASE Add
  <2> DEFINE e == [at |-> PlaceFor(program, View), root |-> View.root,
                   layout |-> bound[next], added |-> TRUE]
  <2>1. UNCHANGED <<program, bound, progress, again>> /\ next' = next + 1 /\ progress = "views"
        /\ next \in DOMAIN program.views /\ declared' = Append(declared, e)
    BY <1>4, <1>0 DEF Add, ContractsTypeOK
  <2>2. ~Written(next)
    BY <1>4 DEF Add, Written, View
  <2>3. ~again
    BY <2>1, <2>2 DEF PreservedInv
  <2>4. View.at \in ProgramPoints(program) /\ View.root \in Buffers
    BY <2>1, ViewFacts DEF View
  <2>5. e \in Declaration(program)
    BY <2>1, <2>4, <1>4 DEF Declaration, PlaceFor, ContractsTypeOK, Add
  <2>6. /\ declared \in Seq(Declaration(program))
        /\ e.at = View.at /\ e.root = View.root /\ e.layout = bound[next] /\ e.added
    BY DEF ContractsTypeOK, PlaceFor
  <2>7. View.kind = "whole" /\ View.at \in program.scoped
    BY <1>4 DEF Add, Invalid
  <2> HIDE DEF e
  <2>8. /\ DOMAIN declared \subseteq DOMAIN declared'
        /\ \A i \in DOMAIN declared : declared'[i] = declared[i]
        /\ Len(declared) + 1 \in DOMAIN declared' /\ declared'[Len(declared) + 1] = e
    BY <2>1, <2>5, <2>6, Appended
  <2>9. Exists(program, declared', View, bound[next])
    BY <2>6, <2>7, <2>8 DEF Exists, Effective
  <2>10. \A i \in DOMAIN program.views : i < next => Written(i)'
    <3> SUFFICES ASSUME NEW i \in DOMAIN program.views, i < next PROVE Written(i)'
      OBVIOUS
    <3>1. Written(i)
      BY <2>1 DEF PreservedInv
    <3> QED BY <3>1, <2>1, <2>8, ExistsKept DEF Written
  <2>11. \A i \in DOMAIN program.views : i = next => Written(i)'
    BY <2>1, <2>7, <2>9 DEF Written, View
  <2>12. \A i \in DOMAIN program.views : i < next' => Written(i)'
    <3> SUFFICES ASSUME NEW i \in DOMAIN program.views, i < next' PROVE Written(i)'
      OBVIOUS
    <3>1. i < next \/ i = next
      BY <1>0, <2>1
    <3> QED BY <3>1, <2>10, <2>11
  <2> QED BY <2>1, <2>3, <2>12 DEF PreservedInv
<1>5. CASE FinishPreserving
  <2>1. UNCHANGED <<program, declared, bound, next>> /\ progress = "views"
        /\ progress' = (IF Accepts(program, declared) THEN "preserved" ELSE "refused")
        /\ again' = (progress' = "preserved") /\ next > Len(program.views)
    BY <1>5 DEF FinishPreserving
  <2>2. \A i \in DOMAIN program.views : i < next
    BY <2>1, <1>0
  <2>3. \A i \in DOMAIN program.views : Written(i)
    BY <2>1, <2>2 DEF PreservedInv
  <2>4. \A i \in DOMAIN program.views : Written(i)' = Written(i)
    BY <2>1 DEF Written
  <2> QED BY <2>1, <2>3, <2>4 DEF PreservedInv
<1>6. CASE Infer
  <2>1. progress = "preserved" /\ again' = FALSE /\ UNCHANGED <<program, declared, progress, next>>
    BY <1>6 DEF Infer
  <2> QED BY <2>1 DEF PreservedInv
<1>7. CASE UNCHANGED contractVars
  BY <1>7 DEF contractVars, PreservedInv, Written
<1> QED BY <1>1, <1>2, <1>3, <1>4, <1>5, <1>6, <1>7 DEF ContractsNext

\* The inductive invariant of repeated runs: what the walk has passed is written down.
THEOREM Preserved == ContractsSpec => [](ContractsTypeOK /\ PreservedInv)
BY InitType, NextType, InitPreserved, NextPreserved, PTL DEF ContractsSpec

-----------------------------------------------------------------------------

\* Declarations of one buffer that hold at the same point agree, whatever the
\* dominance relation: collectStorageRootContracts compares enough pairs.
THEOREM ContractsAgree == ContractsSpec => []EffectiveAgree
<1>1. ContractsTypeOK /\ PreservedInv => EffectiveAgree
  <2> SUFFICES ASSUME ContractsTypeOK, PreservedInv, progress = "preserved",
                      NEW x \in ProgramPoints(program),
                      NEW i \in DOMAIN declared, NEW j \in DOMAIN declared,
                      declared[i].root = declared[j].root,
                      Effective(program, declared[i], x), Effective(program, declared[j], x)
               PROVE  <<declared[i].layout, declared[j].layout>> \in Agree
    BY DEF EffectiveAgree
  <2>1. declared[i] \in Declaration(program) /\ declared[j] \in Declaration(program)
        /\ i \in Nat /\ j \in Nat
    BY DEF ContractsTypeOK
  <2>2. /\ declared[i].at \in ProgramPoints(program) /\ declared[j].at \in ProgramPoints(program)
        /\ declared[i].layout \in Layouts /\ declared[j].layout \in Layouts
    BY <2>1 DEF Declaration
  <2>3. WellFormedProgram(program)
    BY DEF ContractsTypeOK
  <2>4. Comparable(program, declared[i], declared[j]) /\ Comparable(program, declared[j], declared[i])
    BY <2>2, <2>3, TogetherComparable
  <2>5. Accepts(program, declared)
    BY DEF PreservedInv
  <2>6. CASE i < j
    BY <2>4, <2>5, <2>6 DEF Accepts
  <2>7. CASE j < i
    <3>1. <<declared[j].layout, declared[i].layout>> \in Agree
      BY <2>4, <2>5, <2>7 DEF Accepts
    <3> QED BY <3>1, <2>2, ContractsAssumption
  <2>8. CASE i = j
    BY <2>2, <2>8, ContractsAssumption
  <2> QED BY <2>1, <2>6, <2>7, <2>8
<1> QED BY <1>1, Preserved, PTL

\* After a run every bound whole-buffer view has its layout declared in its
\* block: preserveStorageContracts.
THEOREM BindingsWritten == ContractsSpec => []BindingsSurvive
<1>1. PreservedInv => BindingsSurvive
  BY DEF PreservedInv, BindingsSurvive, Written, Exists, Attached
<1> QED BY <1>1, Preserved, PTL

\* Every declaration that was added has a bound view behind it, whatever layouts
\* later inference binds: preserveStorageContracts.
THEOREM AddedAreBacked == ContractsSpec => []BackedByViews
<1>1. ContractsInit => BackedByViews
  BY ContractsAssumption DEF ContractsInit, BackedByViews, WellFormedProgram
<1>2. ContractsTypeOK /\ BackedByViews /\ [ContractsNext]_contractVars => BackedByViews'
  <2> SUFFICES ASSUME ContractsTypeOK, BackedByViews, [ContractsNext]_contractVars PROVE BackedByViews'
    OBVIOUS
  <2>1. CASE Add
    <3> DEFINE e == [at |-> PlaceFor(program, View), root |-> View.root,
                     layout |-> bound[next], added |-> TRUE]
    <3>0. DOMAIN program.views = 1..Len(program.views)
      BY ViewFacts
    <3>1. UNCHANGED <<program, bound>> /\ next \in DOMAIN program.views
          /\ declared' = Append(declared, e)
      BY <2>1, <3>0 DEF Add, ContractsTypeOK
    <3>2. View.at \in ProgramPoints(program) /\ View.root \in Buffers
      BY <3>1, ViewFacts DEF View
    <3>3. e \in Declaration(program)
      BY <2>1, <3>1, <3>2 DEF Declaration, PlaceFor, ContractsTypeOK, Add
    <3>4. declared \in Seq(Declaration(program))
      BY DEF ContractsTypeOK
    <3>5. e.at = View.at /\ e.root = View.root /\ e.layout = bound[next] /\ View.kind = "whole"
      BY <2>1 DEF PlaceFor, Add
    <3> HIDE DEF e
    <3> SUFFICES ASSUME NEW i \in DOMAIN Append(declared, e), Append(declared, e)[i].added
                 PROVE  \E j \in DOMAIN program.views :
                          /\ program.views[j].at = Append(declared, e)[i].at
                          /\ program.views[j].root = Append(declared, e)[i].root
                          /\ program.views[j].kind = "whole"
                          /\ bound[j] = Append(declared, e)[i].layout
      BY <3>1 DEF BackedByViews
    <3>6. CASE i = Len(declared) + 1
      <4>1. Append(declared, e)[i] = e
        BY <3>3, <3>4, <3>6, Appended
      <4> QED BY <4>1, <3>1, <3>5 DEF View
    <3>7. CASE i # Len(declared) + 1
      <4>1. i \in DOMAIN declared /\ Append(declared, e)[i] = declared[i]
        BY <3>3, <3>4, <3>7, Appended
      <4> QED BY <4>1 DEF BackedByViews
    <3> QED BY <3>6, <3>7
  <2>2. CASE Infer
    <3>1. UNCHANGED <<program, declared>>
      BY <2>2 DEF Infer
    <3>2. \A j \in DOMAIN program.views : bound[j] # Unbound => bound'[j] = bound[j]
      BY <2>2 DEF Infer, Chosen
    <3>3. \A i \in DOMAIN declared : declared[i].layout \in Layouts
      <4>1. \A i \in DOMAIN declared : declared[i] \in Declaration(program)
        BY Elements DEF ContractsTypeOK
      <4> QED BY <4>1 DEF Declaration
    <3> QED BY <3>1, <3>2, <3>3, ContractsAssumption DEF BackedByViews
  <2>3. CASE UNCHANGED <<program, declared, bound>>
    BY <2>3 DEF BackedByViews
  <2> QED BY <2>1, <2>2, <2>3 DEF ContractsNext, Preserve, Skip, Refuse, FinishPreserving, contractVars
<1> QED BY <1>1, <1>2, ContractsTypeCorrect, PTL DEF ContractsSpec

\* A run over a module that was preserved succeeds and writes nothing:
\* preserveStorageContracts after itself.
THEOREM SecondRunIsSilent == ContractsSpec => Idempotent
<1>1. ContractsTypeOK /\ PreservedInv /\ [ContractsNext]_contractVars =>
        [again => declared' = declared /\ progress' # "refused"]_contractVars
  <2> SUFFICES ASSUME ContractsTypeOK, PreservedInv, ContractsNext, again
               PROVE  declared' = declared /\ progress' # "refused"
    BY DEF contractVars
  <2>0. progress \in {"views", "preserved"} /\ Accepts(program, declared)
    BY DEF PreservedInv
  <2>1. ~Add
    <3> SUFFICES ASSUME Add PROVE FALSE
      OBVIOUS
    <3>1. next \in DOMAIN program.views
      BY ViewFacts DEF Add, ContractsTypeOK
    <3>2. Written(next)
      BY <3>1 DEF PreservedInv
    <3> QED BY <3>2 DEF Add, Written, View
  <2>2. ~Refuse
    <3> SUFFICES ASSUME Refuse PROVE FALSE
      OBVIOUS
    <3>1. next \in DOMAIN program.views
      BY ViewFacts DEF Refuse, ContractsTypeOK
    <3>2. Written(next)
      BY <3>1 DEF PreservedInv
    <3> QED BY <3>2 DEF Refuse, Written, View, Invalid, Exists, Effective
  <2>3. CASE Preserve BY <2>0, <2>3 DEF Preserve
  <2>4. CASE Skip BY <2>0, <2>4 DEF Skip
  <2>5. CASE FinishPreserving BY <2>0, <2>5 DEF FinishPreserving
  <2>6. CASE Infer BY <2>0, <2>6 DEF Infer
  <2> QED BY <2>1, <2>2, <2>3, <2>4, <2>5, <2>6 DEF ContractsNext
<1> QED BY <1>1, Preserved, PTL DEF ContractsSpec, Idempotent

-----------------------------------------------------------------------------
(* Sorting by counting what comes before.                                  *)

KeysOf(n, b) == {<<b[i], i>> : i \in 1..n}
RankIn(n, b, i) == Cardinality(Earlier(KeysOf(n, b), <<b[i], i>>))
Precedes(b, i, k) == b[i] < b[k] \/ (b[i] = b[k] /\ i < k)

\* The numbers of those that come before are those below the length, each once.
LEMMA Ranks ==
  ASSUME NEW n \in Nat, NEW b, \A i \in 1..n : b[i] \in Int
  PROVE  /\ IsFiniteSet(KeysOf(n, b)) /\ Cardinality(KeysOf(n, b)) = n
         /\ \A i \in 1..n : RankIn(n, b, i) \in 0..(n - 1)
         /\ \A i, k \in 1..n : Precedes(b, i, k) => RankIn(n, b, i) < RankIn(n, b, k)
         /\ \A r \in 0..(n - 1) : \E i \in 1..n : RankIn(n, b, i) = r
<1> DEFINE K == KeysOf(n, b)
           E(i) == Earlier(K, <<b[i], i>>)
           f == [i \in 1..n |-> <<b[i], i>>]
           rank == [i \in 1..n |-> RankIn(n, b, i)]
<1>1. IsFiniteSet(K) /\ Cardinality(K) = n
  <2>1. IsFiniteSet(1..n) /\ Cardinality(1..n) = n
    BY FS_Interval
  <2>2. f \in Bijection(1..n, K)
    BY DEF Bijection, Injection, Surjection, IsInjective, KeysOf
  <2> HIDE DEF f, K
  <2>3. ExistsBijection(1..n, K)
    BY <2>2 DEF ExistsBijection
  <2> QED BY <2>1, <2>3, FS_Bijection
<1>2. \A i, k \in 1..n : <<b[k], k>> \in E(i) <=> Precedes(b, k, i)
  BY DEF Earlier, Precedes, KeysOf
<1>3. \A i \in 1..n : E(i) \subseteq K /\ <<b[i], i>> \in K
  BY DEF Earlier, KeysOf
<1>4. \A i \in 1..n : \A x \in E(i) : \E k \in 1..n : x = <<b[k], k>> /\ Precedes(b, k, i)
  BY DEF Earlier, Precedes, KeysOf
<1>5. ASSUME NEW i \in 1..n
      PROVE  IsFiniteSet(E(i)) /\ RankIn(n, b, i) \in 0..(n - 1)
  <2>1. <<b[i], i>> \notin E(i)
    BY <1>2 DEF Precedes
  <2> HIDE DEF E, K
  <2>2. E(i) \in SUBSET K /\ E(i) # K
    BY <1>3, <2>1
  <2>3. IsFiniteSet(E(i)) /\ Cardinality(E(i)) <= n /\ Cardinality(E(i)) # n
    BY <1>1, <2>2, FS_Subset
  <2>4. Cardinality(E(i)) \in Nat
    BY <2>3, FS_CardinalityType
  <2>5. RankIn(n, b, i) = Cardinality(E(i))
    BY DEF RankIn, E, K
  <2> QED BY <2>3, <2>4, <2>5
<1>6. ASSUME NEW i \in 1..n, NEW k \in 1..n, Precedes(b, i, k)
      PROVE  RankIn(n, b, i) < RankIn(n, b, k)
  <2>1. <<b[i], i>> \in E(k) /\ <<b[i], i>> \notin E(i)
    BY <1>2, <1>6 DEF Precedes
  <2>2. E(i) \subseteq E(k)
    <3> SUFFICES ASSUME NEW x \in E(i) PROVE x \in E(k)
      OBVIOUS
    <3>1. PICK h \in 1..n : x = <<b[h], h>> /\ Precedes(b, h, i)
      BY <1>4
    <3>2. Precedes(b, h, k)
      BY <1>6, <3>1 DEF Precedes
    <3> HIDE DEF E
    <3> QED BY <1>2, <3>1, <3>2
  <2> HIDE DEF E, K
  <2>3. E(i) \in SUBSET E(k) /\ E(i) # E(k)
    BY <2>1, <2>2
  <2>4. IsFiniteSet(E(i)) /\ IsFiniteSet(E(k))
    BY <1>5
  <2>5. Cardinality(E(i)) <= Cardinality(E(k)) /\ Cardinality(E(i)) # Cardinality(E(k))
    BY <2>3, <2>4, FS_Subset
  <2>6. RankIn(n, b, i) = Cardinality(E(i)) /\ RankIn(n, b, k) = Cardinality(E(k))
    BY DEF RankIn, E, K
  <2> QED BY <1>5, <2>5, <2>6
<1>7. \A i, k \in 1..n : rank[i] = rank[k] => i = k
  <2> SUFFICES ASSUME NEW i \in 1..n, NEW k \in 1..n, i # k PROVE rank[i] # rank[k]
    OBVIOUS
  <2>1. Precedes(b, i, k) \/ Precedes(b, k, i)
    BY DEF Precedes
  <2>2. RankIn(n, b, i) \in 0..(n - 1) /\ RankIn(n, b, k) \in 0..(n - 1)
    <3> HIDE DEF E
    <3> QED BY <1>5
  <2>3. rank[i] = RankIn(n, b, i) /\ rank[k] = RankIn(n, b, k)
    OBVIOUS
  <2> HIDE DEF rank
  <2> QED BY <1>6, <2>1, <2>2, <2>3
<1>8. \A r \in 0..(n - 1) : \E i \in 1..n : rank[i] = r
  <2>1. IsFiniteSet(1..n) /\ Cardinality(1..n) = n
    BY FS_Interval
  <2>2. IsFiniteSet(0..(n - 1)) /\ Cardinality(0..(n - 1)) = n
    <3>1. 0 \in Int /\ n - 1 \in Int /\ (0 > n - 1 => n = 0) /\ ((n - 1) - 0) + 1 = n
      OBVIOUS
    <3> QED BY <3>1, FS_Interval
  <2>3. rank \in Injection(1..n, 0..(n - 1))
    <3>1. rank \in [1..n -> 0..(n - 1)]
      BY <1>5
    <3> HIDE DEF rank
    <3> QED BY <1>7, <3>1 DEF Injection, IsInjective
  <2> HIDE DEF rank
  <2>4. rank \in Surjection(1..n, 0..(n - 1))
    BY <2>1, <2>2, <2>3, FS_Injection
  <2> QED BY <2>4 DEF Surjection
<1>9. \A r \in 0..(n - 1) : \E i \in 1..n : RankIn(n, b, i) = r
  BY <1>8
<1> QED BY <1>1, <1>5, <1>6, <1>9

IsOrder(n, b, order) ==
  /\ \A i \in 1..n : order[i] \in 1..n
  /\ \A k \in 1..n : \E i \in 1..n : order[i] = k
  /\ \A i, k \in 1..n : i < k => b[order[i]] <= b[order[k]] /\ order[i] # order[k]

\* The order is a permutation of the places along which the numbers ascend.
LEMMA OrderedSorts ==
  ASSUME NEW n \in Nat, NEW b, \A i \in 1..n : b[i] \in Int
  PROVE  IsOrder(n, b, Ordered(KeysOf(n, b))) /\ DOMAIN Ordered(KeysOf(n, b)) = 1..n
<1> DEFINE K == KeysOf(n, b)
           ranked == {<<Cardinality(Earlier(K, x)), x[2]>> : x \in K}
           order == Ordered(K)
<1>1. Cardinality(K) = n
  BY Ranks
<1>2. order = [i \in 1..n |-> (CHOOSE r \in ranked : r[1] = i - 1)[2]]
  <2> HIDE DEF K
  <2> QED BY <1>1 DEF Ordered
<1>3. ASSUME NEW r \in ranked
      PROVE  \E k \in 1..n : r = <<RankIn(n, b, k), k>>
  <2>1. PICK x \in K : r = <<Cardinality(Earlier(K, x)), x[2]>>
    OBVIOUS
  <2>2. PICK k \in 1..n : x = <<b[k], k>>
    BY DEF KeysOf
  <2> QED BY <2>1, <2>2 DEF RankIn
<1>4. \A k \in 1..n : <<RankIn(n, b, k), k>> \in ranked
  BY DEF KeysOf, RankIn
<1>5. ASSUME NEW i \in 1..n
      PROVE  order[i] \in 1..n /\ RankIn(n, b, order[i]) = i - 1
  <2> DEFINE r == CHOOSE x \in ranked : x[1] = i - 1
  <2>1. PICK k \in 1..n : RankIn(n, b, k) = i - 1
    BY Ranks
  <2>2. <<RankIn(n, b, k), k>> \in ranked /\ <<RankIn(n, b, k), k>>[1] = i - 1
    BY <1>4, <2>1
  <2>3. r \in ranked /\ r[1] = i - 1
    <3> HIDE DEF ranked
    <3> QED BY <2>2
  <2>4. order[i] = r[2]
    BY <1>2
  <2> HIDE DEF r, ranked, order
  <2> QED BY <1>3, <2>3, <2>4
<1> HIDE DEF order, ranked
<1>6. ASSUME NEW i \in 1..n, NEW k \in 1..n, i < k
      PROVE  b[order[i]] <= b[order[k]] /\ order[i] # order[k]
  <2>1. order[i] # order[k]
    BY <1>5, <1>6
  <2>2. ~Precedes(b, order[k], order[i])
    <3>1. Precedes(b, order[k], order[i]) => RankIn(n, b, order[k]) < RankIn(n, b, order[i])
      BY <1>5, Ranks
    <3> QED BY <1>5, <1>6, <3>1
  <2> QED BY <1>5, <2>1, <2>2 DEF Precedes
<1>7. ASSUME NEW k \in 1..n
      PROVE  \E i \in 1..n : order[i] = k
  <2>1. RankIn(n, b, k) \in 0..(n - 1)
    BY Ranks
  <2>2. RankIn(n, b, k) + 1 \in 1..n
    BY <2>1
  <2> DEFINE h == order[RankIn(n, b, k) + 1]
  <2>3. h \in 1..n /\ RankIn(n, b, h) = RankIn(n, b, k)
    BY <1>5, <2>1, <2>2
  <2>4. ~Precedes(b, h, k) /\ ~Precedes(b, k, h)
    BY <2>1, <2>3, Ranks
  <2>5. h = k
    BY <2>3, <2>4 DEF Precedes
  <2> QED BY <2>2, <2>5
<1> QED BY <1>2, <1>5, <1>6, <1>7 DEF IsOrder, order

IsSequence(s) == Len(s) \in Nat /\ DOMAIN s = 1..Len(s)

\* What sorting returns.
LEMMA SortedPermutes ==
  ASSUME NEW s, IsSequence(s), NEW b, \A i \in DOMAIN s : b[i] \in Int
  PROVE  LET order == Ordered(KeysOf(Len(s), b))
         IN  /\ IsOrder(Len(s), b, order)
             /\ IsSequence(Sorted(s, b)) /\ Len(Sorted(s, b)) = Len(s)
             /\ \A i \in DOMAIN s : Sorted(s, b)[i] = s[order[i]]
<1> DEFINE n == Len(s)
           order == Ordered(KeysOf(n, b))
           t == Selected(s, order)
<1>1. n \in Nat /\ DOMAIN s = 1..n
  BY DEF IsSequence
<1>2. IsOrder(n, b, order) /\ DOMAIN order = 1..n
  BY <1>1, OrderedSorts
<1>3. Sorted(s, b) = SubSeq(t, 1, n)
  <2>1. {<<b[i], i>> : i \in DOMAIN s} = KeysOf(n, b)
    BY <1>1 DEF KeysOf
  <2> QED BY <2>1 DEF Sorted
<1>4. DOMAIN t = 1..n /\ \A i \in 1..n : t[i] = s[order[i]]
  <2> HIDE DEF order
  <2> QED BY <1>2 DEF Selected
<1>5. SubSeq(t, 1, n) = [i \in 1..n |-> t[i]]
  <2> DEFINE S == {t[i] : i \in 1..n}
  <2> HIDE DEF t
  <2>1. \A i \in 1..n : t[i] \in S
    OBVIOUS
  <2>2. 1 \in Int /\ n \in Int
    BY <1>1
  <2> HIDE DEF S
  <2>3. /\ SubSeq(t, 1, n) \in Seq(S)
        /\ Len(SubSeq(t, 1, n)) = IF 1 <= n THEN n - 1 + 1 ELSE 0
        /\ \A i \in 1..(n - 1 + 1) : SubSeq(t, 1, n)[i] = t[1 + i - 1]
    BY <2>1, <2>2, SubSeqProperties
  <2>4. Len(SubSeq(t, 1, n)) = n /\ \A i \in 1..n : SubSeq(t, 1, n)[i] = t[i]
    BY <1>1, <2>3
  <2> QED BY <2>3, <2>4
<1>6. Len(Sorted(s, b)) = n /\ DOMAIN Sorted(s, b) = 1..n
  <2> HIDE DEF t
  <2> QED BY <1>1, <1>3, <1>5
<1> HIDE DEF t, n, order
<1> QED BY <1>1, <1>2, <1>3, <1>4, <1>5, <1>6 DEF IsSequence, n, order

-----------------------------------------------------------------------------
(* Intervals: sorting, and the sweep over two sorted lists.                *)

IsInterval(e) == e.begin \in Int /\ e.end \in Int /\ e.begin < e.end
\* Ordered by where they begin and disjoint.
AreIntervals(xs) ==
  /\ Len(xs) \in Nat /\ DOMAIN xs = 1..Len(xs)
  /\ \A i \in DOMAIN xs : IsInterval(xs[i])
  /\ ~Overlapping(xs)

Apart(x, y) == x.begin >= y.end \/ y.begin >= x.end
Clear(x, y, tolerated) == Apart(x, y) \/ (tolerated /\ x.root = y.root)

\* Of disjoint sorted intervals every later one begins after every earlier one.
LEMMA LaterBegin ==
  ASSUME NEW xs, AreIntervals(xs), NEW i \in DOMAIN xs
  PROVE  \A k \in DOMAIN xs : i < k => xs[k].begin >= xs[i].end
<1> DEFINE P == {n \in Nat : i + n + 1 \in DOMAIN xs => xs[i + n + 1].begin >= xs[i].end}
<1>1. i \in Nat \ {0}
  BY DEF AreIntervals
<1>2. \A k \in DOMAIN xs : k >= 2 => xs[k].begin >= xs[k - 1].end
  BY DEF AreIntervals, Overlapping, IsInterval
<1>3. 0 \in P
  BY <1>1, <1>2
<1>4. ASSUME NEW n \in Nat, n \in P
      PROVE  n + 1 \in P
  <2> SUFFICES ASSUME i + (n + 1) + 1 \in DOMAIN xs
               PROVE  xs[i + (n + 1) + 1].begin >= xs[i].end
    OBVIOUS
  <2>1. i + n + 1 \in DOMAIN xs /\ (i + (n + 1) + 1) - 1 = i + n + 1 /\ i + (n + 1) + 1 >= 2
    BY <1>1 DEF AreIntervals
  <2>2. xs[i + n + 1].begin >= xs[i].end /\ xs[i + (n + 1) + 1].begin >= xs[i + n + 1].end
    BY <1>2, <1>4, <2>1
  <2> HIDE DEF P
  <2> QED BY <2>1, <2>2 DEF AreIntervals, IsInterval
<1>5. \A n \in Nat : n \in P
  <2> HIDE DEF P
  <2> QED BY <1>3, <1>4, NaturalInduction
<1>6. ASSUME NEW k \in DOMAIN xs, i < k
      PROVE  xs[k].begin >= xs[i].end
  <2>1. k - i - 1 \in Nat /\ i + (k - i - 1) + 1 = k
    BY <1>1, <1>6 DEF AreIntervals
  <2> QED BY <1>5, <2>1
<1> QED BY <1>6

\* What a place of the sweep still has to clear.
Remaining(xs, ys, tolerated, i, j) ==
  \A k \in DOMAIN xs, l \in DOMAIN ys : k >= i /\ l >= j => Clear(xs[k], ys[l], tolerated)

\* Of the two intervals at a place the one that ends first meets no later one of
\* the other list: it is done with.
LEMMA SweepStep ==
  ASSUME NEW xs, NEW ys, AreIntervals(xs), AreIntervals(ys), NEW tolerated \in BOOLEAN,
         NEW i \in DOMAIN xs, NEW j \in DOMAIN ys
  PROVE  LET by == Advanced(xs[i], ys[j])
         IN  Remaining(xs, ys, tolerated, i, j)
               <=> Clear(xs[i], ys[j], tolerated)
                     /\ Remaining(xs, ys, tolerated, i + by[1], j + by[2])
<1>1. /\ \A k \in DOMAIN xs : k \in Nat /\ IsInterval(xs[k])
      /\ \A l \in DOMAIN ys : l \in Nat /\ IsInterval(ys[l])
  BY DEF AreIntervals
<1>2. /\ \A k \in DOMAIN xs : i < k => xs[k].begin >= xs[i].end
      /\ \A l \in DOMAIN ys : j < l => ys[l].begin >= ys[j].end
  BY LaterBegin
<1>3. CASE xs[i].end <= ys[j].end
  <2>1. \A l \in DOMAIN ys : j < l => Clear(xs[i], ys[l], tolerated)
    BY <1>1, <1>2, <1>3 DEF Clear, Apart, IsInterval
  <2>2. Advanced(xs[i], ys[j]) = <<1, 0>>
    BY <1>3 DEF Advanced
  <2> QED BY <1>1, <2>1, <2>2 DEF Remaining
<1>4. CASE ~(xs[i].end <= ys[j].end)
  <2>1. \A k \in DOMAIN xs : i < k => Clear(xs[k], ys[j], tolerated)
    BY <1>1, <1>2, <1>4 DEF Clear, Apart, IsInterval
  <2>2. Advanced(xs[i], ys[j]) = <<0, 1>>
    BY <1>4 DEF Advanced
  <2> QED BY <1>1, <2>1, <2>2 DEF Remaining
<1> QED BY <1>3, <1>4

\* A step of the sweep stays within the places and leaves one less to take.
LEMMA PlaceMoves ==
  ASSUME NEW m \in Nat, NEW n \in Nat, NEW a \in 1..m, NEW b \in 1..n,
         NEW by \in {<<1, 0>>, <<0, 1>>}
  PROVE  LET q == <<a + by[1], b + by[2]>>
         IN  /\ q \in (1..m + 1) \X (1..n + 1) /\ q[1] \in Int /\ q[2] \in Int
             /\ q[1] + q[2] = a + b + 1
             /\ m + n + 2 - q[1] - q[2] = (m + n + 2 - a - b) - 1
<1>1. CASE by = <<1, 0>>
  BY <1>1
<1>2. CASE by = <<0, 1>>
  BY <1>2
<1> QED BY <1>1, <1>2

\* The sweep finds every pair that meets: what remains at a place is a solution
\* of its recursion, and the only one, since each step leaves less to do.
LEMMA SweepDecides ==
  ASSUME NEW xs, NEW ys, AreIntervals(xs), AreIntervals(ys), NEW tolerated \in BOOLEAN
  PROVE  Sweep(xs, ys, tolerated)
           <=> \A k \in DOMAIN xs, l \in DOMAIN ys : Clear(xs[k], ys[l], tolerated)
<1> DEFINE m == Len(xs)
           n == Len(ys)
           D == (1..m + 1) \X (1..n + 1)
           After(p) == <<p[1] + Advanced(xs[p[1]], ys[p[2]])[1],
                         p[2] + Advanced(xs[p[1]], ys[p[2]])[2]>>
           Meeting(x, y) == /\ x.begin < y.end /\ y.begin < x.end
                            /\ ~(tolerated /\ x.root = y.root)
           Body(c, p) ==
             IF p[1] > m \/ p[2] > n THEN TRUE
             ELSE ~Meeting(xs[p[1]], ys[p[2]]) /\ c[After(p)]
           rest == [p \in D |-> Remaining(xs, ys, tolerated, p[1], p[2])]
           clear == CHOOSE c : c = [p \in D |-> Body(c, p)]
<1>1. /\ m \in Nat /\ DOMAIN xs = 1..m
      /\ n \in Nat /\ DOMAIN ys = 1..n
      /\ \A k \in DOMAIN xs : k \in Nat /\ IsInterval(xs[k])
      /\ \A l \in DOMAIN ys : l \in Nat /\ IsInterval(ys[l])
  BY DEF AreIntervals
<1>2. Sweep(xs, ys, tolerated) = clear[<<1, 1>>]
  BY DEF Sweep
<1>3. ASSUME NEW p \in D, p[1] > m \/ p[2] > n
      PROVE  Remaining(xs, ys, tolerated, p[1], p[2])
  BY <1>1, <1>3 DEF Remaining
<1>4. ASSUME NEW p \in D, ~(p[1] > m \/ p[2] > n)
      PROVE  /\ After(p) \in D
             /\ m + n + 2 - After(p)[1] - After(p)[2] = (m + n + 2 - p[1] - p[2]) - 1
             /\ Remaining(xs, ys, tolerated, p[1], p[2])
                  <=> ~Meeting(xs[p[1]], ys[p[2]])
                        /\ Remaining(xs, ys, tolerated, After(p)[1], After(p)[2])
  <2>1. p[1] \in DOMAIN xs /\ p[2] \in DOMAIN ys
    BY <1>1, <1>4
  <2>2. ~Meeting(xs[p[1]], ys[p[2]]) <=> Clear(xs[p[1]], ys[p[2]], tolerated)
    BY <1>1, <2>1 DEF Clear, Apart, IsInterval
  <2>3. Remaining(xs, ys, tolerated, p[1], p[2])
          <=> ~Meeting(xs[p[1]], ys[p[2]])
                /\ Remaining(xs, ys, tolerated, After(p)[1], After(p)[2])
    <3> HIDE DEF Meeting
    <3> QED BY <2>1, <2>2, SweepStep
  <2>4. Advanced(xs[p[1]], ys[p[2]]) \in {<<1, 0>>, <<0, 1>>}
    BY DEF Advanced
  <2>5. /\ After(p) \in D
        /\ m + n + 2 - After(p)[1] - After(p)[2] = (m + n + 2 - p[1] - p[2]) - 1
    <3> DEFINE by == Advanced(xs[p[1]], ys[p[2]])
    <3>1. by \in {<<1, 0>>, <<0, 1>>} /\ After(p) = <<p[1] + by[1], p[2] + by[2]>>
      BY <2>4
    <3>2. p[1] \in 1..m /\ p[2] \in 1..n
      BY <1>1, <2>1
    <3>3. m \in Nat /\ n \in Nat
      BY <1>1
    <3> DEFINE q == <<p[1] + by[1], p[2] + by[2]>>
    <3> HIDE DEF by, After, m, n
    <3>4. /\ q \in (1..m + 1) \X (1..n + 1)
          /\ m + n + 2 - q[1] - q[2] = (m + n + 2 - p[1] - p[2]) - 1
      BY <3>1, <3>2, <3>3, PlaceMoves
    <3> HIDE DEF q
    <3>5. After(p) = q
      BY <3>1 DEF q
    <3> QED BY <3>4, <3>5
  <2> QED BY <2>3, <2>5
<1>5. rest = [p \in D |-> Body(rest, p)]
  <2> HIDE DEF Meeting, After, D
  <2>1. ASSUME NEW p \in D
        PROVE  rest[p] = Body(rest, p)
    <3>1. CASE p[1] > m \/ p[2] > n
      BY <1>3, <3>1
    <3>2. CASE ~(p[1] > m \/ p[2] > n)
      <4>1. Body(rest, p) = (~Meeting(xs[p[1]], ys[p[2]]) /\ rest[After(p)])
        BY <3>2
      <4>2. rest[After(p)] = Remaining(xs, ys, tolerated, After(p)[1], After(p)[2])
        BY <1>4, <3>2
      <4>3. rest[p] = Remaining(xs, ys, tolerated, p[1], p[2])
        OBVIOUS
      <4>4. Remaining(xs, ys, tolerated, p[1], p[2]) \in BOOLEAN
        BY DEF Remaining
      <4> HIDE DEF rest, Body
      <4> QED BY <1>4, <3>2, <4>1, <4>2, <4>3, <4>4
    <3> QED BY <3>1, <3>2
  <2>2. rest = [p \in D |-> rest[p]]
    OBVIOUS
  <2> HIDE DEF rest, Body
  <2> QED BY <2>1, <2>2
<1>6. clear = [p \in D |-> Body(clear, p)]
  <2> HIDE DEF rest, Body, D
  <2> QED BY <1>5
<1>7. \A p \in D : clear[p] <=> rest[p]
  <2> DEFINE Left(p) == m + n + 2 - p[1] - p[2]
             P == {k \in Nat : \A p \in D : Left(p) = k => (clear[p] <=> rest[p])}
             Q == {k \in Nat : \A h \in 0..k : h \in P}
  <2>0. ASSUME NEW k \in Nat, \A h \in Nat : h < k => h \in P
        PROVE  k \in P
    <3> SUFFICES ASSUME NEW p \in D, Left(p) = k
                 PROVE  clear[p] <=> rest[p]
      OBVIOUS
    <3>1. clear[p] = Body(clear, p) /\ rest[p] = Body(rest, p)
      <4> HIDE DEF clear, rest, Body, D
      <4> QED BY <1>5, <1>6
    <3>2. CASE p[1] > m \/ p[2] > n
      <4> HIDE DEF clear, rest, D
      <4> QED BY <3>1, <3>2
    <3>3. CASE ~(p[1] > m \/ p[2] > n)
      <4>1. After(p) \in D /\ Left(After(p)) = k - 1
        <5> HIDE DEF After, D
        <5> QED BY <1>4, <3>3
      <4>2. k - 1 \in Nat
        <5> HIDE DEF After
        <5>1. After(p)[1] \in 1..m + 1 /\ After(p)[2] \in 1..n + 1
          BY <4>1
        <5> QED BY <1>1, <4>1, <5>1
      <4>3. clear[After(p)] <=> rest[After(p)]
        <5> HIDE DEF After, clear, rest, D
        <5> QED BY <2>0, <4>1, <4>2
      <4> HIDE DEF clear, rest, D, After, Meeting
      <4> QED BY <3>1, <3>3, <4>3
    <3> QED BY <3>2, <3>3
  <2> HIDE DEF P
  <2>1. 0 \in Q
    BY <2>0
  <2>2. ASSUME NEW k \in Nat, k \in Q
        PROVE  k + 1 \in Q
    <3>1. \A h \in Nat : h < k + 1 => h \in P
      BY <2>2
    <3>2. k + 1 \in P
      BY <2>0, <3>1
    <3> QED BY <3>1, <3>2
  <2>3. \A k \in Nat : k \in Q
    <3> HIDE DEF Q
    <3> QED BY <2>1, <2>2, NaturalInduction
  <2>4. ASSUME NEW p \in D
        PROVE  clear[p] <=> rest[p]
    <3>1. Left(p) \in Nat
      BY <1>1
    <3>2. Left(p) \in P
      BY <2>3, <3>1
    <3> HIDE DEF Left, clear, rest, D
    <3> USE DEF P
    <3> QED BY <3>1, <3>2
  <2> HIDE DEF clear, rest, D
  <2> QED BY <2>4
<1>8. <<1, 1>> \in D
  BY <1>1
<1>9. rest[<<1, 1>>] <=> \A k \in DOMAIN xs, l \in DOMAIN ys : Clear(xs[k], ys[l], tolerated)
  <2>1. rest[<<1, 1>>] = Remaining(xs, ys, tolerated, 1, 1)
    BY <1>8
  <2> HIDE DEF rest
  <2> QED BY <1>1, <2>1 DEF Remaining
<1> HIDE DEF clear, rest, D
<1> QED BY <1>2, <1>7, <1>8, <1>9

-----------------------------------------------------------------------------
(* Sums and products along a sequence.                                     *)

IndexedRecursions(n, V, b, h) ==
  {c \in [0..n -> V] : c[0] = b /\ \A k \in 1..n : c[k] = h[<<k, c[k - 1]>>]}

\* A function of the place and its previous value is defined.
LEMMA IndexedDefines ==
  ASSUME NEW n \in Nat, NEW V, NEW b \in V, NEW h, StepsIn(n, V, h)
  PROVE  IndexedRecursions(n, V, b, h) # {}
<1>1. PICK g \in PrefixRecursions(n, V, b, h) : TRUE
  BY PrefixRecursion
<1>2. /\ g \in [SUBSET (1..n) -> V]
      /\ \A T \in SUBSET (1..n) : g[T] = IF T = {} THEN b ELSE h[<<Max(T), g[T \ {Max(T)}]>>]
  BY <1>1 DEF PrefixRecursions
<1> DEFINE c == [k \in 0..n |-> g[1..k]]
<1>3. \A k \in 0..n : 1..k \in SUBSET (1..n)
  OBVIOUS
<1>4. c \in [0..n -> V] /\ \A k \in 0..n : c[k] = g[1..k]
  BY <1>2, <1>3
<1>5. c[0] = b
  <2>1. 1..0 = {} /\ 0 \in 0..n
    OBVIOUS
  <2> HIDE DEF c
  <2> QED BY <1>2, <1>3, <1>4, <2>1
<1> HIDE DEF c
<1>6. ASSUME NEW k \in 1..n
      PROVE  c[k] = h[<<k, c[k - 1]>>]
  <2>1. /\ 1..k \in SUBSET (1..n) /\ 1..k # {}
        /\ Max(1..k) = k /\ (1..k) \ {Max(1..k)} = 1..(k - 1)
    BY LastPosition
  <2>2. g[1..k] = h[<<k, g[1..(k - 1)]>>]
    BY <1>2, <2>1
  <2>3. k - 1 \in 0..n /\ k \in 0..n
    OBVIOUS
  <2> QED BY <1>4, <2>2, <2>3
<1> QED BY <1>4, <1>5, <1>6 DEF IndexedRecursions

Positive == {k \in Nat : k > 0}

\* A product of positive numbers is positive.
LEMMA ProductPositive ==
  ASSUME NEW s, IsSequence(s), \A i \in DOMAIN s : s[i] \in Int /\ s[i] > 0
  PROVE  Product(s) \in Positive
<1> DEFINE n == Len(s)
           h == [p \in (1..n) \X Positive |-> p[2] * s[p[1]]]
           Body(c, i) == IF i = 0 THEN 1 ELSE c[i - 1] * s[i]
           upTo == CHOOSE c : c = [i \in 0..n |-> Body(c, i)]
<1>0. n \in Nat /\ DOMAIN s = 1..n /\ \A i \in 1..n : s[i] \in Int /\ s[i] > 0
  BY DEF IsSequence
<1>1. \A i \in 1..n, v \in Positive : h[<<i, v>>] = v * s[i] /\ v * s[i] \in Positive
  <2>1. \A u, v \in Int : u > 0 /\ v > 0 => u * v \in Int /\ u * v > 0
    OBVIOUS
  <2> HIDE DEF n
  <2> QED BY <1>0, <2>1 DEF Positive
<1>2. PICK c \in [0..n -> Positive] : c[0] = 1 /\ \A k \in 1..n : c[k] = h[<<k, c[k - 1]>>]
  <2>1. StepsIn(n, Positive, h) /\ 1 \in Positive
    <3> HIDE DEF h, n
    <3> QED BY <1>1 DEF StepsIn, Positive
  <2> HIDE DEF h, n
  <2> QED BY <1>0, <2>1, IndexedDefines DEF IndexedRecursions
<1>3. c = [i \in 0..n |-> Body(c, i)]
  <2>1. ASSUME NEW i \in 1..n
        PROVE  c[i] = c[i - 1] * s[i]
    <3>1. i - 1 \in 0..n
      BY <1>0
    <3> HIDE DEF h, n
    <3> QED BY <1>1, <1>2, <3>1
  <2> HIDE DEF n, h
  <2> QED BY <1>0, <1>2, <2>1
<1>4. upTo = [i \in 0..n |-> Body(upTo, i)]
  <2> HIDE DEF Body, n
  <2> QED BY <1>3
<1>5. \A i \in 0..n : upTo[i] = Body(upTo, i)
  <2> HIDE DEF upTo, n, Body
  <2> QED BY <1>4
<1> DEFINE P == {i \in Nat : i <= n => upTo[i] \in Positive}
<1> HIDE DEF upTo
<1>6. 0 \in P
  BY <1>0, <1>5 DEF Positive
<1>7. ASSUME NEW i \in Nat, i \in P
      PROVE  i + 1 \in P
  <2> SUFFICES ASSUME i + 1 <= n PROVE upTo[i + 1] \in Positive
    OBVIOUS
  <2>1. upTo[i + 1] = upTo[i] * s[i + 1] /\ upTo[i] \in Positive /\ i + 1 \in 1..n
    BY <1>0, <1>5, <1>7
  <2> HIDE DEF n, P, h
  <2> QED BY <1>1, <2>1
<1>8. n \in P
  <2> HIDE DEF P, n
  <2> QED BY <1>0, <1>6, <1>7, NaturalInduction
<1>9. Product(s) = upTo[n]
  BY DEF Product, upTo
<1> QED BY <1>0, <1>8, <1>9

\* A sum of integers is an integer.
LEMMA SumInteger ==
  ASSUME NEW s, IsSequence(s), \A i \in DOMAIN s : s[i] \in Int
  PROVE  Sum(s) \in Int
<1> DEFINE n == Len(s)
           h == [p \in (1..n) \X Int |-> p[2] + s[p[1]]]
           Body(c, i) == IF i = 0 THEN 0 ELSE c[i - 1] + s[i]
           upTo == CHOOSE c : c = [i \in 0..n |-> Body(c, i)]
<1>0. n \in Nat /\ DOMAIN s = 1..n /\ \A i \in 1..n : s[i] \in Int
  BY DEF IsSequence
<1>1. \A i \in 1..n, v \in Int : h[<<i, v>>] = v + s[i] /\ v + s[i] \in Int
  <2> HIDE DEF n
  <2> QED BY <1>0
<1>2. PICK c \in [0..n -> Int] : c[0] = 0 /\ \A k \in 1..n : c[k] = h[<<k, c[k - 1]>>]
  <2>1. StepsIn(n, Int, h) /\ 0 \in Int
    <3> HIDE DEF h, n
    <3> QED BY <1>1 DEF StepsIn
  <2> HIDE DEF h, n
  <2>2. IndexedRecursions(n, Int, 0, h) # {}
    BY <1>0, <2>1, IndexedDefines
  <2> QED BY <2>2 DEF IndexedRecursions
<1>3. c = [i \in 0..n |-> Body(c, i)]
  <2>1. ASSUME NEW i \in 1..n
        PROVE  c[i] = c[i - 1] + s[i]
    <3>1. i - 1 \in 0..n
      BY <1>0
    <3> HIDE DEF h, n
    <3> QED BY <1>1, <1>2, <3>1
  <2> HIDE DEF n, h
  <2> QED BY <1>0, <1>2, <2>1
<1>4. upTo = [i \in 0..n |-> Body(upTo, i)]
  <2> HIDE DEF Body, n
  <2> QED BY <1>3
<1>5. \A i \in 0..n : upTo[i] = Body(upTo, i)
  <2> HIDE DEF upTo, n, Body
  <2> QED BY <1>4
<1> DEFINE P == {i \in Nat : i <= n => upTo[i] \in Int}
<1> HIDE DEF upTo
<1>6. 0 \in P
  BY <1>0, <1>5
<1>7. ASSUME NEW i \in Nat, i \in P
      PROVE  i + 1 \in P
  <2> SUFFICES ASSUME i + 1 <= n PROVE upTo[i + 1] \in Int
    OBVIOUS
  <2>1. upTo[i + 1] = upTo[i] + s[i + 1] /\ upTo[i] \in Int /\ i + 1 \in 1..n
    BY <1>0, <1>5, <1>7
  <2> HIDE DEF n, P, h
  <2> QED BY <1>1, <2>1
<1>8. n \in P
  <2> HIDE DEF P, n
  <2> QED BY <1>0, <1>6, <1>7, NaturalInduction
<1>9. Sum(s) = upTo[n]
  BY DEF Sum, upTo
<1> QED BY <1>0, <1>8, <1>9

-----------------------------------------------------------------------------
(* The footprint of a candidate that fits.                                 *)

\* A map has at most one value at a point.
LEMMA OneValue ==
  ASSUME NEW m, m.kind \in MapKinds, NEW p, NEW a \in Evaluate(m, p), NEW b \in Evaluate(m, p)
  PROVE  a = b
<1>1. \A q, x, y : x \in MatrixOf(q) /\ y \in MatrixOf(q) => x = y
  BY DEF MatrixOf, Checked
<1>2. \A q, r, x, y : x \in EvaluateBits(q, r) /\ y \in EvaluateBits(q, r) => x = y
  BY <1>1 DEF EvaluateBits
<1>3. \A q, r, x, y : x \in EvaluateAffine(q, r) /\ y \in EvaluateAffine(q, r) => x = y
  BY DEF EvaluateAffine
<1>4. CASE m.kind = "bits"
  BY <1>2, <1>4 DEF Evaluate
<1>5. CASE m.kind = "affine"
  BY <1>3, <1>5 DEF Evaluate
<1>6. CASE m.kind = "table"
  BY <1>6 DEF Evaluate
<1>7. CASE m.kind = "product"
  <2> DEFINE split == Len(m.outer.inputs)
             Outer == EvaluateAffine(m.outer, SubSeq(p, 1, split))
             Inner == EvaluateBits(m.inner, SubSeq(p, split + 1, Len(p)))
             Added(u, v) == [o \in DOMAIN u |->
                        u[o] + v[CHOOSE i \in DOMAIN v : m.inner.outputs[i] = m.outer.outputs[o]]]
  <2>1. a \in EvaluateProduct(m, p) /\ b \in EvaluateProduct(m, p)
    BY <1>7 DEF Evaluate
  <2>8. EvaluateProduct(m, p) =
          IF Len(p) # split + Len(m.inner.inputs) THEN {}
          ELSE {r \in {Added(u, v) : u \in Outer, v \in Inner} : \A o \in DOMAIN r : r[o] <= MaxInt}
    BY DEF EvaluateProduct
  <2> HIDE DEF Outer, Inner, Added
  <2>2. /\ a \in {Added(u, v) : u \in Outer, v \in Inner}
        /\ b \in {Added(u, v) : u \in Outer, v \in Inner}
    <3> HIDE DEF split
    <3>1. CASE Len(p) # split + Len(m.inner.inputs)
      <4>1. EvaluateProduct(m, p) = {}
        BY <2>8, <3>1
      <4> QED BY <2>1, <4>1
    <3>2. CASE ~(Len(p) # split + Len(m.inner.inputs))
      <4> DEFINE Sums == {Added(u, v) : u \in Outer, v \in Inner}
      <4>1. EvaluateProduct(m, p) = {r \in Sums : \A o \in DOMAIN r : r[o] <= MaxInt}
        BY <2>8, <3>2
      <4> HIDE DEF Sums
      <4>2. a \in Sums /\ b \in Sums
        BY <2>1, <4>1
      <4> QED BY <4>2 DEF Sums
    <3> QED BY <3>1, <3>2
  <2> USE DEF Outer, Inner, Added
  <2>3. \A u, v \in Outer : u = v
    BY <1>3
  <2>4. \A u, v \in Inner : u = v
    BY <1>2
  <2> HIDE DEF Outer, Inner, Added
  <2>5. PICK u \in Outer, v \in Inner : a = Added(u, v)
    BY <2>2
  <2>6. PICK s \in Outer, t \in Inner : b = Added(s, t)
    BY <2>2
  <2>7. u = s /\ v = t
    BY <2>3, <2>4
  <2> QED BY <2>5, <2>6, <2>7
<1> QED BY <1>4, <1>5, <1>6, <1>7 DEF MapKinds

\* The table of a map holds the values of the map.
LEMMA TableHolds ==
  ASSUME NEW c, IsStorage(c), LayoutVerify(c), NEW map \in AsAffine(c.map),
         map.outputs = <<"byte_offset", "bit_offset">>
  PROVE  /\ \A p \in Points(map.inputExtents) : Address(c, p) = BitOf(map.address[p])
         /\ DOMAIN map.outputExtents = {1, 2}
<1>1. CASE c.map.kind = "table"
  <2>1. map = c.map
    BY <1>1 DEF AsAffine
  <2>2. \A p \in Points(map.inputExtents) : Evaluate(map, p) = {map.address[p]}
    BY <1>1, <2>1 DEF LayoutVerify, MapVerify, TableVerify, Evaluate
  <2>3. \A p \in Points(map.inputExtents) : (CHOOSE out \in Evaluate(map, p) : TRUE) = map.address[p]
    BY <2>2
  <2>4. map.outputExtents \in Seq(Int) /\ Len(map.outputExtents) = Len(map.outputs)
    BY <1>1, <2>1 DEF LayoutVerify, MapVerify, TableVerify
  <2>5. DOMAIN map.outputExtents = {1, 2}
    BY <2>4
  <2>6. \A p \in Points(map.inputExtents) : Address(c, p) = BitOf(map.address[p])
    BY <2>1, <2>3 DEF Address
  <2> QED BY <2>5, <2>6
<1>2. CASE c.map.kind # "table"
  <2>1. PICK d \in StaticDomain(c.map), e \in OutputExtents(c.map) :
          map = [kind |-> "table", inputExtents |-> d, outputs |-> OutputsOf(c.map), outputExtents |-> e,
                 address |-> [p \in Points(d) |-> CHOOSE out \in Evaluate(c.map, p) : TRUE]]
    BY <1>2 DEF AsAffine
  <2>2. e \in Seq(Int) /\ Len(e) = Len(OutputsOf(c.map)) /\ OutputsOf(c.map) = map.outputs
    BY <2>1 DEF LayoutVerify
  <2>3. DOMAIN e = {1, 2}
    BY <2>2
  <2>4. /\ map.inputExtents = d /\ map.outputExtents = e
        /\ map.address = [p \in Points(d) |-> CHOOSE out \in Evaluate(c.map, p) : TRUE]
    BY <2>1
  <2>5. \A p \in Points(map.inputExtents) : Address(c, p) = BitOf(map.address[p])
    BY <2>4 DEF Address
  <2>6. DOMAIN map.outputExtents = {1, 2}
    BY <2>2, <2>3, <2>4
  <2> QED BY <2>5, <2>6
<1> QED BY <1>1, <1>2

\* Where the elements of a tile begin, in the order of its points.
Starts(c, shape) == [k \in 1..Product(shape) |-> Address(c, PointAt(shape, k - 1))]
\* The footprint of a candidate that fits its view: the elements by where they
\* begin, none on the bits of another.
IsFootprintOf(f, info, c) ==
  LET shape == info.viewType.shape
      n == Product(shape)
      b == Starts(c, shape)
      order == Ordered(KeysOf(n, b))
  IN  /\ n \in Positive /\ \A k \in 1..n : b[k] \in Int
      /\ Len(f.entries) = n /\ DOMAIN f.entries = 1..n
      /\ \A i \in 1..n : LET e == f.entries[i]
                         IN  /\ e.view = PointAt(shape, order[i] - 1)
                             /\ e.root = Linear(info.viewToRoot, e.view)
                             /\ e.begin = b[order[i]] /\ e.end = e.begin + info.viewType.bits
      /\ ~Overlapping(f.entries)

\* A footprint is of the root of its view.
LEMMA FootprintNames ==
  ASSUME NEW info, NEW c
  PROVE  BuildFootprint(info, c).root = info.root /\ BuildFootprint(info, c).rootType = info.rootType
<1> DEFINE Names(f) == f.root = info.root /\ f.rootType = info.rootType
<1>1. \A proof : Names(Unindexed(info, proof))
  BY DEF Unindexed, Footprint
<1>2. \A entries : Names(Footprint(info, Proven, entries))
  BY DEF Footprint
<1> HIDE DEF Names
<1>3. \A entries, bad : Names(Judged(info, c, entries, bad))
  BY <1>1, <1>2 DEF Judged, SortedFootprint
<1>4. \A map : Names(Indexed(info, c, map))
  BY <1>1, <1>3 DEF Indexed, JudgedEntries
<1>5. Names(IndexedUnder(info, c, AsAffine(c.map)))
  BY <1>1, <1>4 DEF IndexedUnder
<1>6. Names(BuildFootprint(info, c))
  BY <1>1, <1>5 DEF BuildFootprint
<1> QED BY <1>6 DEF Names

\* The points of a shape are numbered.
LEMMA PointsNumbered ==
  ASSUME NEW shape, Product(shape) \in Positive
  PROVE  /\ \A k \in 1..Product(shape) : PointAt(shape, k - 1) \in Points(shape)
         /\ \A p \in Points(shape) : \E k \in 1..Product(shape) : p = PointAt(shape, k - 1)
<1> DEFINE n == Product(shape)
<1>1. \A k \in 1..n : k - 1 \in Bits(n)
  BY DEF Bits, Positive
<1>2. \A i \in Bits(n) : i + 1 \in 1..n /\ (i + 1) - 1 = i
  BY DEF Bits, Positive
<1> HIDE DEF n
<1>3. Points(shape) = {PointAt(shape, i) : i \in Bits(n)}
  BY DEF Points, n
<1>4. \A k \in 1..n : PointAt(shape, k - 1) \in Points(shape)
  BY <1>1, <1>3
<1>5. ASSUME NEW p \in Points(shape)
      PROVE  \E k \in 1..n : p = PointAt(shape, k - 1)
  <2>1. PICK i \in Bits(n) : p = PointAt(shape, i)
    BY <1>3
  <2> QED BY <1>2, <2>1
<1> QED BY <1>4, <1>5 DEF n

\* What a proof keeps of a candidate.
LEMMA FootprintEntries ==
  ASSUME NEW info, TypeVerify(info.viewType), NEW c, IsStorage(c), LayoutVerify(c),
         Verified(info, c)
  PROVE  IsFootprintOf(BuildFootprint(info, c), info, c)
<1> DEFINE shape == info.viewType.shape
           n == Product(shape)
           f == BuildFootprint(info, c)
           b == Starts(c, shape)
<1>0. f.proof = Proven /\ Proven # Unknown /\ \A p : Proven # Disproven(p)
  BY DEF Verified, Proven, Unknown, Disproven, Verdict
<1>1. \A proof : Unindexed(info, proof).proof = proof
  BY DEF Unindexed, Footprint
<1>2. PointCount(shape) # {} /\ f = IndexedUnder(info, c, AsAffine(c.map))
  BY <1>0, <1>1 DEF BuildFootprint
<1>3. n \in Positive
  <2>1. shape \in Seq(Int) /\ \A i \in DOMAIN shape : ~(shape[i] <= 0)
    BY <1>2 DEF PointCount, TypeVerify
  <2>2. IsSequence(shape) /\ \A i \in DOMAIN shape : shape[i] \in Int /\ shape[i] > 0
    BY <2>1 DEF IsSequence
  <2> QED BY <2>2, ProductPositive
<1> DEFINE map == CHOOSE m \in AsAffine(c.map) : TRUE
           entries == [i \in 1..n |-> Entry(info, map, i)]
           bad == RefusedPoints(info, map, entries)
<1>4. map \in AsAffine(c.map) /\ f = Indexed(info, c, map)
  <2>1. AsAffine(c.map) # {}
    BY <1>0, <1>1, <1>2 DEF IndexedUnder
  <2> QED BY <1>2, <2>1 DEF IndexedUnder
<1> HIDE DEF f, map
<1>5. /\ map.inputExtents = shape /\ map.outputs = <<"byte_offset", "bit_offset">>
      /\ f = Judged(info, c, entries, bad)
  BY <1>0, <1>1, <1>4 DEF Indexed, JudgedEntries
<1> HIDE DEF entries, bad
<1>6. bad = {} /\ f = SortedFootprint(info, ByBegin(entries))
  BY <1>0, <1>1, <1>5 DEF Judged
<1>7. ~Overlapping(ByBegin(entries)) /\ f = Footprint(info, Proven, ByBegin(entries))
  BY <1>0, <1>1, <1>6 DEF SortedFootprint
<1>8. /\ DOMAIN map.outputExtents = {1, 2}
      /\ \A p \in Points(shape) : Address(c, p) = BitOf(map.address[p])
  BY <1>4, <1>5, TableHolds
<1>9. n \in Nat /\ DOMAIN entries = 1..n /\ Len(entries) = n /\ IsSequence(entries)
  <2>1. n \in Nat /\ DOMAIN entries = 1..n
    BY <1>3 DEF entries, Positive
  <2>2. Len(entries) = n
    BY <1>3 DEF entries, Positive
  <2> QED BY <2>1, <2>2 DEF IsSequence
<1>10. ASSUME NEW k \in 1..n
       PROVE  /\ entries[k].view = PointAt(shape, k - 1)
              /\ entries[k].root = Linear(info.viewToRoot, entries[k].view)
              /\ entries[k].begin = b[k] /\ b[k] \in Int
              /\ entries[k].end = entries[k].begin + info.viewType.bits
  <2>1. entries[k] = Entry(info, map, k)
    BY DEF entries
  <2>2. /\ entries[k].view = PointAt(shape, k - 1)
        /\ entries[k].root = Linear(info.viewToRoot, entries[k].view)
        /\ entries[k].begin = BitOf(map.address[entries[k].view])
        /\ entries[k].end = entries[k].begin + info.viewType.bits
    BY <2>1 DEF Entry
  <2>3. PointAt(shape, k - 1) \in Points(shape)
    BY <1>3, PointsNumbered
  <2>4. b[k] = Address(c, PointAt(shape, k - 1))
    BY DEF Starts
  <2>5. ~PointRefused(info, map, entries[k])
    BY <1>6, <1>9 DEF bad, RefusedPoints
  <2>6. InShape(map.address[entries[k].view], map.outputExtents)
    BY <2>5 DEF PointRefused
  <2>7. \A d \in {1, 2} : map.address[entries[k].view][d] \in Bits(map.outputExtents[d])
    BY <1>8, <2>6 DEF InShape
  <2>8. map.address[entries[k].view][1] \in Int /\ map.address[entries[k].view][2] \in Int
    BY <2>7 DEF Bits
  <2>9. BitOf(map.address[entries[k].view]) \in Int
    BY <2>8 DEF BitOf
  <2>10. entries[k].begin = b[k]
    BY <1>8, <2>2, <2>3, <2>4
  <2> QED BY <2>2, <2>9, <2>10
<1> DEFINE g == [i \in DOMAIN entries |-> entries[i].begin]
           order == Ordered(KeysOf(n, b))
           sorted == ByBegin(entries)
<1>11. KeysOf(n, g) = KeysOf(n, b)
  <2>1. \A k \in 1..n : g[k] = b[k]
    BY <1>9, <1>10
  <2> HIDE DEF g, b, n
  <2> QED BY <2>1 DEF KeysOf
<1>12. /\ IsOrder(n, g, order) /\ IsSequence(sorted) /\ Len(sorted) = n
       /\ \A i \in 1..n : sorted[i] = entries[order[i]]
  <2>1. \A i \in DOMAIN entries : g[i] \in Int
    BY <1>9, <1>10
  <2>2. sorted = Sorted(entries, g)
    BY DEF ByBegin
  <2> HIDE DEF g, b, n, order, sorted
  <2>3. LET o == Ordered(KeysOf(Len(entries), g))
        IN  /\ IsOrder(Len(entries), g, o)
            /\ IsSequence(Sorted(entries, g)) /\ Len(Sorted(entries, g)) = Len(entries)
            /\ \A i \in DOMAIN entries : Sorted(entries, g)[i] = entries[o[i]]
    BY <1>9, <2>1, SortedPermutes
  <2>4. order = Ordered(KeysOf(n, g))
    BY <1>11 DEF order
  <2> QED BY <1>9, <2>2, <2>3, <2>4
<1>13. f.entries = sorted
  BY <1>7 DEF Footprint
<1>14. \A i \in 1..n : order[i] \in 1..n
  BY <1>12 DEF IsOrder
<1>15. ASSUME NEW i \in 1..n
       PROVE  LET e == f.entries[i]
              IN  /\ e.view = PointAt(shape, order[i] - 1)
                  /\ e.root = Linear(info.viewToRoot, e.view)
                  /\ e.begin = b[order[i]] /\ e.end = e.begin + info.viewType.bits
  <2>1. f.entries[i] = entries[order[i]]
    BY <1>12, <1>13
  <2> HIDE DEF order, b, n
  <2> QED BY <1>10, <1>14, <2>1
<1>16. \A k \in 1..n : b[k] \in Int
  BY <1>10
<1>17. Len(f.entries) = n /\ DOMAIN f.entries = 1..n /\ ~Overlapping(f.entries)
  BY <1>7, <1>12, <1>13 DEF IsSequence
<1> HIDE DEF b, order, sorted, g
<1> QED BY <1>3, <1>15, <1>16, <1>17 DEF IsFootprintOf, f, b, order

\* The entries of a footprint are intervals.
LEMMA FootprintIntervals ==
  ASSUME NEW info, TypeVerify(info.viewType), NEW c, NEW f, IsFootprintOf(f, info, c)
  PROVE  AreIntervals(f.entries)
<1> DEFINE n == Product(info.viewType.shape)
           b == Starts(c, info.viewType.shape)
           order == Ordered(KeysOf(n, b))
<1>1. n \in Nat /\ \A k \in 1..n : b[k] \in Int
  BY DEF IsFootprintOf, Positive
<1>2. \A i \in 1..n : order[i] \in 1..n
  BY <1>1, OrderedSorts DEF IsOrder
<1>3. info.viewType.bits \in Int /\ info.viewType.bits > 0
  BY DEF TypeVerify
<1> HIDE DEF n, b, order
<1>4. /\ Len(f.entries) = n /\ DOMAIN f.entries = 1..n /\ ~Overlapping(f.entries)
      /\ \A i \in 1..n : /\ f.entries[i].begin = b[order[i]]
                         /\ f.entries[i].end = f.entries[i].begin + info.viewType.bits
  BY DEF IsFootprintOf, n, b, order
<1>5. ASSUME NEW i \in 1..n
      PROVE  IsInterval(f.entries[i])
  <2>1. f.entries[i].begin \in Int
    BY <1>1, <1>2, <1>4
  <2> QED BY <1>3, <1>4, <2>1 DEF IsInterval
<1> QED BY <1>1, <1>4, <1>5 DEF AreIntervals

IsPlacing(p, e) == p.point = e.view /\ p.root = e.root /\ p.bit = e.begin

\* The entries of a footprint are the points of its view, each where it is placed.
LEMMA EntriesArePlacings ==
  ASSUME NEW info, NEW c, NEW f, IsFootprintOf(f, info, c)
  PROVE  /\ \A i \in DOMAIN f.entries : \E p \in Placings(info, c) : IsPlacing(p, f.entries[i])
         /\ \A p \in Placings(info, c) : \E i \in DOMAIN f.entries : IsPlacing(p, f.entries[i])
         /\ \A p \in Placings(info, c) : p.bit = Address(c, p.point) /\ p.bit \in Int
<1> DEFINE shape == info.viewType.shape
           n == Product(shape)
           b == Starts(c, shape)
           order == Ordered(KeysOf(n, b))
<1>1. n \in Positive /\ n \in Nat /\ \A k \in 1..n : b[k] \in Int
  BY DEF IsFootprintOf, Positive
<1>2. /\ \A i \in 1..n : order[i] \in 1..n
      /\ \A k \in 1..n : \E i \in 1..n : order[i] = k
  BY <1>1, OrderedSorts DEF IsOrder
<1>3. \A k \in 1..n : b[k] = Address(c, PointAt(shape, k - 1))
  BY DEF Starts
<1>4. /\ \A k \in 1..n : PointAt(shape, k - 1) \in Points(shape)
      /\ \A p \in Points(shape) : \E k \in 1..n : p = PointAt(shape, k - 1)
  BY <1>1, PointsNumbered
<1> HIDE DEF n, b, order, shape
<1>5. /\ DOMAIN f.entries = 1..n
      /\ \A i \in 1..n : /\ f.entries[i].view = PointAt(shape, order[i] - 1)
                         /\ f.entries[i].root = Linear(info.viewToRoot, f.entries[i].view)
                         /\ f.entries[i].begin = b[order[i]]
  BY DEF IsFootprintOf, n, b, order, shape
<1> DEFINE Placing(p) == [point |-> p, root |-> Linear(info.viewToRoot, p), bit |-> Address(c, p)]
<1>6. Placings(info, c) = {Placing(p) : p \in Points(shape)}
  BY DEF Placings, shape
<1>7. \A i \in 1..n : /\ f.entries[i].view \in Points(shape)
                      /\ f.entries[i].begin = Address(c, f.entries[i].view)
  BY <1>2, <1>3, <1>4, <1>5
<1>8. ASSUME NEW i \in 1..n
      PROVE  \E p \in Placings(info, c) : IsPlacing(p, f.entries[i])
  <2>1. IsPlacing(Placing(f.entries[i].view), f.entries[i])
    BY <1>5, <1>7 DEF IsPlacing
  <2>2. Placing(f.entries[i].view) \in Placings(info, c)
    BY <1>6, <1>7
  <2> QED BY <2>1, <2>2
<1>9. ASSUME NEW p \in Placings(info, c)
      PROVE  /\ \E i \in 1..n : IsPlacing(p, f.entries[i])
             /\ p.bit = Address(c, p.point) /\ p.bit \in Int
  <2>1. PICK q \in Points(shape) : p = Placing(q)
    BY <1>6
  <2>2. PICK k \in 1..n : q = PointAt(shape, k - 1)
    BY <1>4
  <2>3. PICK i \in 1..n : order[i] = k
    BY <1>2
  <2>4. f.entries[i].view = q /\ f.entries[i].begin = b[k] /\ b[k] = Address(c, q)
    BY <1>3, <1>5, <2>2, <2>3
  <2>5. IsPlacing(p, f.entries[i])
    BY <1>5, <2>1, <2>4 DEF IsPlacing
  <2> QED BY <1>1, <2>1, <2>4, <2>5
<1> QED BY <1>5, <1>8, <1>9

\* The elements of a view that fits have the size of those of its root.
LEMMA VerifiedBits ==
  ASSUME NEW info, NEW c, Verified(info, c)
  PROVE  info.rootType.bits = info.viewType.bits
BY DEF Verified, BuildFootprint, Unindexed, Footprint, Proven, Unknown, Verdict

\* Two intervals of one length are apart exactly when they do not meet.
LEMMA ApartIsNoMeeting ==
  ASSUME NEW x, NEW y, NEW p, NEW q, NEW bits \in Int, IsPlacing(p, x), IsPlacing(q, y),
         p.bit \in Int, q.bit \in Int, x.end = x.begin + bits, y.end = y.begin + bits
  PROVE  Apart(x, y) <=> ~Meets(p.bit, q.bit, bits)
BY DEF IsPlacing, Apart, Meets

\* Two footprints are proved consistent exactly when both candidates fit and the
\* views, taken point by point, give every coordinate of the root its own place.
LEMMA FootprintsAgree ==
  ASSUME NEW l, TypeVerify(l.viewType), NEW a, IsStorage(a), LayoutVerify(a),
         NEW r, TypeVerify(r.viewType), NEW b, IsStorage(b), LayoutVerify(b)
  PROVE  ProveFootprints(BuildFootprint(l, a), BuildFootprint(r, b)) = Proven
           <=> ShareTheRoot(l, a, r, b)
<1> DEFINE x == BuildFootprint(l, a)
           y == BuildFootprint(r, b)
           bits == l.viewType.bits
           Fit == l.root = r.root /\ l.rootType = r.rootType /\ Verified(l, a) /\ Verified(r, b)
<1>1. /\ x.root = l.root /\ x.rootType = l.rootType /\ y.root = r.root /\ y.rootType = r.rootType
      /\ Verified(l, a) <=> x.proof = Proven
      /\ Verified(r, b) <=> y.proof = Proven
  BY FootprintNames DEF Verified
<1>2. Unknown # Proven /\ Disproven(<<>>) # Proven
  BY DEF Unknown, Proven, Disproven, Verdict
<1>3. CASE ~Fit
  <2>1. ProveFootprints(x, y) # Proven
    <3> HIDE DEF x, y
    <3> QED BY <1>1, <1>2, <1>3 DEF ProveFootprints
  <2>2. ~ShareTheRoot(l, a, r, b)
    BY <1>3 DEF ShareTheRoot, BothFit
  <2> QED BY <2>1, <2>2
<1>4. CASE Fit
  <2>1. IsFootprintOf(x, l, a) /\ IsFootprintOf(y, r, b)
    BY <1>4, FootprintEntries
  <2> HIDE DEF x, y
  <2>2. AreIntervals(x.entries) /\ AreIntervals(y.entries)
    BY <2>1, FootprintIntervals
  <2>3. bits \in Int /\ r.viewType.bits = bits
    BY <1>4, VerifiedBits DEF TypeVerify
  <2>4. /\ \A i \in DOMAIN x.entries : x.entries[i].end = x.entries[i].begin + bits
        /\ \A j \in DOMAIN y.entries : y.entries[j].end = y.entries[j].begin + bits
    BY <2>1, <2>3 DEF IsFootprintOf
  <2>5. /\ \A i \in DOMAIN x.entries : \E p \in Placings(l, a) : IsPlacing(p, x.entries[i])
        /\ \A p \in Placings(l, a) : \E i \in DOMAIN x.entries : IsPlacing(p, x.entries[i])
        /\ \A p \in Placings(l, a) : p.bit \in Int
        /\ \A i \in DOMAIN y.entries : \E p \in Placings(r, b) : IsPlacing(p, y.entries[i])
        /\ \A p \in Placings(r, b) : \E i \in DOMAIN y.entries : IsPlacing(p, y.entries[i])
        /\ \A p \in Placings(r, b) : p.bit \in Int
    BY <2>1, EntriesArePlacings
  <2> HIDE DEF bits
  <2>6. ProveFootprints(x, y) = Proven
          <=> /\ \A i \in DOMAIN x.entries, j \in DOMAIN y.entries :
                   x.entries[i].root = y.entries[j].root => x.entries[i].begin = y.entries[j].begin
              /\ \A i \in DOMAIN x.entries, j \in DOMAIN y.entries :
                   Clear(x.entries[i], y.entries[j], TRUE)
    <3>1. ProveFootprints(x, y) = Proven
            <=> ~SameCoordinateMoves(x, y) /\ Sweep(x.entries, y.entries, TRUE)
      BY <1>1, <1>2, <1>4 DEF ProveFootprints
    <3>2. Sweep(x.entries, y.entries, TRUE)
            <=> \A i \in DOMAIN x.entries, j \in DOMAIN y.entries :
                  Clear(x.entries[i], y.entries[j], TRUE)
      BY <2>2, SweepDecides
    <3>3. SameCoordinateMoves(x, y)
            <=> \E i \in DOMAIN x.entries, j \in DOMAIN y.entries :
                  x.entries[i].begin # y.entries[j].begin /\ x.entries[i].root = y.entries[j].root
      BY DEF SameCoordinateMoves
    <3> QED BY <3>1, <3>2, <3>3
  <2> DEFINE Consistent(e, d) == /\ e.root = d.root => e.begin = d.begin
                                 /\ Clear(e, d, TRUE)
             Judges(p, q) == IF p.root = q.root THEN p.bit = q.bit ELSE ~Meets(p.bit, q.bit, bits)
  <2>7. ASSUME NEW i \in DOMAIN x.entries, NEW j \in DOMAIN y.entries,
               NEW p \in Placings(l, a), NEW q \in Placings(r, b),
               IsPlacing(p, x.entries[i]), IsPlacing(q, y.entries[j])
        PROVE  Consistent(x.entries[i], y.entries[j]) <=> Judges(p, q)
    <3>1. Apart(x.entries[i], y.entries[j]) <=> ~Meets(p.bit, q.bit, bits)
      <4>1. p.bit \in Int /\ q.bit \in Int
        BY <2>5
      <4>2. /\ x.entries[i].end = x.entries[i].begin + bits
            /\ y.entries[j].end = y.entries[j].begin + bits
        BY <2>4
      <4> QED BY <2>3, <2>7, <4>1, <4>2, ApartIsNoMeeting
    <3>2. p.root = x.entries[i].root /\ q.root = y.entries[j].root
          /\ p.bit = x.entries[i].begin /\ q.bit = y.entries[j].begin
      BY <2>7 DEF IsPlacing
    <3> QED BY <3>1, <3>2 DEF Clear
  <2> HIDE DEF Consistent, Judges
  <2>8. ProveFootprints(x, y) = Proven
          <=> \A i \in DOMAIN x.entries, j \in DOMAIN y.entries :
                Consistent(x.entries[i], y.entries[j])
    BY <2>6 DEF Consistent
  <2>9. (\A i \in DOMAIN x.entries, j \in DOMAIN y.entries :
           Consistent(x.entries[i], y.entries[j]))
          <=> \A p \in Placings(l, a), q \in Placings(r, b) : Judges(p, q)
    BY <2>5, <2>7
  <2>10. ShareTheRoot(l, a, r, b) <=> \A p \in Placings(l, a), q \in Placings(r, b) : Judges(p, q)
    BY <1>4 DEF ShareTheRoot, BothFit, AgreeByRoot, Judges, bits
  <2> QED BY <2>8, <2>9, <2>10 DEF x, y
<1> QED BY <1>3, <1>4

\* It does not matter which of the two views is named first.
LEMMA SharingIsSymmetric ==
  ASSUME NEW l, TypeVerify(l.viewType), NEW a, LayoutVerify(a),
         NEW r, TypeVerify(r.viewType), NEW b, LayoutVerify(b), ShareTheRoot(l, a, r, b)
  PROVE  ShareTheRoot(r, b, l, a)
<1>1. BothFit(l, a, r, b) /\ l.root = r.root /\ l.rootType = r.rootType
  BY DEF ShareTheRoot
<1>2. BothFit(r, b, l, a) /\ r.viewType.bits = l.viewType.bits /\ l.viewType.bits \in Int
  BY <1>1, VerifiedBits DEF BothFit, TypeVerify
<1>3. /\ \A p \in Placings(l, a) : p.bit \in Int
      /\ \A p \in Placings(r, b) : p.bit \in Int
  <2>1. IsFootprintOf(BuildFootprint(l, a), l, a) /\ IsFootprintOf(BuildFootprint(r, b), r, b)
    BY <1>1, FootprintEntries DEF BothFit
  <2> QED BY <2>1, EntriesArePlacings
<1>4. ASSUME NEW p \in Placings(r, b), NEW q \in Placings(l, a)
      PROVE  IF p.root = q.root THEN p.bit = q.bit ELSE ~Meets(p.bit, q.bit, r.viewType.bits)
  <2>1. IF q.root = p.root THEN q.bit = p.bit ELSE ~Meets(q.bit, p.bit, l.viewType.bits)
    BY DEF ShareTheRoot, AgreeByRoot
  <2> QED BY <1>2, <1>3, <2>1 DEF Meets
<1> QED BY <1>1, <1>2, <1>4 DEF ShareTheRoot, AgreeByRoot

\* The points that both sides of a copy have are in the same place exactly when
\* the entries are, one by one.
LEMMA InPlaceByEntries ==
  ASSUME NEW l, NEW a, NEW x, IsFootprintOf(x, l, a),
         NEW r, NEW b, NEW y, IsFootprintOf(y, r, b),
         l.viewType.shape = r.viewType.shape, l.viewType.bits = r.viewType.bits
  PROVE  (/\ Len(x.entries) = Len(y.entries)
          /\ \A i \in DOMAIN x.entries : LET p == x.entries[i] q == y.entries[i]
                                         IN  p.view = q.view /\ p.begin = q.begin /\ p.end = q.end)
           <=> \A p \in Placings(l, a), q \in Placings(r, b) : p.point = q.point => p.bit = q.bit
<1> DEFINE shape == l.viewType.shape
           n == Product(shape)
           ba == Starts(a, shape)
           bb == Starts(b, shape)
           oa == Ordered(KeysOf(n, ba))
           ob == Ordered(KeysOf(n, bb))
           Same(i) == LET p == x.entries[i] q == y.entries[i]
                      IN  p.view = q.view /\ p.begin = q.begin /\ p.end = q.end
           Still == \A p \in Placings(l, a), q \in Placings(r, b) : p.point = q.point => p.bit = q.bit
<1>1. n \in Positive /\ \A k \in 1..n : ba[k] \in Int /\ bb[k] \in Int
  BY DEF IsFootprintOf
<1>2. /\ \A k \in 1..n : ba[k] = Address(a, PointAt(shape, k - 1))
      /\ \A k \in 1..n : bb[k] = Address(b, PointAt(shape, k - 1))
  BY DEF Starts
<1>3. \A k \in 1..n : PointAt(shape, k - 1) \in Points(shape)
  BY <1>1, PointsNumbered
<1>4. /\ Len(x.entries) = n /\ DOMAIN x.entries = 1..n
      /\ Len(y.entries) = n /\ DOMAIN y.entries = 1..n
  BY DEF IsFootprintOf
<1>5. \A i \in 1..n : /\ x.entries[i].view = PointAt(shape, oa[i] - 1)
                      /\ x.entries[i].begin = ba[oa[i]]
                      /\ x.entries[i].end = x.entries[i].begin + l.viewType.bits
                      /\ y.entries[i].view = PointAt(shape, ob[i] - 1)
                      /\ y.entries[i].begin = bb[ob[i]]
                      /\ y.entries[i].end = y.entries[i].begin + l.viewType.bits
  BY DEF IsFootprintOf
<1>6. /\ \A i \in DOMAIN x.entries : \E p \in Placings(l, a) : IsPlacing(p, x.entries[i])
      /\ \A p \in Placings(l, a) : \E i \in DOMAIN x.entries : IsPlacing(p, x.entries[i])
      /\ \A p \in Placings(l, a) : p.bit = Address(a, p.point)
      /\ \A p \in Placings(r, b) : \E i \in DOMAIN y.entries : IsPlacing(p, y.entries[i])
      /\ \A p \in Placings(r, b) : p.bit = Address(b, p.point)
  BY EntriesArePlacings
<1>7. /\ \A p \in Points(shape) : \E q \in Placings(l, a) : q.point = p
      /\ \A p \in Points(shape) : \E q \in Placings(r, b) : q.point = p
  <2>1. \A p \in Points(shape) :
          [point |-> p, root |-> Linear(l.viewToRoot, p), bit |-> Address(a, p)] \in Placings(l, a)
    BY DEF Placings
  <2>2. \A p \in Points(shape) :
          [point |-> p, root |-> Linear(r.viewToRoot, p), bit |-> Address(b, p)] \in Placings(r, b)
    BY DEF Placings
  <2>3. \A p, u, v : [point |-> p, root |-> u, bit |-> v].point = p
    OBVIOUS
  <2> QED BY <2>1, <2>2, <2>3
<1> HIDE DEF shape, n, ba, bb, oa, ob
<1>8. ASSUME \A i \in 1..n : Same(i)
      PROVE  Still
  <2> SUFFICES ASSUME NEW p \in Placings(l, a), NEW q \in Placings(r, b), p.point = q.point
               PROVE  p.bit = q.bit
    OBVIOUS
  <2>1. PICK i \in 1..n : IsPlacing(p, x.entries[i])
    BY <1>4, <1>6
  <2>2. y.entries[i].view = p.point /\ y.entries[i].begin = p.bit
    BY <1>8, <2>1 DEF IsPlacing
  <2>3. PICK s \in Placings(r, b) : IsPlacing(s, y.entries[i])
    <3>1. \A k \in DOMAIN y.entries : \E s \in Placings(r, b) : IsPlacing(s, y.entries[k])
      BY EntriesArePlacings
    <3> QED BY <1>4, <3>1
  <2>4. s.point = q.point /\ s.bit = p.bit
    BY <2>2, <2>3 DEF IsPlacing
  <2> QED BY <1>6, <2>4
<1>9. ASSUME Still
      PROVE  \A i \in 1..n : Same(i)
  <2>1. ASSUME NEW k \in 1..n
        PROVE  ba[k] = bb[k]
    <3>1. PICK p \in Placings(l, a) : p.point = PointAt(shape, k - 1)
      BY <1>3, <1>7
    <3>2. PICK q \in Placings(r, b) : q.point = PointAt(shape, k - 1)
      BY <1>3, <1>7
    <3>3. p.bit = q.bit
      BY <1>9, <3>1, <3>2
    <3> QED BY <1>2, <1>6, <3>1, <3>2, <3>3
  <2>2. KeysOf(n, ba) = KeysOf(n, bb)
    BY <2>1 DEF KeysOf
  <2>3. oa = ob
    BY <2>2 DEF oa, ob
  <2>4. \A i \in 1..n : oa[i] \in 1..n
    <3>1. n \in Nat /\ \A k \in 1..n : ba[k] \in Int
      BY <1>1 DEF Positive
    <3> QED BY <3>1, OrderedSorts DEF IsOrder, oa
  <2>5. ASSUME NEW i \in 1..n
        PROVE  Same(i)
    <3>1. x.entries[i].view = y.entries[i].view
      BY <1>5, <2>3
    <3>2. x.entries[i].begin = y.entries[i].begin
      BY <1>5, <2>1, <2>3, <2>4
    <3>3. x.entries[i].end = y.entries[i].end
      BY <1>5, <3>2
    <3> QED BY <3>1, <3>2, <3>3
  <2> QED BY <2>5
<1>10. (\A i \in 1..n : Same(i)) <=> Still
  BY <1>8, <1>9
<1> HIDE DEF Same, Still
<1>11. (Len(x.entries) = Len(y.entries) /\ \A i \in DOMAIN x.entries : Same(i)) <=> Still
  BY <1>4, <1>10
<1> QED BY <1>11 DEF Same, Still

\* A copy is accepted exactly when both sides fit and, within one root, they are
\* in place or apart.
LEMMA CopyDecides ==
  ASSUME NEW l, TypeVerify(l.viewType), NEW a, IsStorage(a), LayoutVerify(a),
         NEW r, TypeVerify(r.viewType), NEW b, IsStorage(b), LayoutVerify(b),
         l.viewType.shape = r.viewType.shape, l.viewType.bits = r.viewType.bits
  PROVE  CopyCompatible(BuildFootprint(l, a), BuildFootprint(r, b)) <=> CopyKeepsApart(l, a, r, b)
<1> DEFINE x == BuildFootprint(l, a)
           y == BuildFootprint(r, b)
           bits == l.viewType.bits
<1>1. /\ x.root = l.root /\ y.root = r.root
      /\ BothFit(l, a, r, b) <=> x.proof = Proven /\ y.proof = Proven
  BY FootprintNames DEF Verified, BothFit
<1>2. CASE ~BothFit(l, a, r, b)
  BY <1>1, <1>2 DEF CopyCompatible, CopyKeepsApart
<1>3. CASE BothFit(l, a, r, b) /\ l.root # r.root
  BY <1>1, <1>3 DEF CopyCompatible, CopyKeepsApart
<1>4. CASE BothFit(l, a, r, b) /\ l.root = r.root
  <2>1. IsFootprintOf(x, l, a) /\ IsFootprintOf(y, r, b)
    BY <1>4, FootprintEntries DEF BothFit
  <2> HIDE DEF x, y
  <2> DEFINE Entrywise == /\ Len(x.entries) = Len(y.entries)
                          /\ \A i \in DOMAIN x.entries :
                               LET p == x.entries[i] q == y.entries[i]
                               IN  p.view = q.view /\ p.begin = q.begin /\ p.end = q.end
             Still == \A p \in Placings(l, a), q \in Placings(r, b) : p.point = q.point => p.bit = q.bit
             NoneMeet == \A p \in Placings(l, a), q \in Placings(r, b) : ~Meets(p.bit, q.bit, bits)
  <2>2. Entrywise <=> Still
    BY <2>1, InPlaceByEntries
  <2>3. AreIntervals(x.entries) /\ AreIntervals(y.entries)
    BY <2>1, FootprintIntervals
  <2>4. Sweep(x.entries, y.entries, FALSE) <=> NoneMeet
    <3>1. Sweep(x.entries, y.entries, FALSE)
            <=> \A i \in DOMAIN x.entries, j \in DOMAIN y.entries :
                  Clear(x.entries[i], y.entries[j], FALSE)
      BY <2>3, SweepDecides
    <3>2. /\ \A i \in DOMAIN x.entries : x.entries[i].end = x.entries[i].begin + bits
          /\ \A j \in DOMAIN y.entries : y.entries[j].end = y.entries[j].begin + bits
      BY <2>1 DEF IsFootprintOf
    <3>3. /\ \A i \in DOMAIN x.entries : \E p \in Placings(l, a) : IsPlacing(p, x.entries[i])
          /\ \A p \in Placings(l, a) : \E i \in DOMAIN x.entries : IsPlacing(p, x.entries[i])
          /\ \A p \in Placings(l, a) : p.bit \in Int
          /\ \A i \in DOMAIN y.entries : \E p \in Placings(r, b) : IsPlacing(p, y.entries[i])
          /\ \A p \in Placings(r, b) : \E i \in DOMAIN y.entries : IsPlacing(p, y.entries[i])
          /\ \A p \in Placings(r, b) : p.bit \in Int
      BY <2>1, EntriesArePlacings
    <3>4. bits \in Int
      BY DEF TypeVerify
    <3> HIDE DEF bits
    <3>5. ASSUME NEW i \in DOMAIN x.entries, NEW j \in DOMAIN y.entries,
                 NEW p \in Placings(l, a), NEW q \in Placings(r, b),
                 IsPlacing(p, x.entries[i]), IsPlacing(q, y.entries[j])
          PROVE  Clear(x.entries[i], y.entries[j], FALSE) <=> ~Meets(p.bit, q.bit, bits)
      <4>1. p.bit \in Int /\ q.bit \in Int
        BY <3>3
      <4>2. /\ x.entries[i].end = x.entries[i].begin + bits
            /\ y.entries[j].end = y.entries[j].begin + bits
        BY <3>2
      <4>3. Apart(x.entries[i], y.entries[j]) <=> ~Meets(p.bit, q.bit, bits)
        BY <3>4, <3>5, <4>1, <4>2, ApartIsNoMeeting
      <4> QED BY <4>3 DEF Clear
    <3>6. (\A i \in DOMAIN x.entries, j \in DOMAIN y.entries :
             Clear(x.entries[i], y.entries[j], FALSE)) <=> NoneMeet
      BY <3>3, <3>5
    <3> QED BY <3>1, <3>6
  <2> HIDE DEF Entrywise, Still, NoneMeet
  <2>5. CopyCompatible(x, y) <=> Entrywise \/ Sweep(x.entries, y.entries, FALSE)
    BY <1>1, <1>4 DEF CopyCompatible, Entrywise, x, y
  <2>6. CopyKeepsApart(l, a, r, b) <=> Still \/ NoneMeet
    BY <1>4 DEF CopyKeepsApart, InPlaceOrApart, Still, NoneMeet, bits
  <2> QED BY <2>2, <2>4, <2>5, <2>6 DEF x, y
<1> QED BY <1>2, <1>3, <1>4

\* What the last element of a buffer leaves to it is a number.
LEMMA CapacityIsNumber ==
  ASSUME NEW type, TypeVerify(type), NEW bytes \in CapacityBytes(type)
  PROVE  bytes \in Int
<1> DEFINE s == [d \in DOMAIN type.shape |-> (type.shape[d] - 1) * type.strides[d]]
           last == type.offset + Sum(s)
<1>1. IsSequence(s) /\ \A i \in DOMAIN s : s[i] \in Int
  <2>1. Len(type.shape) \in Nat /\ DOMAIN type.shape = 1..Len(type.shape)
    BY DEF TypeVerify
  <2>2. DOMAIN s = 1..Len(type.shape) /\ Len(s) = Len(type.shape)
    BY <2>1
  <2>3. \A d \in DOMAIN type.shape : type.shape[d] \in Int /\ type.strides[d] \in Int
    BY DEF TypeVerify
  <2> QED BY <2>1, <2>2, <2>3 DEF IsSequence
<1> HIDE DEF s
<1>2. Sum(s) \in Int
  BY <1>1, SumInteger
<1>3. last \in Int /\ type.bits \in Int
  BY <1>2 DEF TypeVerify
<1> HIDE DEF last
<1>4. bytes = ((last + 1) * type.bits + 7) \div 8
  BY DEF CapacityBytes, last, s
<1>5. \A u, v \in Int : (u + 1) * v + 7 \in Int
  OBVIOUS
<1>6. \A u \in Int : u \div 8 \in Int
  OBVIOUS
<1> QED BY <1>3, <1>4, <1>5, <1>6

\* A candidate within the bounds it declares gives every point one byte and bit.
LEMMA BoundedValues ==
  ASSUME NEW c, IsStorage(c), LayoutVerify(c), NEW shape, OutputBoundsHold(c.map, shape),
         NEW p \in Points(shape)
  PROVE  /\ Address(c, p) \in Nat
         /\ \A out \in Evaluate(c.map, p) : Len(out) = 2
<1>1. PICK out \in Evaluate(c.map, p), e \in OutputExtents(c.map) : Within(out, e)
  BY DEF OutputBoundsHold
<1>2. \A o \in Evaluate(c.map, p) : o = out
  BY OneValue DEF LayoutVerify
<1>3. e \in Seq(Int) /\ Len(e) = 2
  BY DEF LayoutVerify, StorageVerify, StorageOutputsVerify
<1>4. Len(out) = 2 /\ out[1] \in Bits(e[1]) /\ out[2] \in Bits(e[2])
  BY <1>1, <1>3 DEF Within
<1>5. BitOf(out) \in Nat
  BY <1>4 DEF Bits, BitOf
<1>6. (CHOOSE o \in Evaluate(c.map, p) : TRUE) = out
  BY <1>2
<1> QED BY <1>2, <1>4, <1>5, <1>6 DEF Address

\* The sorted beginnings of the elements of a tile.
LEMMA BeginsAreSorted ==
  ASSUME NEW c, NEW shape, Product(shape) \in Positive,
         \A k \in 1..Product(shape) : Starts(c, shape)[k] \in Int
  PROVE  LET n == Product(shape)
             b == Starts(c, shape)
             order == Ordered(KeysOf(n, b))
             t == Begins(Values(c.map, shape))
         IN  /\ IsOrder(n, b, order) /\ IsSequence(t) /\ Len(t) = n
             /\ \A i \in 1..n : t[i] = b[order[i]]
<1> DEFINE n == Product(shape)
           b == Starts(c, shape)
           order == Ordered(KeysOf(n, b))
           ValueAt(i) == Evaluate(c.map, PointAt(shape, i))
           values == Values(c.map, shape)
           f == [i \in Bits(n) |-> <<i, ValueAt(i)>>]
           s == [i \in 1..Cardinality(values) |-> ValueBegin(values, i - 1)]
<1>1. values = {<<i, ValueAt(i)>> : i \in Bits(n)}
  BY DEF Values
<1>2. n \in Nat /\ n > 0
  BY DEF Positive
<1> HIDE DEF ValueAt, values, n
<1>3. Cardinality(values) = n
  <2>1. f \in Bijection(Bits(n), values)
    BY <1>1 DEF Bijection, Injection, Surjection, IsInjective
  <2>2. IsFiniteSet(Bits(n)) /\ Cardinality(Bits(n)) = n
    <3>1. 0 \in Int /\ n - 1 \in Int /\ ~(0 > n - 1) /\ ((n - 1) - 0) + 1 = n
      BY <1>2
    <3> QED BY <3>1, FS_Interval DEF Bits
  <2> HIDE DEF f
  <2>3. ExistsBijection(Bits(n), values)
    BY <2>1 DEF ExistsBijection
  <2> QED BY <2>2, <2>3, FS_Bijection
<1>4. ASSUME NEW i \in Bits(n)
      PROVE  ValueBegin(values, i) = Address(c, PointAt(shape, i))
  <2>1. {y \in values : y[1] = i} = {<<i, ValueAt(i)>>}
    BY <1>1
  <2>2. UNION {y[2] : y \in {<<i, ValueAt(i)>>}} = ValueAt(i)
    OBVIOUS
  <2>3. UNION {y[2] : y \in {z \in values : z[1] = i}} = ValueAt(i)
    BY <2>1, <2>2
  <2> QED BY <2>3 DEF ValueBegin, Address, BitOf, ValueAt
<1>5. s = b
  <2>1. \A k \in 1..n : k - 1 \in Bits(n)
    BY <1>2 DEF Bits
  <2>2. b = [k \in 1..n |-> Address(c, PointAt(shape, k - 1))]
    BY DEF Starts, n
  <2>3. \A k \in 1..n : ValueBegin(values, k - 1) = Address(c, PointAt(shape, k - 1))
    BY <1>4, <2>1
  <2> QED BY <1>3, <2>2, <2>3
<1>6. Begins(values) = Sorted(b, b)
  <2>1. Begins(values) = InOrder(s)
    BY DEF Begins
  <2> HIDE DEF s, b
  <2> QED BY <1>5, <2>1 DEF InOrder
<1>7. IsSequence(b) /\ Len(b) = n /\ DOMAIN b = 1..n
  <2>1. b = [k \in 1..n |-> Address(c, PointAt(shape, k - 1))]
    BY DEF Starts, n
  <2> HIDE DEF b
  <2>2. DOMAIN b = 1..n /\ Len(b) = n
    BY <1>2, <2>1
  <2> QED BY <1>2, <2>2 DEF IsSequence
<1>8. \A i \in DOMAIN b : b[i] \in Int
  BY <1>7 DEF n
<1> HIDE DEF b
<1>9. LET o == Ordered(KeysOf(Len(b), b))
      IN  /\ IsOrder(Len(b), b, o)
          /\ IsSequence(Sorted(b, b)) /\ Len(Sorted(b, b)) = Len(b)
          /\ \A i \in DOMAIN b : Sorted(b, b)[i] = b[o[i]]
  BY <1>7, <1>8, SortedPermutes
<1>10. LET t == Begins(values)
       IN  /\ IsOrder(n, b, order) /\ IsSequence(t) /\ Len(t) = n
           /\ \A i \in 1..n : t[i] = b[order[i]]
  BY <1>6, <1>7, <1>9
<1> QED BY <1>10 DEF n, b, values

\* Whole bytes hold so many bits.
LEMMA WholeBytes ==
  ASSUME NEW u \in Int, NEW cap \in Int
  PROVE  (u + 7) \div 8 <= cap <=> u <= 8 * cap
<1> DEFINE q == (u + 7) \div 8
<1>1. q \in Int /\ 8 * q <= u + 7 /\ u + 7 < 8 * q + 8
  OBVIOUS
<1> HIDE DEF q
<1>2. q <= cap <=> u <= 8 * cap
  BY <1>1
<1> QED BY <1>2 DEF q

AreNumbers(n, b) == \A k \in 1..n : b[k] \in Int
IsSortOf(n, b, order, t) ==
  IsOrder(n, b, order) /\ IsSequence(t) /\ Len(t) = n /\ \A i \in 1..n : t[i] = b[order[i]]
\* The elements that begin there lie within so many bytes, apart from each other.
LieWithin(n, b, bits, bytes) ==
  \A i \in 1..n : /\ b[i] + bits <= 8 * bytes /\ b[i] + bits <= MaxUnsigned
                  /\ \A k \in (1..n) \ {i} : ~Meets(b[i], b[k], bits)

\* The last element of the sorted beginnings, and neighbours that are disjoint,
\* say it of all elements.
LEMMA BytesDecide ==
  ASSUME NEW n \in Positive, NEW b, AreNumbers(n, b), NEW order, NEW t, IsSortOf(n, b, order, t),
         NEW bits \in Int, bits > 0, NEW cap \in Int
  PROVE  (\E required \in Bytes(t, bits) : required <= cap) <=> LieWithin(n, b, bits, cap)
<1> USE DEF AreNumbers, IsSortOf
<1> DEFINE xs == [i \in 1..n |-> [begin |-> t[i], end |-> t[i] + bits]]
<1>1. n \in Nat /\ n > 0 /\ n \in 1..n /\ DOMAIN t = 1..n
  BY DEF Positive, IsSequence
<1>2. /\ \A i \in 1..n : order[i] \in 1..n
      /\ \A k \in 1..n : \E i \in 1..n : order[i] = k
      /\ \A i, k \in 1..n : i < k => t[i] <= t[k] /\ order[i] # order[k]
  <2>1. /\ \A i \in 1..n : order[i] \in 1..n
        /\ \A k \in 1..n : \E i \in 1..n : order[i] = k
        /\ \A i, k \in 1..n : i < k => b[order[i]] <= b[order[k]] /\ order[i] # order[k]
    BY DEF IsOrder
  <2>2. ASSUME NEW i \in 1..n, NEW k \in 1..n, i < k
        PROVE  t[i] <= t[k]
    <3>1. t[i] = b[order[i]] /\ t[k] = b[order[k]]
      OBVIOUS
    <3>2. b[order[i]] <= b[order[k]]
      BY <2>1, <2>2
    <3> QED BY <3>1, <3>2
  <2> QED BY <2>1, <2>2
<1>3. \A i \in 1..n : t[i] \in Int
  BY <1>2
<1>4. MaxUnsigned \in Int
  BY MapsAssumption DEF MaxUnsigned
<1>5. Disjoint(t, bits)
        <=> \A i, k \in 1..n : i # k => ~Meets(t[i], t[k], bits)
  <2>1. ASSUME Disjoint(t, bits), NEW i \in 1..n, NEW k \in 1..n, i < k
        PROVE  t[k] >= t[i] + bits
    <3>1. /\ Len(xs) = n /\ DOMAIN xs = 1..n
          /\ \A j \in 1..n : xs[j].begin = t[j] /\ xs[j].end = t[j] + bits
      BY <1>1
    <3> HIDE DEF xs
    <3>2. \A j \in 1..n : IsInterval(xs[j])
      BY <1>3, <3>1 DEF IsInterval
    <3>3. ~Overlapping(xs)
      <4>1. \A j \in 2..n : j \in 1..n /\ j - 1 \in 1..n /\ t[j] >= t[j - 1] + bits
        BY <1>1, <2>1 DEF Disjoint
      <4>2. \A j \in 2..n : ~(xs[j].begin < xs[j - 1].end)
        BY <1>3, <3>1, <4>1
      <4> QED BY <3>1, <4>2 DEF Overlapping
    <3>4. AreIntervals(xs)
      BY <1>1, <3>1, <3>2, <3>3 DEF AreIntervals
    <3>5. xs[k].begin >= xs[i].end
      BY <2>1, <3>1, <3>4, LaterBegin
    <3> QED BY <3>1, <3>5
  <2>2. ASSUME Disjoint(t, bits), NEW i \in 1..n, NEW k \in 1..n, i # k
        PROVE  ~Meets(t[i], t[k], bits)
    <3>1. i < k \/ k < i
      BY <2>2
    <3>2. t[k] >= t[i] + bits \/ t[i] >= t[k] + bits
      BY <2>1, <2>2, <3>1
    <3> QED BY <1>3, <3>2 DEF Meets
  <2>3. ASSUME \A i, k \in 1..n : i # k => ~Meets(t[i], t[k], bits)
        PROVE  Disjoint(t, bits)
    <3> SUFFICES ASSUME NEW i \in 2..n PROVE t[i] >= t[i - 1] + bits
      BY DEF Disjoint
    <3>1. i \in 1..n /\ i - 1 \in 1..n /\ i - 1 < i
      BY <1>1
    <3>2. ~Meets(t[i - 1], t[i], bits) /\ t[i - 1] <= t[i]
      BY <1>2, <2>3, <3>1
    <3>3. t[i] \in Int /\ t[i - 1] \in Int
      BY <1>3, <3>1
    <3> QED BY <3>2, <3>3 DEF Meets
  <2> QED BY <2>2, <2>3
<1>6. (\A i, k \in 1..n : i # k => ~Meets(t[i], t[k], bits))
        <=> \A i \in 1..n : \A k \in (1..n) \ {i} : ~Meets(b[i], b[k], bits)
  <2>1. ASSUME \A i, k \in 1..n : i # k => ~Meets(t[i], t[k], bits),
               NEW i \in 1..n, NEW k \in (1..n) \ {i}
        PROVE  ~Meets(b[i], b[k], bits)
    <3>1. PICK u \in 1..n : order[u] = i
      BY <1>2
    <3>2. PICK v \in 1..n : order[v] = k
      BY <1>2
    <3>3. u # v /\ t[u] = b[i] /\ t[v] = b[k]
      BY <3>1, <3>2
    <3> QED BY <2>1, <3>3
  <2>2. ASSUME \A i \in 1..n : \A k \in (1..n) \ {i} : ~Meets(b[i], b[k], bits),
               NEW i \in 1..n, NEW k \in 1..n, i # k
        PROVE  ~Meets(t[i], t[k], bits)
    <3>1. i < k \/ k < i
      BY <2>2
    <3>2. order[i] \in 1..n /\ order[k] \in (1..n) \ {order[i]}
      BY <1>2, <3>1
    <3> QED BY <2>2, <3>2
  <2> QED BY <2>1, <2>2
<1>7. \A limit \in Int : t[n] + bits <= limit <=> \A i \in 1..n : b[i] + bits <= limit
  <2>1. \A i \in 1..n : t[i] <= t[n]
    <3>1. \A i \in 1..n : i = n \/ i < n
      BY <1>1
    <3>2. \A u \in Int : u <= u
      OBVIOUS
    <3> QED BY <1>1, <1>2, <1>3, <3>1, <3>2
  <2>2. \A i \in 1..n : b[i] <= t[n]
    <3> SUFFICES ASSUME NEW i \in 1..n PROVE b[i] <= t[n]
      OBVIOUS
    <3>1. PICK u \in 1..n : order[u] = i
      BY <1>2
    <3> QED BY <2>1, <3>1
  <2>3. t[n] = b[order[n]] /\ order[n] \in 1..n /\ t[n] \in Int
    BY <1>1, <1>2, <1>3
  <2> SUFFICES ASSUME NEW limit \in Int
               PROVE  t[n] + bits <= limit <=> \A i \in 1..n : b[i] + bits <= limit
    OBVIOUS
  <2>4. ASSUME t[n] + bits <= limit, NEW i \in 1..n
        PROVE  b[i] + bits <= limit
    <3>1. b[i] \in Int /\ b[i] <= t[n]
      BY <2>2
    <3> QED BY <2>3, <2>4, <3>1
  <2>5. ASSUME \A i \in 1..n : b[i] + bits <= limit
        PROVE  t[n] + bits <= limit
    BY <2>3, <2>5
  <2> QED BY <2>4, <2>5
<1>8. (\E required \in Bytes(t, bits) : required <= cap)
        <=> /\ Disjoint(t, bits)
            /\ t[n] + bits <= MaxUnsigned /\ t[n] + bits <= 8 * cap
  <2>1. t[n] \in Int /\ t[n] + bits \in Int
    BY <1>1, <1>3
  <2>2. t[n] > MaxUnsigned - bits <=> ~(t[n] + bits <= MaxUnsigned)
    BY <1>4, <2>1
  <2>3. ((t[n] + bits) + 7) \div 8 <= cap <=> t[n] + bits <= 8 * cap
    BY <2>1, WholeBytes
  <2>4. Bytes(t, bits) = IF ~Disjoint(t, bits) \/ t[n] > MaxUnsigned - bits THEN {}
                         ELSE {((t[n] + bits) + 7) \div 8}
    BY DEF Bytes
  <2> QED BY <2>2, <2>3, <2>4
<1>9. 8 * cap \in Int
  OBVIOUS
<1> QED BY <1>4, <1>5, <1>6, <1>7, <1>8, <1>9 DEF LieWithin

\* A buffer of its own is large enough exactly when its elements lie within its
\* bytes, apart from each other.
LEMMA CapacityDecides ==
  ASSUME NEW var, var.kind = "Storage", var.alias = {}, TypeVerify(var.type),
         NEW c, LayoutVerify(c), NEW footprint
  PROVE  CapacityHolds(var, c, footprint)
           <=> /\ IsStorage(c) /\ OutputBoundsHold(c.map, var.type.shape)
               /\ \E bytes \in CapacityBytes(var.type) :
                    FitsApart(c, var.type.shape, var.type.bits, bytes)
<1> DEFINE shape == var.type.shape
           bits == var.type.bits
           n == Product(shape)
           b == Starts(c, shape)
           order == Ordered(KeysOf(n, b))
           values == Values(c.map, shape)
           t == Begins(values)
<1>1. CapacityHolds(var, c, footprint)
        <=> IsStorage(c) /\ \E required \in FootprintBytes(c.map, var.type),
                               capacity \in CapacityBytes(var.type) : required <= capacity
  BY DEF CapacityHolds
<1>2. CASE ~(IsStorage(c) /\ OutputBoundsHold(c.map, shape))
  BY <1>1, <1>2 DEF FootprintBytes
<1>3. CASE IsStorage(c) /\ OutputBoundsHold(c.map, shape)
  <2>1. n \in Positive
    <3>1. shape \in Seq(Int) /\ \A i \in DOMAIN shape : ~(shape[i] <= 0)
      BY <1>3 DEF OutputBoundsHold, PointCount, TypeVerify
    <3>2. IsSequence(shape) /\ \A i \in DOMAIN shape : shape[i] \in Int /\ shape[i] > 0
      BY <3>1 DEF IsSequence
    <3> QED BY <3>2, ProductPositive
  <2>2. bits \in Int /\ bits > 0
    BY DEF TypeVerify
  <2>3. /\ \A k \in 1..n : PointAt(shape, k - 1) \in Points(shape)
        /\ \A k \in 1..n : b[k] = Address(c, PointAt(shape, k - 1))
    BY <2>1, PointsNumbered DEF Starts
  <2>4. /\ \A k \in 1..n : b[k] \in Int
        /\ \A k \in 1..n : \A out \in Evaluate(c.map, PointAt(shape, k - 1)) : Len(out) = 2
    <3> SUFFICES ASSUME NEW k \in 1..n
                 PROVE  /\ b[k] \in Int
                        /\ \A out \in Evaluate(c.map, PointAt(shape, k - 1)) : Len(out) = 2
      OBVIOUS
    <3> HIDE DEF b, n, shape
    <3> QED BY <1>3, <2>3, BoundedValues
  <2>5. /\ IsOrder(n, b, order) /\ IsSequence(t) /\ Len(t) = n
        /\ \A i \in 1..n : t[i] = b[order[i]]
    BY <2>1, <2>4, BeginsAreSorted
  <2> DEFINE BitsHold == \A k \in 1..n : \A out \in Evaluate(c.map, PointAt(shape, k - 1)) :
                           out[2] \in Bits(8)
             Lies(bytes) == \A i \in 1..n :
                              /\ b[i] + bits <= 8 * bytes /\ b[i] + bits <= MaxUnsigned
                              /\ \A k \in (1..n) \ {i} : ~Meets(b[i], b[k], bits)
  <2>6. /\ \A k \in 1..n : k - 1 \in Bits(n)
        /\ \A i \in Bits(n) : i + 1 \in 1..n /\ (i + 1) - 1 = i
    BY <2>1 DEF Bits, Positive
  <2>7. FootprintBytes(c.map, var.type) = IF BitsHold THEN Bytes(t, bits) ELSE {}
    <3>1. values = {<<i, Evaluate(c.map, PointAt(shape, i))>> : i \in Bits(n)}
      BY DEF Values
    <3>2. (\E x \in values : \E out \in x[2] : Len(out) # 2 \/ out[2] \notin Bits(8))
            <=> \E i \in Bits(n) : \E out \in Evaluate(c.map, PointAt(shape, i)) :
                  Len(out) # 2 \/ out[2] \notin Bits(8)
      <4> DEFINE Pair(i) == <<i, Evaluate(c.map, PointAt(shape, i))>>
      <4>1. \A i : Pair(i)[2] = Evaluate(c.map, PointAt(shape, i))
        OBVIOUS
      <4>2. values = {Pair(i) : i \in Bits(n)}
        BY <3>1
      <4> HIDE DEF values, n, Pair
      <4> QED BY <4>1, <4>2
    <3> HIDE DEF values, n, t, b, order
    <3>3. (\E x \in values : \E out \in x[2] : Len(out) # 2 \/ out[2] \notin Bits(8)) <=> ~BitsHold
      BY <2>4, <2>6, <3>2
    <3>4. FootprintBytes(c.map, var.type) = FootprintOf(values, bits)
      BY <1>3 DEF FootprintBytes, values
    <3> HIDE DEF BitsHold
    <3> QED BY <3>3, <3>4 DEF FootprintOf, t
  <2>8. ASSUME NEW bytes \in CapacityBytes(var.type)
        PROVE  (\E required \in Bytes(t, bits) : required <= bytes) <=> Lies(bytes)
    <3>1. bytes \in Int
      BY CapacityIsNumber
    <3>2. AreNumbers(n, b) /\ IsSortOf(n, b, order, t)
      BY <2>4, <2>5 DEF AreNumbers, IsSortOf
    <3> HIDE DEF t, b, order, n, bits, BitsHold, values, shape
    <3>3. (\E required \in Bytes(t, bits) : required <= bytes) <=> LieWithin(n, b, bits, bytes)
      BY ONLY <2>1, <2>2, <3>1, <3>2, BytesDecide
    <3> QED BY <3>3 DEF Lies, LieWithin
  <2>9. ASSUME NEW bytes
        PROVE  FitsApart(c, shape, bits, bytes) <=> BitsHold /\ Lies(bytes)
    <3> DEFINE element(i) == Address(c, PointAt(shape, i))
               Lies0(i) == /\ element(i) + bits <= 8 * bytes /\ element(i) + bits <= MaxUnsigned
                           /\ \A k \in Bits(n) \ {i} : ~Meets(element(i), element(k), bits)
               Lies1(i) == /\ b[i] + bits <= 8 * bytes /\ b[i] + bits <= MaxUnsigned
                           /\ \A k \in (1..n) \ {i} : ~Meets(b[i], b[k], bits)
    <3>1. FitsApart(c, shape, bits, bytes)
            <=> \A i \in Bits(n) : /\ \A out \in Evaluate(c.map, PointAt(shape, i)) : out[2] \in Bits(8)
                                   /\ Lies0(i)
      BY DEF FitsApart
    <3>2. /\ \A k \in 1..n : b[k] = element(k - 1)
          /\ \A i \in Bits(n) : element(i) = b[i + 1]
      <4> HIDE DEF b, n, shape
      <4>1. \A k \in 1..n : b[k] = element(k - 1)
        BY <2>3
      <4> HIDE DEF element
      <4> QED BY <2>6, <4>1
    <3> HIDE DEF element, b, n, bits
    <3>3. ASSUME NEW i \in Bits(n), Lies1(i + 1)
          PROVE  Lies0(i)
      <4>1. element(i) = b[i + 1]
        BY <3>2
      <4>2. \A k \in Bits(n) \ {i} : k + 1 \in (1..n) \ {i + 1} /\ element(k) = b[k + 1]
        BY <2>6, <3>2
      <4> QED BY <3>3, <4>1, <4>2
    <3>4. ASSUME NEW k \in 1..n, Lies0(k - 1)
          PROVE  Lies1(k)
      <4>1. b[k] = element(k - 1)
        BY <3>2
      <4>2. \A i \in (1..n) \ {k} : i - 1 \in Bits(n) \ {k - 1} /\ b[i] = element(i - 1)
        BY <2>6, <3>2
      <4> QED BY <3>4, <4>1, <4>2
    <3> HIDE DEF Lies0, Lies1
    <3>5. (\A i \in Bits(n) : Lies0(i)) <=> \A k \in 1..n : Lies1(k)
      BY <2>6, <3>3, <3>4
    <3>6. (\A i \in Bits(n) : \A out \in Evaluate(c.map, PointAt(shape, i)) : out[2] \in Bits(8))
            <=> BitsHold
      BY <2>6
    <3>7. Lies(bytes) <=> \A k \in 1..n : Lies1(k)
      BY DEF Lies1
    <3> HIDE DEF BitsHold, Lies
    <3> QED BY <3>1, <3>5, <3>6, <3>7
  <2> HIDE DEF BitsHold, Lies, t, values, order, b, n, bits, shape
  <2>10. CapacityHolds(var, c, footprint)
           <=> BitsHold /\ \E bytes \in CapacityBytes(var.type) : Lies(bytes)
    <3>1. (\E required \in FootprintBytes(c.map, var.type), capacity \in CapacityBytes(var.type) :
             required <= capacity)
            <=> \E capacity \in CapacityBytes(var.type) :
                  \E required \in FootprintBytes(c.map, var.type) : required <= capacity
      OBVIOUS
    <3> QED BY <1>1, <1>3, <2>7, <2>8, <3>1
  <2>11. (\E bytes \in CapacityBytes(var.type) : FitsApart(c, shape, bits, bytes))
           <=> BitsHold /\ \E bytes \in CapacityBytes(var.type) : Lies(bytes)
    BY <2>9
  <2> QED BY <1>3, <2>10, <2>11 DEF shape, bits
<1> QED BY <1>2, <1>3

-----------------------------------------------------------------------------
(* The caches of the graph and the answers taken from them.                *)

FootprintsFresh(cache) == \A k \in DOMAIN cache : cache[k] = Fresh(k)
PairFresh(k, proof) == proof = ProveFootprints(Fresh(k[1]), Fresh(k[2]))
PairsFresh(cache) == \A k \in DOMAIN cache : PairFresh(k, cache[k])

\* A question names what may be asked, and its answer is what fresh footprints
\* and fresh proofs give.
RelationAnswered ==
  /\ answer.rel \in DOMAIN Related
  /\ \/ /\ answer.x \in Keys(Related[answer.rel].vars[1])
        /\ answer.y \in Keys(Related[answer.rel].vars[2])
     \/ /\ answer.x \in Keys(Related[answer.rel].vars[2])
        /\ answer.y \in Keys(Related[answer.rel].vars[1])
  /\ answer.holds = Answered(Related[answer.rel], answer.x[1], OfferAt(answer.x), answer.y[1],
                             OfferAt(answer.y), Fresh(answer.x), Fresh(answer.y))
UnaryAnswered ==
  /\ answer.rel \in DOMAIN Required /\ answer.x \in Keys(Required[answer.rel].var)
  /\ answer.holds = UnaryHolds(Required[answer.rel], GraphVars[answer.x[1]], OfferAt(answer.x))
CapacityAnswered ==
  /\ \E v \in DOMAIN GraphVars : answer.x \in Keys(v) /\ GraphVars[v].kind = "Storage"
  /\ answer.holds = CapacityHolds(GraphVars[answer.x[1]], OfferAt(answer.x), Fresh(answer.x))
AnswersInv ==
  /\ FootprintsFresh(footprints) /\ PairsFresh(pairs)
  /\ answer.kind \in {"none", "relation", "unary", "capacity"}
  /\ answer.kind = "relation" => RelationAnswered
  /\ answer.kind = "unary" => UnaryAnswered
  /\ answer.kind = "capacity" => CapacityAnswered

\* Looking keys up keeps a fresh cache fresh, and then has them all.
LEMMA PreparedIsFresh ==
  ASSUME NEW cache, NEW keys, FootprintsFresh(cache)
  PROVE  /\ FootprintsFresh(Prepared(cache, keys))
         /\ \A k \in keys : Prepared(cache, keys)[k] = Fresh(k)
BY DEF FootprintsFresh, Prepared, Fresh

\* The verdict of a relation reads only the footprints that were looked up for it.
LEMMA VerdictReads ==
  ASSUME NEW rel, NEW x, NEW y, NEW cache, NEW proof, NEW fresh,
         \A k \in LookedUp(rel.kind, x, y) : rel.kind # "AliasLayout" => cache[k] = Fresh(k),
         rel.kind = "AliasLayout" => proof = fresh
  PROVE  Compatible(rel, x[1], OfferAt(x), y[1], OfferAt(y), cache[x], cache[y], proof)
           = Compatible(rel, x[1], OfferAt(x), y[1], OfferAt(y), Fresh(x), Fresh(y), fresh)
<1>1. CASE rel.kind = "AliasLayout"
  BY <1>1 DEF Compatible
<1>2. CASE rel.kind = "CopyAccess"
  <2>1. cache[x] = Fresh(x) /\ cache[y] = Fresh(y)
    BY <1>2 DEF LookedUp
  <2> QED BY <1>2, <2>1 DEF Compatible
<1>3. CASE rel.kind = "StorageAccess"
  <2> DEFINE execution == IF IsDistributed(OfferAt(x)) THEN x ELSE y
             storage == IF IsDistributed(OfferAt(x)) THEN y ELSE x
             e == GraphVars[execution[1]]
             s == GraphVars[storage[1]]
  <2>1. CASE IsDistributed(OfferAt(x)) = IsDistributed(OfferAt(y))
    BY <1>3, <2>1 DEF Compatible, AccessCompatible
  <2>2. CASE IsDistributed(OfferAt(x)) # IsDistributed(OfferAt(y))
    <3>1. AccessCompatible(rel, x[1], OfferAt(x), y[1], OfferAt(y), cache[x], cache[y])
                   = AccessHolds(rel, OfferAt(execution), e, s, cache[storage])
      BY <2>2 DEF AccessCompatible
    <3>2. AccessCompatible(rel, x[1], OfferAt(x), y[1], OfferAt(y), Fresh(x), Fresh(y))
            = AccessHolds(rel, OfferAt(execution), e, s, Fresh(storage))
      BY <2>2 DEF AccessCompatible
    <3>3. SameLogicalType(GraphVars[x[1]], GraphVars[y[1]]) = SameLogicalType(e, s)
      BY DEF SameLogicalType
    <3>4. CASE e.execution = {} \/ s.alias = {} \/ ~SameLogicalType(e, s)
      <4>1. AccessHolds(rel, OfferAt(execution), e, s, cache[storage])
              = AccessHolds(rel, OfferAt(execution), e, s, Fresh(storage))
        <5> HIDE DEF e, s, execution, storage
        <5> QED BY <3>4 DEF AccessHolds
      <4> QED BY <1>3, <3>1, <3>2, <4>1 DEF Compatible
    <3>5. CASE ~(e.execution = {} \/ s.alias = {} \/ ~SameLogicalType(e, s))
      <4>1. storage \in LookedUp(rel.kind, x, y)
        BY <1>3, <2>2, <3>3, <3>5 DEF LookedUp
      <4>2. cache[storage] = Fresh(storage)
        BY <1>3, <4>1
      <4> HIDE DEF e, s, execution, storage
      <4> QED BY <1>3, <3>1, <3>2, <4>2 DEF Compatible
    <3> QED BY <3>4, <3>5
  <2> QED BY <2>1, <2>2
<1>4. CASE rel.kind \notin {"AliasLayout", "CopyAccess", "StorageAccess"}
  BY <1>4 DEF Compatible
<1> QED BY <1>1, <1>2, <1>3, <1>4

\* The proof kept for a pair is the one the answer compares with.
LEMMA PairProof ==
  ASSUME NEW x, NEW y
  PROVE  ProveFootprints(Fresh(PairKey(x, y)[1]), Fresh(PairKey(x, y)[2]))
           = ProveFootprints(IF y[1] < x[1] THEN Fresh(y) ELSE Fresh(x),
                             IF y[1] < x[1] THEN Fresh(x) ELSE Fresh(y))
BY DEF PairKey

LEMMA RelationStep ==
  ASSUME AnswersInv, NEW i \in DOMAIN Related, NEW x, NEW y,
         \/ x \in Keys(Related[i].vars[1]) /\ y \in Keys(Related[i].vars[2])
         \/ x \in Keys(Related[i].vars[2]) /\ y \in Keys(Related[i].vars[1]),
         AskRelation(i, x, y)
  PROVE  AnswersInv'
<1> DEFINE rel == Related[i]
           key == PairKey(x, y)
           fresh == rel.kind = "AliasLayout" /\ key \notin DOMAIN pairs
           keys == IF rel.kind = "AliasLayout" /\ ~fresh THEN {} ELSE LookedUp(rel.kind, x, y)
           proof == ProveFootprints(IF y[1] < x[1] THEN Fresh(y) ELSE Fresh(x),
                                    IF y[1] < x[1] THEN Fresh(x) ELSE Fresh(y))
<1>1. /\ footprints' = Prepared(footprints, keys)
      /\ pairs' = IF ~fresh THEN pairs
                  ELSE [k \in DOMAIN pairs \cup {key} |->
                          IF k \in DOMAIN pairs THEN pairs[k]
                          ELSE ProveFootprints(footprints'[key[1]], footprints'[key[2]])]
      /\ answer' = Question("relation", i, x, y,
                            Compatible(rel, x[1], OfferAt(x), y[1], OfferAt(y),
                                       footprints'[x], footprints'[y], pairs'[key]))
  BY DEF AskRelation
<1>2. FootprintsFresh(footprints') /\ \A k \in keys : footprints'[k] = Fresh(k)
  <2> HIDE DEF keys
  <2> QED BY <1>1, PreparedIsFresh DEF AnswersInv
<1>3. fresh => ProveFootprints(footprints'[key[1]], footprints'[key[2]])
                 = ProveFootprints(Fresh(key[1]), Fresh(key[2]))
  <2> SUFFICES ASSUME fresh
               PROVE  footprints'[key[1]] = Fresh(key[1]) /\ footprints'[key[2]] = Fresh(key[2])
    OBVIOUS
  <2>1. keys = {x, y}
    BY DEF LookedUp
  <2>2. key[1] \in {x, y} /\ key[2] \in {x, y}
    BY DEF PairKey
  <2> HIDE DEF keys, key
  <2> QED BY <1>2, <2>1, <2>2
<1>4. PairsFresh(pairs')
  <2> HIDE DEF key
  <2> QED BY <1>1, <1>3 DEF PairsFresh, PairFresh, AnswersInv
<1>5. rel.kind = "AliasLayout" => pairs'[key] = proof
  <2> SUFFICES ASSUME rel.kind = "AliasLayout" PROVE pairs'[key] = proof
    OBVIOUS
  <2>1. key \in DOMAIN pairs'
    <3> HIDE DEF key
    <3> QED BY <1>1
  <2>2. pairs'[key] = ProveFootprints(Fresh(key[1]), Fresh(key[2]))
    BY <1>4, <2>1 DEF PairsFresh, PairFresh
  <2> QED BY <2>2, PairProof
<1>6. rel.kind # "AliasLayout" => keys = LookedUp(rel.kind, x, y)
  OBVIOUS
<1>7. answer'.holds = Answered(rel, x[1], OfferAt(x), y[1], OfferAt(y), Fresh(x), Fresh(y))
  <2>1. Answered(rel, x[1], OfferAt(x), y[1], OfferAt(y), Fresh(x), Fresh(y))
          = Compatible(rel, x[1], OfferAt(x), y[1], OfferAt(y), Fresh(x), Fresh(y), proof)
    BY DEF Answered
  <2>2. answer'.holds = Compatible(rel, x[1], OfferAt(x), y[1], OfferAt(y),
                                   footprints'[x], footprints'[y], pairs'[key])
    <3> HIDE DEF rel, key
    <3> QED BY <1>1 DEF Question
  <2> HIDE DEF rel, key, proof, keys
  <2> QED BY <1>2, <1>5, <1>6, <2>1, <2>2, VerdictReads
<1>8. answer'.kind = "relation" /\ answer'.rel = i /\ answer'.x = x /\ answer'.y = y
  <2> HIDE DEF rel, key
  <2> QED BY <1>1 DEF Question
<1> HIDE DEF proof, keys, key, fresh
<1>9. RelationAnswered'
  BY <1>7, <1>8 DEF RelationAnswered, Keys
<1> QED BY <1>2, <1>4, <1>8, <1>9 DEF AnswersInv

LEMMA CapacityStep ==
  ASSUME AnswersInv, NEW v \in DOMAIN GraphVars, NEW x \in Keys(v), AskCapacity(x)
  PROVE  AnswersInv'
<1> DEFINE var == GraphVars[x[1]]
           keys == IF var.alias = {} THEN {} ELSE {x}
<1>1. /\ footprints' = Prepared(footprints, keys) /\ pairs' = pairs /\ var.kind = "Storage"
      /\ answer' = Question("capacity", 0, x, x, CapacityHolds(var, OfferAt(x), footprints'[x]))
  BY DEF AskCapacity, Looked
<1>2. FootprintsFresh(footprints') /\ \A k \in keys : footprints'[k] = Fresh(k)
  <2> HIDE DEF keys
  <2> QED BY <1>1, PreparedIsFresh DEF AnswersInv
<1>3. CapacityHolds(var, OfferAt(x), footprints'[x]) = CapacityHolds(var, OfferAt(x), Fresh(x))
  <2>1. CASE var.alias = {}
    <3> HIDE DEF var
    <3> QED BY <2>1 DEF CapacityHolds
  <2>2. CASE var.alias # {}
    BY <1>2, <2>2
  <2> QED BY <2>1, <2>2
<1>4. /\ answer'.kind = "capacity" /\ answer'.x = x
      /\ answer'.holds = CapacityHolds(var, OfferAt(x), Fresh(x))
  <2> HIDE DEF var
  <2> QED BY <1>1, <1>3 DEF Question
<1>5. x[1] = v
  BY DEF Keys
<1>6. CapacityAnswered'
  BY <1>1, <1>4, <1>5 DEF CapacityAnswered, Keys
<1> HIDE DEF keys, var
<1> QED BY <1>1, <1>2, <1>4, <1>6 DEF AnswersInv

LEMMA UnaryStep ==
  ASSUME AnswersInv, NEW i \in DOMAIN Required, NEW x \in Keys(Required[i].var), AskUnary(i, x)
  PROVE  AnswersInv'
<1>1. /\ footprints' = footprints /\ pairs' = pairs
      /\ answer' = Question("unary", i, x, x, UnaryHolds(Required[i], GraphVars[x[1]], OfferAt(x)))
  BY DEF AskUnary
<1>2. /\ answer'.kind = "unary" /\ answer'.rel = i /\ answer'.x = x
      /\ answer'.holds = UnaryHolds(Required[i], GraphVars[x[1]], OfferAt(x))
  BY <1>1 DEF Question
<1>3. UnaryAnswered'
  BY <1>2 DEF UnaryAnswered, Keys
<1> QED BY <1>1, <1>2, <1>3 DEF AnswersInv

LEMMA AnswersKept ==
  ASSUME AnswersInv, [PricingNext]_pricingVars
  PROVE  AnswersInv'
<1>1. CASE UNCHANGED questionVars
  BY <1>1 DEF questionVars, AnswersInv, RelationAnswered, UnaryAnswered, CapacityAnswered,
              Keys, FootprintsFresh, PairsFresh
<1>2. CASE QuestionsNext
  <2>1. ASSUME NEW x \in UNION {Askable(v) : v \in DOMAIN GraphVars}, AskCapacity(x)
        PROVE  AnswersInv'
    <3>1. PICK v \in DOMAIN GraphVars : x \in Keys(v)
      BY <2>1 DEF Askable
    <3> QED BY <2>1, <3>1, CapacityStep
  <2>2. ASSUME NEW r \in UNION {{i} \X Askable(Required[i].var) : i \in DOMAIN Required},
               AskUnary(r[1], r[2])
        PROVE  AnswersInv'
    <3>1. PICK i \in DOMAIN Required : r \in {i} \X Askable(Required[i].var)
      OBVIOUS
    <3>2. r[1] = i /\ r[2] \in Keys(Required[i].var)
      BY <3>1 DEF Askable
    <3> QED BY <2>2, <3>2, UnaryStep
  <2>3. ASSUME NEW r \in UNION {{i} \X Askable(Related[i].vars[1]) \X Askable(Related[i].vars[2]) :
                                  i \in {k \in DOMAIN Related : Related[k].kind # "ReductionLayout"}},
               AskRelation(r[1], r[2], r[3]) \/ AskRelation(r[1], r[3], r[2])
        PROVE  AnswersInv'
    <3>1. PICK i \in DOMAIN Related :
            r \in {i} \X Askable(Related[i].vars[1]) \X Askable(Related[i].vars[2])
      OBVIOUS
    <3>2. r[1] = i /\ r[2] \in Keys(Related[i].vars[1]) /\ r[3] \in Keys(Related[i].vars[2])
      BY <3>1 DEF Askable
    <3> QED BY <2>3, <3>2, RelationStep
  <2> QED BY <1>2, <2>1, <2>2, <2>3 DEF QuestionsNext
<1>3. ASSUME NEW v, NEW i, Assign(v, i)
      PROVE  AnswersInv'
  <2>1. PICK keys : Looked(keys) /\ UNCHANGED <<pairs, answer>>
    BY <1>3 DEF Assign
  <2>2. footprints' = Prepared(footprints, keys)
    BY <2>1 DEF Looked
  <2>3. FootprintsFresh(footprints')
    BY <2>2, PreparedIsFresh DEF AnswersInv
  <2> QED BY <2>1, <2>3 DEF AnswersInv, RelationAnswered, UnaryAnswered, CapacityAnswered, Keys
<1> QED BY <1>1, <1>2, <1>3 DEF PricingNext, CostNext, pricingVars, questionVars

\* Caches and answers are at every moment what building and proving again from
\* nothing would give (LayoutRelations.cpp 91-121).
THEOREM AnswersHold == PricingSpec => []AnswersInv
<1>1. PricingInit => AnswersInv
  BY DEF PricingInit, QuestionsInit, AnswersInv, FootprintsFresh, PairsFresh, Question
<1> QED BY <1>1, AnswersKept, PTL DEF PricingSpec

\* What the graph answers does not depend on what it was asked before: a cached
\* footprint or verdict is the one the question would have computed
\* (LayoutRelations.cpp 91-121).
THEOREM AnswersFresh == PricingSpec => []AnswersAreFresh
<1>1. AnswersInv => AnswersAreFresh
  BY DEF AnswersInv, AnswersAreFresh, RelationAnswered, CapacityAnswered, PairsFresh, PairFresh
<1> QED BY <1>1, AnswersHold, PTL

-----------------------------------------------------------------------------
(* The verdicts of the graph.                                              *)

\* What the graph knows of an offer it keeps.
LEMMA OfferVerifies ==
  ASSUME NEW v \in DOMAIN GraphVars, NEW x \in Keys(v)
  PROVE  /\ x[1] = v /\ LayoutVerify(OfferAt(x))
         /\ Fresh(x) = AliasFootprint(v, OfferAt(x))
<1>1. PICK i \in DOMAIN Offers[v] : x = <<v, i>>
  BY DEF Keys
<1>2. x[1] = v /\ x[2] = i /\ OfferAt(x) = Offers[v][i]
  BY <1>1 DEF OfferAt
<1>3. Fresh(x) = AliasFootprint(v, Offers[v][i])
  BY <1>2 DEF Fresh, OfferedFootprints
<1> QED BY <1>2, <1>3, VariablesAssumption

\* The footprint of an offer, when there is a view it could be one of.
LEMMA OfferFootprint ==
  ASSUME NEW v \in DOMAIN GraphVars, NEW c, NEW info \in GraphVars[v].alias
  PROVE  /\ TypeVerify(info.viewType) /\ GraphVars[v].alias = {info}
         /\ info.viewType.shape = GraphVars[v].shape /\ info.viewType.bits = GraphVars[v].bits
         /\ IsStorage(c) => AliasFootprint(v, c) = BuildFootprint(info, c)
<1>1. GraphVars[v].alias = {info}
  BY VariablesAssumption
<1>2. (CHOOSE i \in GraphVars[v].alias : TRUE) = info
  BY <1>1
<1> QED BY <1>1, <1>2, VariablesAssumption DEF AliasFootprint, SameLogicalType

LEMMA NoFootprint ==
  ASSUME NEW v, NEW c, GraphVars[v].alias = {} \/ ~IsStorage(c)
  PROVE  AliasFootprint(v, c).proof # Proven
BY DEF AliasFootprint, Unknown, Proven, Verdict

\* The proof about two offers, in either order of them.
LEMMA OffersAgree ==
  ASSUME NEW v \in DOMAIN GraphVars, NEW x \in Keys(v),
         NEW w \in DOMAIN GraphVars, NEW y \in Keys(w)
  PROVE  ProveFootprints(Fresh(x), Fresh(y)) = Proven
           <=> \E l \in GraphVars[v].alias, r \in GraphVars[w].alias :
                 ShareTheRoot(l, OfferAt(x), r, OfferAt(y))
<1> DEFINE a == OfferAt(x)
           b == OfferAt(y)
           Fitting2 == /\ GraphVars[v].alias # {} /\ GraphVars[w].alias # {}
                       /\ IsStorage(a) /\ IsStorage(b)
<1>1. /\ LayoutVerify(a) /\ LayoutVerify(b)
      /\ Fresh(x) = AliasFootprint(v, a) /\ Fresh(y) = AliasFootprint(w, b)
  BY OfferVerifies
<1> HIDE DEF a, b
<1>2. CASE ~Fitting2
  <2>1. Fresh(x).proof # Proven \/ Fresh(y).proof # Proven
    BY <1>1, <1>2, NoFootprint
  <2>2. ProveFootprints(Fresh(x), Fresh(y)) # Proven
    BY <2>1 DEF ProveFootprints, Unknown, Disproven, Proven, Verdict
  <2>3. ~\E l \in GraphVars[v].alias, r \in GraphVars[w].alias : ShareTheRoot(l, a, r, b)
    BY <1>2 DEF ShareTheRoot, BothFit
  <2> QED BY <2>2, <2>3 DEF a, b
<1>3. CASE Fitting2
  <2>1. PICK l \in GraphVars[v].alias, r \in GraphVars[w].alias : TRUE
    BY <1>3
  <2>2. /\ TypeVerify(l.viewType) /\ GraphVars[v].alias = {l}
        /\ AliasFootprint(v, a) = BuildFootprint(l, a)
    BY <1>3, OfferFootprint
  <2>3. /\ TypeVerify(r.viewType) /\ GraphVars[w].alias = {r}
        /\ AliasFootprint(w, b) = BuildFootprint(r, b)
    BY <1>3, OfferFootprint
  <2>4. ProveFootprints(Fresh(x), Fresh(y)) = Proven <=> ShareTheRoot(l, a, r, b)
    <3>1. ProveFootprints(BuildFootprint(l, a), BuildFootprint(r, b)) = Proven
            <=> ShareTheRoot(l, a, r, b)
      BY <1>1, <1>3, <2>2, <2>3, FootprintsAgree
    <3> QED BY <1>1, <2>2, <2>3, <3>1
  <2>5. (\E k \in GraphVars[v].alias, m \in GraphVars[w].alias : ShareTheRoot(k, a, m, b))
          <=> ShareTheRoot(l, a, r, b)
    BY <2>2, <2>3
  <2> QED BY <2>4, <2>5 DEF a, b
<1> QED BY <1>2, <1>3

LEMMA OffersAgreeEitherWay ==
  ASSUME NEW v \in DOMAIN GraphVars, NEW x \in Keys(v),
         NEW w \in DOMAIN GraphVars, NEW y \in Keys(w)
  PROVE  (\E l \in GraphVars[v].alias, r \in GraphVars[w].alias :
            ShareTheRoot(l, OfferAt(x), r, OfferAt(y)))
           <=> \E r \in GraphVars[w].alias, l \in GraphVars[v].alias :
                 ShareTheRoot(r, OfferAt(y), l, OfferAt(x))
<1>1. LayoutVerify(OfferAt(x)) /\ LayoutVerify(OfferAt(y))
  BY OfferVerifies
<1>2. /\ \A l \in GraphVars[v].alias : TypeVerify(l.viewType)
      /\ \A r \in GraphVars[w].alias : TypeVerify(r.viewType)
  BY OfferFootprint
<1> QED BY <1>1, <1>2, SharingIsSymmetric

\* The verdict of a relation between views, as AnswersInv has it.
LEMMA RelationsJudged ==
  ASSUME NEW rel, NEW v \in DOMAIN GraphVars, NEW x \in Keys(v),
         NEW w \in DOMAIN GraphVars, NEW y \in Keys(w), NEW holds,
         holds = Answered(rel, x[1], OfferAt(x), y[1], OfferAt(y), Fresh(x), Fresh(y))
  PROVE  /\ rel.kind = "AliasLayout" =>
              (holds <=> \E l \in GraphVars[v].alias, r \in GraphVars[w].alias :
                           ShareTheRoot(l, OfferAt(x), r, OfferAt(y)))
         /\ rel.kind = "CopyAccess" =>
              (holds <=> /\ SameLogicalType(GraphVars[v], GraphVars[w])
                         /\ \E l \in GraphVars[v].alias, r \in GraphVars[w].alias :
                              CopyKeepsApart(l, OfferAt(x), r, OfferAt(y)))
<1> DEFINE a == OfferAt(x)
           b == OfferAt(y)
<1>1. /\ x[1] = v /\ LayoutVerify(a) /\ Fresh(x) = AliasFootprint(v, a)
      /\ y[1] = w /\ LayoutVerify(b) /\ Fresh(y) = AliasFootprint(w, b)
  BY OfferVerifies
<1>2. ASSUME rel.kind = "AliasLayout"
      PROVE  holds <=> \E l \in GraphVars[v].alias, r \in GraphVars[w].alias :
                         ShareTheRoot(l, OfferAt(x), r, OfferAt(y))
  <2>1. holds = (ProveFootprints(IF w < v THEN Fresh(y) ELSE Fresh(x),
                                 IF w < v THEN Fresh(x) ELSE Fresh(y)) = Proven)
    BY <1>1, <1>2 DEF Answered, Compatible
  <2>2. CASE w < v
    <3>1. holds <=> ProveFootprints(Fresh(y), Fresh(x)) = Proven
      BY <2>1, <2>2
    <3> QED BY <3>1, OffersAgree, OffersAgreeEitherWay
  <2>3. CASE ~(w < v)
    <3>1. holds <=> ProveFootprints(Fresh(x), Fresh(y)) = Proven
      BY <2>1, <2>3
    <3> QED BY <3>1, OffersAgree
  <2> QED BY <2>2, <2>3
<1> HIDE DEF a, b
<1>3. ASSUME rel.kind = "CopyAccess"
      PROVE  holds <=> /\ SameLogicalType(GraphVars[v], GraphVars[w])
                       /\ \E l \in GraphVars[v].alias, r \in GraphVars[w].alias :
                            CopyKeepsApart(l, a, r, b)
  <2>1. holds = /\ SameLogicalType(GraphVars[v], GraphVars[w])
                /\ GraphVars[v].alias # {} /\ GraphVars[w].alias # {}
                /\ CopyCompatible(Fresh(x), Fresh(y))
    BY <1>1, <1>3 DEF Answered, Compatible
  <2>2. CASE /\ SameLogicalType(GraphVars[v], GraphVars[w])
             /\ GraphVars[v].alias # {} /\ GraphVars[w].alias # {}
    <3>1. PICK l \in GraphVars[v].alias, r \in GraphVars[w].alias : TRUE
      BY <2>2
    <3>2. /\ TypeVerify(l.viewType) /\ GraphVars[v].alias = {l}
          /\ l.viewType.shape = GraphVars[v].shape /\ l.viewType.bits = GraphVars[v].bits
          /\ IsStorage(a) => AliasFootprint(v, a) = BuildFootprint(l, a)
      BY OfferFootprint
    <3>3. /\ TypeVerify(r.viewType) /\ GraphVars[w].alias = {r}
          /\ r.viewType.shape = GraphVars[w].shape /\ r.viewType.bits = GraphVars[w].bits
          /\ IsStorage(b) => AliasFootprint(w, b) = BuildFootprint(r, b)
      BY OfferFootprint
    <3>4. l.viewType.shape = r.viewType.shape /\ l.viewType.bits = r.viewType.bits
      BY <2>2, <3>2, <3>3 DEF SameLogicalType
    <3>5. CopyCompatible(Fresh(x), Fresh(y)) <=> CopyKeepsApart(l, a, r, b)
      <4>1. CASE IsStorage(a) /\ IsStorage(b)
        <5>1. CopyCompatible(BuildFootprint(l, a), BuildFootprint(r, b)) <=> CopyKeepsApart(l, a, r, b)
          BY <1>1, <3>2, <3>3, <3>4, <4>1, CopyDecides
        <5> QED BY <1>1, <3>2, <3>3, <4>1, <5>1
      <4>2. CASE ~(IsStorage(a) /\ IsStorage(b))
        <5>1. Fresh(x).proof # Proven \/ Fresh(y).proof # Proven
          BY <1>1, <4>2, NoFootprint
        <5> QED BY <4>2, <5>1 DEF CopyCompatible, CopyKeepsApart, BothFit
      <4> QED BY <4>1, <4>2
    <3>6. (\E k \in GraphVars[v].alias, m \in GraphVars[w].alias : CopyKeepsApart(k, a, m, b))
            <=> CopyKeepsApart(l, a, r, b)
      BY <3>2, <3>3
    <3> QED BY <2>1, <2>2, <3>5, <3>6
  <2>3. CASE ~(/\ SameLogicalType(GraphVars[v], GraphVars[w])
               /\ GraphVars[v].alias # {} /\ GraphVars[w].alias # {})
    BY <2>1, <2>3
  <2> QED BY <2>2, <2>3
<1> QED BY <1>2, <1>3 DEF a, b

\* The verdict on the contract of a root.
LEMMA ContractsJudged ==
  ASSUME NEW i \in DOMAIN Required, Required[i].kind = "RootStorageContract",
         NEW x \in Keys(Required[i].var), NEW holds,
         holds = UnaryHolds(Required[i], GraphVars[x[1]], OfferAt(x))
  PROVE  holds <=> \E info \in GraphVars[x[1]].alias :
                     ShareTheRoot(Required[i].contract.info, Required[i].contract.layout,
                                  info, OfferAt(x))
<1> DEFINE v == Required[i].var
           known == Required[i].contract
           c == OfferAt(x)
<1>1. /\ v \in DOMAIN GraphVars
      /\ TypeVerify(known.info.viewType) /\ IsStorage(known.layout) /\ LayoutVerify(known.layout)
  BY ConstraintsAssumption
<1>2. x[1] = v /\ LayoutVerify(c)
  BY <1>1, OfferVerifies
<1>3. holds = \E info \in GraphVars[v].alias : ContractHolds(known, info, c)
  BY <1>2 DEF UnaryHolds
<1> HIDE DEF v, known, c
<1>4. ASSUME NEW info \in GraphVars[v].alias
      PROVE  ContractHolds(known, info, c) <=> ShareTheRoot(known.info, known.layout, info, c)
  <2>1. TypeVerify(info.viewType)
    BY <1>1, OfferFootprint
  <2>2. CASE ~IsStorage(c)
    BY <2>2 DEF ContractHolds, ShareTheRoot, BothFit
  <2>3. CASE IsStorage(c)
    <3>1. ProveFootprints(BuildFootprint(known.info, known.layout), BuildFootprint(info, c)) = Proven
            <=> ShareTheRoot(known.info, known.layout, info, c)
      BY <1>1, <1>2, <2>1, <2>3, FootprintsAgree
    <3> QED BY <2>3, <3>1 DEF ContractHolds, ShareTheRoot
  <2> QED BY <2>2, <2>3
<1> QED BY <1>2, <1>3, <1>4 DEF v, known, c

\* Every conflict between views is found, and none is reported that is not one:
\* one pass over two sorted footprints (LayoutAliasAnalysis.cpp 500-506) and one
\* over the elements of a buffer (FriskLayoutAttrs.cpp 1439-1446) decide what the
\* comparison of all pairs of points would.
THEOREM ConflictsFound == PricingSpec => []ConflictsAreFound
<1>1. ASSUME AnswersInv
      PROVE  ConflictsAreFound
  <2>1. RelationJudged(answer.x, answer.y)
    <3>1. CASE answer.kind = "relation"
      <4>1. RelationAnswered /\ Kind = Related[answer.rel].kind
        BY <1>1, <3>1 DEF AnswersInv, Kind
      <4>2. PICK v \in DOMAIN GraphVars, w \in DOMAIN GraphVars :
              answer.x \in Keys(v) /\ answer.y \in Keys(w)
        BY <4>1, ConstraintsAssumption DEF RelationAnswered
      <4>3. answer.x[1] = v /\ answer.y[1] = w
        BY <4>2, OfferVerifies
      <4>4. answer.holds = Answered(Related[answer.rel], answer.x[1], OfferAt(answer.x), answer.y[1],
                                    OfferAt(answer.y), Fresh(answer.x), Fresh(answer.y))
        BY <4>1 DEF RelationAnswered
      <4>5. /\ Related[answer.rel].kind = "AliasLayout" =>
                 (answer.holds <=> \E l \in GraphVars[v].alias, r \in GraphVars[w].alias :
                                     ShareTheRoot(l, OfferAt(answer.x), r, OfferAt(answer.y)))
            /\ Related[answer.rel].kind = "CopyAccess" =>
                 (answer.holds <=> /\ SameLogicalType(GraphVars[v], GraphVars[w])
                                   /\ \E l \in GraphVars[v].alias, r \in GraphVars[w].alias :
                                        CopyKeepsApart(l, OfferAt(answer.x), r, OfferAt(answer.y)))
        BY <4>2, <4>4, RelationsJudged
      <4> QED BY <4>1, <4>3, <4>5 DEF RelationJudged
    <3>2. CASE answer.kind # "relation"
      BY <1>1, <3>2 DEF AnswersInv, RelationJudged, Kind
    <3> QED BY <3>1, <3>2
  <2>2. ASSUME answer.kind = "unary", Required[answer.rel].kind = "RootStorageContract"
        PROVE  ContractJudged(answer.x, Required[answer.rel].contract)
    BY <1>1, <2>2, ContractsJudged DEF AnswersInv, UnaryAnswered, ContractJudged
  <2>3. ASSUME answer.kind = "capacity", GraphVars[answer.x[1]].alias = {}
        PROVE  CapacityJudged(answer.x, GraphVars[answer.x[1]])
    <3>1. PICK v \in DOMAIN GraphVars : answer.x \in Keys(v) /\ GraphVars[v].kind = "Storage"
      BY <1>1, <2>3 DEF AnswersInv, CapacityAnswered
    <3>2. answer.x[1] = v /\ LayoutVerify(OfferAt(answer.x)) /\ TypeVerify(GraphVars[v].type)
      BY <3>1, OfferVerifies, VariablesAssumption
    <3>3. answer.holds = CapacityHolds(GraphVars[v], OfferAt(answer.x), Fresh(answer.x))
      BY <1>1, <2>3, <3>2 DEF AnswersInv, CapacityAnswered
    <3> QED BY <2>3, <3>1, <3>2, <3>3, CapacityDecides DEF CapacityJudged
  <2> QED BY <2>1, <2>2, <2>3 DEF ConflictsAreFound
<1> QED BY <1>1, AnswersHold, PTL

-----------------------------------------------------------------------------
(* Sums of charges that stop at the largest count.                         *)

IsCost(e) == e.cost \in [Fields -> Nat] /\ e.saturated \in BOOLEAN
Estimates == [cost : [Fields -> Nat], saturated : BOOLEAN]
\* The estimate of such numbers, some of which have been stopped before.
Sums(e, n, flag) ==
  e = Estimate([f \in Fields |-> Stopped(n[f])], flag \/ \E f \in Fields : n[f] > MaxCost)

LEMMA StoppedIs ==
  ASSUME NEW n \in Nat
  PROVE  /\ Stopped(n) \in Nat /\ Stopped(n) <= MaxCost
         /\ n <= MaxCost => Stopped(n) = n
         /\ n > MaxCost => Stopped(n) = MaxCost
<1>1. MaxCost \in Nat
  BY CountsAssumption
<1>2. PICK m \in {n, MaxCost} : \A y \in {n, MaxCost} : m <= y
  BY <1>1
<1>3. Stopped(n) \in {n, MaxCost} /\ \A y \in {n, MaxCost} : Stopped(n) <= y
  BY <1>2 DEF Stopped, Min
<1> QED BY <1>1, <1>3

\* One charge more.
LEMMA AddSums ==
  ASSUME NEW n \in [Fields -> Nat], NEW flag \in BOOLEAN, NEW e, Sums(e, n, flag),
         NEW d, IsCost(d)
  PROVE  Sums(AddCosts(d, e), [f \in Fields |-> n[f] + d.cost[f]], flag \/ d.saturated)
<1> DEFINE m == [f \in Fields |-> n[f] + d.cost[f]]
           Sum9(f) == Plus(Known(d.cost[f]), Known(e.cost[f]))
           over == \E f \in Fields : n[f] > MaxCost
<1>1. MaxCost \in Nat
  BY CountsAssumption
<1>2. e.cost = [f \in Fields |-> Stopped(n[f])] /\ e.saturated = (flag \/ over)
  BY DEF Sums, Estimate
<1>3. ASSUME NEW f \in Fields
      PROVE  /\ Sum9(f).value = Stopped(m[f])
             /\ Sum9(f).saturated \/ n[f] > MaxCost <=> m[f] > MaxCost
  <2>1. n[f] \in Nat /\ d.cost[f] \in Nat /\ m[f] = n[f] + d.cost[f] /\ m[f] \in Nat
    BY DEF IsCost
  <2>2. e.cost[f] = Stopped(n[f])
    BY <1>2
  <2>3. /\ Sum9(f).value = Stopped(d.cost[f] + Stopped(n[f]))
        /\ Sum9(f).saturated <=> d.cost[f] > MaxCost - Stopped(n[f])
    BY <2>2 DEF Plus, Known, Count
  <2>4. /\ Stopped(n[f]) \in Nat /\ Stopped(n[f]) <= MaxCost
        /\ n[f] <= MaxCost => Stopped(n[f]) = n[f]
        /\ n[f] > MaxCost => Stopped(n[f]) = MaxCost
    BY <2>1, StoppedIs
  <2> HIDE DEF m, Sum9
  <2>5. CASE n[f] <= MaxCost
    BY <1>1, <2>1, <2>3, <2>4, <2>5
  <2>6. CASE n[f] > MaxCost
    <3>1. d.cost[f] + Stopped(n[f]) \in Nat /\ d.cost[f] + Stopped(n[f]) >= MaxCost
      BY <1>1, <2>1, <2>4, <2>6
    <3>2. Stopped(d.cost[f] + Stopped(n[f])) = MaxCost
      BY <1>1, <3>1, StoppedIs
    <3>3. m[f] > MaxCost /\ Stopped(m[f]) = MaxCost
      BY <1>1, <2>1, <2>6, StoppedIs
    <3> QED BY <2>3, <2>6, <3>2, <3>3
  <2> QED BY <1>1, <2>1, <2>5, <2>6
<1>4. AddCosts(d, e) = Estimate([f \in Fields |-> Sum9(f).value],
                                d.saturated \/ e.saturated \/ \E f \in Fields : Sum9(f).saturated)
  BY DEF AddCosts
<1> HIDE DEF m, Sum9, over
<1>5. [f \in Fields |-> Sum9(f).value] = [f \in Fields |-> Stopped(m[f])]
  BY <1>3
<1>6. over <=> \E f \in Fields : n[f] > MaxCost
  BY DEF over
<1>7. (d.saturated \/ e.saturated \/ \E f \in Fields : Sum9(f).saturated)
        <=> ((flag \/ d.saturated) \/ \E f \in Fields : m[f] > MaxCost)
  BY <1>2, <1>3, <1>6
<1>8. (d.saturated \/ e.saturated \/ \E f \in Fields : Sum9(f).saturated)
        = ((flag \/ d.saturated) \/ \E f \in Fields : m[f] > MaxCost)
  BY <1>7
<1> QED BY <1>4, <1>5, <1>8 DEF Sums, m

LEMMA SumsAreEstimates ==
  ASSUME NEW n \in [Fields -> Nat], NEW flag \in BOOLEAN, NEW e, Sums(e, n, flag)
  PROVE  e \in Estimates
<1>1. \A f \in Fields : Stopped(n[f]) \in Nat
  BY StoppedIs
<1> QED BY <1>1 DEF Sums, Estimate, Estimates

LEMMA AddIn ==
  ASSUME NEW d, IsCost(d), NEW e \in Estimates
  PROVE  AddCosts(d, e) \in Estimates
<1> DEFINE Sum9(f) == Plus(Known(d.cost[f]), Known(e.cost[f]))
<1>1. ASSUME NEW f \in Fields
      PROVE  Sum9(f).value \in Nat /\ Sum9(f).saturated \in BOOLEAN
  <2>1. d.cost[f] \in Nat /\ e.cost[f] \in Nat
    BY DEF IsCost, Estimates
  <2>2. Stopped(d.cost[f] + e.cost[f]) \in Nat
    BY <2>1, StoppedIs
  <2> QED BY <2>1, <2>2 DEF Plus, Known, Count
<1>2. AddCosts(d, e) = Estimate([f \in Fields |-> Sum9(f).value],
                                d.saturated \/ e.saturated \/ \E f \in Fields : Sum9(f).saturated)
  BY DEF AddCosts
<1> HIDE DEF Sum9
<1> QED BY <1>1, <1>2 DEF Estimates, Estimate, IsCost

AreCharges(charges) == IsFiniteSet(DOMAIN charges) /\ \A x \in DOMAIN charges : IsCost(charges[x])
FieldOf(charges, f) == [x \in DOMAIN charges |-> charges[x].cost[f]]
\* The sums of the charges of some, field by field.
SumsOf(n, charges, S) == [f \in Fields |-> n[f] + SumFunctionOnSet(FieldOf(charges, f), S)]

\* The total of charges, as a recursion over what is left of them.
TotalRecursions(start, charges) ==
  {g \in [SUBSET DOMAIN charges -> Estimates] :
     /\ Total(start, charges) = g[DOMAIN charges] /\ g[{}] = start
     /\ \A s \in SUBSET DOMAIN charges : s # {} =>
          \E x \in s : g[s] = AddCosts(charges[x], g[s \ {x}])}
LEMMA TotalRecursion ==
  ASSUME NEW charges, AreCharges(charges), NEW start \in Estimates
  PROVE  TotalRecursions(start, charges) # {}
<1> DEFINE D == DOMAIN charges
           c(s) == CHOOSE x \in s : TRUE
           pick == [s \in SUBSET D |-> c(s)]
           h == [p \in D \X Estimates |-> AddCosts(charges[p[1]], p[2])]
           It == CHOOSE g : g = [s \in SUBSET D |->
                   IF s = {} THEN start ELSE AddCosts(charges[c(s)], g[s \ {c(s)}])]
<1>1. Total(start, charges) = It[D]
  BY DEF Total, FoldFunction, FoldFunctionOnSet, MapThenFoldSet
<1>2. \A x \in D, v \in Estimates :
        h[<<x, v>>] = AddCosts(charges[x], v) /\ AddCosts(charges[x], v) \in Estimates
  BY AddIn DEF AreCharges
<1>3. \A s \in SUBSET D : s # {} => c(s) \in s /\ pick[s] = c(s)
  OBVIOUS
<1> HIDE DEF It
<1>4. PICK g \in [SUBSET D -> Estimates] : \A s \in SUBSET D :
        g[s] = IF s = {} THEN start ELSE h[<<pick[s], g[s \ {pick[s]}]>>]
  <2>1. IsFiniteSet(D)
    BY DEF AreCharges
  <2>2. RecursionData(D, Estimates, start, pick, h)
    <3> HIDE DEF D, pick, h, c
    <3> QED BY <1>2, <1>3, <2>1 DEF RecursionData
  <2> HIDE DEF D, pick, h, c
  <2>3. RecursionOn(D, Estimates, start, pick, h) # {}
    BY <2>2, RecursionDefines
  <2> QED BY <2>3 DEF RecursionOn
<1>5. \A s \in SUBSET D : g[s] = IF s = {} THEN start ELSE AddCosts(charges[c(s)], g[s \ {c(s)}])
  <2> SUFFICES ASSUME NEW s \in SUBSET D, s # {}
               PROVE  g[s] = AddCosts(charges[c(s)], g[s \ {c(s)}])
    BY <1>4
  <2>1. pick[s] = c(s) /\ c(s) \in D /\ s \ {c(s)} \in SUBSET D
    BY <1>3
  <2> HIDE DEF pick, h, c, D
  <2>2. g[s \ {c(s)}] \in Estimates
    BY <2>1
  <2> QED BY <1>2, <1>4, <2>1, <2>2
<1>6. g = [s \in SUBSET D |-> IF s = {} THEN start ELSE AddCosts(charges[c(s)], g[s \ {c(s)}])]
  <2> HIDE DEF c, D
  <2> QED BY <1>5
<1>7. It = [s \in SUBSET D |-> IF s = {} THEN start ELSE AddCosts(charges[c(s)], It[s \ {c(s)}])]
  <2> HIDE DEF c, D
  <2> QED BY <1>6 DEF It
<1>8. \A s \in SUBSET D : It[s] = IF s = {} THEN start ELSE AddCosts(charges[c(s)], It[s \ {c(s)}])
  <2> HIDE DEF c, D
  <2> QED BY <1>7
<1>9. \A s \in SUBSET D : It[s] = g[s]
  <2> DEFINE F == {s \in SUBSET D : It[s] # g[s]}
  <2> SUFFICES ASSUME F # {} PROVE FALSE
    <3> HIDE DEF D, c
    <3> QED OBVIOUS
  <2>1. PICK s \in F : \A t \in F : t \subseteq s => t = s
    <3>1. F \in SUBSET (SUBSET D) /\ IsFiniteSet(D)
      BY DEF AreCharges
    <3> HIDE DEF F, D
    <3> QED BY <3>1, MinimalMember
  <2>2. s \in SUBSET D /\ It[s] # g[s]
    BY <2>1
  <2>3. s # {}
    <3> HIDE DEF c, D
    <3> QED BY <1>5, <1>8, <2>2
  <2>4. c(s) \in s /\ s \ {c(s)} \in SUBSET D /\ s \ {c(s)} # s
    BY <1>3, <2>2, <2>3
  <2>5. It[s \ {c(s)}] = g[s \ {c(s)}]
    <3>1. s \ {c(s)} \notin F
      <4> HIDE DEF F, c, D
      <4> QED BY <2>1, <2>4
    <3> HIDE DEF c, D
    <3> QED BY <2>4, <3>1
  <2> HIDE DEF F, c, D
  <2> QED BY <1>5, <1>8, <2>2, <2>3, <2>5
<1>10. \A s \in SUBSET D : s # {} => \E x \in s : g[s] = AddCosts(charges[x], g[s \ {x}])
  <2> HIDE DEF c, D
  <2> QED BY <1>3, <1>5
<1>11. {} \in SUBSET D /\ D \in SUBSET D
  OBVIOUS
<1>12. g[{}] = start /\ Total(start, charges) = g[D]
  <2> HIDE DEF c, D
  <2> QED BY <1>1, <1>5, <1>9, <1>11
<1>13. g \in TotalRecursions(start, charges)
  <2> HIDE DEF c
  <2> QED BY <1>10, <1>12 DEF TotalRecursions
<1> QED BY <1>13

\* Whether one of these charges has been stopped.
SomeStopped(charges, S) == \E x \in S : charges[x].saturated

LEMMA SumsOfNumbers ==
  ASSUME NEW charges, AreCharges(charges), NEW n \in [Fields -> Nat], NEW S \in SUBSET DOMAIN charges
  PROVE  SumsOf(n, charges, S) \in [Fields -> Nat]
<1>1. ASSUME NEW f \in Fields
      PROVE  n[f] + SumFunctionOnSet(FieldOf(charges, f), S) \in Nat
  <2>1. IsFiniteSet(S)
    BY FS_Subset DEF AreCharges
  <2>2. \A x \in S : FieldOf(charges, f)[x] \in Nat
    BY DEF FieldOf, AreCharges, IsCost
  <2>3. SumFunctionOnSet(FieldOf(charges, f), S) \in Nat
    BY <2>1, <2>2, SumNat
  <2> QED BY <2>3
<1> QED BY <1>1 DEF SumsOf

\* The total of charges is the stopped sum of them.
LEMMA TotalSums ==
  ASSUME NEW charges, AreCharges(charges), NEW n \in [Fields -> Nat], NEW flag \in BOOLEAN,
         NEW start, Sums(start, n, flag)
  PROVE  Sums(Total(start, charges), SumsOf(n, charges, DOMAIN charges),
              flag \/ SomeStopped(charges, DOMAIN charges))
<1> DEFINE D == DOMAIN charges
           flagOf(s) == flag \/ SomeStopped(charges, s)
<1>1. start \in Estimates
  BY SumsAreEstimates
<1>2. PICK g \in [SUBSET D -> Estimates] :
        /\ Total(start, charges) = g[D] /\ g[{}] = start
        /\ \A s \in SUBSET D : s # {} => \E x \in s : g[s] = AddCosts(charges[x], g[s \ {x}])
  <2>1. TotalRecursions(start, charges) # {}
    BY <1>1, TotalRecursion
  <2> QED BY <2>1 DEF TotalRecursions
<1> DEFINE F == {s \in SUBSET D : ~Sums(g[s], SumsOf(n, charges, s), flagOf(s))}
<1>3. F = {}
  <2> SUFFICES ASSUME F # {} PROVE FALSE
    OBVIOUS
  <2>1. PICK s \in F : \A t \in F : t \subseteq s => t = s
    <3>1. F \in SUBSET (SUBSET D) /\ IsFiniteSet(D)
      BY DEF AreCharges
    <3> HIDE DEF F, D
    <3> QED BY <3>1, MinimalMember
  <2>2. s \in SUBSET D /\ ~Sums(g[s], SumsOf(n, charges, s), flagOf(s))
    BY <2>1
  <2>3. CASE s = {}
    <3>1. ASSUME NEW f \in Fields
          PROVE  n[f] + SumFunctionOnSet(FieldOf(charges, f), {}) = n[f]
      <4>1. SumFunctionOnSet(FieldOf(charges, f), {}) = 0
        BY FS_EmptySet, SumStep
      <4> QED BY <4>1
    <3>2. SumsOf(n, charges, {}) = n
      <4>1. SumsOf(n, charges, {}) = [f \in Fields |-> n[f] + SumFunctionOnSet(FieldOf(charges, f), {})]
        BY DEF SumsOf
      <4>2. [f \in Fields |-> n[f] + SumFunctionOnSet(FieldOf(charges, f), {})] = [f \in Fields |-> n[f]]
        BY <3>1
      <4> QED BY <4>1, <4>2
    <3>3. flagOf({}) = flag
      BY DEF SomeStopped
    <3> HIDE DEF F, D, flagOf
    <3> QED BY <1>2, <2>2, <2>3, <3>2, <3>3
  <2>4. CASE s # {}
    <3>1. PICK x \in s : g[s] = AddCosts(charges[x], g[s \ {x}])
      BY <1>2, <2>2, <2>4
    <3> DEFINE r == s \ {x}
               m == SumsOf(n, charges, r)
    <3>2. r \in SUBSET D /\ r \subseteq s /\ r # s /\ x \in D
      BY <2>2
    <3>3. Sums(g[r], m, flagOf(r))
      <4>1. r \notin F
        <5> HIDE DEF F, D, r
        <5> QED BY <2>1, <3>2
      <4> HIDE DEF D, flagOf, r, m
      <4> QED BY <3>2, <4>1 DEF m
    <3>4. m \in [Fields -> Nat] /\ flagOf(r) \in BOOLEAN
      BY <3>2, SumsOfNumbers
    <3>5. IsCost(charges[x])
      BY <3>2 DEF AreCharges
    <3>6. Sums(AddCosts(charges[x], g[r]), [f \in Fields |-> m[f] + charges[x].cost[f]],
               flagOf(r) \/ charges[x].saturated)
      <4> HIDE DEF m, flagOf, r
      <4> QED BY <3>3, <3>4, <3>5, AddSums
    <3>7. ASSUME NEW f \in Fields
          PROVE  m[f] + charges[x].cost[f] = SumsOf(n, charges, s)[f]
      <4> DEFINE h == FieldOf(charges, f)
      <4>1. IsFiniteSet(s)
        BY <2>2, FS_Subset DEF AreCharges
      <4>2. \A y \in s : h[y] \in Int
        BY <2>2 DEF FieldOf, AreCharges, IsCost
      <4>3. h[x] = charges[x].cost[f]
        BY <3>2 DEF FieldOf
      <4> HIDE DEF h
      <4>4. SumFunctionOnSet(h, s) = h[x] + SumFunctionOnSet(h, r)
        BY <4>1, <4>2, SumRemove
      <4>5. m[f] = n[f] + SumFunctionOnSet(h, r) /\ SumsOf(n, charges, s)[f] = n[f] + SumFunctionOnSet(h, s)
        BY DEF SumsOf, h
      <4>6. IsFiniteSet(r) /\ \A y \in r : h[y] \in Int
        BY <4>1, <4>2, FS_Subset
      <4>7. SumFunctionOnSet(h, r) \in Int
        BY <4>6, SumStep
      <4>8. h[x] \in Int /\ n[f] \in Int
        BY <4>2
      <4> HIDE DEF m
      <4> QED BY <4>3, <4>4, <4>5, <4>7, <4>8
    <3>8. [f \in Fields |-> m[f] + charges[x].cost[f]] = SumsOf(n, charges, s)
      <4>1. SumsOf(n, charges, s) = [f \in Fields |-> SumsOf(n, charges, s)[f]]
        BY DEF SumsOf
      <4> HIDE DEF m
      <4> QED BY <3>7, <4>1
    <3>9. (flagOf(r) \/ charges[x].saturated) = flagOf(s)
      <4>1. charges[x].saturated \in BOOLEAN
        BY <3>5 DEF IsCost
      <4>2. SomeStopped(charges, r) \/ charges[x].saturated <=> SomeStopped(charges, s)
        BY DEF SomeStopped
      <4>3. (flagOf(r) \/ charges[x].saturated) <=> flagOf(s)
        BY <4>2
      <4> QED BY <4>3
    <3> HIDE DEF F, D, flagOf, m
    <3> QED BY <2>2, <3>1, <3>6, <3>8, <3>9
  <2> QED BY <2>3, <2>4
<1>4. D \in SUBSET D
  OBVIOUS
<1>5. Sums(g[D], SumsOf(n, charges, D), flagOf(D))
  <2> HIDE DEF D, flagOf
  <2> QED BY <1>3, <1>4
<1> QED BY <1>2, <1>5

\* A sum of more and larger numbers is not smaller.
LEMMA SumGrows ==
  ASSUME NEW S, NEW T, IsFiniteSet(T), S \subseteq T, NEW f, NEW g,
         \A x \in T : g[x] \in Nat, \A x \in S : f[x] \in Nat /\ f[x] <= g[x]
  PROVE  SumFunctionOnSet(f, S) <= SumFunctionOnSet(g, T)
<1> DEFINE P == {U \in SUBSET S : SumFunctionOnSet(f, U) <= SumFunctionOnSet(g, U)}
<1>1. IsFiniteSet(S) /\ IsFiniteSet(T \ S)
  BY FS_Subset
<1>2. \A U \in SUBSET S : /\ IsFiniteSet(U)
                          /\ \A x \in U : f[x] \in Int /\ g[x] \in Int
                          /\ SumFunctionOnSet(f, U) \in Int /\ SumFunctionOnSet(g, U) \in Int
  <2> TAKE U \in SUBSET S
  <2>1. IsFiniteSet(U) /\ \A x \in U : f[x] \in Int /\ g[x] \in Int
    BY <1>1, FS_Subset
  <2>2. SumFunctionOnSet(f, U) \in Int
    BY <2>1, SumStep
  <2>3. SumFunctionOnSet(g, U) \in Int
    BY <2>1, SumStep
  <2> QED BY <2>1, <2>2, <2>3
<1>3. {} \in P
  <2>1. SumFunctionOnSet(f, {}) = 0 /\ SumFunctionOnSet(g, {}) = 0
    BY FS_EmptySet, SumStep
  <2> QED BY <2>1
<1>4. ASSUME NEW U \in SUBSET S, NEW x \in S, U \in P, x \notin U
      PROVE  U \cup {x} \in P
  <2> DEFINE V == U \cup {x}
  <2>1. V \in SUBSET S /\ x \in V /\ V \ {x} = U
    BY <1>4
  <2> HIDE DEF V
  <2>2. SumFunctionOnSet(f, V) = f[x] + SumFunctionOnSet(f, U)
    BY <1>2, <2>1, SumRemove
  <2>3. SumFunctionOnSet(g, V) = g[x] + SumFunctionOnSet(g, U)
    BY <1>2, <2>1, SumRemove
  <2>4. f[x] <= g[x] /\ f[x] \in Int /\ g[x] \in Int
    OBVIOUS
  <2>5. SumFunctionOnSet(f, U) <= SumFunctionOnSet(g, U)
    BY <1>4
  <2>6. SumFunctionOnSet(f, U) \in Int /\ SumFunctionOnSet(g, U) \in Int
    BY <1>2
  <2>7. SumFunctionOnSet(f, V) <= SumFunctionOnSet(g, V)
    BY <2>2, <2>3, <2>4, <2>5, <2>6
  <2> QED BY <2>1, <2>7 DEF V
<1> HIDE DEF P
<1>5. S \in P
  <2>1. \A U \in SUBSET S, x \in S : U \in P /\ x \notin U => U \cup {x} \in P
    BY <1>4
  <2>2. \A U \in SUBSET S : U \in P
    BY ONLY <1>1, <1>3, <2>1, SubsetInduction
  <2> QED BY <2>2
<1>6. SumFunctionOnSet(f, S) <= SumFunctionOnSet(g, S)
  BY <1>5 DEF P
<1>7. SumFunctionOnSet(g, T) = SumFunctionOnSet(g, S) + SumFunctionOnSet(g, T \ S)
  <2>1. S \cap (T \ S) = {} /\ S \cup (T \ S) = T
    OBVIOUS
  <2>2. \A x \in S \cup (T \ S) : g[x] \in Int
    OBVIOUS
  <2>3. SumFunctionOnSet(g, S \cup (T \ S)) = SumFunctionOnSet(g, S) + SumFunctionOnSet(g, T \ S)
    BY <1>1, <2>1, <2>2, SumUnion
  <2> QED BY <2>1, <2>3
<1>8. SumFunctionOnSet(g, T \ S) \in Nat
  BY <1>1, SumNat
<1>9. SumFunctionOnSet(f, S) \in Int /\ SumFunctionOnSet(g, S) \in Int
  BY <1>2
<1> QED BY <1>6, <1>7, <1>8, <1>9

\* An estimate of larger numbers, that has stopped if the other has.
Below(e1, e2) ==
  \E n, m \in [Fields -> Nat], p, q \in BOOLEAN :
    /\ Sums(e1, n, p) /\ Sums(e2, m, q)
    /\ p => q
    /\ \A f \in Fields : n[f] <= m[f]
ChargesGrow(a, b) ==
  /\ DOMAIN a \subseteq DOMAIN b
  /\ \A x \in DOMAIN a : /\ a[x].saturated => b[x].saturated
                         /\ \A f \in Fields : a[x].cost[f] <= b[x].cost[f]

LEMMA TotalsGrow ==
  ASSUME NEW a, AreCharges(a), NEW b, AreCharges(b), ChargesGrow(a, b), NEW e1, NEW e2, Below(e1, e2)
  PROVE  Below(Total(e1, a), Total(e2, b))
<1>1. PICK n \in [Fields -> Nat], m \in [Fields -> Nat], p \in BOOLEAN, q \in BOOLEAN :
        /\ Sums(e1, n, p) /\ Sums(e2, m, q)
        /\ p => q
        /\ \A f \in Fields : n[f] <= m[f]
  BY DEF Below
<1> DEFINE n2 == SumsOf(n, a, DOMAIN a)
           m2 == SumsOf(m, b, DOMAIN b)
           p2 == p \/ SomeStopped(a, DOMAIN a)
           q2 == q \/ SomeStopped(b, DOMAIN b)
<1>2. Sums(Total(e1, a), n2, p2)
  BY <1>1, TotalSums
<1>3. Sums(Total(e2, b), m2, q2)
  BY <1>1, TotalSums
<1>4. n2 \in [Fields -> Nat]
  BY SumsOfNumbers
<1>5. m2 \in [Fields -> Nat]
  BY SumsOfNumbers
<1>6. p2 => q2
  BY <1>1 DEF SomeStopped, ChargesGrow
<1>7. ASSUME NEW f \in Fields
      PROVE  n2[f] <= m2[f]
  <2> DEFINE u == FieldOf(a, f)
             v == FieldOf(b, f)
             S == DOMAIN a
             T == DOMAIN b
  <2>1. IsFiniteSet(S) /\ IsFiniteSet(T) /\ S \subseteq T
    BY DEF AreCharges, ChargesGrow
  <2>2. \A x \in T : v[x] \in Nat
    BY DEF AreCharges, IsCost, FieldOf
  <2>3. \A x \in S : u[x] \in Nat /\ u[x] <= v[x]
    BY DEF AreCharges, IsCost, FieldOf, ChargesGrow
  <2>4. n2[f] = n[f] + SumFunctionOnSet(u, S) /\ m2[f] = m[f] + SumFunctionOnSet(v, T)
    BY DEF SumsOf
  <2> HIDE DEF u, v, S, T, n2, m2
  <2>5. SumFunctionOnSet(u, S) <= SumFunctionOnSet(v, T)
    BY <2>1, <2>2, <2>3, SumGrows
  <2>6. SumFunctionOnSet(u, S) \in Nat
    BY <2>1, <2>3, SumNat
  <2>7. SumFunctionOnSet(v, T) \in Nat
    BY <2>1, <2>2, SumNat
  <2>8. n[f] \in Nat /\ m[f] \in Nat /\ n[f] <= m[f]
    BY <1>1
  <2> QED BY <2>4, <2>5, <2>6, <2>7, <2>8
<1>8. p2 \in BOOLEAN /\ q2 \in BOOLEAN
  OBVIOUS
<1> HIDE DEF n2, m2, p2, q2
<1> QED BY <1>2, <1>3, <1>4, <1>5, <1>6, <1>7, <1>8 DEF Below

LEMMA BelowMeans ==
  ASSUME NEW e1, NEW e2, Below(e1, e2)
  PROVE  /\ ~Cheaper(e2.cost, e1.cost)
         /\ e1.saturated => e2.saturated
<1>1. PICK n \in [Fields -> Nat], m \in [Fields -> Nat], p \in BOOLEAN, q \in BOOLEAN :
        /\ Sums(e1, n, p) /\ Sums(e2, m, q)
        /\ p => q
        /\ \A f \in Fields : n[f] <= m[f]
  BY DEF Below
<1>2. MaxCost \in Nat
  BY CountsAssumption
<1>3. ASSUME NEW f \in Fields
      PROVE  e1.cost[f] \in Nat /\ e2.cost[f] \in Nat /\ e1.cost[f] <= e2.cost[f]
  <2>1. n[f] \in Nat /\ m[f] \in Nat /\ n[f] <= m[f]
    BY <1>1
  <2>2. e1.cost[f] = Stopped(n[f]) /\ e2.cost[f] = Stopped(m[f])
    BY <1>1 DEF Sums, Estimate
  <2>3. /\ Stopped(n[f]) \in Nat /\ Stopped(n[f]) <= MaxCost
        /\ n[f] <= MaxCost => Stopped(n[f]) = n[f]
        /\ n[f] > MaxCost => Stopped(n[f]) = MaxCost
    BY <2>1, StoppedIs
  <2>4. /\ Stopped(m[f]) \in Nat
        /\ m[f] <= MaxCost => Stopped(m[f]) = m[f]
        /\ m[f] > MaxCost => Stopped(m[f]) = MaxCost
    BY <2>1, StoppedIs
  <2> QED BY <1>2, <2>1, <2>2, <2>3, <2>4
<1>4. ~Cheaper(e2.cost, e1.cost)
  <2>1. \A f \in Fields : ~(e2.cost[f] < e1.cost[f])
    BY <1>3
  <2> QED BY <2>1 DEF Cheaper
<1>5. e1.saturated => e2.saturated
  <2>1. e1.saturated = (p \/ \E f \in Fields : n[f] > MaxCost)
    BY <1>1 DEF Sums, Estimate
  <2>2. e2.saturated = (q \/ \E f \in Fields : m[f] > MaxCost)
    BY <1>1 DEF Sums, Estimate
  <2>3. \A f \in Fields : n[f] > MaxCost => m[f] > MaxCost
    BY <1>1, <1>2
  <2> QED BY <1>1, <2>1, <2>2, <2>3
<1> QED BY <1>4, <1>5

LEMMA NothingIsBelow == Below(Estimate(Free, FALSE), Estimate(Free, FALSE))
<1>1. Free \in [Fields -> Nat]
  BY DEF Free
<1>2. \A f \in Fields : Stopped(Free[f]) = Free[f] /\ ~(Free[f] > MaxCost) /\ Free[f] <= Free[f]
  <2>1. \A f \in Fields : Free[f] = 0
    BY DEF Free
  <2>2. 0 \in Nat /\ 0 <= MaxCost /\ Stopped(0) = 0
    BY CountsAssumption, StoppedIs
  <2> QED BY <2>1, <2>2, CountsAssumption
<1>3. [f \in Fields |-> Stopped(Free[f])] = Free
  BY <1>1, <1>2
<1>4. (FALSE \/ \E f \in Fields : Free[f] > MaxCost) = FALSE
  BY <1>2
<1>5. Sums(Estimate(Free, FALSE), Free, FALSE)
  BY <1>3, <1>4 DEF Sums
<1> QED BY <1>1, <1>2, <1>5 DEF Below

-----------------------------------------------------------------------------
(* The charges of an assignment are such numbers.                          *)

IsCount(a) == a.value \in Nat /\ a.saturated \in BOOLEAN
Counts == [value : Nat, saturated : BOOLEAN]

LEMMA CountsAre ==
  ASSUME NEW a \in Counts, NEW b \in Counts
  PROVE  Plus(a, b) \in Counts /\ Times(a, b) \in Counts
<1>1. a.value \in Nat /\ b.value \in Nat
  BY DEF Counts
<1>2. a.value + b.value \in Nat /\ a.value * b.value \in Nat
  <2>1. \A x, y \in Nat : x + y \in Nat /\ x * y \in Nat
    OBVIOUS
  <2> QED BY <1>1, <2>1
<1>3. Stopped(a.value + b.value) \in Nat
  BY <1>2, StoppedIs
<1>4. Stopped(a.value * b.value) \in Nat
  BY <1>2, StoppedIs
<1> QED BY <1>3, <1>4 DEF Plus, Times, Count, Counts

LEMMA KnownIs == ASSUME NEW n \in Nat PROVE Known(n) \in Counts
BY DEF Known, Count, Counts

\* A product of extents is a count.
LEMMA MultipliedIs ==
  ASSUME NEW s, IsSequence(s), \A i \in DOMAIN s : s[i] \in Nat
  PROVE  Multiplied(s) \in Counts
<1> DEFINE n == Len(s)
           T(a, x) == Times(a, Known(x))
           h == [p \in (1..n) \X Counts |-> T(p[2], s[p[1]])]
           It == CHOOSE g : g = [S \in SUBSET (1..n) |->
                   IF S = {} THEN Known(1) ELSE T(g[S \ {Max(S)}], s[Max(S)])]
<1>1. n \in Nat /\ DOMAIN s = 1..n /\ \A i \in 1..n : s[i] \in Nat
  BY DEF IsSequence
<1>2. \A x \in Nat, v \in Counts : T(v, x) \in Counts
  BY CountsAre, KnownIs
<1> HIDE DEF T
<1>3. \A i \in 1..n, v \in Counts : h[<<i, v>>] = T(v, s[i]) /\ h[<<i, v>>] \in Counts
  BY <1>1, <1>2
<1>4. Known(1) \in Counts
  BY KnownIs
<1>5. PICK g \in [SUBSET (1..n) -> Counts] : \A S \in SUBSET (1..n) :
        g[S] = IF S = {} THEN Known(1) ELSE h[<<Max(S), g[S \ {Max(S)}]>>]
  <2>1. StepsIn(n, Counts, h)
    <3> HIDE DEF h, n
    <3> QED BY <1>3 DEF StepsIn
  <2> HIDE DEF h, n
  <2>2. PrefixRecursions(n, Counts, Known(1), h) # {}
    BY <1>1, <1>4, <2>1, PrefixRecursion
  <2> QED BY <2>2 DEF PrefixRecursions
<1>6. g = [S \in SUBSET (1..n) |->
             IF S = {} THEN Known(1) ELSE T(g[S \ {Max(S)}], s[Max(S)])]
  <2>1. ASSUME NEW S \in SUBSET (1..n), S # {}
        PROVE  g[S] = T(g[S \ {Max(S)}], s[Max(S)])
    <3>1. Max(S) \in 1..n
      BY <1>1, <2>1, LastPosition
    <3>2. S \ {Max(S)} \in SUBSET (1..n)
      OBVIOUS
    <3> HIDE DEF h, n
    <3> QED BY <1>3, <1>5, <2>1, <3>1, <3>2
  <2> HIDE DEF h, n
  <2> QED BY <1>5, <2>1
<1>7. It = [S \in SUBSET (1..n) |->
              IF S = {} THEN Known(1) ELSE T(It[S \ {Max(S)}], s[Max(S)])]
  <2> HIDE DEF h, n
  <2> QED BY <1>6
<1>8. It[1..0] = Known(1) /\ \A i \in 1..n : It[1..i] = T(It[1..(i - 1)], s[i])
  <2>1. 1..0 = {} /\ 1..0 \in SUBSET (1..n)
    BY <1>1
  <2>2. \A i \in 1..n : 1..i \in SUBSET (1..n) /\ 1..i # {}
    BY <1>1, LastPosition
  <2> HIDE DEF It, n
  <2> QED BY <1>1, <1>7, <2>1, <2>2, LastPosition
<1>9. Multiplied(s) = It[1..n]
  BY <1>1 DEF Multiplied, FoldLeft, MapThenFoldSet, T
<1>10. \A i \in 0..n : It[1..i] \in Counts
  <2> DEFINE P == {i \in Nat : i <= n => It[1..i] \in Counts}
  <2> HIDE DEF It, n
  <2>1. 0 \in P
    BY <1>4, <1>8
  <2>2. \A i \in Nat : i \in P => i + 1 \in P
    <3> SUFFICES ASSUME NEW i \in P, i + 1 <= n PROVE It[1..(i + 1)] \in Counts
      OBVIOUS
    <3>1. i \in Nat /\ i + 1 \in 1..n /\ (i + 1) - 1 = i /\ i <= n
      BY <1>1
    <3>2. It[1..i] \in Counts
      BY <3>1
    <3>3. It[1..(i + 1)] = T(It[1..i], s[i + 1])
      BY <1>8, <3>1
    <3> QED BY <1>1, <1>2, <3>1, <3>2, <3>3
  <2> HIDE DEF P
  <2>3. \A i \in Nat : i \in P
    BY <2>1, <2>2, NaturalInduction
  <2> QED BY <1>1, <2>3 DEF P
<1> HIDE DEF It
<1> QED BY <1>1, <1>9, <1>10

\* The greatest of finitely many numbers.
LEMMA MaxIs ==
  ASSUME NEW S, IsFiniteSet(S), S # {}, \A x \in S : x \in Int
  PROVE  Max(S) \in S /\ \A y \in S : Max(S) >= y
<1> DEFINE R == {p \in S \X S : p[1] > p[2]}
<1>1. \A x, y \in S : <<x, y>> \in R <=> x > y
  OBVIOUS
<1>2. StrictOrderOn(S, R)
  <2> HIDE DEF R
  <2> QED BY <1>1 DEF StrictOrderOn
<1> HIDE DEF R
<1>3. PICK x \in S : \A y \in S : <<y, x>> \notin R
  BY <1>2, FirstElement
<1>4. ASSUME NEW y \in S
      PROVE  x >= y
  <2>1. ~(y > x)
    BY <1>1, <1>3
  <2>2. x \in Int /\ y \in Int
    OBVIOUS
  <2> QED BY <2>1, <2>2
<1> QED BY <1>4 DEF Max

\* So many bytes hold all elements of a footprint.
LEMMA BytesOfIs ==
  ASSUME NEW f, NEW n \in Nat, DOMAIN f.entries = 1..n, \A i \in 1..n : f.entries[i].end \in Int
  PROVE  BytesOf(f) \in Nat
<1> DEFINE g == [i \in 1..n |-> (f.entries[i].end + 7) \div 8]
           S == {(e.end + 7) \div 8 : e \in ToSet(f.entries)}
           T == {0} \cup S
<1>1. \A y \in S : \E i \in DOMAIN g : g[i] = y
  BY DEF ToSet
<1>2. IsFiniteSet(DOMAIN g)
  BY FS_Interval
<1>3. IsFiniteSet(S)
  <2> HIDE DEF g, S
  <2> QED BY <1>1, <1>2, FiniteValues
<1>4. IsFiniteSet(T) /\ T # {} /\ 0 \in T
  <2> HIDE DEF S
  <2>1. S \cup {0} = T
    OBVIOUS
  <2> QED BY <1>3, <2>1, FS_AddElement
<1>5. \A u \in Int : (u + 7) \div 8 \in Int
  OBVIOUS
<1>6. \A y \in T : y \in Int
  <2>1. \A i \in 1..n : g[i] \in Int
    BY <1>5
  <2> HIDE DEF g, S
  <2>2. \A y \in S : y \in Int
    BY <1>1, <2>1 DEF g
  <2> QED BY <2>2
<1> HIDE DEF T
<1>7. Max(T) \in T /\ \A y \in T : Max(T) >= y
  BY <1>4, <1>6, MaxIs
<1>8. Max(T) \in Nat
  BY <1>4, <1>6, <1>7
<1> QED BY <1>8 DEF BytesOf, T

\* A buffer of its own is so many bytes large.
LEMMA OwnBytesIs ==
  ASSUME NEW c, IsStorage(c), LayoutVerify(c), NEW type, TypeVerify(type),
         NEW bytes \in FootprintBytes(c.map, type)
  PROVE  bytes \in Nat
<1> DEFINE shape == type.shape
           bits == type.bits
           n == Product(shape)
           b == Starts(c, shape)
           order == Ordered(KeysOf(n, b))
           t == Begins(Values(c.map, shape))
<1>1. OutputBoundsHold(c.map, shape) /\ bytes \in Bytes(t, bits)
  BY DEF FootprintBytes, FootprintOf
<1>2. n \in Positive
  <2>1. shape \in Seq(Int) /\ \A i \in DOMAIN shape : ~(shape[i] <= 0)
    BY <1>1 DEF OutputBoundsHold, PointCount, TypeVerify
  <2>2. IsSequence(shape) /\ \A i \in DOMAIN shape : shape[i] \in Int /\ shape[i] > 0
    BY <2>1 DEF IsSequence
  <2> QED BY <2>2, ProductPositive
<1>3. bits \in Nat
  BY DEF TypeVerify
<1>4. \A k \in 1..n : b[k] \in Nat
  <2>1. /\ \A k \in 1..n : PointAt(shape, k - 1) \in Points(shape)
        /\ \A k \in 1..n : b[k] = Address(c, PointAt(shape, k - 1))
    BY <1>2, PointsNumbered DEF Starts
  <2> HIDE DEF b, n, shape
  <2> QED BY <1>1, <2>1, BoundedValues
<1>5. /\ IsOrder(n, b, order) /\ Len(t) = n
      /\ \A i \in 1..n : t[i] = b[order[i]]
  <2>1. \A k \in 1..n : b[k] \in Int
    BY <1>4
  <2> QED BY <1>2, <2>1, BeginsAreSorted
<1>6. n \in 1..n /\ \A i \in 1..n : order[i] \in 1..n
  <2>1. n \in 1..n
    BY <1>2 DEF Positive
  <2> HIDE DEF n, b, order
  <2> QED BY <1>5, <2>1 DEF IsOrder
<1> HIDE DEF t, b, order, n, bits, shape
<1>7. t[n] \in Nat
  BY <1>4, <1>5, <1>6
<1>8. bytes = (t[n] + bits + 7) \div 8
  BY <1>1, <1>5 DEF Bytes
<1>9. \A u, v \in Nat : (u + v + 7) \div 8 \in Nat
  <2>1. \A w \in Nat : w \div 8 \in Nat
    OBVIOUS
  <2>2. \A u, v \in Nat : u + v + 7 \in Nat
    OBVIOUS
  <2> QED BY <2>1, <2>2
<1> QED BY <1>3, <1>7, <1>8, <1>9

\* Bytes are charges, and more of them are larger ones.
LEMMA BytesAreCharges ==
  ASSUME NEW bytes, IsFiniteSet(DOMAIN bytes), \A x \in DOMAIN bytes : bytes[x] \in Nat
  PROVE  AreCharges(BytesCharges(bytes))
<1>1. Free \in [Fields -> Nat]
  BY DEF Free
<1>2. ASSUME NEW x \in DOMAIN bytes
      PROVE  IsCost(BytesCharges(bytes)[x])
  <2>1. [Free EXCEPT ![SharedField] = bytes[x]] \in [Fields -> Nat]
    BY <1>1
  <2> QED BY <2>1 DEF IsCost, BytesCharges, Estimate
<1>3. DOMAIN BytesCharges(bytes) = DOMAIN bytes
  BY DEF BytesCharges
<1> QED BY <1>2, <1>3 DEF AreCharges

LEMMA BytesGrow ==
  ASSUME NEW u, NEW v, DOMAIN u \subseteq DOMAIN v,
         \A x \in DOMAIN u : u[x] \in Nat /\ v[x] \in Nat /\ u[x] <= v[x]
  PROVE  ChargesGrow(BytesCharges(u), BytesCharges(v))
<1>1. Free \in [Fields -> Nat] /\ \A f \in Fields : Free[f] <= Free[f]
  BY DEF Free
<1>2. ASSUME NEW x \in DOMAIN u, NEW f \in Fields
      PROVE  BytesCharges(u)[x].cost[f] <= BytesCharges(v)[x].cost[f]
  BY <1>1 DEF BytesCharges, Estimate
<1> QED BY <1>2 DEF ChargesGrow, BytesCharges, Estimate

-----------------------------------------------------------------------------
(* More variables cost at least as much.                                   *)

IsChoice(chosen) ==
  DOMAIN chosen \subseteq DOMAIN GraphVars /\ \A v \in DOMAIN chosen : chosen[v] \in DOMAIN Offers[v]
ExtendsChoice(b, a) == DOMAIN a \subseteq DOMAIN b /\ \A v \in DOMAIN a : b[v] = a[v]
\* The footprints of the chosen ones, built here and now.
FreshOnes(chosen) == [k \in {<<v, chosen[v]>> : v \in DOMAIN chosen} |-> Fresh(k)]
Priced(chosen) == CanBePriced(chosen, FreshOnes(chosen))

LEMMA ChosenVerifies ==
  ASSUME NEW chosen, IsChoice(chosen), NEW v \in DOMAIN chosen
  PROVE  /\ v \in DOMAIN GraphVars /\ LayoutVerify(Picked(chosen, v))
         /\ GraphVars[v].kind = "Storage" => TypeVerify(GraphVars[v].type)
         /\ \A info \in GraphVars[v].alias : TypeVerify(info.viewType)
         /\ GraphVars[v].bits \in Nat
         /\ FreshOnes(chosen)[<<v, chosen[v]>>] = Fresh(<<v, chosen[v]>>)
<1>1. v \in DOMAIN GraphVars /\ chosen[v] \in DOMAIN Offers[v]
  BY DEF IsChoice
<1>2. FreshOnes(chosen)[<<v, chosen[v]>>] = Fresh(<<v, chosen[v]>>)
  BY DEF FreshOnes
<1> QED BY <1>1, <1>2, VariablesAssumption DEF Picked

LEMMA ChosenAreFinite ==
  ASSUME NEW chosen, IsChoice(chosen), NEW S \in SUBSET DOMAIN chosen
  PROVE  IsFiniteSet(S)
<1>1. S \in SUBSET DOMAIN GraphVars
  BY DEF IsChoice
<1> QED BY <1>1, FS_Subset, VariablesAssumption

LEMMA ChargedGrow ==
  ASSUME NEW a, NEW b, ExtendsChoice(b, a)
  PROVE  /\ \A v \in DOMAIN a : v \in DOMAIN b /\ Picked(b, v) = Picked(a, v)
         /\ Tiles(a) \subseteq Tiles(b) /\ Tiles(a) \subseteq DOMAIN a
         /\ SharedBuffers(a) \subseteq SharedBuffers(b) /\ SharedBuffers(a) \subseteq DOMAIN a
         /\ Aliased(a) \subseteq Aliased(b) /\ Aliased(a) \subseteq DOMAIN a
         /\ SharedBuffers(a) \ Aliased(a) \subseteq SharedBuffers(b) \ Aliased(b)
<1>1. \A v \in DOMAIN a : v \in DOMAIN b /\ Picked(b, v) = Picked(a, v)
  BY DEF ExtendsChoice, Picked
<1>2. Charged(a) \subseteq Charged(b) /\ Charged(a) \subseteq DOMAIN a
  BY <1>1 DEF Charged
<1>3. Tiles(a) \subseteq Tiles(b) /\ Tiles(a) \subseteq DOMAIN a
  BY <1>2 DEF Tiles
<1>4. StoredBuffers(a) \subseteq StoredBuffers(b) /\ StoredBuffers(a) \subseteq DOMAIN a
  BY <1>2 DEF StoredBuffers
<1>5. SharedBuffers(a) \subseteq SharedBuffers(b) /\ SharedBuffers(a) \subseteq DOMAIN a
  BY <1>1, <1>4 DEF SharedBuffers
<1> QED BY <1>1, <1>3, <1>5 DEF Aliased

\* The registers and copies of tiles.
LEMMA TilesAreCharges ==
  ASSUME NEW chosen, IsChoice(chosen), NEW kept, CanBePriced(chosen, kept)
  PROVE  AreCharges(TileCharges(chosen))
<1>1. DOMAIN TileCharges(chosen) = Tiles(chosen) /\ Tiles(chosen) \subseteq DOMAIN chosen
  BY DEF TileCharges, Tiles, Charged
<1>2. ASSUME NEW v \in Tiles(chosen)
      PROVE  IsCost(TileCharges(chosen)[v])
  <2> DEFINE c == Picked(chosen, v)
  <2>1. /\ IsDistributed(c) /\ Len(c.topology) = 5
        /\ \A i \in DOMAIN c.topology : c.topology[i] > 0
    BY DEF CanBePriced, ValidDistributed
  <2>2. LayoutVerify(c)
    BY <1>1, ChosenVerifies
  <2>3. c.topology \in Seq(Int) /\ c.replication \in Int /\ c.replication > 0
    BY <2>1, <2>2 DEF LayoutVerify, EncodingVerify
  <2> HIDE DEF c
  <2>4. 1 \in DOMAIN c.topology /\ c.topology[1] \in Nat
    BY <2>1, <2>3
  <2>5. c.replication - 1 \in Nat
    BY <2>3
  <2>6. Free \in [Fields -> Nat]
    BY DEF Free
  <2>7. [Free EXCEPT ![RegistersField] = c.topology[1], ![ReplicationField] = c.replication - 1]
          \in [Fields -> Nat]
    BY <2>4, <2>5, <2>6
  <2>8. TileCharges(chosen)[v]
          = Estimate([Free EXCEPT ![RegistersField] = c.topology[1],
                                  ![ReplicationField] = c.replication - 1], FALSE)
    BY DEF TileCharges, c
  <2> QED BY <2>7, <2>8 DEF IsCost, Estimate
<1>3. IsFiniteSet(Tiles(chosen))
  BY <1>1, ChosenAreFinite
<1> QED BY <1>1, <1>2, <1>3 DEF AreCharges

LEMMA TilesGrow ==
  ASSUME NEW a, NEW b, ExtendsChoice(b, a), AreCharges(TileCharges(a))
  PROVE  ChargesGrow(TileCharges(a), TileCharges(b))
<1>1. DOMAIN TileCharges(a) = Tiles(a) /\ DOMAIN TileCharges(b) = Tiles(b)
  BY DEF TileCharges
<1>2. ASSUME NEW v \in Tiles(a)
      PROVE  TileCharges(a)[v] = TileCharges(b)[v]
  <2>1. v \in Tiles(b) /\ Picked(a, v) = Picked(b, v)
    BY ChargedGrow
  <2> QED BY <2>1 DEF TileCharges
<1>3. \A v \in Tiles(a), f \in Fields : TileCharges(a)[v].cost[f] <= TileCharges(a)[v].cost[f]
  <2>1. \A v \in Tiles(a), f \in Fields : TileCharges(a)[v].cost[f] \in Nat
    BY <1>1 DEF AreCharges, IsCost
  <2> QED BY <2>1
<1>4. Tiles(a) \subseteq Tiles(b)
  BY ChargedGrow
<1> QED BY <1>1, <1>2, <1>3, <1>4 DEF ChargesGrow

\* The bytes of views that fit are counted.
LEMMA FreshBytesAre ==
  ASSUME NEW chosen, IsChoice(chosen), Priced(chosen), NEW v \in Aliased(chosen)
  PROVE  BytesOf(Fresh(<<v, chosen[v]>>)) \in Nat
<1> DEFINE c == Picked(chosen, v)
           info == CHOOSE i \in GraphVars[v].alias : TRUE
           f == Fresh(<<v, chosen[v]>>)
<1>1. v \in SharedBuffers(chosen) /\ v \in StoredBuffers(chosen) /\ v \in DOMAIN chosen
      /\ GraphVars[v].alias # {}
  BY DEF Aliased, SharedBuffers, StoredBuffers, Charged
<1>2. /\ v \in DOMAIN GraphVars /\ LayoutVerify(c)
      /\ \A i \in GraphVars[v].alias : TypeVerify(i.viewType)
      /\ FreshOnes(chosen)[<<v, chosen[v]>>] = f
  BY <1>1, ChosenVerifies
<1>3. f.proof = Proven
  BY <1>1, <1>2 DEF Priced, CanBePriced
<1>4. IsStorage(c) /\ chosen[v] \in DOMAIN Offers[v]
  <2>1. chosen[v] \in Fitting[v]
    BY <1>1 DEF Priced, CanBePriced
  <2> QED BY <1>2, <2>1 DEF Fitting, Picked
<1>5. f = BuildFootprint(info, c)
  <2>1. f = AliasFootprint(v, c)
    BY <1>2, <1>4 DEF Fresh, OfferedFootprints, Picked
  <2> QED BY <1>1, <1>4, <2>1 DEF AliasFootprint
<1>6. info \in GraphVars[v].alias
  BY <1>1
<1>7. IsFootprintOf(f, info, c)
  <2>1. Verified(info, c) /\ TypeVerify(info.viewType)
    BY <1>2, <1>3, <1>5, <1>6 DEF Verified
  <2> HIDE DEF c, info, f
  <2> QED BY <1>2, <1>4, <1>5, <2>1, FootprintEntries
<1> DEFINE n == Product(info.viewType.shape)
           b == Starts(c, info.viewType.shape)
           order == Ordered(KeysOf(n, b))
<1>8. /\ n \in Positive /\ \A k \in 1..n : b[k] \in Int
      /\ DOMAIN f.entries = 1..n
      /\ \A i \in 1..n : f.entries[i].begin = b[order[i]]
                         /\ f.entries[i].end = f.entries[i].begin + info.viewType.bits
  BY <1>7 DEF IsFootprintOf
<1>9. \A i \in 1..n : order[i] \in 1..n
  <2>1. n \in Nat
    BY <1>8 DEF Positive
  <2> HIDE DEF n, b, order
  <2>2. IsOrder(n, b, Ordered(KeysOf(n, b)))
    BY <1>8, <2>1, OrderedSorts
  <2> QED BY <2>2 DEF IsOrder, order
<1>10. info.viewType.bits \in Int
  BY <1>2, <1>6 DEF TypeVerify
<1> HIDE DEF n, b, order, f, info, c
<1>11. \A i \in 1..n : f.entries[i].end \in Int
  BY <1>8, <1>9, <1>10
<1>12. n \in Nat
  BY <1>8 DEF Positive
<1>13. BytesOf(f) \in Nat
  BY <1>8, <1>11, <1>12, BytesOfIs
<1> QED BY <1>13 DEF f

\* The bytes of the views of a root.
RootOf(chosen, v) == Fresh(<<v, chosen[v]>>).root
Views(chosen, r) == {v \in Aliased(chosen) : RootOf(chosen, v) = r}
ViewBytes(chosen, r) == {BytesOf(Fresh(<<v, chosen[v]>>)) : v \in Views(chosen, r)}

LEMMA RootBytesAre ==
  ASSUME NEW chosen, IsChoice(chosen), NEW kept,
         \A v \in Aliased(chosen) : kept[<<v, chosen[v]>>] = Fresh(<<v, chosen[v]>>)
  PROVE  RootBytes(chosen, kept)
           = [r \in {RootOf(chosen, v) : v \in Aliased(chosen)} |-> Max(ViewBytes(chosen, r))]
<1> DEFINE Root(v) == kept[<<v, chosen[v]>>].root
           R == {Root(v) : v \in Aliased(chosen)}
           V(r) == {BytesOf(kept[<<v, chosen[v]>>]) : v \in {x \in Aliased(chosen) : Root(x) = r}}
<1>1. RootBytes(chosen, kept) = [r \in R |-> Max(V(r))]
  BY DEF RootBytes
<1>2. \A v \in Aliased(chosen) : Root(v) = RootOf(chosen, v)
  BY DEF RootOf
<1>3. R = {RootOf(chosen, v) : v \in Aliased(chosen)}
  BY <1>2
<1>4. ASSUME NEW r
      PROVE  V(r) = ViewBytes(chosen, r)
  <2>1. {x \in Aliased(chosen) : Root(x) = r} = Views(chosen, r)
    BY <1>2 DEF Views
  <2>2. V(r) = {BytesOf(kept[<<v, chosen[v]>>]) : v \in Views(chosen, r)}
    BY <2>1
  <2>3. \A v \in Views(chosen, r) : BytesOf(kept[<<v, chosen[v]>>]) = BytesOf(Fresh(<<v, chosen[v]>>))
    BY DEF Views
  <2> HIDE DEF V
  <2> QED BY <2>2, <2>3 DEF ViewBytes
<1> HIDE DEF R, V
<1> QED BY <1>1, <1>3, <1>4

LEMMA ViewBytesAre ==
  ASSUME NEW chosen, IsChoice(chosen), Priced(chosen), NEW v \in Aliased(chosen)
  PROVE  LET S == ViewBytes(chosen, RootOf(chosen, v))
         IN  /\ BytesOf(Fresh(<<v, chosen[v]>>)) \in S
             /\ Max(S) \in Nat /\ Max(S) \in S /\ \A y \in S : y \in Nat /\ y <= Max(S)
<1> DEFINE r == RootOf(chosen, v)
           S == ViewBytes(chosen, r)
           g == [x \in Views(chosen, r) |-> BytesOf(Fresh(<<x, chosen[x]>>))]
<1>1. v \in Views(chosen, r) /\ Views(chosen, r) \subseteq Aliased(chosen)
      /\ Aliased(chosen) \subseteq DOMAIN chosen
  BY DEF Views, Aliased, SharedBuffers, StoredBuffers, Charged
<1> HIDE DEF r
<1>2. IsFiniteSet(S)
  <2>1. IsFiniteSet(DOMAIN g)
    BY <1>1, ChosenAreFinite
  <2>2. \A y \in S : \E x \in DOMAIN g : g[x] = y
    BY DEF ViewBytes
  <2> HIDE DEF g, S
  <2> QED BY <2>1, <2>2, FiniteValues
<1>3. \A y \in S : y \in Nat
  BY <1>1, FreshBytesAre DEF ViewBytes
<1>4. BytesOf(Fresh(<<v, chosen[v]>>)) \in S
  BY <1>1 DEF ViewBytes
<1> HIDE DEF S
<1>5. Max(S) \in S /\ \A y \in S : Max(S) >= y
  BY <1>2, <1>3, <1>4, MaxIs
<1>6. Max(S) \in Nat /\ \A y \in S : y \in Nat /\ y <= Max(S)
  BY <1>3, <1>5
<1> QED BY <1>4, <1>5, <1>6 DEF S, r

\* The bytes of the roots: there are more of them, and none becomes smaller.
LEMMA RootsAreCharges ==
  ASSUME NEW chosen, IsChoice(chosen), Priced(chosen)
  PROVE  LET bytes == RootBytes(chosen, FreshOnes(chosen))
         IN  /\ AreCharges(BytesCharges(bytes))
             /\ DOMAIN bytes = {RootOf(chosen, v) : v \in Aliased(chosen)}
             /\ \A r \in DOMAIN bytes : bytes[r] = Max(ViewBytes(chosen, r)) /\ bytes[r] \in Nat
<1> DEFINE bytes == RootBytes(chosen, FreshOnes(chosen))
           R == {RootOf(chosen, v) : v \in Aliased(chosen)}
           g == [v \in Aliased(chosen) |-> RootOf(chosen, v)]
<1>1. Aliased(chosen) \in SUBSET DOMAIN chosen
  BY DEF Aliased, SharedBuffers, StoredBuffers, Charged
<1>2. \A v \in Aliased(chosen) : FreshOnes(chosen)[<<v, chosen[v]>>] = Fresh(<<v, chosen[v]>>)
  BY <1>1, ChosenVerifies
<1>3. bytes = [r \in R |-> Max(ViewBytes(chosen, r))]
  BY <1>2, RootBytesAre
<1>4. IsFiniteSet(R)
  <2>1. IsFiniteSet(DOMAIN g)
    BY <1>1, ChosenAreFinite
  <2>2. \A y \in R : \E x \in DOMAIN g : g[x] = y
    OBVIOUS
  <2> HIDE DEF g, R
  <2> QED BY <2>1, <2>2, FiniteValues
<1>5. \A r \in R : Max(ViewBytes(chosen, r)) \in Nat
  BY ViewBytesAre
<1> HIDE DEF R, bytes
<1>6. /\ DOMAIN bytes = R
      /\ \A r \in DOMAIN bytes : bytes[r] = Max(ViewBytes(chosen, r)) /\ bytes[r] \in Nat
  BY <1>3, <1>5
<1>7. AreCharges(BytesCharges(bytes))
  BY <1>4, <1>6, BytesAreCharges
<1> QED BY <1>6, <1>7 DEF bytes, R

LEMMA RootsGrow ==
  ASSUME NEW a, IsChoice(a), Priced(a), NEW b, IsChoice(b), Priced(b), ExtendsChoice(b, a)
  PROVE  ChargesGrow(BytesCharges(RootBytes(a, FreshOnes(a))),
                     BytesCharges(RootBytes(b, FreshOnes(b))))
<1> DEFINE u == RootBytes(a, FreshOnes(a))
           w == RootBytes(b, FreshOnes(b))
<1>1. /\ DOMAIN u = {RootOf(a, v) : v \in Aliased(a)}
      /\ \A r \in DOMAIN u : u[r] = Max(ViewBytes(a, r)) /\ u[r] \in Nat
  BY RootsAreCharges
<1>2. /\ DOMAIN w = {RootOf(b, v) : v \in Aliased(b)}
      /\ \A r \in DOMAIN w : w[r] = Max(ViewBytes(b, r)) /\ w[r] \in Nat
  BY RootsAreCharges
<1>3. \A v \in Aliased(a) : v \in Aliased(b) /\ b[v] = a[v]
  BY ChargedGrow DEF ExtendsChoice
<1>4. \A v \in Aliased(a) : RootOf(a, v) = RootOf(b, v)
  BY <1>3 DEF RootOf
<1> HIDE DEF u, w
<1>5. DOMAIN u \subseteq DOMAIN w
  BY <1>1, <1>2, <1>3, <1>4
<1>6. ASSUME NEW r \in DOMAIN u
      PROVE  u[r] <= w[r]
  <2>1. PICK v \in Aliased(a) : r = RootOf(a, v)
    BY <1>1
  <2>2. Max(ViewBytes(a, r)) \in ViewBytes(a, r)
    BY <2>1, ViewBytesAre
  <2>3. PICK x \in Views(a, r) : Max(ViewBytes(a, r)) = BytesOf(Fresh(<<x, a[x]>>))
    BY <2>2 DEF ViewBytes
  <2>4. x \in Aliased(b) /\ b[x] = a[x] /\ r = RootOf(b, x)
    BY <1>3, <1>4, <2>3 DEF Views
  <2>5. BytesOf(Fresh(<<x, b[x]>>)) \in ViewBytes(b, r)
        /\ \A y \in ViewBytes(b, r) : y <= Max(ViewBytes(b, r))
    BY <2>4, ViewBytesAre
  <2>6. r \in DOMAIN w
    BY <1>5
  <2> QED BY <1>1, <1>2, <2>3, <2>4, <2>5, <2>6
<1>7. ChargesGrow(BytesCharges(u), BytesCharges(w))
  <2>1. \A r \in DOMAIN u : u[r] \in Nat /\ w[r] \in Nat /\ u[r] <= w[r]
    BY <1>1, <1>2, <1>5, <1>6
  <2> QED BY <1>5, <2>1, BytesGrow
<1> QED BY <1>7 DEF u, w

\* The bytes of buffers without a descriptor.
LEMMA OwnAreCharges ==
  ASSUME NEW chosen, IsChoice(chosen), Priced(chosen)
  PROVE  /\ AreCharges(BytesCharges(OwnBytes(chosen)))
         /\ DOMAIN OwnBytes(chosen) = SharedBuffers(chosen) \ Aliased(chosen)
         /\ \A v \in DOMAIN OwnBytes(chosen) : OwnBytes(chosen)[v] \in Nat
<1> DEFINE S == SharedBuffers(chosen) \ Aliased(chosen)
<1>1. S \in SUBSET DOMAIN chosen
  BY DEF SharedBuffers, StoredBuffers, Charged
<1>2. DOMAIN OwnBytes(chosen) = S
  BY DEF OwnBytes
<1>3. ASSUME NEW v \in S
      PROVE  OwnBytes(chosen)[v] \in Nat
  <2> DEFINE c == Picked(chosen, v)
             type == GraphVars[v].type
             sizes == FootprintBytes(c.map, type)
             own == CHOOSE bytes \in sizes : TRUE
  <2>1. v \in StoredBuffers(chosen) /\ GraphVars[v].kind = "Storage"
    BY DEF SharedBuffers, StoredBuffers
  <2>2. LayoutVerify(c) /\ TypeVerify(type) /\ v \in DOMAIN GraphVars
    BY <1>1, <2>1, ChosenVerifies
  <2>3. IsStorage(c)
    BY <2>1, <2>2 DEF Priced, CanBePriced, Fitting, Picked
  <2>4. sizes # {}
    BY DEF Priced, CanBePriced, Aliased
  <2>5. own \in sizes
    BY <2>4
  <2>6. own \in Nat
    <3> HIDE DEF own, c, type
    <3> QED BY <2>2, <2>3, <2>5, OwnBytesIs
  <2>7. OwnBytes(chosen)[v] = own
    BY DEF OwnBytes
  <2> QED BY <2>6, <2>7
<1>4. IsFiniteSet(S)
  <2> HIDE DEF S
  <2> QED BY <1>1, ChosenAreFinite
<1> HIDE DEF S
<1>5. AreCharges(BytesCharges(OwnBytes(chosen)))
  BY <1>2, <1>3, <1>4, BytesAreCharges
<1> QED BY <1>2, <1>3, <1>5 DEF S

LEMMA OwnGrow ==
  ASSUME NEW a, IsChoice(a), Priced(a), NEW b, IsChoice(b), Priced(b), ExtendsChoice(b, a)
  PROVE  ChargesGrow(BytesCharges(OwnBytes(a)), BytesCharges(OwnBytes(b)))
<1>1. /\ DOMAIN OwnBytes(a) = SharedBuffers(a) \ Aliased(a)
      /\ \A v \in DOMAIN OwnBytes(a) : OwnBytes(a)[v] \in Nat
  BY OwnAreCharges
<1>2. DOMAIN OwnBytes(b) = SharedBuffers(b) \ Aliased(b)
  BY OwnAreCharges
<1>3. /\ SharedBuffers(a) \ Aliased(a) \subseteq SharedBuffers(b) \ Aliased(b)
      /\ SharedBuffers(a) \subseteq DOMAIN a
      /\ \A v \in DOMAIN a : Picked(b, v) = Picked(a, v)
  BY ChargedGrow
<1>4. \A v \in DOMAIN OwnBytes(a) : OwnBytes(b)[v] = OwnBytes(a)[v]
  BY <1>1, <1>3 DEF OwnBytes
<1>5. \A n \in Nat : n <= n
  OBVIOUS
<1>6. /\ DOMAIN OwnBytes(a) \subseteq DOMAIN OwnBytes(b)
      /\ \A v \in DOMAIN OwnBytes(a) :
           OwnBytes(a)[v] \in Nat /\ OwnBytes(b)[v] \in Nat /\ OwnBytes(a)[v] <= OwnBytes(b)[v]
  BY <1>1, <1>2, <1>3, <1>4, <1>5
<1> QED BY <1>6, BytesGrow

\* What is spent whether or not anything is converted.
LEMMA StaticGrows ==
  ASSUME NEW a, IsChoice(a), NEW b, IsChoice(b), ExtendsChoice(b, a),
         NEW e1 \in StaticEstimate(a, FreshOnes(a)), NEW e2 \in StaticEstimate(b, FreshOnes(b))
  PROVE  Below(e1, e2)
<1> DEFINE tiles(c) == Total(Estimate(Free, FALSE), TileCharges(c))
           roots(c) == Total(tiles(c), BytesCharges(RootBytes(c, FreshOnes(c))))
<1>1. /\ Priced(a) /\ e1 = Total(roots(a), BytesCharges(OwnBytes(a)))
      /\ Priced(b) /\ e2 = Total(roots(b), BytesCharges(OwnBytes(b)))
  BY DEF StaticEstimate, Priced
<1>2. AreCharges(TileCharges(a)) /\ AreCharges(TileCharges(b))
  BY <1>1, TilesAreCharges DEF Priced
<1>3. Below(tiles(a), tiles(b))
  BY <1>2, NothingIsBelow, TilesGrow, TotalsGrow
<1> HIDE DEF tiles
<1>4. /\ AreCharges(BytesCharges(RootBytes(a, FreshOnes(a))))
      /\ AreCharges(BytesCharges(RootBytes(b, FreshOnes(b))))
  BY <1>1, RootsAreCharges
<1>5. ChargesGrow(BytesCharges(RootBytes(a, FreshOnes(a))),
                  BytesCharges(RootBytes(b, FreshOnes(b))))
  BY <1>1, RootsGrow
<1>6. Below(roots(a), roots(b))
  BY <1>3, <1>4, <1>5, TotalsGrow
<1> HIDE DEF roots
<1>7. AreCharges(BytesCharges(OwnBytes(a))) /\ AreCharges(BytesCharges(OwnBytes(b)))
  BY <1>1, OwnAreCharges
<1>8. ChargesGrow(BytesCharges(OwnBytes(a)), BytesCharges(OwnBytes(b)))
  BY <1>1, OwnGrow
<1> QED BY <1>1, <1>6, <1>7, <1>8, TotalsGrow

\* The price of one conversion.
LEMMA ConversionIsCost ==
  ASSUME NEW v, v.bits \in Nat, NEW s, LayoutVerify(s), NEW t, LayoutVerify(t),
         NEW e \in ConversionEstimate(v, s, t)
  PROVE  IsCost(e)
<1> DEFINE Numbers(c) == /\ IsSequence(c.topology) /\ Len(c.topology) = 5
                         /\ \A i \in DOMAIN c.topology : c.topology[i] \in Nat
<1>1. ASSUME NEW c, LayoutVerify(c), ValidDistributed(v, c)
      PROVE  Numbers(c)
  <2>1. /\ c.topology \in Seq(Int) /\ Len(c.topology) = 5
        /\ \A i \in DOMAIN c.topology : c.topology[i] > 0
    BY <1>1 DEF LayoutVerify, ValidDistributed
  <2> QED BY <2>1 DEF IsSequence
<1>2. ASSUME NEW c, Numbers(c), NEW k \in Threads(c)
      PROVE  k \in Nat
  <2> DEFINE q == SubSeq(c.topology, 2, 4)
  <2>1. IsSequence(q) /\ \A i \in DOMAIN q : q[i] \in Nat
    <3>1. \A i \in 2..4 : c.topology[i] \in Nat
      BY <1>2 DEF IsSequence
    <3>2. q \in Seq(Nat)
      BY <3>1, SubSeqProperties
    <3> HIDE DEF q
    <3> QED BY <3>2 DEF IsSequence
  <2>2. Multiplied(q) \in Counts
    BY <2>1, MultipliedIs
  <2>3. k = Multiplied(q).value
    BY <1>2 DEF Threads
  <2> QED BY <2>2, <2>3 DEF Counts
<1> DEFINE carriers == Plus(Multiplied(s.topology), Multiplied(t.topology))
           bytes == Times(Known((v.bits + 7) \div 8), carriers)
           barrier(x, y) == Times(Times(Known(4), Known(Max({x, y}))), Known(Syncs))
           moved(x, y) == Plus(bytes, barrier(x, y))
           price(x, y) ==
             IF s = t THEN Estimate(Free, FALSE)
             ELSE Estimate([Free EXCEPT ![ConversionField] = moved(x, y).value, ![CodeField] = 1],
                           moved(x, y).saturated)
           prices == {price(x, y) : x \in Threads(s), y \in Threads(t)}
<1>3. ValidDistributed(v, s) /\ ValidDistributed(v, t) /\ e \in prices
  <2>1. ConversionEstimate(v, s, t)
          = IF ~ValidDistributed(v, s) \/ ~ValidDistributed(v, t) THEN {} ELSE prices
    BY DEF ConversionEstimate
  <2> HIDE DEF prices
  <2> QED BY <2>1
<1>4. Numbers(s) /\ Numbers(t)
  BY <1>1, <1>3
<1>5. PICK x \in Threads(s), y \in Threads(t) :
        e = IF s = t THEN Estimate(Free, FALSE)
            ELSE Estimate([Free EXCEPT ![ConversionField] = moved(x, y).value, ![CodeField] = 1],
                          moved(x, y).saturated)
  <2>1. PICK x \in Threads(s), y \in Threads(t) : e = price(x, y)
    <3> HIDE DEF price
    <3> QED BY <1>3
  <2> QED BY <2>1
<1>6. x \in Nat /\ y \in Nat
  BY <1>2, <1>4, <1>5
<1>7. carriers \in Counts
  <2>1. Multiplied(s.topology) \in Counts /\ Multiplied(t.topology) \in Counts
    BY <1>4, MultipliedIs
  <2> QED BY <2>1, CountsAre
<1>8. bytes \in Counts
  <2>1. (v.bits + 7) \div 8 \in Nat
    <3>1. \A u \in Nat : (u + 7) \div 8 \in Nat
      OBVIOUS
    <3> QED BY <3>1
  <2>2. Known((v.bits + 7) \div 8) \in Counts
    BY <2>1, KnownIs
  <2> HIDE DEF carriers
  <2> QED BY <1>7, <2>2, CountsAre
<1>9. barrier(x, y) \in Counts
  <2>1. Max({x, y}) \in Nat
    <3>1. IsFiniteSet({x, y}) /\ {x, y} # {} /\ \A z \in {x, y} : z \in Int
      <4>1. {x} \cup {y} = {x, y} /\ IsFiniteSet({x})
        BY FS_Singleton
      <4> QED BY <1>6, <4>1, FS_AddElement
    <3>2. Max({x, y}) \in {x, y}
      BY <3>1, MaxIs
    <3> QED BY <1>6, <3>2
  <2>2. Known(4) \in Counts /\ Known(Max({x, y})) \in Counts /\ Known(Syncs) \in Counts
    BY <2>1, KnownIs DEF Syncs
  <2>3. Times(Known(4), Known(Max({x, y}))) \in Counts
    BY <2>2, CountsAre
  <2> QED BY <2>2, <2>3, CountsAre
<1> HIDE DEF bytes, barrier
<1>10. moved(x, y) \in Counts
  BY <1>8, <1>9, CountsAre
<1> HIDE DEF moved
<1>11. Free \in [Fields -> Nat]
  BY DEF Free
<1>12. moved(x, y).value \in Nat /\ moved(x, y).saturated \in BOOLEAN
  BY <1>10 DEF Counts
<1>13. [Free EXCEPT ![ConversionField] = moved(x, y).value, ![CodeField] = 1] \in [Fields -> Nat]
  BY <1>11, <1>12
<1> QED BY <1>5, <1>11, <1>12, <1>13 DEF IsCost, Estimate

LEMMA EdgesAreCharges ==
  ASSUME NEW chosen, IsChoice(chosen), \A i \in Conversions(chosen) : EdgeEstimate(chosen, i) # {}
  PROVE  AreCharges(EdgeCharges(chosen))
<1>1. DOMAIN EdgeCharges(chosen) = Conversions(chosen)
  BY DEF EdgeCharges
<1>2. IsFiniteSet(Conversions(chosen))
  <2>1. Conversions(chosen) \in SUBSET DOMAIN Related
    BY DEF Conversions
  <2> QED BY <2>1, FS_Subset, ConstraintsAssumption
<1>3. ASSUME NEW i \in Conversions(chosen)
      PROVE  IsCost(EdgeCharges(chosen)[i])
  <2> DEFINE v == Related[i].vars[1]
             w == Related[i].vars[2]
             e == CHOOSE x \in EdgeEstimate(chosen, i) : TRUE
  <2>1. v \in DOMAIN chosen /\ w \in DOMAIN chosen
    BY DEF Conversions
  <2>2. e \in ConversionEstimate(GraphVars[v], Picked(chosen, v), Picked(chosen, w))
    <3>1. e \in EdgeEstimate(chosen, i)
      OBVIOUS
    <3> HIDE DEF e
    <3> QED BY <3>1 DEF EdgeEstimate
  <2>3. EdgeCharges(chosen)[i] = e
    BY DEF EdgeCharges
  <2> HIDE DEF e, v, w
  <2>4. GraphVars[v].bits \in Nat /\ LayoutVerify(Picked(chosen, v)) /\ LayoutVerify(Picked(chosen, w))
    BY <2>1, ChosenVerifies
  <2> QED BY <2>2, <2>3, <2>4, ConversionIsCost
<1> QED BY <1>1, <1>2, <1>3 DEF AreCharges

LEMMA EdgesGrow ==
  ASSUME NEW a, IsChoice(a), NEW b, ExtendsChoice(b, a), AreCharges(EdgeCharges(a))
  PROVE  ChargesGrow(EdgeCharges(a), EdgeCharges(b))
<1>1. DOMAIN EdgeCharges(a) = Conversions(a) /\ DOMAIN EdgeCharges(b) = Conversions(b)
  BY DEF EdgeCharges
<1>2. ASSUME NEW i \in Conversions(a)
      PROVE  i \in Conversions(b) /\ EdgeCharges(a)[i] = EdgeCharges(b)[i]
  <2>1. Related[i].vars[1] \in DOMAIN a /\ Related[i].vars[2] \in DOMAIN a
    BY DEF Conversions
  <2>2. i \in Conversions(b)
    BY <2>1, ChargedGrow DEF Conversions
  <2>3. EdgeEstimate(a, i) = EdgeEstimate(b, i)
    BY <2>1, ChargedGrow DEF EdgeEstimate
  <2> QED BY <2>2, <2>3 DEF EdgeCharges
<1>3. \A i \in Conversions(a), f \in Fields : EdgeCharges(a)[i].cost[f] <= EdgeCharges(a)[i].cost[f]
  <2>1. \A i \in Conversions(a), f \in Fields : EdgeCharges(a)[i].cost[f] \in Nat
    BY <1>1 DEF AreCharges, IsCost
  <2> QED BY <2>1
<1> QED BY <1>1, <1>2, <1>3 DEF ChargesGrow

\* The price of a part is below the price of the whole.
LEMMA PricesGrow ==
  ASSUME NEW a, IsChoice(a), NEW b, IsChoice(b), ExtendsChoice(b, a),
         NEW e1 \in WholeEstimate(a, FreshOnes(a)), NEW e2 \in WholeEstimate(b, FreshOnes(b))
  PROVE  Below(e1, e2)
<1>1. /\ \A i \in Conversions(a) : EdgeEstimate(a, i) # {}
      /\ \A i \in Conversions(b) : EdgeEstimate(b, i) # {}
  BY DEF WholeEstimate
<1>2. PICK s1 \in StaticEstimate(a, FreshOnes(a)) : e1 = Total(s1, EdgeCharges(a))
  BY DEF WholeEstimate
<1>3. PICK s2 \in StaticEstimate(b, FreshOnes(b)) : e2 = Total(s2, EdgeCharges(b))
  BY DEF WholeEstimate
<1>4. Below(s1, s2)
  BY StaticGrows
<1>5. AreCharges(EdgeCharges(a)) /\ AreCharges(EdgeCharges(b))
  BY <1>1, EdgesAreCharges
<1>6. ChargesGrow(EdgeCharges(a), EdgeCharges(b))
  BY <1>5, EdgesGrow
<1> QED BY <1>2, <1>3, <1>4, <1>5, <1>6, TotalsGrow

\* A price reads the footprints of the views it counts, and no others.
LEMMA PriceReads ==
  ASSUME NEW chosen, IsChoice(chosen), NEW kept,
         \A v \in Aliased(chosen) : kept[<<v, chosen[v]>>] = Fresh(<<v, chosen[v]>>)
  PROVE  WholeEstimate(chosen, kept) = WholeEstimate(chosen, FreshOnes(chosen))
<1>1. \A v \in Aliased(chosen) : FreshOnes(chosen)[<<v, chosen[v]>>] = Fresh(<<v, chosen[v]>>)
  BY ChosenVerifies DEF Aliased, SharedBuffers, StoredBuffers, Charged
<1>2. RootBytes(chosen, kept) = RootBytes(chosen, FreshOnes(chosen))
  <2>1. RootBytes(chosen, kept)
          = [r \in {RootOf(chosen, v) : v \in Aliased(chosen)} |-> Max(ViewBytes(chosen, r))]
    BY RootBytesAre
  <2>2. RootBytes(chosen, FreshOnes(chosen))
          = [r \in {RootOf(chosen, v) : v \in Aliased(chosen)} |-> Max(ViewBytes(chosen, r))]
    BY <1>1, RootBytesAre
  <2> QED BY <2>1, <2>2
<1>3. CanBePriced(chosen, kept) <=> CanBePriced(chosen, FreshOnes(chosen))
  BY <1>1 DEF CanBePriced, Aliased
<1>4. StaticEstimate(chosen, kept) = StaticEstimate(chosen, FreshOnes(chosen))
  BY <1>2, <1>3 DEF StaticEstimate
<1> QED BY <1>4 DEF WholeEstimate

-----------------------------------------------------------------------------
(* The price kept is the one of what has been chosen.                      *)

CostInv == IsChoice(assignment) /\ estimate \in WholeEstimate(assignment, FreshOnes(assignment))

LEMMA CostStarts ==
  ASSUME CostInit
  PROVE  CostInv
<1>1. assignment = <<>> /\ DOMAIN assignment = {} /\ estimate = Estimate(Free, FALSE)
  BY DEF CostInit
<1>2. IsChoice(assignment)
  BY <1>1 DEF IsChoice
<1>3. /\ Charged(assignment) = {} /\ Tiles(assignment) = {} /\ StoredBuffers(assignment) = {}
      /\ SharedBuffers(assignment) = {} /\ Aliased(assignment) = {}
  BY <1>1 DEF Charged, Tiles, StoredBuffers, SharedBuffers, Aliased
<1>4. Conversions(assignment) = {}
  BY <1>1 DEF Conversions
<1>5. ASSUME NEW charges, DOMAIN charges = {}, NEW start \in Estimates
      PROVE  Total(start, charges) = start
  <2>1. AreCharges(charges)
    BY <1>5, FS_EmptySet DEF AreCharges
  <2>2. PICK g \in TotalRecursions(start, charges) : TRUE
    BY <2>1, TotalRecursion
  <2> QED BY <1>5, <2>2 DEF TotalRecursions
<1>6. Priced(assignment)
  BY <1>3 DEF Priced, CanBePriced
<1>7. Estimate(Free, FALSE) \in Estimates
  BY DEF Estimate, Estimates, Free
<1>8. DOMAIN TileCharges(assignment) = {}
  BY <1>3 DEF TileCharges
<1>9. DOMAIN BytesCharges(RootBytes(assignment, FreshOnes(assignment))) = {}
  BY <1>2, <1>3, <1>6, RootsAreCharges DEF BytesCharges
<1>10. DOMAIN BytesCharges(OwnBytes(assignment)) = {}
  BY <1>3 DEF BytesCharges, OwnBytes
<1>11. DOMAIN EdgeCharges(assignment) = {}
  BY <1>4 DEF EdgeCharges
<1>12. StaticEstimate(assignment, FreshOnes(assignment)) = {Estimate(Free, FALSE)}
  BY <1>5, <1>6, <1>7, <1>8, <1>9, <1>10 DEF StaticEstimate, Priced
<1>13. Estimate(Free, FALSE) \in WholeEstimate(assignment, FreshOnes(assignment))
  BY <1>4, <1>5, <1>7, <1>11, <1>12 DEF WholeEstimate
<1> QED BY <1>1, <1>2, <1>13 DEF CostInv

\* One more variable.
LEMMA AssignStep ==
  ASSUME FootprintsFresh(footprints), CostInv,
         NEW v \in DOMAIN GraphVars \ DOMAIN assignment, NEW i \in DOMAIN Offers[v], Assign(v, i)
  PROVE  CostInv' /\ Below(estimate, estimate')
<1> DEFINE chosen == [w \in DOMAIN assignment \cup {v} |-> IF w = v THEN i ELSE assignment[w]]
           keys == {<<w, chosen[w]>> : w \in {x \in SharedBuffers(chosen) : GraphVars[x].alias # {}}}
<1>1. /\ Looked(keys) /\ assignment' = chosen /\ estimate' \in WholeEstimate(chosen, footprints')
  BY DEF Assign
<1>2. IsChoice(chosen) /\ ExtendsChoice(chosen, assignment)
  BY DEF CostInv, IsChoice, ExtendsChoice
<1> HIDE DEF chosen
<1>3. \A w \in Aliased(chosen) : footprints'[<<w, chosen[w]>>] = Fresh(<<w, chosen[w]>>)
  <2>1. footprints' = Prepared(footprints, keys)
    BY <1>1 DEF Looked
  <2>2. \A w \in Aliased(chosen) : <<w, chosen[w]>> \in keys
    BY DEF Aliased
  <2> HIDE DEF keys
  <2> QED BY <2>1, <2>2, PreparedIsFresh
<1>4. estimate' \in WholeEstimate(chosen, FreshOnes(chosen))
  <2>1. WholeEstimate(chosen, footprints') = WholeEstimate(chosen, FreshOnes(chosen))
    BY <1>2, <1>3, PriceReads
  <2> QED BY <1>1, <2>1
<1>5. Below(estimate, estimate')
  BY <1>2, <1>4, PricesGrow DEF CostInv
<1>6. CostInv'
  <2>1. IsChoice(assignment') /\ estimate' \in WholeEstimate(assignment', FreshOnes(assignment'))
    BY <1>1, <1>2, <1>4
  <2> QED BY <2>1 DEF CostInv, IsChoice, WholeEstimate, FreshOnes
<1> QED BY <1>5, <1>6

\* No step makes the price smaller.
LEMMA CostStep ==
  ASSUME AnswersInv, CostInv, [PricingNext]_pricingVars
  PROVE  CostInv' /\ Below(estimate, estimate')
<1>1. CASE UNCHANGED costVars
  <2>1. estimate' = estimate /\ assignment' = assignment
    BY <1>1 DEF costVars
  <2>2. ExtendsChoice(assignment, assignment)
    BY DEF ExtendsChoice
  <2>3. Below(estimate, estimate)
    BY <2>2, PricesGrow DEF CostInv
  <2> QED BY <2>1, <2>3 DEF CostInv
<1>2. CASE CostNext
  BY <1>2, AssignStep DEF CostNext, AnswersInv
<1>3. UNCHANGED pricingVars => UNCHANGED costVars
  BY DEF pricingVars
<1> QED BY <1>1, <1>2, <1>3 DEF PricingNext

\* Choosing one more variable never makes the price smaller, saturated or not
\* (LayoutCostModel.cpp 103-158), so the price of a part bounds the whole.
THEOREM CostsGrow == PricingSpec => CostsOnlyGrow
<1>1. PricingInit => CostInv
  BY CostStarts DEF PricingInit
<1>2. ASSUME AnswersInv, CostInv, [PricingNext]_pricingVars
      PROVE  CostInv'
  BY <1>2, CostStep
<1>3. ASSUME AnswersInv, CostInv, [PricingNext]_pricingVars
      PROVE  [/\ ~Cheaper(estimate'.cost, estimate.cost)
              /\ estimate.saturated => estimate'.saturated]_pricingVars
  BY <1>3, CostStep, BelowMeans
<1> QED BY <1>1, <1>2, <1>3, AnswersHold, PTL DEF PricingSpec, CostsOnlyGrow
===============================================================================
