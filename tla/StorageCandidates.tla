--------------------------- MODULE StorageCandidates ---------------------------
(***************************************************************************)
(* The candidates of storage variables (initializeStorageAliasCandidates,  *)
(* lib/Dialect/Frisk/Analysis/StorageAliasCandidates.cpp).  Views of one   *)
(* buffer and buffers that are copied to each other see the same layout    *)
(* through different coordinates: every explicit layout, and for buffers   *)
(* without one every template of the target, is an origin that walks the   *)
(* relations breadth first and offers each variable at most one candidate. *)
(*                                                                         *)
(* A problem is a record                                                   *)
(*   vars       number of storage variables, which are 1..vars             *)
(*   root       the buffer a variable is a view of                         *)
(*   seeds      candidates by layout bindings                              *)
(*   contracts  sequence of [var, image], the root contracts that dominate *)
(*              a variable and what the contract's layout is for it, {}    *)
(*              when it cannot be projected                                *)
(*   relations  sequence of pairs of variables, the hard binary equalities *)
(*   proven     candidates of a variable whose footprint is proven         *)
(*   accepted   candidates target.verifyCandidate accepts                  *)
(*   templates  number of layouts a buffer may be given, 0 when even the   *)
(*              linear one cannot be proven                                *)
(* Image(p, k, v, e) is the set of at most one candidate that candidate e  *)
(* of v is for the other end of relation k, its guarantees capped;         *)
(* RootImage(p, r, t, v) the same for template t of buffer r and its view. *)
(***************************************************************************)
EXTENDS Integers, Sequences

CONSTANTS Encodings, Roots, Image(_, _, _, _), RootImage(_, _, _, _), Problems

Vars(p) == 1..p.vars

WellFormed(p) ==
  /\ p.vars \in Nat
  /\ p.root \in [Vars(p) -> Roots]
  /\ p.seeds \in [Vars(p) -> SUBSET Encodings]
  /\ p.contracts \in Seq([var : Vars(p), image : SUBSET Encodings])
  /\ p.relations \in Seq(Vars(p) \X Vars(p))
  /\ p.proven \in [Vars(p) -> SUBSET Encodings]
  /\ p.accepted \in [Vars(p) -> SUBSET Encodings]
  /\ p.templates \in [Roots -> Nat]

ASSUME ProblemsAssumption == \A p \in Problems : WellFormed(p)

VARIABLES
  problem,
  domain,       \* candidates of every variable
  phase,        \* "contracts", "origins", "starts", "walk", "defaults",
                \* "templates", "done" or "failed"
  contract,     \* next root contract
  origins,      \* explicitSeeds that have yet to walk
  starts,       \* what the walk offers before it follows any relation
  offered,      \* what the walk has offered, {} to a variable not visited
  queue,        \* variables whose relations the walk has yet to follow
  cursor,       \* next start, or next relation of the variable in front
  turn,         \* variable whose defaults are looked at
  template,     \* next template of its buffer, 0 when there is none
  initialized   \* initializedRoots

vars == <<problem, domain, phase, contract, origins, starts, offered, queue, cursor, turn,
          template, initialized>>

Nothing(p) == [v \in Vars(p) |-> {}]

Init ==
  /\ problem \in Problems
  /\ domain = problem.seeds
  /\ phase = "contracts" /\ contract = 1
  /\ origins = {} /\ starts = Nothing(problem) /\ offered = Nothing(problem)
  /\ queue = <<>> /\ cursor = 1
  /\ turn = 1 /\ template = 0 /\ initialized = {}

-----------------------------------------------------------------------------
(* Root contracts propose, and every explicit candidate must be proven.    *)

Contract ==
  /\ phase = "contracts" /\ contract <= Len(problem.contracts)
  /\ LET k == problem.contracts[contract]
     IN  IF k.image = {}
           THEN phase' = "failed" /\ UNCHANGED domain
           ELSE domain' = [domain EXCEPT ![k.var] = @ \cup k.image] /\ UNCHANGED phase
  /\ contract' = contract + 1
  /\ UNCHANGED <<problem, origins, starts, offered, queue, cursor, turn, template, initialized>>

\* Variables with an explicit candidate the alias analysis cannot prove or that
\* does not fit the buffer.
Refuted(p, D) == {v \in Vars(p) : ~ D[v] \subseteq p.proven[v]}

Validate ==
  /\ phase = "contracts" /\ contract > Len(problem.contracts)
  /\ phase' = IF Refuted(problem, domain) # {} THEN "failed" ELSE "origins"
  /\ origins' = {o \in Vars(problem) \X Encodings : o[2] \in domain[o[1]]}
  /\ UNCHANGED <<problem, domain, contract, starts, offered, queue, cursor, turn, template,
                 initialized>>

-----------------------------------------------------------------------------
(* propagateOrigin.                                                        *)

\* A walk begins with nothing visited.
Walk(s) ==
  /\ starts' = s
  /\ offered' = Nothing(problem) /\ queue' = <<>> /\ cursor' = 1
  /\ phase' = "starts"

\* What of the set e variable v is offered.
Usable(p, v, e) == e \cap p.proven[v] \cap p.accepted[v]

\* enqueue: once visited, a variable receives nothing else from this origin.
Receives(v) == offered[v] = {}

Enqueue(v, e) ==
  LET c == Usable(problem, v, e)
  IN  IF Receives(v) /\ c # {}
        THEN /\ offered' = [offered EXCEPT ![v] = c]
             /\ domain' = [domain EXCEPT ![v] = @ \cup c]
             /\ queue' = Append(queue, v)
        ELSE UNCHANGED <<offered, domain, queue>>

Start ==
  /\ phase = "starts" /\ cursor <= problem.vars
  /\ Enqueue(cursor, starts[cursor])
  /\ cursor' = cursor + 1
  /\ UNCHANGED <<problem, phase, contract, origins, starts, turn, template, initialized>>

Started ==
  /\ phase = "starts" /\ cursor > problem.vars
  /\ phase' = "walk" /\ cursor' = 1
  /\ UNCHANGED <<problem, domain, contract, origins, starts, offered, queue, turn, template,
                 initialized>>

Touches(k, v) == v = k[1] \/ v = k[2]
TouchesFirst(k, v) == v = k[1]

\* adjacency: the relations the walk follows from v.
Follows(k, v) == Touches(k, v)

Other(k, v) == IF k[1] = v THEN k[2] ELSE k[1]

Offered(p, k, v, c) == UNION {Image(p, k, v, e) : e \in c}

Follow ==
  /\ phase = "walk" /\ queue # <<>> /\ cursor <= Len(problem.relations)
  /\ LET k == problem.relations[cursor]
         v == Head(queue)
     IN  IF Follows(k, v)
           THEN Enqueue(Other(k, v), Offered(problem, k, v, offered[v]))
           ELSE UNCHANGED <<offered, domain, queue>>
  /\ cursor' = cursor + 1
  /\ UNCHANGED <<problem, phase, contract, origins, starts, turn, template, initialized>>

Pop ==
  /\ phase = "walk" /\ queue # <<>> /\ cursor > Len(problem.relations)
  /\ queue' = Tail(queue) /\ cursor' = 1
  /\ UNCHANGED <<problem, domain, phase, contract, origins, starts, offered, turn, template,
                 initialized>>

EndWalk ==
  /\ phase = "walk" /\ queue = <<>>
  /\ phase' = IF template = 0 THEN "origins" ELSE "templates"
  /\ UNCHANGED <<problem, domain, contract, origins, starts, offered, queue, cursor, turn,
                 template, initialized>>

\* No walk reads what another one added, so their order is left open.
NextOrigin ==
  /\ phase = "origins"
  /\ \E o \in origins :
       /\ origins' = origins \ {o}
       /\ Walk([v \in Vars(problem) |-> IF v = o[1] THEN {o[2]} ELSE {}])
  /\ UNCHANGED <<problem, domain, contract, turn, template, initialized>>

OriginsDone ==
  /\ phase = "origins" /\ origins = {}
  /\ phase' = "defaults"
  /\ UNCHANGED <<problem, domain, contract, origins, starts, offered, queue, cursor, turn,
                 template, initialized>>

-----------------------------------------------------------------------------
(* Templates of the buffers whose variables are still empty.               *)

NeedsTemplates(v) == domain[v] = {} /\ problem.root[v] \notin initialized

Default ==
  /\ phase = "defaults" /\ turn <= problem.vars
  /\ LET r == problem.root[turn]
     IN  IF ~NeedsTemplates(turn)
           THEN turn' = turn + 1 /\ UNCHANGED <<phase, template, initialized>>
         ELSE IF problem.templates[r] = 0
           THEN phase' = "failed" /\ UNCHANGED <<turn, template, initialized>>
         ELSE /\ initialized' = initialized \cup {r}
              /\ template' = 1 /\ phase' = "templates"
              /\ UNCHANGED turn
  /\ UNCHANGED <<problem, domain, contract, origins, starts, offered, queue, cursor>>

\* The variables a template starts from: every view of the buffer.
TemplateFor(p, r, t, v) == IF p.root[v] = r THEN RootImage(p, r, t, v) ELSE {}

Template ==
  /\ phase = "templates" /\ template <= problem.templates[problem.root[turn]]
  /\ Walk([v \in Vars(problem) |-> TemplateFor(problem, problem.root[turn], template, v)])
  /\ template' = template + 1
  /\ UNCHANGED <<problem, domain, contract, origins, turn, initialized>>

TemplatesDone ==
  /\ phase = "templates" /\ template > problem.templates[problem.root[turn]]
  /\ phase' = "defaults" /\ template' = 0 /\ turn' = turn + 1
  /\ UNCHANGED <<problem, domain, contract, origins, starts, offered, queue, cursor,
                 initialized>>

Finish ==
  /\ phase = "defaults" /\ turn > problem.vars
  /\ phase' = "done"
  /\ UNCHANGED <<problem, domain, contract, origins, starts, offered, queue, cursor, turn,
                 template, initialized>>

Next ==
  \/ Contract \/ Validate \/ NextOrigin \/ OriginsDone
  \/ Start \/ Started \/ Follow \/ Pop \/ EndWalk
  \/ Default \/ Template \/ TemplatesDone \/ Finish

Spec == Init /\ [][Next]_vars


-----------------------------------------------------------------------------
(* Properties.                                                             *)

TypeOK ==
  /\ WellFormed(problem)
  /\ domain \in [Vars(problem) -> SUBSET Encodings]
  /\ phase \in {"contracts", "origins", "starts", "walk", "defaults", "templates", "done",
                "failed"}
  /\ contract \in 1..Len(problem.contracts) + 1
  /\ origins \subseteq Vars(problem) \X Encodings
  /\ DOMAIN starts = Vars(problem)
  /\ offered \in [Vars(problem) -> SUBSET Encodings]
  /\ queue \in Seq(Vars(problem)) /\ \A i \in DOMAIN queue : offered[queue[i]] # {}
  /\ \A i, j \in DOMAIN queue : queue[i] = queue[j] => i = j
  /\ cursor \in Nat \ {0}
  /\ turn \in 1..problem.vars + 1
  /\ (phase = "templates" \/ template # 0) => turn <= problem.vars
  /\ template \in Nat
  /\ phase \in {"contracts", "origins", "defaults", "done"} => template = 0
  /\ initialized \subseteq Roots

\* What is handed to propagation and search are footprints the alias analysis
\* has proven, whatever contracts, bindings, copies and templates proposed.
AllProven ==
  phase \notin {"contracts", "failed"} =>
    \A v \in Vars(problem) : domain[v] \subseteq problem.proven[v]

\* No candidate is invented: it is a binding, the projection of a root contract
\* or of a template of its buffer, or the counterpart of a candidate across one
\* relation.
Explained ==
  \A v \in Vars(problem) : \A e \in domain[v] :
    \/ e \in problem.seeds[v]
    \/ \E i \in DOMAIN problem.contracts :
         problem.contracts[i].var = v /\ e \in problem.contracts[i].image
    \/ \E t \in 1..problem.templates[problem.root[v]] :
         e \in RootImage(problem, problem.root[v], t, v)
    \/ \E i \in DOMAIN problem.relations : \E u \in Vars(problem) :
         LET k == problem.relations[i]
         IN  /\ Touches(k, u) /\ v = Other(k, u)
             /\ \E d \in domain[u] : e \in Image(problem, k, u, d)

\* When a walk ends, the origin has reached everything it can: no variable that
\* a candidate of the walk has a usable counterpart for was left out, whichever
\* way around copy cycles the walk went.
OriginCovers ==
  phase = "walk" /\ queue = <<>> =>
    \A i \in DOMAIN problem.relations : \A v \in Vars(problem) :
      LET k == problem.relations[i]
          w == Other(k, v)
      IN  Touches(k, v) /\ offered[v] # {} /\ offered[w] = {} =>
            Usable(problem, w, Offered(problem, k, v, offered[v])) = {}

\* A variable is handed on without candidates only when every template of its
\* buffer was proposed and none is usable through its view; that another view
\* of the buffer was initialized first makes no difference.
EmptyOnlyIfRejected ==
  phase = "done" =>
    \A v \in Vars(problem) : domain[v] = {} =>
      /\ problem.root[v] \in initialized
      /\ \A t \in 1..problem.templates[problem.root[v]] :
           Usable(problem, v, RootImage(problem, problem.root[v], t, v)) = {}
=============================================================================
