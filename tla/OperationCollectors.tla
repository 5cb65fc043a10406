------------------------- MODULE OperationCollectors -------------------------
(***************************************************************************)
(* The collectors that give copies, fills, matrix products and reductions  *)
(* their places in the constraint graph, and decide how many threads run   *)
(* each of them (OperationLayoutConstraints.cpp, MmaLayoutConstraints.cpp, *)
(* ReductionLayoutConstraints.cpp), and the preparation of the joint       *)
(* contracts from frozen domains (InstructionLayoutConstraints.cpp).       *)
(*                                                                         *)
(* Each collector walks the whole program; one that fails does not stop    *)
(* the next.  An operation decides its threads by its scope, its attribute *)
(* or, a reduction, by the producers the graph knows so far; it leaves the *)
(* decision on its variables and, sometimes, on a producer, where later    *)
(* operations read it.                                                     *)
(*                                                                         *)
(* A program has ops in the order of the walk and tensor values; same and  *)
(* flows are what DistributedLayoutConstraints.cpp relates (see            *)
(* LayoutGraphConstruction).  declared is the thread count of the encoding *)
(* in a value's type, scope the count of the parallel loop around it, and  *)
(* frozen the domains its variables may be left with.                      *)
(***************************************************************************)
EXTENDS Integers, FiniteSets, Sequences, SequencesExt

CONSTANTS
  Programs,              \* [ops, values, same, flows, declared, scope, frozen]
  Plan(_, _, _),         \* build...Contract: kind, threads, encodings
  Proven(_, _, _, _)     \* verify...Contract: kind, threads, encodings, binding

None == 0                \* no attribute, no encoding, no binding
Unsupported == -1        \* an encoding whose topology no reduction accepts

\* A program is finite.  A parallel loop encloses an operation and its result
\* alike, and both ends of a slot; a result has one operation, and a reduction
\* reads a tensor.  The ends of a slot are made by a loop or an elementwise
\* operation, never by a matrix product or a reduction.
ASSUME ProgramsAssumption ==
  \A p \in Programs :
    /\ DOMAIN p.ops \subseteq Nat \ {0}
    /\ IsFiniteSet(p.values) /\ IsFiniteSet(p.flows)
    /\ \A f \in p.flows : /\ f.kind \in {"convert", "agree", "permute"}
                          /\ {f.from, f.to} \subseteq p.values
    /\ \A i \in DOMAIN p.ops :
         /\ IsFiniteSet(DOMAIN p.ops[i].in)
         /\ p.ops[i].kind = "reduce" => p.ops[i].in[1] \in p.values
    /\ \A i \in DOMAIN p.ops :
         p.ops[i].kind \in {"mma", "reduce"} =>
           /\ p.ops[i].out \in p.values
           /\ p.scope[p.ops[i].out] = p.ops[i].parallel
           /\ \A j \in DOMAIN p.ops \ {i} : p.ops[j].out # p.ops[i].out
    /\ \A e \in p.same :
         /\ {e[1], e[2]} \subseteq p.values
         /\ p.scope[e[1]] = p.scope[e[2]]
         /\ \A i \in DOMAIN p.ops : p.ops[i].kind \in {"mma", "reduce"} =>
                                      p.ops[i].out \notin {e[1], e[2]}

SupportedCounts == {32, 64, 128, 256, 512, 1024}
MmaCounts       == {128, 256, 512, 1024}
DomainBudget    == 4     \* candidates a joint contract may have per variable

VARIABLES
  program,
  progress,    \* the collector at work, then "frozen", "prepared" or "refused"
  at,          \* the last operation it visited, or prepared
  failed,      \* failedCollection
  required,    \* LayoutVar::requiredThreads of every variable there is
  relations,   \* the constraints: [kind, ends, count]
  decided,     \* threads of the operations visited (history)
  adopted,     \* producers that took over the threads of a consumer (history)
  candidates,  \* frozen domains of the variables looked at so far
  offered      \* tuples or pairs of each joint contract
collectorsVars == <<program, progress, at, failed, required, relations, decided, adopted,
                    candidates, offered>>

Ops     == program.ops
Value(v) == <<"value", v>>
View(w)  == <<"view", w>>
Use(i, k) == <<"use", i, k>>
Execution(i) == <<"execution", i>>
FlowUse(f)   == <<"flow", f.from, f.to>>

Relation(kind, ends) == [kind |-> kind, ends |-> ends, count |-> None]
Limit(kind, x, n)    == [kind |-> kind, ends |-> <<x>>, count |-> n]

Overlaid(new, old) ==
  [x \in DOMAIN new \cup DOMAIN old |-> IF x \in DOMAIN new THEN new[x] ELSE old[x]]

\* A variable that exists already keeps what it requires.
Created(S, old)      == Overlaid(old, [x \in S |-> None])
Requiring(S, n, old) == Overlaid([x \in S |-> n], old)
Deciding(i, n, old)  == Overlaid([j \in {i} |-> n], old)

\* The type of a use is the type of the value it uses, encoding included.
DeclaredAt(x) ==
  CASE x[1] = "value" -> program.declared[x[2]]
    [] x[1] = "use"   -> program.declared[Ops[x[2]].in[x[3]]]
    [] x[1] = "flow"  -> program.declared[x[2]]
    [] OTHER          -> None

\* Threads of the parallel loop around the operation that anchors a variable.
ScopeAt(x) ==
  CASE x[1] = "value" -> program.scope[x[2]]
    [] x[1] = "use"   -> Ops[x[2]].parallel
    [] x[1] = "flow"  -> program.scope[x[3]]
    [] OTHER          -> None

-----------------------------------------------------------------------------
(* The walk of each collector.                                             *)

Following == [operations |-> "values", mma |-> "reductions", reductions |-> "limits"]
Visited   == [operations |-> {"parallel", "copy", "fill"}, mma |-> {"mma"},
              reductions |-> {"reduce"}]

\* The operation at i is the next this collector is interested in.
Visiting(p, i) ==
  /\ progress = p /\ i \in DOMAIN Ops /\ i > at
  /\ Ops[i].kind \in Visited[p]
  /\ \A j \in DOMAIN Ops : at < j /\ j < i => Ops[j].kind \notin Visited[p]

EndWalk(p) ==
  /\ progress = p /\ \A i \in DOMAIN Ops : i > at => Ops[i].kind \notin Visited[p]
  /\ progress' = Following[p] /\ at' = 0
  /\ UNCHANGED <<program, failed, required, relations, decided, adopted, candidates, offered>>

Interrupt(p) ==
  /\ progress' = Following[p] /\ at' = 0 /\ failed' = TRUE
  /\ UNCHANGED <<program, required, relations, decided, adopted, candidates, offered>>

ScopeConflict(o) == o.threads # None /\ o.parallel # None /\ o.threads # o.parallel

\* The loop around the operation decides, then its attribute.
Threads(o, otherwise) ==
  IF o.parallel # None THEN o.parallel
  ELSE IF o.threads # None THEN o.threads ELSE otherwise

CollectorsInit ==
  /\ program \in Programs
  /\ progress = "operations" /\ at = 0 /\ failed = FALSE
  /\ required = <<>> /\ relations = {} /\ decided = <<>> /\ adopted = {}
  /\ candidates = <<>> /\ offered = <<>>

-----------------------------------------------------------------------------
(* Copies and fills.                                                       *)

Access(e, w) == {Relation("StorageAccess", <<e, w>>), Relation("Preference", <<e, w>>)}

\* A fill writes in[1]; a copy reads in[2] too.
CopyRelations(o, e) ==
  Access(e, View(o.in[1])) \cup {Relation("Ownership", <<e>>)}
    \cup (IF o.kind = "copy"
            THEN Access(e, View(o.in[2]))
                   \cup {Relation("CopyAccess", <<View(o.in[2]), View(o.in[1])>>)}
            ELSE {})

Pinned(o, e) == IF o.pinned = None THEN {} ELSE {Limit("RequireEncoding", e, o.pinned)}

VisitOperation(i) ==
  /\ Visiting("operations", i)
  /\ LET o == Ops[i]
         e == Execution(i)
         n == Threads(o, 32)
     IN  IF ~o.sound \/ (o.kind # "parallel" /\ ScopeConflict(o)) THEN Interrupt("operations")
         ELSE IF o.kind = "parallel"
           THEN /\ at' = i
                /\ UNCHANGED <<program, progress, failed, required, relations, decided, adopted,
                               candidates, offered>>
           ELSE /\ at' = i
                /\ required' = Requiring({e}, n, Created({View(w) : w \in Range(o.in)}, required))
                /\ relations' = relations \cup CopyRelations(o, e) \cup Pinned(o, e)
                /\ decided' = Deciding(i, n, decided)
                /\ UNCHANGED <<program, progress, failed, adopted, candidates, offered>>

-----------------------------------------------------------------------------
(* Values, uses and the relations between them.                            *)

FlowRelations(f) ==
  CASE f.kind = "convert" -> {Relation("Convertible", <<Value(f.from), Value(f.to)>>)}
    [] f.kind = "agree"   -> {Relation("Convertible", <<Value(f.from), FlowUse(f)>>),
                              Relation("SameLayout", <<FlowUse(f), Value(f.to)>>)}
    [] f.kind = "permute" -> {Relation("Convertible", <<Value(f.from), FlowUse(f)>>),
                              Relation("TransformLayout", <<FlowUse(f), Value(f.to)>>)}

CollectValues ==
  /\ progress = "values"
  /\ progress' = "mma"
  /\ required' = Created({Value(v) : v \in program.values}
                           \cup {FlowUse(f) : f \in {g \in program.flows : g.kind # "convert"}},
                         required)
  /\ relations' = relations \cup (UNION {FlowRelations(f) : f \in program.flows})
                    \cup {Relation("SameLayout", <<Value(e[1]), Value(e[2])>>) : e \in program.same}
                    \cup {Limit("RequireEncoding", Value(v), program.declared[v]) :
                            v \in {w \in program.values : program.declared[w] # None}}
  /\ UNCHANGED <<program, at, failed, decided, adopted, candidates, offered>>

-----------------------------------------------------------------------------
(* Matrix products: A, B and the initial accumulator, then the result.     *)

Role(i, k) == IF Ops[i].in[k] \in program.values THEN Use(i, k) ELSE View(Ops[i].in[k])
MmaRoles(i) == <<Role(i, 1), Role(i, 2), Role(i, 3), Value(Ops[i].out)>>

TensorOperands(i) == {k \in DOMAIN Ops[i].in : Ops[i].in[k] \in program.values}
OwnUses(i) ==
  {Relation("Convertible", <<Value(Ops[i].in[k]), Use(i, k)>>) : k \in TensorOperands(i)}

VisitMma(i) ==
  /\ Visiting("mma", i)
  /\ LET n     == Threads(Ops[i], 128)
         roles == MmaRoles(i)
         tiles == {x \in Range(roles) : x[1] # "view"}
     IN  IF ~Ops[i].sound \/ ScopeConflict(Ops[i]) \/ n \notin MmaCounts THEN Interrupt("mma")
         ELSE /\ at' = i
              /\ required' = Requiring(tiles, n, Created(Range(roles), required))
              /\ relations' = relations \cup OwnUses(i)
                    \cup {Relation("SameLayout", <<roles[3], roles[4]>>),
                          Relation("InstructionContract", roles)}
              /\ decided' = Deciding(i, n, decided)
              /\ UNCHANGED <<program, progress, failed, adopted, candidates, offered>>

-----------------------------------------------------------------------------
(* Reductions.                                                             *)

Known(x) == required[x] # None \/ DeclaredAt(x) # None

\* What the search goes on to from x: every peer, and the producers of a value
\* whose own threads are not known.  The faulty form only looks back.
Before(x, kinds) ==
  {y \in DOMAIN required : \E r \in relations : r.kind \in kinds /\ r.ends = <<y, x>>}

Producers(x) ==
  IF Known(x) THEN {} ELSE Before(x, {"Convertible", "TransformLayout", "ReductionLayout"})

SourcesBefore(x) == Before(x, {"SameLayout"}) \cup Producers(x)

Sources(x) ==
  Producers(x) \cup
    UNION {Range(r.ends) : r \in {q \in relations : q.kind = "SameLayout" /\ x \in Range(q.ends)}}

SearchedFrom(x) ==
  LET reached[n \in 0..Cardinality(DOMAIN required)] ==
        IF n = 0 THEN {x}
        ELSE LET S == reached[n - 1] IN S \cup UNION {Sources(y) : y \in S}
  IN  reached[Cardinality(DOMAIN required)]

CountsFrom(x) ==
  (UNION {{required[y], DeclaredAt(y)} : y \in SearchedFrom(x)}) \ {None}

\* inferSourceThreads: the one known count, 32 if there is none, or failure.
Inferable(x) == Unsupported \notin CountsFrom(x) /\ \A m, n \in CountsFrom(x) : m = n
Inferred(x)  == IF CountsFrom(x) = {} THEN 32 ELSE CHOOSE n \in CountsFrom(x) : TRUE

UsesOf(v) ==
  Cardinality({f \in program.flows : f.from = v})
    + Cardinality(UNION {{i} \X {k \in DOMAIN Ops[i].in : Ops[i].in[k] = v} : i \in DOMAIN Ops})

\* A producer with one consumer adopts its threads; the faulty form forgets
\* that it may have threads of its own.
AdoptsDecided(v, n) ==
  program.declared[v] = None /\ UsesOf(v) = 1 /\ program.scope[v] \in {None, n}

Adopts(v, n) ==
  /\ required[Value(v)] = None /\ program.declared[v] = None
  /\ UsesOf(v) = 1 /\ program.scope[v] \in {None, n}

ScopeOrAttribute(o) == o.parallel # None \/ o.threads # None

VisitReduce(i) ==
  /\ Visiting("reductions", i)
  /\ LET o == Ops[i]
         v == o.in[1]
         n == Threads(o, Inferred(Value(v)))
     IN  IF \/ ~o.sound \/ ScopeConflict(o)
            \/ ~ScopeOrAttribute(o) /\ ~Inferable(Value(v))
            \/ n \notin SupportedCounts
         THEN Interrupt("reductions")
         ELSE /\ at' = i
              /\ required' = Requiring({Use(i, 1), Value(o.out)}
                               \cup (IF Adopts(v, n) THEN {Value(v)} ELSE {}), n, required)
              /\ relations' = relations \cup OwnUses(i)
                    \cup {Relation("ReductionLayout", <<Use(i, 1), Value(o.out)>>)}
              /\ decided' = Deciding(i, n, decided)
              /\ adopted' = IF Adopts(v, n) THEN adopted \cup {v} ELSE adopted
              /\ UNCHANGED <<program, progress, failed, candidates, offered>>

-----------------------------------------------------------------------------
(* Limits, and the end of collection.                                      *)

LimitAt(x) == IF required[x] # None THEN required[x] ELSE ScopeAt(x)
Limited == {x \in DOMAIN required : x[1] # "view" /\ LimitAt(x) # None}

CollectLimits ==
  /\ progress = "limits"
  /\ LET limited == {x \in Limited : LimitAt(x) \in SupportedCounts}
     IN  /\ required' = [x \in DOMAIN required |->
                           IF x \in limited THEN LimitAt(x) ELSE required[x]]
         /\ relations' = relations \cup {Limit("ResourceLimit", x, LimitAt(x)) : x \in limited}
         /\ failed' = (failed \/ limited # Limited)
  /\ progress' = IF failed' THEN "refused" ELSE "frozen"
  /\ UNCHANGED <<program, at, decided, adopted, candidates, offered>>

-----------------------------------------------------------------------------
(* Joint contracts over frozen domains.                                    *)

JointRoles(i) ==
  IF Ops[i].kind = "mma" THEN MmaRoles(i) ELSE <<Use(i, 1), Value(Ops[i].out)>>

\* Combinations in the order of the roles, one choice for a repeated variable.
Combinations(roles, D) ==
  LET chosen[k \in 0..Len(roles)] ==
        IF k = 0 THEN {<<>>}
        ELSE UNION {{Append(t, e) : e \in
               IF \E j \in 1..(k - 1) : roles[j] = roles[k]
                 THEN {t[CHOOSE j \in 1..(k - 1) : roles[j] = roles[k]]}
                 ELSE D[roles[k]]} : t \in chosen[k - 1]}
  IN  chosen[Len(roles)]

BindingOf(i, t) ==
  IF Ops[i].binding # None THEN Ops[i].binding ELSE Plan(Ops[i].kind, decided[i], t)

Offers(i, D) ==
  {[encodings |-> t, binding |-> BindingOf(i, t)] :
     t \in {s \in Combinations(JointRoles(i), D) :
              /\ BindingOf(i, s) # None
              /\ Proven(Ops[i].kind, decided[i], s, BindingOf(i, s))}}

\* The instructions come first, then the reductions; the graph has sorted each.
Joint(kind) == {i \in DOMAIN decided : Ops[i].kind = kind}
NextJoint(i) ==
  /\ i \in Joint("mma") \cup Joint("reduce") /\ i \notin DOMAIN offered
  /\ Ops[i].kind = "reduce" => Joint("mma") \subseteq DOMAIN offered

PrepareJoint(i) ==
  /\ progress = "frozen" /\ NextJoint(i)
  /\ \E D \in [Range(JointRoles(i)) -> program.frozen] :
       /\ \A x \in DOMAIN D \cap DOMAIN candidates : D[x] = candidates[x]
       /\ candidates' = Overlaid(D, candidates)
       /\ IF (\E x \in DOMAIN D : Cardinality(D[x]) > DomainBudget) \/ Offers(i, D) = {}
            THEN progress' = "refused" /\ UNCHANGED offered
            ELSE offered' = Deciding(i, Offers(i, D), offered) /\ UNCHANGED progress
  /\ UNCHANGED <<program, at, failed, required, relations, decided, adopted>>

EndPreparation ==
  /\ progress = "frozen" /\ \A i \in DOMAIN Ops : ~NextJoint(i)
  /\ progress' = "prepared"
  /\ UNCHANGED <<program, at, failed, required, relations, decided, adopted, candidates, offered>>

CollectorsNext ==
  \/ \E i \in DOMAIN Ops : \/ VisitOperation(i) \/ VisitMma(i) \/ VisitReduce(i)
                           \/ PrepareJoint(i)
  \/ \E p \in DOMAIN Following : EndWalk(p)
  \/ CollectValues \/ CollectLimits \/ EndPreparation

CollectorsSpec == CollectorsInit /\ [][CollectorsNext]_collectorsVars

-----------------------------------------------------------------------------
(* Properties.                                                             *)

Collected == progress \in {"frozen", "prepared"}

Tiles(i) ==
  IF Ops[i].kind = "mma" THEN {x \in Range(MmaRoles(i)) : x[1] # "view"}
  ELSE IF Ops[i].kind = "reduce" THEN {Use(i, 1), Value(Ops[i].out)}
  ELSE {Execution(i)}

Counts(x, G) == {r.count : r \in {q \in G : q.count # None /\ x \in Range(q.ends)}}

\* However many operations share a value, and whatever a later one leaves on it,
\* the graph holds every tile of an operation to the one thread count decided for
\* it, which is the count of the loop around it and of its attribute.
RolesAgree ==
  Collected =>
    \A i \in DOMAIN decided :
      /\ \A x \in Tiles(i) : Counts(x, {r \in relations : r.kind = "ResourceLimit"}) = {decided[i]}
      /\ {Ops[i].parallel, Ops[i].threads} \subseteq {None, decided[i]}

\* Everything connected to x by relations of the given kinds.
Class(x, kinds) ==
  LET grown[n \in 0..Cardinality(DOMAIN required)] ==
        IF n = 0 THEN {x}
        ELSE LET S == grown[n - 1]
             IN  S \cup UNION {Range(r.ends) : r \in {q \in relations :
                                  q.kind \in kinds /\ Range(q.ends) \cap S # {}}}
  IN  grown[Cardinality(DOMAIN required)]

SameThreads == {"SameLayout", "TransformLayout", "ReductionLayout"}

\* No layout satisfies two thread counts, and these relations keep the count.
Feasible(G) ==
  \A x \in DOMAIN required : Cardinality(UNION {Counts(y, G) : y \in Class(x, SameThreads)}) <= 1

Adoptions ==
  {r \in relations : /\ r.kind = "ResourceLimit"
                     /\ \E v \in adopted : r.ends = <<Value(v)>> /\ program.scope[v] = None}

Alone(v) == \A w \in program.values \ {v} : Value(w) \notin Class(Value(v), SameThreads)

\* The reduction at i left its threads on a producer that no loop limits.
Adopter(i) ==
  Ops[i].kind = "reduce" /\ Ops[i].in[1] \in adopted /\ program.scope[Ops[i].in[1]] = None

\* Taking over the threads of a consumer makes no program impossible.  Where
\* several values share a layout, a loop's argument and its result, each with a
\* consumer of its own, this holds because a reduction that infers its threads
\* has looked at all of them; one that is told its threads has not, so it is
\* only claimed of a producer that shares its layout with no other value.
AdoptionExcludesNothing ==
  Collected /\ Feasible(relations \ Adoptions)
          /\ (\A i \in DOMAIN decided :
                Adopter(i) /\ ~Alone(Ops[i].in[1]) => ~ScopeOrAttribute(Ops[i]))
    => Feasible(relations)

\* Two producers that took over threads and must have one layout took over the
\* same ("Shared or explicitly encoded producers keep their own layout
\* requirements", ReductionLayoutConstraints.cpp).
SharedProducersAgree ==
  \A v, w \in adopted :
    Value(w) \in Class(Value(v), {"SameLayout"}) => required[Value(v)] = required[Value(w)]

Demanded(x) == ({required[x]} \cup Counts(x, relations)) \ {None}

\* A reduction without a scope or an attribute runs with the threads that the
\* graph demands by then of any variable that has to share its source's layout,
\* on whichever side of it; where two of them differ it never picks one.
InheritsFromPeers ==
  [][\A i \in DOMAIN Ops :
       Visiting("reductions", i) /\ at' = i /\ ~ScopeOrAttribute(Ops[i]) =>
         \A x \in Class(Value(Ops[i].in[1]), {"SameLayout"}) :
           Demanded(x) \subseteq {decided'[i]}]_collectorsVars

Chosen(i) ==
  {f \in [Range(JointRoles(i)) -> UNION {candidates[x] : x \in Range(JointRoles(i))}] :
     \A x \in DOMAIN f : f[x] \in candidates[x]}

Tuple(i, f) == [k \in DOMAIN JointRoles(i) |-> f[JointRoles(i)[k]]]

\* A joint contract offers a tuple for exactly the choices of one candidate per
\* variable that the target proves, with the binding it was proved for; a
\* variable in two roles has one candidate in both.
OffersExact ==
  \A i \in DOMAIN offered :
    offered[i] =
      {[encodings |-> Tuple(i, f), binding |-> BindingOf(i, Tuple(i, f))] :
         f \in {g \in Chosen(i) :
                 /\ BindingOf(i, Tuple(i, g)) # None
                 /\ Proven(Ops[i].kind, decided[i], Tuple(i, g), BindingOf(i, Tuple(i, g)))}}
=============================================================================
