--------------------------- MODULE LayoutPipeline ---------------------------
(***************************************************************************)
(* The transaction around the layout passes, the passes run on their own,  *)
(* and the rewriting of layout conversions that ends the pipeline.         *)
(*                                                                         *)
(* A module is seen as the pipeline sees it: whether legacy operations are *)
(* left, whether its views are bound to storage layouts and these bindings *)
(* are declared, the encodings of the values that are no conversions (the  *)
(* roots), the conversions, and what each consumer reads.  What the stages *)
(* do inside is the subject of the other modules.                          *)
(*                                                                         *)
(*   PassPipelines.cpp, NormalizeLayoutIR.cpp, LayoutInfer.cpp,            *)
(*   OptimizeLayoutConversions.cpp, ConvertLayoutOp::canonicalize          *)
(***************************************************************************)
EXTENDS Naturals, FiniteSets, Functions

CONSTANTS Roots,         \* values that are not the result of a conversion
          ConversionIds, \* identities of conversions, written or inserted
          Consumers,     \* uses of tensors by operations other than conversions
          Encodings,     \* distributed encodings
          Unset,         \* the encoding of a value without one
          MaxRuns,       \* how many passes are run, one after the other
          Problems       \* the modules the passes are run on

Values == Roots \cup ConversionIds
Entries == {"pipeline", "normalize", "infer", "analysis"}
Stages == {"idle", "normalize", "declare", "commit", "infer", "recheck",
           "preserve", "optimize", "verify"}

Conversion == [source : Values, type : Encodings]
IsModule(m) ==
    /\ m = [legacy |-> m.legacy, bound |-> m.bound, declared |-> m.declared,
            types |-> m.types, conversions |-> m.conversions, reads |-> m.reads]
    /\ m.legacy \in BOOLEAN /\ m.bound \in BOOLEAN /\ m.declared \in BOOLEAN
    /\ m.types \in [Roots -> Encodings \cup {Unset}]
    /\ DOMAIN m.conversions \subseteq ConversionIds
    /\ m.conversions \in [DOMAIN m.conversions -> Conversion]
    /\ m.reads \in [Consumers -> Values]

VARIABLES problem,  \* what is compiled
          entry,    \* the pass that runs
          runs,     \* passes begun
          stage,    \* of that pass
          before,   \* the module when the pass began
          unit,     \* the module the pass was called on
          staged,   \* the module the stages work on: a clone in the pipeline
          clone,    \* the clone of NormalizeLayoutIR
          outcome   \* of the pass

vars == <<problem, entry, runs, stage, before, unit, staged, clone, outcome>>

-----------------------------------------------------------------------------
TypeOf(m, v) == IF v \in DOMAIN m.conversions THEN m.conversions[v].type
                ELSE m.types[v]
Reads(m, v) == \/ \E c \in Consumers : m.reads[c] = v
               \/ \E d \in DOMAIN m.conversions : m.conversions[d].source = v
Wanted(p, m, c) == IF p.wants[c] \in Encodings THEN p.wants[c]
                   ELSE m.types[p.wants[c]]

\* verifyMaterializedLayouts
Verified(p, m) == /\ ~m.legacy /\ m.bound
                  /\ m.types \in p.accepts
                  /\ \A c \in Consumers : TypeOf(m, m.reads[c]) = Wanted(p, m, c)

\* preserveStorageContracts writes down the bindings of the views there are.
Preserved(m) == [m EXCEPT !.declared = @ \/ m.bound]

-----------------------------------------------------------------------------
(* Inference *)

\* Encodings already there are chosen anew.
ForgetfulSolutions(m) == [Roots -> Encodings]

\* What the solver may choose: values with an encoding keep it.
Solutions(m) == {types \in [Roots -> Encodings] :
                   \A r \in Roots : m.types[r] # Unset => types[r] = m.types[r]}

Typed(m, types) == [m EXCEPT !.types = types, !.bound = TRUE]
Converting(p, m) == {c \in Consumers : TypeOf(m, m.reads[c]) # Wanted(p, m, c)}

\* A conversion of its own for each use that needs one.
Inserted(p, m, fresh) ==
    LET new == {fresh[c] : c \in Converting(p, m)}
        user(n) == CHOOSE c \in Converting(p, m) : fresh[c] = n
    IN [m EXCEPT
          !.conversions = [v \in DOMAIN m.conversions \cup new |->
                             IF v \in new
                             THEN [source |-> m.reads[user(v)],
                                   type |-> Wanted(p, m, user(v))]
                             ELSE m.conversions[v]],
          !.reads = [c \in Consumers |->
                       IF c \in Converting(p, m) THEN fresh[c] ELSE m.reads[c]]]

Fresh(p, m) == Injection(Converting(p, m), ConversionIds \ DOMAIN m.conversions)
Materializations(p, m) ==
    UNION {{Inserted(p, Typed(m, types), fresh) : fresh \in Fresh(p, Typed(m, types))}
             : types \in Solutions(m)}

-----------------------------------------------------------------------------
(* Rewriting of conversions *)

Without(f, c) == [v \in DOMAIN f \ {c} |-> f[v]]
Redirect(x, c, v) == IF x = c THEN v ELSE x

\* rewriter.replaceOp(c, v)
Replaced(m, c, v) ==
    [m EXCEPT !.conversions = [d \in DOMAIN m.conversions \ {c} |->
                                 [m.conversions[d] EXCEPT !.source = Redirect(@, c, v)]],
              !.reads = [u \in Consumers |-> Redirect(m.reads[u], c, v)]]

Source(m, c) == m.conversions[c].source
Trivial(m, c) == TypeOf(m, Source(m, c)) = m.conversions[c].type
Nested(m, c) == Source(m, c) \in DOMAIN m.conversions
Inner(m, c) == Source(m, Source(m, c))
RoundTrip(m, c) == TypeOf(m, Inner(m, c)) = m.conversions[c].type

\* ConvertLayoutOp::canonicalize
Canonicalized(m, c) ==
    IF Trivial(m, c) THEN Replaced(m, c, Source(m, c))
    ELSE IF RoundTrip(m, c) THEN Replaced(m, c, Inner(m, c))
    ELSE [m EXCEPT !.conversions[c].source = Inner(m, c)]

\* Conversions are pure: the driver erases those nobody reads.
Erased(m, c) == [m EXCEPT !.conversions = Without(@, c)]

Rewritings(m) ==
    {Canonicalized(m, c) : c \in {d \in DOMAIN m.conversions : Trivial(m, d) \/ Nested(m, d)}}
    \cup {Erased(m, c) : c \in {d \in DOMAIN m.conversions : ~Reads(m, d)}}

-----------------------------------------------------------------------------
(* The passes *)

\* The pipeline works on the module itself.
UnstagedWrite(m) == staged' = m /\ unit' = m

\* Outside the pipeline the stages work on the module itself.
Write(m) == staged' = m /\ unit' = IF entry = "pipeline" THEN unit ELSE m
End(verdict) == stage' = "idle" /\ outcome' = verdict
Go(next) == stage' = next /\ UNCHANGED outcome
NextOrEnd(next) == IF entry = "pipeline" THEN Go(next) ELSE End("done")

Begin(e) ==
    /\ stage = "idle" /\ runs < MaxRuns
    /\ entry' = e /\ runs' = runs + 1
    /\ before' = unit /\ staged' = unit /\ outcome' = "running"
    /\ stage' = IF e \in {"pipeline", "normalize"} THEN "normalize" ELSE "infer"
    /\ UNCHANGED <<problem, unit, clone>>

NormalizeFragments ==
    /\ stage = "normalize"
    /\ clone' = [staged EXCEPT !.legacy = FALSE]
    /\ Go("declare")
    /\ UNCHANGED <<problem, entry, runs, before, unit, staged>>

DeclareBindings ==
    /\ stage = "declare"
    /\ clone' = Preserved(clone)
    /\ Go("commit")
    /\ UNCHANGED <<problem, entry, runs, before, unit, staged>>

CommitNormalized ==
    /\ stage = "commit"
    /\ Write(clone)
    /\ NextOrEnd("infer")
    /\ UNCHANGED <<problem, entry, runs, before, clone>>

\* materializeLayouts commits a module that verifyMaterializedLayouts accepted.
Infer ==
    /\ stage = "infer" /\ ~staged.legacy
    /\ \E m \in Materializations(problem, staged) :
         IF entry = "analysis" THEN End("done") /\ UNCHANGED <<unit, staged>>
         ELSE Verified(problem, m) /\ Write(m) /\ Go("recheck")
    /\ UNCHANGED <<problem, entry, runs, before, clone>>

\* The pass verifies once more what materializeLayouts has committed.
Recheck ==
    /\ stage = "recheck"
    /\ IF Verified(problem, staged) THEN NextOrEnd("preserve") ELSE End("failed")
    /\ UNCHANGED <<problem, entry, runs, before, unit, staged, clone>>

PreserveRootContracts ==
    /\ stage = "preserve"
    /\ Write(Preserved(staged)) /\ Go("optimize")
    /\ UNCHANGED <<problem, entry, runs, before, clone>>

Rewrite ==
    /\ stage = "optimize"
    /\ \E m \in Rewritings(staged) : Write(m)
    /\ UNCHANGED <<problem, entry, runs, stage, before, clone, outcome>>

RewrittenAll ==
    /\ stage = "optimize" /\ Rewritings(staged) = {}
    /\ Go("verify")
    /\ UNCHANGED <<problem, entry, runs, before, unit, staged, clone>>

\* original->setAttrs, takeBody: the one write of the pipeline to its module.
Commit ==
    /\ stage = "verify" /\ Verified(problem, staged)
    /\ unit' = staged /\ End("done")
    /\ UNCHANGED <<problem, entry, runs, before, staged, clone>>

(***************************************************************************)
(* Every stage may also refuse for a reason this module does not look at:  *)
(* a kernel that cannot be imported, contracts that disagree, no layout,   *)
(* a rewriting that does not converge, a verifier.  The second             *)
(* verification of inference sees what the first one saw.                  *)
(***************************************************************************)
Refuse ==
    /\ stage \in Stages \ {"idle", "recheck"}
    /\ End("failed")
    /\ UNCHANGED <<problem, entry, runs, before, unit, staged, clone>>

Init == /\ problem \in Problems
        /\ unit = problem.unit /\ staged = unit /\ clone = unit /\ before = unit
        /\ entry = "pipeline" /\ runs = 0 /\ stage = "idle" /\ outcome = "running"

Next == \/ \E e \in Entries : Begin(e)
        \/ NormalizeFragments \/ DeclareBindings \/ CommitNormalized
        \/ Infer \/ Recheck \/ PreserveRootContracts
        \/ Rewrite \/ RewrittenAll \/ Commit \/ Refuse

Spec == Init /\ [][Next]_vars

-----------------------------------------------------------------------------
(* Properties *)

(***************************************************************************)
(* A labelling says of every conversion whose tile it holds: that of its   *)
(* source.                                                                 *)
(***************************************************************************)
Held(label, v) == IF v \in Roots THEN v ELSE label[v]
Labellings(m) ==
    {label \in [DOMAIN m.conversions -> Roots] :
       \A c \in DOMAIN m.conversions : label[c] = Held(label, Source(m, c))}
Serves(p, m) == \A label \in Labellings(m) : \A c \in Consumers :
               Held(label, m.reads[c]) = p.tile[c]

Normal(m) == \A c \in DOMAIN m.conversions :
               Source(m, c) \in Roots /\ ~Trivial(m, c) /\ Reads(m, c)
Finished(p, m) == Verified(p, m) /\ m.declared /\ Normal(m)

\* What is read is a root or a conversion there is, and conversions form no cycle.
Closed(m) == /\ \A c \in Consumers : m.reads[c] \in Roots \cup DOMAIN m.conversions
             /\ \A c \in DOMAIN m.conversions :
                  Source(m, c) \in Roots \cup DOMAIN m.conversions
             /\ \A S \in SUBSET DOMAIN m.conversions :
                  S # {} => \E c \in S : Source(m, c) \notin S

(***************************************************************************)
(* A consumer wants its operand in an encoding of its own, or in that of   *)
(* another value (the result of an element-wise operation).  The tile it   *)
(* has to read is that of one root; `accepts` are the encodings the target *)
(* has proofs for.                                                         *)
(***************************************************************************)
IsProblem(p) ==
    /\ IsModule(p.unit) /\ Closed(p.unit)
    /\ p.wants \in [Consumers -> Encodings \cup Roots]
    /\ p.tile \in [Consumers -> Roots]
    /\ p.accepts \subseteq [Roots -> Encodings]
    /\ Serves(p, p.unit)

ProblemsAssumption ==
    /\ Roots \cap ConversionIds = {} /\ Encodings \cap Roots = {}
    /\ Unset \notin Encodings
    /\ MaxRuns \in Nat
    /\ \A p \in Problems : IsProblem(p)
ASSUME ProblemsAssumption

TypeOK == /\ entry \in Entries /\ runs \in Nat /\ stage \in Stages
          /\ outcome \in {"running", "done", "failed"}
          /\ \A m \in {before, unit, staged, clone} : IsModule(m) /\ Closed(m)

\* Whatever stage fails, whichever pass was called, the module is the one the
\* pass was called on; so it is after an analysis.  Inference on its own writes
\* to the module before its last verification, which therefore must not fail.
AllOrNothing ==
    outcome = "failed" \/ (outcome = "done" /\ entry = "analysis") => unit = before

\* Through insertion, removal, round trips and composition of conversions every
\* consumer goes on reading the tile it reads in the given module.
TilesKept == Serves(problem, unit) /\ (staged # unit => Serves(problem, staged))

\* No rewriting invalidates what inference has verified, and the module the pipeline
\* commits declares its bindings and has no conversion that reads another one,
\* changes nothing or is not read.
Delivered ==
    /\ stage \in {"preserve", "optimize", "verify"} => Verified(problem, staged)
    /\ outcome = "done" /\ entry = "pipeline" => Finished(problem, unit)

\* The pipeline leaves a module alone that it could have produced itself.
ReplayIsSilent ==
    outcome = "done" /\ entry = "pipeline" /\ Finished(problem, before) => unit = before
=============================================================================
