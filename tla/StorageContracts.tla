--------------------------- MODULE StorageContracts ---------------------------
(***************************************************************************)
(* The declarations that fix the layout of a whole buffer where control    *)
(* has passed them (frisk.storage_contract): what the compiler accepts of  *)
(* them (lib/Dialect/Frisk/Analysis/StorageRootContracts.cpp) and how it   *)
(* writes one down for every whole-buffer view that is bound to a layout   *)
(* (lib/Dialect/Frisk/Transforms/PreserveStorageContracts.cpp).  The       *)
(* pipeline does so before and after layouts are inferred.                 *)
(*                                                                         *)
(* A program is a record                                                   *)
(*   above    the program points that strictly dominate a point            *)
(*   block    the block of a point                                         *)
(*   scoped   points in nothing but known regions with SSA dominance       *)
(*   declared sequence of [at, root, layout, added], the declarations      *)
(*            before the first run, at points of their own                 *)
(*   views    sequence of [at, root, kind] in walk order: kind is "whole", *)
(*            "part", or "unknown" when the alias analysis fails           *)
(*   bound    the layout of every view, Unbound if it has none             *)
(* A declaration added for a view sits directly before it: it dominates    *)
(* what the view dominates, and the view.                                  *)
(***************************************************************************)
EXTENDS Integers, Sequences

CONSTANTS
  Buffers, Layouts, Unbound,
  ProvenLayouts,   \* pairs of a root and a layout with a proven footprint
  Agree,    \* pairs of layouts proveStorageAliasCompatible accepts for a root
  Programs

ProgramPoints(p) == DOMAIN p.above

Declaration(p) == [at : ProgramPoints(p), root : Buffers, layout : Layouts, added : BOOLEAN]

WellFormedProgram(p) ==
  /\ p.above \in [ProgramPoints(p) -> SUBSET ProgramPoints(p)]
  \* What dominates a point is a chain.
  /\ \A x \in ProgramPoints(p) : \A y, z \in p.above[x] :
       y = z \/ y \in p.above[z] \/ z \in p.above[y]
  /\ p.scoped \subseteq ProgramPoints(p)
  /\ p.declared \in Seq(Declaration(p))
  /\ p.views \in Seq([at : ProgramPoints(p), root : Buffers, kind : {"whole", "part", "unknown"}])
  /\ p.bound \in [DOMAIN p.views -> Layouts \cup {Unbound}]
  /\ \A i \in DOMAIN p.declared :
       /\ ~p.declared[i].added
       /\ \A j \in DOMAIN p.declared : p.declared[i].at = p.declared[j].at => i = j
       /\ \A j \in DOMAIN p.views : p.declared[i].at # p.views[j].at

ASSUME ContractsAssumption ==
  /\ Unbound \notin Layouts
  /\ \A x, y \in Layouts : <<x, y>> \in Agree <=> <<y, x>> \in Agree
  /\ \A x \in Layouts : <<x, x>> \in Agree
  /\ \A p \in Programs : WellFormedProgram(p)

VARIABLES
  program,
  declared,   \* the declarations in the module
  bound,      \* the layouts its views are bound to
  progress,      \* "fresh", "views", "preserved" or "refused"
  next,       \* next view of the walk
  again       \* nothing was bound since the last run succeeded (history)

contractVars == <<program, declared, bound, progress, next, again>>

ContractsInit ==
  /\ program \in Programs
  /\ declared = program.declared /\ bound = program.bound
  /\ progress = "fresh" /\ next = 1 /\ again = FALSE

-----------------------------------------------------------------------------
(* Declarations (StorageRootContracts.cpp).                                *)

\* storageContractDominates: declaration d holds at point x.
Effective(p, d, x) ==
  /\ d.at \in p.scoped /\ x \in p.scoped
  /\ d.at \in p.above[x] \/ (d.added /\ d.at = x)

OnlyOneWay(p, d, e) == d.at = e.at \/ Effective(p, d, e.at)

\* One of two declarations dominates the other.
Comparable(p, d, e) == d.at = e.at \/ Effective(p, d, e.at) \/ Effective(p, e, d.at)

\* collectStorageRootContracts.
Accepts(p, D) ==
  /\ \A i \in DOMAIN D : D[i].at \in p.scoped /\ <<D[i].root, D[i].layout>> \in ProvenLayouts
  /\ \A i, j \in DOMAIN D :
       i < j /\ D[i].root = D[j].root /\ Comparable(p, D[i], D[j]) =>
         <<D[i].layout, D[j].layout>> \in Agree

-----------------------------------------------------------------------------
(* preserveStorageContracts.                                               *)

View == program.views[next]

Preserve ==
  /\ progress \in {"fresh", "preserved"}
  /\ progress' = IF Accepts(program, declared) THEN "views" ELSE "refused"
  /\ next' = 1 /\ again' = (progress = "preserved" /\ again)
  /\ UNCHANGED <<program, declared, bound>>

Anywhere(p, D, w, layout) ==
  \E i \in DOMAIN D : D[i].root = w.root /\ D[i].layout = layout

\* The binding of view w is written down already: by a declaration of its block
\* before it.
Exists(p, D, w, layout) ==
  \E i \in DOMAIN D : /\ D[i].root = w.root /\ D[i].layout = layout
                      /\ p.block[D[i].at] = p.block[w.at] /\ Effective(p, D[i], w.at)

\* Nothing to write down for a view that is not bound or shows a part.
Skip ==
  /\ progress = "views" /\ next <= Len(program.views)
  /\ \/ bound[next] = Unbound
     \/ View.kind = "part"
     \/ /\ View.kind = "whole" /\ View.at \in program.scoped
        /\ Exists(program, declared, View, bound[next])
  /\ next' = next + 1
  /\ UNCHANGED <<program, declared, bound, progress, again>>


Invalid(w, layout) ==
  \/ w.kind = "unknown"
  \/ w.kind = "whole" /\ w.at \notin program.scoped
  \/ /\ w.kind = "whole" /\ ~Exists(program, declared, w, layout)
     /\ <<w.root, layout>> \notin ProvenLayouts

Refuse ==
  /\ progress = "views" /\ next <= Len(program.views)
  /\ bound[next] # Unbound /\ Invalid(View, bound[next])
  /\ progress' = "refused"
  /\ UNCHANGED <<program, declared, bound, next, again>>

\* Where the declaration for view w goes.
PlaceFor(p, w) == w.at

Add ==
  /\ progress = "views" /\ next <= Len(program.views)
  /\ bound[next] # Unbound /\ View.kind = "whole"
  /\ ~Exists(program, declared, View, bound[next]) /\ ~Invalid(View, bound[next])
  /\ declared' = Append(declared, [at |-> PlaceFor(program, View), root |-> View.root,
                                   layout |-> bound[next], added |-> TRUE])
  /\ next' = next + 1
  /\ UNCHANGED <<program, bound, progress, again>>

FinishPreserving ==
  /\ progress = "views" /\ next > Len(program.views)
  /\ progress' = IF Accepts(program, declared) THEN "preserved" ELSE "refused"
  /\ again' = (progress' = "preserved")
  /\ UNCHANGED <<program, declared, bound, next>>

-----------------------------------------------------------------------------
(* Between the runs of the pipeline layouts are inferred, under every      *)
(* declaration attachStorageRootContracts finds in effect at a view and    *)
(* under the agreement of all views of a buffer.                           *)

Attached(p, D, w) ==
  {i \in DOMAIN D : D[i].root = w.root /\ Effective(p, D[i], w.at)}

Chosen(choice) ==
  /\ \A i \in DOMAIN program.views :
       bound[i] # Unbound \/ program.views[i].kind # "whole" => choice[i] = bound[i]
  /\ \A i \in DOMAIN program.views : program.views[i].kind = "whole" =>
       /\ choice[i] # Unbound
       /\ <<program.views[i].root, choice[i]>> \in ProvenLayouts
       /\ \A k \in Attached(program, declared, program.views[i]) :
            <<declared[k].layout, choice[i]>> \in Agree
       /\ \A j \in DOMAIN program.views :
            program.views[j].kind = "whole" /\ program.views[i].root = program.views[j].root =>
              <<choice[i], choice[j]>> \in Agree

Infer ==
  /\ progress = "preserved" /\ again
  /\ \E choice \in [DOMAIN program.views -> Layouts \cup {Unbound}] :
       Chosen(choice) /\ bound' = choice
  /\ bound' # bound
  /\ again' = FALSE
  /\ UNCHANGED <<program, declared, progress, next>>

ContractsNext == Preserve \/ Skip \/ Refuse \/ Add \/ FinishPreserving \/ Infer

ContractsSpec == ContractsInit /\ [][ContractsNext]_contractVars

-----------------------------------------------------------------------------
(* Properties.                                                             *)

\* Types; and what was added stands where dominance is understood.
ContractsTypeOK ==
  /\ WellFormedProgram(program)
  /\ declared \in Seq(Declaration(program))
  /\ bound \in [DOMAIN program.views -> Layouts \cup {Unbound}]
  /\ progress \in {"fresh", "views", "preserved", "refused"}
  /\ next \in 1..Len(program.views) + 1
  /\ again \in BOOLEAN
  /\ \A i \in DOMAIN declared : declared[i].added => declared[i].at \in program.scoped

\* Declarations of one buffer that are in effect at the same point agree, though
\* only those are compared of which one dominates the other.
EffectiveAgree ==
  progress = "preserved" =>
    \A x \in ProgramPoints(program) : \A i, j \in DOMAIN declared :
      /\ declared[i].root = declared[j].root
      /\ Effective(program, declared[i], x) /\ Effective(program, declared[j], x)
      => <<declared[i].layout, declared[j].layout>> \in Agree

\* The layout of a bound whole-buffer view is written down in its block, before
\* the view: it survives the removal of the view, and is as strong as it was.
BindingsSurvive ==
  progress = "preserved" /\ again =>
    \A i \in DOMAIN program.views :
      bound[i] # Unbound /\ program.views[i].kind = "whole" =>
        \E k \in Attached(program, declared, program.views[i]) :
          /\ declared[k].layout = bound[i]
          /\ program.block[declared[k].at] = program.block[program.views[i].at]

\* No guarantee is made up or moved out of the branch it was given in: a
\* declaration that was added has a bound view of its layout right behind it.
BackedByViews ==
  \A i \in DOMAIN declared : declared[i].added =>
    \E j \in DOMAIN program.views :
      /\ program.views[j].at = declared[i].at /\ program.views[j].root = declared[i].root
      /\ program.views[j].kind = "whole" /\ bound[j] = declared[i].layout

\* A second run over a preserved program is accepted and writes nothing.
Idempotent == [][again => declared' = declared /\ progress' # "refused"]_contractVars
=============================================================================
