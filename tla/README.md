# Frisk layout compiler: specifications, model checks and proofs

Frisk is a compiler for GPU operators built on MLIR. Its own core logic is the
*layout pipeline*: given a module of tensor operations it decides which register
of which thread, or which byte of a shared buffer, holds every element, writes
the decision into the module and lowers the conversions between layouts to
shuffles and exchanges through shared memory. This directory models that
pipeline in TLA+, checks it with TLC on small instances and proves the main
results about it with TLAPS for all instances.

All paths are relative to the repository; `Analysis/`, `Transforms/` and `IR/`
stand for directories of `lib/Dialect/Frisk/`.

## 1. The system

```
 legacy kernel                                                 lowered kernel
      |  LegacyFragmentNormalization                                 ^
      v                                                              |
 module --PreserveStorageContracts--> module                conversion lowering
      |                                                     (plan, then emit)
      v  collectLayoutConstraints                                    ^
 constraint graph: variables, candidates, relations                  |
      |    (alias candidates, projection, defaults)            typed module
      v  propagateCommonToFixedPoint                                 ^
 narrowed domains                                                    |
      v  solveLayoutGraph                                            |
 assignment + conversions --verifySolvedLayoutGraph--> materializeLayouts
```

Everything up to the emitted code is sequential C++. What makes it hard is not
concurrency but worklists over cyclic relations, searches cut off by budgets,
fixed points that must not depend on an order, rewritings that must keep a
program's meaning, and transactions that must leave a module untouched when they
fail. The emitted code, finally, is run by all threads of a CTA at once.

| Component | State it keeps | Operations | What must be true of it |
| --- | --- | --- | --- |
| Layout constraint graph (`LayoutConstraint`, `LayoutRelations`) | variables, candidate domains, constraints, adjacency, caches of verdicts | addVariable, addConstraint, finalize, verifyInvariants, relation checks | IDs mean the same after they are renumbered; a relation checked pairwise and as a whole gives one verdict |
| Candidate collection (`LayoutPropagation.cpp` 345-537) | graph under construction, domains | seeds, projection passes, defaults, final order | domains closed under projection; a bound variable keeps its seeds |
| Operation collectors (`OperationLayoutConstraints`, `MmaLayoutConstraints`, `ReductionLayoutConstraints`, `InstructionLayoutConstraints`) | thread counts on variables, relations, offered tuples | visit copies, products and reductions; limit threads; prepare joint contracts | one thread count per operation; no program made impossible by a choice; offers are exactly what is proven |
| Storage alias candidates (`StorageAliasCandidates`) | domains of storage variables, a queue of visited views | contracts, validation, origin walks, templates | every reachable view is offered a counterpart, nothing unproven survives, walks end on cycles |
| Storage root contracts (`StorageRootContracts`, `PreserveStorageContracts`) | declarations in the module | collect, prove, attach, preserve | declarations in effect together agree; a binding survives the removal of its view and spreads nowhere |
| Layout propagation (`LayoutPropagation.cpp` 1-200, 540-654) | queue, membership bits, domains, statistics | pop, filter, requeue, strict and common phase | no lost wake-up, greatest fixed point, no solution lost, bounded work |
| Candidate solver (`LayoutCandidateSolver`) | frontier, budget, best states | prune, expand, close a depth, select, bind | infeasible only with a proof, exhaustive means optimal, answers verify |
| Solution verifier (`LayoutVerifier`) | none | verifySolvedLayoutGraph | accepts exactly what the solver may answer |
| Cost model (`LayoutCostModel`) | none | static and conversion costs, saturating sums | the sum over components is the cost of the whole |
| Materialization (`MaterializeLayouts`) | staged module, map of values, worklist of blocks | prepare, rebuild, commit | the committed module is the original with the selected conversions |
| Redistribution planner (`LayoutConversionPlan`) | none | elect owners, choose a source, choose a mode | every destination has a source; the mode reaches it |
| Conversion lowering (`TestLayoutConversionLowering`) | account of scratch memory per kernel, plans | plan, emit | nothing emitted unless all is accepted; budget kept |
| Emitted exchange | registers, shared buffers, barriers of a CTA | store, barrier, load, shuffle, move | right values, no race, barriers aligned, everybody finishes |
| Legacy import (`LegacyFragmentNormalization`, `LegacyLayoutAdapter`, `LegacyImportSemantics`) | SSA value of each fragment, rewritten blocks | promotion through branches, loops, scopes; decoding of layout maps | the kernel stores the same tiles; no read before a write |
| Pass pipeline (`PassPipelines`, `LayoutInfer`, `NormalizeLayoutIR`, `OptimizeLayoutConversions`) | module, staged clones | the stages above, each on a clone, one commit | a failure of any stage leaves the module as it was |
| Execution and reduction proofs (`ExecutionLayoutProof`, `ReductionLayoutProof`) | none | ownership, vector accesses, projection of a reduced axis, trees | a proof is given only for layouts that have the property; a sum uses each element once |
| Alias analysis (`LayoutAliasAnalysis`) | none | descriptors of views, footprints, the sweep over two of them, derivation and rebasing | two views conflict exactly when some point does |
| Layout algebra and attributes (`LayoutAlgebra`, `FriskLayoutAttrs`) | none | elimination over GF(2); evaluation, composition, projection, canonical form; injectivity, coverage, fit | verdicts agree with enumeration; editing keeps the meaning |
| SM90 target (`Target/SM90`) | none | default candidates, fragments and descriptors of products, contracts | what it proposes it accepts, and an accepted contract addresses the right bytes |
| Dialect operations, Python front end, tools | none of their own | verifiers, builders, drivers | not part of the layout logic |

### How the components interact

All calls are synchronous. The graph is the shared state: collection builds and
freezes it (`finalize`), propagation narrows its domains in place, the solver
copies them, and materialization reads the answer beside the graph. A failing
call returns `failure()` and its caller drops everything; the only writes to the
module are the final commits of normalization, materialization and the pipeline.
`PreserveStorageContracts` runs on both sides of inference and is the one
component that meets its own output.

### What is hard to test here

`PROJECT.json` lists the hazards with their lines and the properties that would
catch each going wrong. They group into:

* *worklists*: wake-ups lost or repeated, one relation filtering domains it is
  still reading, accounting of pops, cycles (propagation, alias candidates,
  projection, rebuilding of blocks);
* *cut-off search*: an empty frontier that is not a proof, budgets tested in the
  middle of a step, a product that overflows, states of different shape in one
  frontier;
* *two passes over the same thing*: preserve before and after inference, verifier
  against solver, pairwise against n-ary relations;
* *partial failure*: a late refusal after earlier acceptances;
* *threads*: one barrier per exchange, non-participating threads, replicated
  owners, words clobbered by later shuffles;
* *rewriting*: values carried by loops and branches, uses moved over regions;
* *address arithmetic*: sweeps over intervals of different length, ranks that stand
  for an enumeration, vectors that run over a row, swizzles that begin in the middle
  of a row, counts that saturate.

## 2. Modules

Names follow the source. A module named `MC...` holds the small instance TLC
checks; a module named `...Proofs` the theorems about the modules it extends.
`FiniteInduction` holds lemmas about finite sets, sums and recursion that the proofs cite.

| Module | Models | State and actions |
| --- | --- | --- |
| `LayoutConstraintGraph` | the frozen graph, `satisfiesLayoutConstraint` | operators only: kinds, endpoints, live tuples, satisfaction |
| `LayoutNarrowing` | the promise of propagation | abstract: domains narrow and keep every family all relations agree on; accept or conflict |
| `LayoutPropagation` | `propagateStrict`, `propagateCommonToFixedPoint` | `Pop`, `FilterPair`, `FilterRole`, `FilterUnary` are the filters of one relation, `Requeue` its wake-ups, `FinishRelation`, `StartCommon`, `Finish` the phases |
| `LayoutChoice` | the promise of the solver | abstract: one answer, legal, or a proof there is none, or none |
| `LayoutCandidateSolver` | `solveLayoutGraph`, `verifySolvedLayoutGraph` | `Prune` per variable, `StartSearch` per component, `Expand` per state of the frontier, `CloseDepth`, `GiveUp`, `Select`, `Bind` |
| `LayoutRedistribution` | `planRedistribution` | operators: elected owner, source, mode, acceptance |
| `LayoutExchange` | the emitted code, run by all threads | `Store`, `Barrier`, `Read`, `Insert`, `Shuffle` |
| `LayoutConversionLowering` | the lowering pass | `Plan` per conversion of the walk with its scratch account, `Emit` |
| `LayoutCollection` | projection and defaults of `collectLayoutConstraints` | `ProjectSource`, `NextRelation`, `EndPass`, `Default`, `LastProjection`, `Check` |
| `StorageCandidates` | `initializeStorageAliasCandidates` | `Contract`, `Validate`, a walk (`Start`, `Follow`, `Pop`, `EndWalk`) per origin and template, `Finish` |
| `StorageContracts` | `StorageRootContracts.cpp`, `preserveStorageContracts` | `Preserve`, then `Skip`, `Add` or `Refuse` per view, `Finish`; `Infer` between runs |
| `LayoutMaterialization` | `materializeLayouts` | `Prepare` per function, `Open`, `RebuildOperation`, `LeaveBlock`, `EndPass`, `Finish` |
| `LayoutGraphConstruction` | `addVariable`, `addConstraint`, `addRegionEdge`, `collectDistributedLayoutConstraints`, `finalize`, `verifyInvariants` | `Perform` per call, `Visit`, `Skip` or `Refuse` per operation of the walk, `Finalize` with its sorting and renumbering |
| `OperationCollectors` | `collectOperationLayoutConstraints`, `collectMmaLayoutConstraints`, `collectReductionLayoutConstraints`, `collectParallelResourceConstraints`, `prepareInstructionTuples`, `prepareReductionPairs` | `VisitOperation`, `VisitMma`, `VisitReduce` per operation, `EndWalk`, `CollectValues` (what `LayoutGraphConstruction` builds, in one step), `CollectLimits`, `PrepareJoint` per contract, `EndPreparation` |
| `LayoutPipeline` | the pipeline, `NormalizeLayoutIR`, `LayoutInfer`, `OptimizeLayoutConversions`, `ConvertLayoutOp::canonicalize` | `Begin` a pass; `NormalizeFragments`, `DeclareBindings`, `CommitNormalized`; `Infer`, `Recheck`; `PreserveRootContracts`; `Rewrite`, `RewrittenAll`; `Commit`; `Refuse` at any stage |
| `LegacyPromotion` | the `Normalizer` | `Check`, one `ProcessNext` per operation of the function (recursive over its regions), `Finish` |
| `LegacyPromotionMeaning` | what a legacy kernel and its SSA form do | an interpreter for both forms, and the properties that compare them |
| `GF2Algebra` | `LayoutAlgebra.cpp` | operators: elimination with pivots, rank, kernel, inverses; a vector is the set of its ones |
| `LayoutMaps` | the map attributes of `FriskLayoutAttrs.cpp` | operators: verification, evaluation, composition, projection, permutation, canonical form of bit-linear, affine and product maps |
| `LayoutEncodings` | verdicts about maps; distributed encodings and storage layouts | operators: `CheckInjectivity`, `CheckCoverage`, `EncodingFits`, `StorageFits` |
| `ExecutionLayout` | `ExecutionLayoutProof.cpp`, `ReductionLayoutProof.cpp` | operators: enumeration of the holders of every element, ownership, projections and trees of reductions |
| `LayoutAttributes` | the functions of `LayoutAlgebra.h` and the import of legacy layouts (`LegacyLayoutAdapter.cpp`), called in any order | `Import`: recover a linear map from values at powers of two, split it over register, lane and warp, check every element; `ComposeWith`, `ComposeUnder`, `ProjectTo`, `PermuteTo`, `Canonicalize` |
| `StorageAlias` | `LayoutAliasAnalysis.cpp` | operators: `Analyzed` descriptors, footprints, the sweep, counterparts, projection and rebasing |
| `LayoutRelations` | `LayoutRelations.cpp` and the vector accesses of `ExecutionLayoutProof.cpp`, on concrete encodings | `AskCapacity`, `AskUnary`, `AskRelation` against a graph with its two caches |
| `LayoutCost` | `LayoutCostModel.cpp` | `Assign` one more variable: nine saturating counts and their order; `PricingSpec` interleaves this with the questions of `LayoutRelations`, whose caches it shares |
| `SM90LayoutTarget` | `Target/SM90` | `EnumerateDefaults`; `PrepareProduct`, `BuildProduct`; `PrepareReduction`, `BuildReduction` |

`LayoutConstraintGraph` is extended by propagation and solver, `LayoutRedistribution`
by exchange and lowering, `LegacyPromotion` by its meaning. `LayoutMaps` extends
`GF2Algebra`, `LayoutEncodings` extends it, and `ExecutionLayout` and `StorageAlias`
extend that; `LayoutRelations` joins the last two, and `LayoutCost` and
`SM90LayoutTarget` extend it. Compositions: `MCLayoutExchange` lowers a module and runs
the code it got, `MCStorageInference` runs preservation, collection of storage
candidates, inference and preservation again on one program, `MCLayoutCollection` looks
at two parts of `collectLayoutConstraints`, the collectors on programs and the projection
on graphs of its own, one in each behaviour, and `MCLayoutRelations` asks
graph, cost model and target about one set of candidates: its steps are those of
`PricingSpec`, as many as its bounds allow, and calls of the target, which touch
neither.

### What is abstract

The modules form two levels. Those about *control* (worklists, searches, passes) take
an encoding for a member of a small set, and what the code decides by computing with
it (`layoutRelationCompatible`, `projectLayoutCandidate`, `verifyCandidate`, footprint
proofs, costs, what the target offers) for a constant, restricted only by what the
code guarantees: an assumption named in the module. Those about *layouts*
(`GF2Algebra` to `SM90LayoutTarget` in the table) compute these answers from matrices,
forms and addresses as the code does. Between them: an affine map with divisions is
the table of its values, an expression that fails to evaluate has no value, and
64-bit overflow is a value beyond `MaxInt`. Types, attributes and operations keep what
control flow looks at. Diagnostics and printing are left out.

| Assumption | Says | Justified by |
| --- | --- | --- |
| `GraphAssumption`, `CompatibleAssumption` | IDs are positions, endpoints are variables, tuples have one entry per role; n-ary equalities are equivalences | `LayoutConstraint.cpp` 199-486 (verifyInvariants); `LayoutRelations.cpp` 19-56 compares the first endpoint with each other one |
| `SolverAssumption` | positive options, encodings are numbered by key; contracts, reductions and conversions are hard | option checks at the head of `solveLayoutGraph`; `LayoutPropagation.cpp` 277 and 392-400 |
| `CostAssumption` | costs add up over sets of variables that share no component | registers and replication are counted per variable, bytes per root, and all views of a root are in one component (`LayoutCostModel.cpp` 103-158, `LayoutPropagation.cpp` 392-400); sums that saturate (`LayoutCostModel.cpp` 19) are in `LayoutCost` and not here |
| `TopologyAssumption`, `ConversionsAssumption` | lanes divide threads, the plans of a kernel were accepted | `LayoutConversionPlan.cpp`, lowering only emits accepted plans |
| `LoweringAssumption` | budgets are unsigned integers; a module is a sequence of conversions of its kernels, each of at least one byte | `Passes.td:38`; operands are ranked tensors of positive size |
| `ProgramsAssumption` (materialization) | the module is a tree of operations, blocks and regions with a finite number of operations, it obeys SSA, and its solution was verified | MLIR and its verifier, which leaves out the uses in blocks that control cannot reach; `LayoutInfer.cpp` calls the verifier of solutions first |
| `ProblemsAssumption` (collection, candidates) | shape of a problem | construction of the graph |
| `ProgramsAssumption` (graph construction) | an operation comes after the one around it; tuples carried into one another have tensors in the same slots; encodings in types belong to tensors that appear; there is a layout, and permuting coordinates is a bijection | pre-order of the walk; verifiers of `scf`, `func` and the elementwise and transpose operations; `TransformLayout` permutes axes (`LayoutRelations.cpp`) |
| `ProgramsAssumption` (operation collectors) | programs are finite, flows and slots join values, an operation has a result of its own; a loop encloses an operation and its result, and both ends of a slot; neither end of a slot is the result of a product or a reduction | nesting of regions, SSA; `DistributedLayoutConstraints.cpp` 85 leaves products and reductions out, and slots are made at 150-156 and 256-270 |
| `NameOrders` | an order of names is a permutation | stable names are unique, `llvm::sort` compares strings |
| `ProblemsAssumption` (pipeline) | modules are closed, conversions form no cycle, consumers read the tile they should | SSA; it defines the tiles |
| `ContractsAssumption` | agreement of layouts of one buffer is reflexive and symmetric, dominators of a point form a chain | it is equality of addresses; dominance |
| `MapsAssumption`, `BudgetAssumption`, `LanesAssumption`, `CountsAssumption` | limits are natural numbers, a warp has lanes | constants of the source |
| `VariablesAssumption` (`LayoutRelations`) | finitely many variables; a candidate is an attribute that verified, a view has at most one descriptor, with the type of its variable | `IR/FriskLayoutAttrs.cpp` 1204-1233 and 1338-1360, verifiers of the maps; `LayoutAliasAnalysis.cpp`, MLIR's shaped types |
| `ConstraintsAssumption` | constraints name variables; a contract of a root is a verified storage layout with the descriptor of its view | `LayoutConstraint.cpp` 199-486; `StorageRootContracts.cpp` |
| `DescriptorsAssumption` (checks the instance) | the descriptors written down for TLC are those the analysis finds | evaluates `Analyzed`, the model of `analyzeStorageAlias` |

## 3. Runs

| Run | Instance | Shows |
| --- | --- | --- |
| `propagation` | a required encoding, a three-way equality, a product naming one variable twice, a reduction and a limit over 4 variables and 3 encodings, from every choice of non-empty domains | the asserted pop bound holds (`ValidBounds`), a relation that could still erase something is queued, in the strict phase too, unless it waits for a decided endpoint (`UnqueuedSettled`), `Termination`, and every step implements `LayoutNarrowing` (`KeepsPromise`: no solution lost, a conflict is genuine) |
| `collection` | all pairs and some triples of relations over 4 variables and 2 encodings; or 3579 programs of a matrix product, copies, fills and two reductions with every mix of attributes, scopes, declared encodings and ways to make their sources | domains are handed on closed under projection (`ClosedWhenSettled`); thread counts agree (`RolesAgree`), adopting one excludes nothing, also in a slot of several values with a consumer each, unless a reduction that is told its threads gives them to such a slot (`AdoptionExcludesNothing`), an inferred count never contradicts an equal layout (`InheritsFromPeers`) |
| `shared_producers` | the same programs | expected to fail: the argument and the result of one loop adopt different counts that two reductions were told (`SharedProducersAgree`, see 5) |
| `storage` | programs of 5 points with a branch or an unknown region, a declaration or view of 2 buffers at each, preserved, inferred and preserved again; and 6048 problems of 4 views | every view a walk can reach is offered a counterpart (`OriginCovers`), declarations agree where it matters (`EffectiveAgree`), `BindingsSurvive` |
| `solver` | two components, an instruction naming one variable twice, conversions, every choice of domains for the first; exact up to 8 combinations, beam 1, budget 16, unsigned numbers up to 8 | `ExhaustiveIsOptimal`, `VerifierAgrees`, and the solver implements `LayoutChoice` (`KeepsPromise`: no false infeasibility, one legal answer) |
| `exchange` | every module of up to 3 conversions over 2 kernels, budget 14 of 15; and the code of one module of 4 conversions run by 2 warps of 2 lanes in all interleavings | `NothingOnRefusal`, `AccountIsExact`, `RightValues`, `RaceFree`, and every accepted conversion is delivered to every thread (`LoweredDelivers`) |
| `materialization` | three blocks and a nested region with a dead block in both printed orders, every control flow, operand and solution | `CommitIsFaithful`, `OnlyDeadCodeIsStuck`, `SolutionSuffices` |
| `promotion` | 2764 kernels with branches and loops, every sequence of 4 decisions | the same stores (`Preserved`), `NoUninitializedRead` |
| `graph_construction` | 404 programs with loops, whiles whose two tuples differ, branches, transposes, conversions, declared encodings; three orders of names | the solutions of the finalized graph are exactly the ways to lay the program out: `SolutionsTypecheck`, `NothingExcluded` |
| `pipeline` | 2640 modules with up to two written conversions, one converting the other; every sequence of two passes; refusals at every stage; rewritings in every order | `AllOrNothing`; a second pipeline is silent (`ReplayIsSilent`) |
| `attributes` | every linear map of 3 hardware bits to 2 axes, larger, affine and product maps, with domains on both sides of the enumeration limit of 32 points, edited twice; some 2000 legacy layouts | verdicts and elimination agree with enumeration (`VerdictsAreTrue`), rank decides ownership (`FitsIsOwnership`), reductions stay where they are and sum once (`ProjectionIsLocal`, `TreesSumOnce`), `ImportsAreFaithful`, edits keep the meaning (`MeaningKept`) |
| `relations` | 9 variables (three views of one buffer, another buffer, one without descriptor, tiles of two and three axes), 13 relations, every two questions; up to 4 variables priced; tiles, buffers, 8 products and a reduction for the target | caches change no answer (`AnswersAreFresh`), the sweep finds every conflict (`ConflictsAreFound`), `VectorsMoveTheTile`, `ProjectionsAreCompatible`, `CostsOnlyGrow`, and the target accepts what it proposes (`TargetDelivers`) |

Some invariants are proved and not run, because the theorem says more than the run
would: queue discipline, the greatest fixed point, genuine conflicts
and survival of every solution (propagation), aligned barriers (exchange), natural
reductions, the seeds of bound variables and exact joint offers (collection), validation and explanation
of candidates (storage candidates), declarations backed by views and the silent second
run (storage contracts), renumbering (graph construction), tiles kept and the finished
module (pipeline), and the type invariants.

Why the bounds are enough. Worklist hazards need a cycle and a relation that meets
its own variable: overlapping relations and the instruction naming a variable twice. Losing an
assignment needs at least two assignments and a variable order that differs between
states: three encodings. The single barrier is raced by the *next* exchange, so two
exchanges with different owners follow each other. Overflow is reached because
`MaxUInt` is small. Four views allow a copy cycle and a view outside it; two buffers
allow a template of one to reach the other. For branches and loops, a value written
in one region and read in another after two nestings is the longest chain the
code treats specially. Region edges go wrong where tuples differ in length or order, so
whiles have unequal tuples and two loops share a value. Thread counts conflict when two
operations meet in one slot with a third value converted into it, which three
operations do. Two written conversions, one
reading the other while a consumer reads both, and one inserted behind them, meet
every case of the rewriting; two passes are enough for a replay. A cached verdict can
only be wrong for a second question, so two are asked. Views that are spaced
differently in one buffer make the sweep over footprints advance its two sides
unevenly; a permutation that differs from its inverse needs three axes. Every swizzle
of a descriptor occurs, and the operands that begin at row 4 or column 8, 32 or 64 of a
larger buffer begin in the middle of a swizzled row or of a block of rows. Every count
of a price stops at 40, which four variables exceed.

Fairness. Propagation is a sequential call that never waits: weak fairness of its
next-state relation says that the call runs on. In `LayoutExchange` every
thread, every warp's shuffle and the barrier has weak fairness of its own, which is
what the hardware grants to resident threads; without it a CTA may stop. The lowering
before it is a sequential call with weak fairness as well; an exchange that it refuses
is never launched. All other runs check safety only.

Deadlock checking is off where a run of the code really ends.

## 4. Theorems

| Module | Proved, for all constants |
| --- | --- |
| `LayoutPropagationProofs` | types; the pop bound; queue discipline; no lost wake-up; success is the greatest fixed point; agreement and solutions survive; a conflict is genuine; propagation implements `LayoutNarrowing` |
| `LayoutExchangeProofs` | types; right values; freedom from races; alignment of barriers. Lowering: nothing is emitted or allocated on a refusal; the account of scratch memory is exact |
| `LayoutCollectionProofs` | types; bound variables keep their seeds; natural reductions; the collected domains are closed. Operation collectors: operations keep their threads; offers are exactly what is proven; an inferred count agrees with its peers; adoption excludes nothing, in shared slots too |
| `StorageProofs` | candidates: types; only proven candidates; every walk covers what it can reach; candidates are explained; a view is empty only when all templates were refused. Contracts: types; effective contracts agree; bindings survive; declarations are backed; the second run is silent. Relations: the caches change no answer; the sweep over sorted intervals finds every conflict and no other. Prices: one more variable never makes a price smaller |
| `LayoutGraphConstructionProofs` | the graph says what the calls of the walk say; finalizing changes IDs only (sorting is a permutation); every solution types the program; every typing is a solution |
| `LayoutPipelineProofs` | types and absence of cycles; atomicity of every pass; tiles kept; the finished module; silence of a second pipeline. Materialization: the solution answers every question the rebuilding asks; the committed module is the original with the selected conversions; only dead code gets stuck |
| `LayoutCandidateSolverProofs` | types; an exhaustive search is optimal; every answer passes the verifier; the solver implements `LayoutChoice` |
| `FiniteInduction` | lemmas: minimal counterexamples of finite sets, least numbers, recursion over finite subsets and over prefixes of a sequence, iteration, sums over finite sets |

The arguments, in one paragraph each:

*Propagation.* A relation that is not queued and not being processed is *settled*:
no filter of it would erase anything from the current domains, unless it is a
relation the strict phase has deferred for want of a decided endpoint
(`SettledInv`). Filtering a domain unsettles only the neighbours of its variable;
these are recorded as changed and requeued before the next pop (`FlowInv`,
`CurrentInv`). `QueueInv` ties the membership bits to the queue, `DomainInv` says
domains only shrink. At the end the queue is empty, so all relations are settled
(`ClosedInv`): a fixed point. That it is the greatest one follows from
`AgreeingKept`: a family of domains on which all relations agree is never cut by a
filter, because every candidate in it has its support in it.

The pop bound the code asserts counts events that can happen only a bounded number of
times (`AccountInv`): enqueued relations are popped or still queued, a relation is
queued at the start of a phase or because a candidate was erased, and each erased
candidate is charged the relations adjacent to its variable, once.

*Exchange.* A thread is in a conversion at most one barrier ahead of any other
(`StageInv`, `BarrierInv`). Every conversion has its own buffer, written only before
its barrier and read only after, and at most one owner of a slot stores
(`BufferInv`): no race, and a load sees the elected owner's value. A lane keeps a
shuffled word exactly when the source it selected belongs to its slot
(`ShuffleInv`).

*Lowering.* The walk ends before anything is emitted, so a refusal finds storage
untouched. What a kernel has accounted is where its attributions would end after the
conversions accepted so far; emission allocates in the same order, each buffer aligned
where the account assumed it (`AccountInv`). Both are folds over the
attributions; a fold is given by its values on prefixes, and `FiniteInduction` shows,
operator by operator, that the recursion over prefixes has one solution.

*Collection.* The relations passed since the last change of this pass are closed
(`PassInv`); a pass without a change has closed all, and defaults start a new pass.

*Operation collectors.* A tile an operation writes or reads carries the position of that
operation or is its own result, so no two operations disagree about a value
(`DecidedInv`), and limits repeat what was required (`LimitInv`). Offers are made for
the domains the variables still have, and the recursion that enumerates combinations
has one solution (`OfferInv`). Before limits are collected only declared encodings carry
counts, and the search through uses reaches every peer (`PeerInv`). A count is adopted
only when nothing requires one; if the adopted value has its slot for itself, every
relation that keeps thread counts stays within its class, so all limits of the class
repeat the producer's (`AdoptInv`). If the slot ties several values, none of them is the
result of a product or a reduction, and every limit of the class belongs to one of them
or to their consumers. A reduction that infers its threads has looked at all of them
before it adopts, so it finds what the adoptions before it left and repeats it: once one
value of a slot has adopted, those that carry a count carry the same (`SlotInv`). For a slot of
several values the theorem asks that the reductions which adopted there inferred; section
5 shows what happens otherwise.

*Solver.* `SearchInv` speaks about one component at a time: the states of the frontier
assign the same number of its variables, each satisfies every hard constraint that is
complete in it, and as long as the search claims to be exhaustive each legal assignment
of the component is matched by a state of this or the next frontier. Pruning keeps the
values of every legal assignment (`PruneInv`), components partition the variables and
no hard constraint crosses two of them, and costs add up over components, so the union
of least costs is the least cost (`AnswerInv`). The prices of a component are sums over
sets of constraints, which `FiniteInduction` reasons about: an induction over a finite
set is the choice of a smallest counterexample, which needs no theorem with an operator
as its parameter.

*Storage candidates.* During a walk every visited view is queued, at the head with
the relations before the cursor followed, or closed (`WalkInv`). `OriginInv` keeps
the explanation of each candidate, `TemplatesInv` what each view has seen of the
templates of its buffer.

*Storage contracts.* Dominators of a point are a chain, so two declarations in
effect at one point dominate one another and were compared. `PreservedInv`: the
views the walk has passed are written down, and after a run all are; inference is
the only action that ends this.

*Relations.* The caches hold what building and proving again would give, and every
answer is the one fresh footprints give (`AnswersInv`); the inductive part is that a
relation looks up every key its verdict reads before it reads it. What remains is about
operators only. A footprint that was built has one interval for each point of the view;
sorting it leaves no two overlapping, so begins and ends are in the same order. Then
comparing neighbours is comparing all pairs, and the sweep that advances the side which
ends first cannot pass an interval that meets one still ahead: what it has left behind
on one side ends before everything ahead on the other begins. Equal root coordinates
are compared through the same entries, so a verdict speaks of all points of both views
(`ConflictsFound`). A buffer of its own is decided in the same way on the begins of
its elements.

*Prices.* A count that stops at the largest one is a sum of natural numbers cut off
there, and it reports so exactly when the sum exceeds it; hence a total is independent
of the order of its charges, and larger or more numbers give a total that is not smaller
in any field and has stopped if the other has. The price kept is the one of what was
chosen (`CostInv`). Each charge of a part is one of the whole: tiles, buffers and
conversions of chosen variables stay, and the bytes of a root are the greatest end of
the views chosen so far. Field by field not smaller is not cheaper (`CostsGrow`).

*Graph construction.* The calls for an operation depend on the program only, so what the
graph should say at any moment is a function of the operations passed. `WalkInv` says it
does, read by names: the variables are the ends of these calls, the relations are those
of these calls, and an encoding is required where a type of a bound value declares it.
Renumbering keeps this: counting the predecessors of an element in a strict total order
is an injection into the positions, hence a permutation (by cardinality, for every finite
set), and an ID is looked up through its inverse. From there on IDs do not matter. A
solution observes what the calls relate; a use is converted to one end only, so what an
operand arrives as is one layout and the operation accepts it. Conversely a typing of the
values is extended to the uses with a variable of their own, function results and
storage; each relation asks for no more than the typing of one operation does.

*Pipeline.* `StageInv` says what each stage may have written, so a refusal finds the
module as it was; inference alone verifies again what it has just verified. A
rewriting keeps tiles because a labelling of the new module extends to one of the old.
Replacing needs that a conversion does not come before itself, which is why absence of
cycles (every set of conversions has one that reads outside it) is in the type
invariant. In a finished module inference has nothing to insert and no rewriting
applies (`SilentInv`).

*Materialization.* There is one frame for every region under construction; its worklist
holds each open block with its next operation (`FrameInv`). The regions of an operation
are rebuilt right after it and left complete (`PlaceInv`). A copied block is a prefix of
its block (`CountInv`) with every conversion right before its consumer (`ItemsInv`). At
the end nothing is missing (what `ReadsBack` states; the rest of
`verifyMaterializedLayouts`, a collection of relations and the verifier of solutions, is
in graph construction and solver): of the operations missing, one with the fewest ancestors
would be in a region that is complete.

A worklist is stuck after a pass that rebuilt nothing, so every block left waits, and
what it waits for is mapped once its definition is rebuilt (`PassInv`, `ValuesInv`). Take
the blocks that control reaches without entering one that is left. If a live block comes
next, the value it waits for is defined in a block that dominates it, which is left too
and would have been entered; so no live block is left. Values from outside of the region
are captures of the operation around it, which was ready (`CheckedIsCaptured`).

Only model-checked: termination of propagation and delivery of the lowered exchange
(liveness is out of the prover's reach). `LegacyPromotion` and `LegacyPromotionMeaning`
are recursive over regions, so no theorem may depend on them: `Preserved` and
`NoUninitializedRead` stay with TLC. So do the invariants of `attributes` with
`MeaningKept`, and `VectorsMoveTheTile`, `ProjectionsAreCompatible` and
`TargetDelivers`. What elimination, composition of maps and rebasing compute for every
input would need induction over data for each of them, or is an identity of bits and
integer division that the provers do not find; they are compared with reference
definitions on bounded inputs. Theorems about footprints use the evaluation of a map
only as a function of points.

## 5. Observations

A view that inference binds *before* a later declaration of the same buffer, which
does not dominate it, is not compared with that declaration until the second run of
`preserveStorageContracts` writes the binding down; that run may then refuse a
module inference has accepted. The pipeline stays atomic, so the effect is a refusal
that could have been a different choice.

Adopting a thread count counts the uses of one SSA value, but the layout belongs to its
whole slot. The carried argument of a loop and the result of that loop are two values
with one use each: a reduction of the one with 32 threads and of the other with 128 make
both adopt, and the graph has no solution although it has one without the adoptions
(`ReductionLayoutConstraints.cpp` 79-90 means *private* producers; line 82 says that
shared ones keep their own requirements). The run `shared_producers` shows it. Both
counts must be given by attributes: a reduction that infers its threads looks at the whole
slot first, and `AdoptionExcludesNothing` is checked and proved for shared slots then.

A reduction whose source has known threads stops before the source's producer, which
may "use another environment across a conversion" (`ReductionLayoutConstraints.cpp`
31-34), but not before the producer of a *peer* of the source. The initial accumulator of
a matrix product is a use with the type of the value it uses: if that value is declared
with 32 threads, a reduction of the product's result, which runs with 128, is refused as
conflicting, although the operand is converted and the attribute 128 makes it acceptable.

Rebuilding waits for all values an operation captures, those included that only
unreachable blocks inside of it read (`MaterializeLayouts.cpp` 148-153). MLIR does not
check dominance there, so a valid module can hold an operation, in a block control
reaches, with a dead block inside that reads a later value: the worklist gives up on
it. The pass refuses and the module is kept. This is the second case of
`OnlyDeadCodeIsStuck`, and it occurs in the run.

## 6. Plan

The modules were written with the most important behaviour first: propagation, solver,
exchange and lowering, collection, storage candidates and contracts, materialization,
promotion, graph construction, pipeline, operation collectors, then the layouts
themselves: algebra and attributes, execution and reduction proofs, alias analysis,
relations, costs, legacy import and the SM90 target. What would come next:

1. One graph built by the operation collectors and graph construction together, with
   its relations decided by `LayoutRelations` instead of a constant.
2. Provenance chains, which only diagnostics read.

Not modelled, and why:

* parsing, printing and builders of attributes and operations, and the attributes that
  only carry fields (`FriskAttributes.cpp`): no state, no decision about layouts;
* `LegacyImportSemantics.cpp`, which evaluates the expressions of legacy maps: their
  values are the inputs of the import;
* verifiers and memory effects of the dialect's operations (`FriskOps.cpp`,
  `FriskLayoutOps.cpp` except the canonicalization of conversions): each is a check of
  one operation's fields;
* folding and region simplification of MLIR's greedy driver: outside the repository;
* the relation cache of `LayoutCandidateSolver.cpp` (186-202): it is keyed by the relation and
  by positions in domains that no longer change, so a hit is what evaluation returns;
* the Python front end, the tools, experiments and the oracle of the tests: drivers
  around the same functions.
