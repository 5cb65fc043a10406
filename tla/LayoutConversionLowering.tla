----------------------- MODULE LayoutConversionLowering -----------------------
(***************************************************************************)
(* The pass that lowers the layout conversions of a module's kernels       *)
(* (lib/Conversion/FriskLayoutToGPU/TestLayoutConversionLowering.cpp): a   *)
(* walk that plans every conversion and accounts for its workgroup buffer, *)
(* then, if nothing was refused, the emission of all of them.  What an     *)
(* emitted conversion does is LayoutExchange.  Sizes are unsigned 64-bit   *)
(* integers, MaxUInt is the largest of them.                               *)
(***************************************************************************)
EXTENDS LayoutRedistribution, Sequences, SequencesExt

CONSTANTS
  Kernels,
  Programs,        \* sequences of conversions, in walk order
  Storages,        \* workgroup attributions the kernels may start with
  ScratchBudget, MaxUInt

\* A conversion knows its kernel, whether it sits in the kernel's only block,
\* whether known_block_size matches the plan and the limits of the adapter are
\* kept, and its element size.  An attribution has a shape, an element size (0
\* when unsupported), an alignment attribute (<<>> when absent), and may not be
\* static; a kernel may use workgroup storage that is not an attribution.
Attributions ==
  [element : Nat, shape : Seq(Nat), align : Seq(Int), static : BOOLEAN]

ASSUME LoweringAssumption ==
  /\ ScratchBudget \in Nat /\ MaxUInt \in Nat /\ ScratchBudget <= MaxUInt
  /\ \A s \in Storages : s \in [Kernels -> Seq(Attributions)]
  /\ \A p \in Programs :
       /\ Len(p) \in Nat /\ DOMAIN p = 1..Len(p)
       /\ \A i \in DOMAIN p : p[i].kernel \in Kernels /\ p[i].bytes \in Nat \ {0}

VARIABLES
  program,     \* the conversions of the module
  storage,     \* the workgroup attributions of every kernel
  untracked,   \* kernels with workgroup storage that is not an attribution
  original,    \* storage at the start (history)
  planned,     \* conversions the walk has accepted
  lowered,     \* conversions emitted
  used,        \* usedScratch: accounted bytes of the kernels it has met
  refused      \* the walk was interrupted

loweringVars == <<program, storage, untracked, original, planned, lowered, used, refused>>

LoweringInit ==
  /\ program \in Programs
  /\ storage \in Storages
  /\ untracked \in SUBSET Kernels
  /\ original = storage
  /\ planned = 0 /\ lowered = 0
  /\ used = <<>>
  /\ refused = FALSE

-----------------------------------------------------------------------------
(* Unsigned accounting.                                                    *)

Overrun == -1

PowerOfTwo(a) == \E n \in 0..(a - 1) : a = 2 ^ n

AlignedTo(n, alignment) == ((n + alignment - 1) \div alignment) * alignment

\* reserveScratch: room for bytes more, or Overrun.
Reserve(n, bytes, alignment) ==
  IF n = Overrun \/ ~PowerOfTwo(alignment) \/ n > ScratchBudget
       \/ n > MaxUInt - (alignment - 1) THEN Overrun
  ELSE LET aligned == AlignedTo(n, alignment)
       IN  IF aligned > ScratchBudget \/ bytes > ScratchBudget - aligned THEN Overrun
           ELSE aligned + bytes

\* The size of an attribution: multiplied up extent by extent within the budget.
Multiply(bytes, extent) ==
  IF bytes = Overrun \/ (extent # 0 /\ bytes > ScratchBudget \div extent) THEN Overrun
  ELSE bytes * extent

SizeOf(a) == FoldLeft(Multiply, a.element, a.shape)

AlignmentOf(a) ==
  IF a.align # <<>> /\ a.align[1] > a.element THEN a.align[1] ELSE a.element

Countable(a) ==
  /\ a.static /\ a.element # 0 /\ SizeOf(a) # Overrun
  /\ a.align # <<>> => a.align[1] > 0

Counted(n, a) == Reserve(n, SizeOf(a), AlignmentOf(a))

\* A kernel's own attributions are counted when its first exchange is planned.
ExistingUse(k) ==
  IF k \in untracked \/ \E i \in DOMAIN storage[k] : ~Countable(storage[k][i]) THEN Overrun
  ELSE FoldLeft(Counted, 0, storage[k])

-----------------------------------------------------------------------------
Volume(p) == Cardinality(Slots(p))

Buffer(op) ==
  [shape |-> <<Volume(op.plan)>>, element |-> op.bytes, align |-> <<op.bytes>>, static |-> TRUE]

NeedsBuffer(op) == Mode(op.plan) = "Shared"

\* The walk refuses the conversion whatever its storage.
Refusable(op) == ~op.uniform \/ ~op.withinLimits \/ ~Accepted(op.plan) \/ ~op.blockMatches

\* Each kernel is counted once; the faulty form counts it for each exchange.
UseRecounted(op) == ExistingUse(op.kernel)

UseBefore(op) ==
  IF op.kernel \in DOMAIN used THEN used[op.kernel] ELSE ExistingUse(op.kernel)

UseAfter(op) == Reserve(UseBefore(op), Volume(op.plan) * op.bytes, op.bytes)

\* One conversion of the walk.
Plan ==
  /\ ~refused /\ planned < Len(program)
  /\ LET op == program[planned + 1] IN
       IF Refusable(op) \/ (NeedsBuffer(op) /\ UseAfter(op) = Overrun)
         THEN /\ refused' = TRUE
              /\ UNCHANGED <<planned, used>>
         ELSE /\ planned' = planned + 1
              /\ used' = IF ~NeedsBuffer(op) THEN used
                         ELSE [k \in DOMAIN used \cup {op.kernel} |->
                                 IF k = op.kernel THEN UseAfter(op) ELSE used[k]]
              /\ UNCHANGED refused
  /\ UNCHANGED <<program, storage, untracked, original, lowered>>

\* No mutation until every conversion and aggregate scratch budget passes.
EmittableEagerly == lowered < planned

Emittable == lowered < planned /\ planned = Len(program)

\* An exchange adds its buffer behind the kernel's attributions.
Emit ==
  /\ ~refused /\ Emittable
  /\ LET op == program[lowered + 1] IN
       storage' = IF NeedsBuffer(op)
                    THEN [storage EXCEPT ![op.kernel] = Append(@, Buffer(op))] ELSE storage
  /\ lowered' = lowered + 1
  /\ UNCHANGED <<program, untracked, original, planned, used, refused>>

LoweringNext == Plan \/ Emit

LoweringSpec == LoweringInit /\ [][LoweringNext]_loweringVars

-----------------------------------------------------------------------------
\* A refused module is left exactly as it was, although conversions before the
\* refused one had been accepted: a failing pass changes no kernel.
NothingOnRefusal == refused => lowered = 0 /\ storage = original

\* The end of a kernel's attributions placed one after the other, each aligned,
\* in numbers that do not wrap.
Times(x, y) == x * y
Behind(n, a) == AlignedTo(n, AlignmentOf(a)) + FoldLeft(Times, a.element, a.shape)
Footprint(k) == FoldLeft(Behind, 0, storage[k])

Exchanging == {program[i].kernel : i \in {j \in 1..lowered : NeedsBuffer(program[j])}}

\* However many conversions share a kernel, it fits the budget with all its
\* attributions and their padding; and once all are emitted, the walk's account
\* of a kernel, kept while its buffers did not exist yet, is the true footprint:
\* nothing is counted twice or missed, or wrapped.
AccountIsExact ==
  /\ \A k \in Exchanging : Footprint(k) <= ScratchBudget
  /\ lowered = Len(program) => \A k \in DOMAIN used : used[k] = Footprint(k)
=============================================================================
