---------------------------- MODULE LegacyPromotion ----------------------------
(***************************************************************************)
(* Promotion of legacy Local fragments to SSA values                       *)
(* (lib/Dialect/Frisk/Transforms/LegacyFragmentNormalization.cpp).         *)
(*                                                                         *)
(* A legacy kernel keeps its register tiles in Local buffers and moves     *)
(* them with fill, copy, gemm and reduce.  The Normalizer walks the        *)
(* function once with the current SSA value of every fragment, and gives   *)
(* each branch and loop the values it changes as results and arguments.    *)
(*                                                                         *)
(* An operation is a record [kind, from, to, clear, legal, range, blocks]: *)
(* "legal" stands for the checks on its types, extents, attributes and     *)
(* threads.  The value a step defines is named by its place in the tree.   *)
(***************************************************************************)
EXTENDS Integers, FiniteSets, Sequences, SequencesExt

CONSTANTS
  Fragments,  \* Local allocations, through any of their identity casts
  Storages,   \* Shared and Global buffers
  Programs    \* bodies of the functions to normalize

VARIABLES
  source,     \* the function body
  outcome,    \* "preflight", "process", "refused" or "normalized"
  at,         \* the operation of the body that is next
  state,      \* State: the SSA value of every fragment allocated so far
  rewritten   \* the operations that replace the body

vars == <<source, outcome, at, state, rewritten>>

Uninitialized == <<>>
NoValue == <<>>

Init ==
  /\ source \in Programs
  /\ outcome = "preflight" /\ at = 1
  /\ state = <<>> /\ rewritten = <<>>

-----------------------------------------------------------------------------
(* preflight: what is refused before the first rewrite.                    *)

Scopes == {"kernel", "parallel"}
Writers == {"fill", "copy", "gemm", "reduce"}

Operands(o) == Range(o.from) \cup {o.to}

\* Every operation below a block: its path, the execution scope and whether a
\* region that is not sequential is around it.
RECURSIVE Sites(_, _, _, _)
Sites(block, path, scope, opaque) ==
  UNION {LET o == block[i]
             here == Append(path, i)
         IN  {[op |-> o, path |-> here, scope |-> scope, opaque |-> opaque]}
               \cup UNION {Sites(o.blocks[r], Append(here, r),
                                 IF o.kind \in Scopes THEN here ELSE scope,
                                 opaque \/ o.kind = "opaque") : r \in DOMAIN o.blocks} :
         i \in DOMAIN block}

\* checkLifetime: a fragment lives in one sequential execution scope, and its
\* one release is in the block of its allocation, after every other use.
LifetimeOf(a, sites) ==
  LET users == {u \in sites : a.op.to \in Operands(u.op) /\ u.op.kind # "alloc"}
      releases == {u \in users : u.op.kind = "dealloc"}
      depth == Len(a.path)
  IN  /\ a.op.legal /\ ~a.opaque
      /\ \A u \in users : u.scope = a.scope /\ ~u.opaque
      /\ Cardinality(releases) <= 1
      /\ \A d \in releases :
           /\ Front(d.path) = Front(a.path)
           /\ \A u \in users \ releases : u.path[depth] < d.path[depth]

Preflight(program) ==
  LET sites == Sites(program, <<>>, <<>>, FALSE)
      allocations == {s \in sites : s.op.kind = "alloc"}
  IN  /\ \A s \in sites : s.op.kind \in {"gemm", "reduce"} => s.op.legal
      /\ \A a \in allocations : LifetimeOf(a, sites)
      /\ \A s \in sites : s.op.kind \in Writers =>
           Operands(s.op) \cap Fragments \subseteq {a.op.to : a \in allocations}

Check ==
  /\ outcome = "preflight"
  /\ outcome' = IF Preflight(source) THEN "process" ELSE "refused"
  /\ UNCHANGED <<source, at, state, rewritten>>

-----------------------------------------------------------------------------
(* process: one operation after the other, with the state it leaves.       *)

\* Operands: a view of a buffer, a constant tile, or the name of a value.
View(s) == <<"view", s, <<>>>>
Constant(c) == <<"tile", c, <<>>>>
Value(path) == <<"value", "", path>>
Argument(f, path) == <<"argument", f, path>>
ResultOf(f, path) == <<"result", f, path>>

\* A rewritten operation.  Branches and loops carry fragments: what goes into
\* each block by which argument, what comes out of it, and under which name.
Emit(kind, def, uses, to) ==
  [kind |-> kind, def |-> def, uses |-> uses, to |-> to, range |-> <<>>, blocks |-> <<>>,
   inits |-> <<>>, arguments |-> <<>>, yields |-> <<>>, results |-> <<>>]

EmitRegions(kind, range, blocks, inits, arguments, yields, results) ==
  [Emit(kind, NoValue, <<>>, "") EXCEPT
     !.range = range, !.blocks = blocks, !.inits = inits, !.arguments = arguments,
     !.yields = yields, !.results = results]

Done(s, ops) == [ok |-> TRUE, state |-> s, ops |-> ops]
Refused == [ok |-> FALSE, state |-> <<>>, ops |-> <<>>]

Override(f, g) == [x \in DOMAIN f \cup DOMAIN g |-> IF x \in DOMAIN g THEN g[x] ELSE f[x]]
Set(s, f, v) == Override(s, [x \in {f} |-> v])
Lookup(s, f) == IF f \in DOMAIN s THEN s[f] ELSE Uninitialized

\* read and requireInitialized.
InitializedUnchecked(fragments, s) == TRUE

Initialized(fragments, s) == \A f \in fragments : Lookup(s, f) # Uninitialized

\* modifiedExternal: the fragments known outside that an operation or one
\* nested in it writes.
RECURSIVE Walk(_)
Walk(o) == {o} \cup UNION {UNION {Walk(x) : x \in Range(o.blocks[r])} : r \in DOMAIN o.blocks}

ModifiedExternal(o, s) == {x.to : x \in {y \in Walk(o) : y.kind \in Writers}} \cap DOMAIN s

Carried(fragments, s) == [f \in fragments |-> Lookup(s, f)]
Arguments(fragments, path) == [f \in fragments |-> Argument(f, path)]
Results(fragments, path) == [f \in fragments |-> ResultOf(f, path)]

\* A fragment operand is its current value; storage is read through a view.
Reads(o, s) == Initialized(Range(o.from) \cap Fragments, s)

ProcessCopy(o, s, path) ==
  LET from == o.from[1]
      value == IF from \in Fragments THEN s[from] ELSE Value(path)
      loads == IF from \in Fragments THEN <<>>
               ELSE <<Emit("tile_load", Value(path), <<View(from)>>, "")>>
  IN  IF ~o.legal \/ ~Reads(o, s) THEN Refused
      ELSE IF from \notin Fragments /\ o.to \notin Fragments
        THEN Done(s, <<Emit("copy", NoValue, <<View(from)>>, o.to)>>)
      ELSE IF o.to \in Fragments THEN Done(Set(s, o.to, value), loads)
      ELSE Done(s, <<Emit("tile_store", NoValue, <<value>>, o.to)>>)

ProcessFill(o, s, path) ==
  IF ~o.legal THEN Refused
  ELSE IF o.to \in Fragments
    THEN Done(Set(s, o.to, Value(path)), <<Emit("constant", Value(path), <<Constant(o.from[1])>>, "")>>)
  ELSE Done(s, <<Emit("fill", NoValue, <<Constant(o.from[1])>>, o.to)>>)

\* Local accumulator, Shared B, Local or Shared A.
ProcessGemm(o, s, path) ==
  LET zero == Value(Append(path, 0))
      init == IF o.clear THEN zero ELSE Lookup(s, o.to)
      a == IF o.from[1] \in Fragments THEN Lookup(s, o.from[1]) ELSE View(o.from[1])
  IN  IF \/ o.to \notin Fragments \/ o.from[2] \notin Storages
         \/ ~Reads(o, s) \/ (~o.clear /\ ~Initialized({o.to}, s))
        THEN Refused
      ELSE Done(Set(s, o.to, Value(path)),
                (IF o.clear THEN <<Emit("constant", zero, <<Constant("zero")>>, "")>> ELSE <<>>)
                  \o <<Emit("mma", Value(path), <<a, View(o.from[2]), init>>, "")>>)

ProcessReduce(o, s, path) ==
  LET loaded == Value(Append(path, 0))
      reduced == Value(Append(path, 1))
      from == IF o.from[1] \in Fragments THEN Lookup(s, o.from[1]) ELSE loaded
      load == IF o.from[1] \in Fragments THEN <<>>
              ELSE <<Emit("tile_load", loaded, <<View(o.from[1])>>, "")>>
  IN  IF o.to \notin Fragments \/ ~Reads(o, s) \/ (~o.clear /\ ~Initialized({o.to}, s))
        THEN Refused
      ELSE IF o.clear
        THEN Done(Set(s, o.to, reduced), load \o <<Emit("reduce_tensor", reduced, <<from>>, "")>>)
      ELSE Done(Set(s, o.to, Value(path)),
                load \o <<Emit("reduce_tensor", reduced, <<from>>, ""),
                          Emit("combine", Value(path), <<Lookup(s, o.to), reduced>>, "")>>)

\* processIndependentStorage, for regions no fragment is used in.
Independent(o) ==
  \A x \in Walk(o) : x.kind \notin {"gemm", "reduce"} /\ x.legal
                       /\ (x.kind \in {"copy", "fill"} => Operands(x) \cap Fragments = {})

RECURSIVE Process(_, _, _)
RECURSIVE ProcessBlock(_, _, _)

\* A branch keeps the fragments it changes when both sides have a value of
\* them; without else block the other side is the state before it.
Mergeable(modified, s, one, other) == Initialized(modified, one) /\ Initialized(modified, other)

\* The state after an operation with regions: what its blocks changed is known
\* by its results.
StateAfter(s, inner, results) == Override(s, results)

ProcessIf(o, s, path) ==
  LET modified == ModifiedExternal(o, s)
      then == ProcessBlock(o.blocks[1], s, Append(path, 1))
      else == IF Len(o.blocks) = 2 THEN ProcessBlock(o.blocks[2], s, Append(path, 2))
              ELSE Done(s, <<>>)
      results == Results(modified, path)
  IN  IF ~then.ok \/ ~else.ok \/ ~Mergeable(modified, s, then.state, else.state) THEN Refused
      ELSE Done(StateAfter(s, then.state, results),
                <<EmitRegions("if", <<>>, <<then.ops, else.ops>>, <<>>, <<>>,
                              <<Carried(modified, then.state), Carried(modified, else.state)>>,
                              results)>>)

\* Inside a loop a fragment it changes is an argument of the block.
EntryValues(modified, s, path) == s

BlockArguments(modified, s, path) == Override(s, Arguments(modified, path))

ProcessFor(o, s, path) ==
  LET modified == ModifiedExternal(o, s)
      body == ProcessBlock(o.blocks[1], BlockArguments(modified, s, Append(path, 1)),
                           Append(path, 1))
      results == Results(modified, path)
  IN  IF ~Initialized(modified, s) \/ ~body.ok THEN Refused
      ELSE Done(StateAfter(s, body.state, results),
                <<EmitRegions("for", o.range, <<body.ops>>, Carried(modified, s),
                              <<Arguments(modified, Append(path, 1))>>,
                              <<Carried(modified, body.state)>>, results)>>)

\* The results of a while loop are what its condition block hands on.
ProcessWhile(o, s, path) ==
  LET modified == ModifiedExternal(o, s)
      before == ProcessBlock(o.blocks[1], BlockArguments(modified, s, Append(path, 1)),
                             Append(path, 1))
      after == ProcessBlock(o.blocks[2], BlockArguments(modified, s, Append(path, 2)),
                            Append(path, 2))
      results == Results(modified, path)
  IN  IF ~Initialized(modified, s) \/ ~before.ok \/ ~after.ok THEN Refused
      ELSE Done(StateAfter(s, before.state, results),
                <<EmitRegions("while", <<>>, <<before.ops, after.ops>>, Carried(modified, s),
                              <<Arguments(modified, Append(path, 1)),
                                Arguments(modified, Append(path, 2))>>,
                              <<Carried(modified, before.state), Carried(modified, after.state)>>,
                              results)>>)

Touches(o) == \E x \in Walk(o) : Operands(x) \cap Fragments # {}

\* A static legacy loop becomes a loop of the same range when fragments are
\* used in it.
ProcessLegacyFor(o, s, path) ==
  IF Touches(o)
    THEN IF o.range[3] > 0 /\ o.range[1] <= o.range[2] /\ o.legal
           THEN ProcessFor(o, s, path) ELSE Refused
    ELSE LET body == ProcessBlock(o.blocks[1], s, Append(path, 1))
         IN  [body EXCEPT !.ops = <<EmitRegions("for", o.range, <<@>>, <<>>, <<<<>>>>, <<<<>>>>, <<>>)>>]

\* A kernel or parallel region is an execution scope of its own.
ProcessScope(o, s, path) ==
  LET body == ProcessBlock(o.blocks[1], <<>>, Append(path, 1))
  IN  IF body.ok THEN Done(s, <<EmitRegions("scope", <<>>, <<body.ops>>, <<>>, <<<<>>>>, <<<<>>>>, <<>>)>>)
      ELSE Refused

Process(o, s, path) ==
  CASE o.kind = "alloc" -> Done(Set(s, o.to, Uninitialized), <<>>)
    [] o.kind = "dealloc" -> Done(s, <<>>)
    [] o.kind = "fill" -> ProcessFill(o, s, path)
    [] o.kind = "copy" -> ProcessCopy(o, s, path)
    [] o.kind = "gemm" -> ProcessGemm(o, s, path)
    [] o.kind = "reduce" -> ProcessReduce(o, s, path)
    [] o.kind = "if" -> ProcessIf(o, s, path)
    [] o.kind = "for" -> ProcessFor(o, s, path)
    [] o.kind = "while" -> ProcessWhile(o, s, path)
    [] o.kind = "legacy_for" -> ProcessLegacyFor(o, s, path)
    [] o.kind \in Scopes -> ProcessScope(o, s, path)
    [] o.kind = "opaque" -> IF Independent(o) THEN Done(s, <<>>) ELSE Refused

ProcessBlock(block, s, path) ==
  LET after[i \in 0..Len(block)] ==
        IF i = 0 THEN Done(s, <<>>)
        ELSE LET before == after[i - 1]
             IN  IF ~before.ok THEN Refused
                 ELSE LET step == Process(block[i], before.state, Append(path, i))
                      IN  [step EXCEPT !.ops = before.ops \o @]
  IN  after[Len(block)]

ProcessNext ==
  /\ outcome = "process" /\ at <= Len(source)
  /\ LET step == Process(source[at], state, <<at>>)
     IN  IF step.ok
           THEN /\ at' = at + 1
                /\ state' = step.state
                /\ rewritten' = rewritten \o step.ops
                /\ UNCHANGED outcome
           ELSE outcome' = "refused" /\ UNCHANGED <<at, state, rewritten>>
  /\ UNCHANGED source

\* Allocations, casts and releases go, and nothing legacy is left.
Finish ==
  /\ outcome = "process" /\ at > Len(source)
  /\ outcome' = "normalized"
  /\ UNCHANGED <<source, at, state, rewritten>>

Next == Check \/ ProcessNext \/ Finish

Spec == Init /\ [][Next]_vars

=============================================================================
