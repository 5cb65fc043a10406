------------------------- MODULE LayoutMaterialization -------------------------
(***************************************************************************)
(* Writing a selected layout solution into a module                        *)
(* (lib/Dialect/Frisk/Transforms/MaterializeLayouts.cpp): the module is    *)
(* rebuilt beside the original, operation by operation, with a conversion  *)
(* before every use the solution converts, and replaces the original only  *)
(* once it has been verified.                                              *)
(*                                                                         *)
(* A module is a record of functions over its regions, blocks, operations  *)
(* and values.  A type is the encoding of a value; scalars have one too,   *)
(* which nothing converts.                                                 *)
(***************************************************************************)
EXTENDS Integers, FiniteSets, Sequences, SequencesExt

CONSTANTS
  Programs,   \* modules the pass may be given, with their solutions
  Top         \* the body of the module

\* Each member of S stands at one place of one of the sequences of f.
Placed(f, S) ==
  /\ \A k \in DOMAIN f : f[k] \in Seq(S) /\ IsInjective(f[k])
  /\ \A x \in S : \E k \in DOMAIN f : x \in Range(f[k])
  /\ \A k, l \in DOMAIN f : k # l => Range(f[k]) \cap Range(f[l]) = {}

\* A module is a tree: the blocks of a region other than its body are inside of
\* the operation the region belongs to.
IsTree(p) ==
  LET operations == DOMAIN p.operands
      blocks == DOMAIN p.ops
      regions == DOMAIN p.blocks
  IN  /\ IsFiniteSet(operations) /\ Top \in regions /\ DOMAIN p.regions = operations
      /\ Placed(p.ops, operations) /\ Placed(p.blocks, blocks)
      /\ Placed(p.regions, regions \ {Top})
      /\ \A o \in operations : \A r \in Range(p.regions[o]), b \in blocks, x \in operations :
           b \in Range(p.blocks[r]) /\ x \in Range(p.ops[b])
             => p.ancestors[x] = p.ancestors[o] \cup {o} /\ o \notin p.ancestors[o]
      /\ \A b \in Range(p.blocks[Top]) : \A x \in Range(p.ops[b]) : p.ancestors[x] = {}

\* verifySolvedLayoutGraph has accepted the solution: definitions and uses have
\* an encoding each, and the edges are the uses where the two differ, once each.
\* storage and executions have one entry per operation.
IsSolved(p) ==
  /\ \A o \in DOMAIN p.operands :
       /\ DOMAIN p.wanted[o] = DOMAIN p.operands[o]
       /\ \A i \in DOMAIN p.operands[o] :
            LET source == p.layout[p.operands[o][i]]
                target == p.wanted[o][i]
                edges == {k \in DOMAIN p.edges :
                            p.edges[k].op = o /\ p.edges[k].operand = i}
            IN  /\ (edges = {}) <=> (source = target)
                /\ \A k \in edges : edges = {k} /\ p.edges[k].source = source
                                            /\ p.edges[k].target = target
  /\ p.edges \in Seq(Range(p.edges))
  /\ \A e \in Range(p.edges) : e.op \in DOMAIN p.operands /\ e.operand \in DOMAIN p.operands[e.op]
  /\ \A c, d \in p.bindings : c.op = d.op => c = d

\* Operations nested in o at any depth, and the values they define.
Inside(p, o) == {x \in DOMAIN p.operands : o \in p.ancestors[x]}

BlocksIn(p, o) == UNION {Range(p.blocks[r]) : r \in Range(p.regions[o])}

DefinedInside(p, o) ==
  (UNION {p.results[x] : x \in Inside(p, o)})
    \cup UNION {p.args[b] : b \in UNION {BlocksIn(p, x) : x \in Inside(p, o) \cup {o}}}

\* What operations of S inside of o read from outside of it; for all of them,
\* getUsedValuesDefinedAbove.
ReadAbove(p, o, S) == (UNION {Range(p.operands[x]) : x \in Inside(p, o) \cap S}) \ DefinedInside(p, o)
Captures(p, o)     == ReadAbove(p, o, DOMAIN p.operands)

\* Blocks of a region that control reaches from the first one without entering a
\* block to avoid.
Reach(p, r, avoid) ==
  LET blocks == Range(p.blocks[r]) \ avoid
      closed(R) == \A b \in blocks :
                     b = p.blocks[r][1] \/ (\E a \in R : b \in p.succ[a]) => b \in R
  IN  {b \in blocks : \A R \in SUBSET blocks : closed(R) => b \in R}

Live(p, r)            == Reach(p, r, {})
Dominates(p, r, c, b) == b \notin Reach(p, r, {c})

\* The values that have to dominate o: the IR verifier looks at every use in a
\* block control reaches, and a nested use counts as one of the operation around.
LiveOps(p) == UNION {Range(p.ops[b]) : b \in UNION {Live(p, r) : r \in DOMAIN p.blocks}}
Checked(p, o) == Range(p.operands[o]) \cup ReadAbove(p, o, LiveOps(p))

\* SSA: they are defined by a block that dominates the use, before it, or come
\* from outside of the operation the region belongs to.
IsSSA(p) ==
  \A r \in DOMAIN p.blocks : \A b \in Live(p, r) : \A n \in DOMAIN p.ops[b] :
    \A v \in Checked(p, p.ops[b][n]) :
      \/ \E c \in Range(p.blocks[r]) :
           /\ Dominates(p, r, c, b)
           /\ \/ v \in p.args[c]
              \/ \E m \in DOMAIN p.ops[c] : v \in p.results[p.ops[c][m]] /\ (c = b => m < n)
      \/ /\ r # Top
         /\ \A o \in DOMAIN p.operands : r \in Range(p.regions[o]) => v \notin DefinedInside(p, o)

ASSUME ProgramsAssumption == \A p \in Programs : IsTree(p) /\ IsSolved(p) /\ IsSSA(p)

VARIABLES
  program,   \* the module and its solution
  phase,     \* "prepare", "rebuild", or how the call ended
  frames,    \* the regions being rebuilt, innermost last
  mapped,    \* IRMapping: the encoding of the copy of a value
  copy,      \* the rebuilt blocks
  body       \* what the module owns: "original" or "rebuilt"

rebuildVars == <<program, phase, frames, mapped, copy, body>>

Blocks == DOMAIN program.ops
Ops == DOMAIN program.operands
EdgesOf(o) == {e \in Range(program.edges) : e.op = o}

\* The members of S in a sequence, in their order.
Selected(s, S) == FoldLeft(LAMBDA t, x : IF x \in S THEN Append(t, x) ELSE t, <<>>, s)

RebuildInit ==
  /\ program \in Programs
  /\ phase = "prepare"
  /\ frames = <<>>
  /\ mapped = <<>>
  /\ copy = [b \in Blocks |-> <<>>]
  /\ body = "original"

-----------------------------------------------------------------------------
(* Preparation: every lookup that can fail before anything is built.       *)

\* A binding that replaces an explicit attribute by another value is refused.
PreparableUnchecked == \A b \in program.bindings : b.op \in Ops

Preparable ==
  \A b \in program.bindings :
    /\ b.op \in Ops
    /\ \A a \in DOMAIN b.attrs \cap DOMAIN program.attrs[b.op] :
         program.attrs[b.op][a] = b.attrs[a]

Frame(r) == [region |-> r, opened |-> FALSE, pending |-> <<>>, at |-> 1,
             progressed |-> FALSE]

\* A frame in a pass over the blocks still pending.
Pass(r, pending, at, progressed) ==
  [region |-> r, opened |-> TRUE, pending |-> pending, at |-> at, progressed |-> progressed]

Prepare ==
  /\ phase = "prepare"
  /\ IF Preparable
       THEN phase' = "rebuild" /\ frames' = <<Frame(Top)>>
       ELSE phase' = "refused" /\ UNCHANGED frames
  /\ UNCHANGED <<program, mapped, copy, body>>

-----------------------------------------------------------------------------
(* Rebuilding: a worklist over the blocks of each region.                  *)

ReadyShallow(o) == Range(program.operands[o]) \subseteq DOMAIN mapped

Ready(o) == Range(program.operands[o]) \cup Captures(program, o) \subseteq DOMAIN mapped

InnerFrame == frames[Len(frames)]

\* The innermost frame becomes f.
Innermost(f) == [frames EXCEPT ![Len(frames)] = f]

Rebuilding == phase = "rebuild" /\ frames # <<>>

\* All blocks and block arguments of a region exist before its operations.
Open ==
  /\ Rebuilding /\ ~InnerFrame.opened
  /\ LET blocks == program.blocks[InnerFrame.region]
         arguments == UNION {program.args[b] : b \in Range(blocks)}
         pending == [i \in DOMAIN blocks |-> <<blocks[i], 1>>]
     IN  /\ frames' = Innermost(Pass(InnerFrame.region, pending, 1, FALSE))
         /\ mapped' = [v \in DOMAIN mapped \cup arguments |->
                         IF v \in arguments THEN program.layout[v] ELSE mapped[v]]
  /\ UNCHANGED <<program, phase, copy, body>>

\* The conversion an edge asks for does not start from the encoding the rebuilt
\* operand has.
Mismatched(o) ==
  \E e \in EdgesOf(o) :
    \/ mapped[program.operands[o][e.operand]] # e.source
    \/ e.source = e.target

\* What operand i of o becomes: the copy of its value, or a conversion of it.
Operand(o, i) ==
  LET v == program.operands[o][i]
      edges == {e \in EdgesOf(o) : e.operand = i}
  IN  [value |-> v, encoding |-> IF edges = {} THEN mapped[v]
                                 ELSE (CHOOSE e \in edges : TRUE).target]

\* The conversions created before o, in the order of its edges.
Conversions(o) ==
  LET mine == Selected(program.edges, EdgesOf(o))
  IN  [k \in DOMAIN mine |->
         [convert |-> program.operands[o][mine[k].operand], for |-> o,
          operand |-> mine[k].operand, encoding |-> mine[k].target]]

\* Existing attributes, and those of the layout or contract bound to o.
Attributes(o) ==
  LET bindings == {b \in program.bindings : b.op = o}
      bound == IF bindings = {} THEN <<>> ELSE (CHOOSE b \in bindings : TRUE).attrs
  IN  [a \in DOMAIN bound \cup DOMAIN program.attrs[o] |->
         IF a \in DOMAIN bound THEN bound[a] ELSE program.attrs[o][a]]

Rebuilt(o) ==
  [op |-> o, operands |-> [i \in DOMAIN program.operands[o] |-> Operand(o, i)],
   attrs |-> Attributes(o)]

\* IRMapping after o: its results have the encodings of the solution, and later
\* consumers see the operand that was converted, not its conversion.
MappedWithConversions(o) ==
  [v \in DOMAIN mapped \cup program.results[o] |->
     IF v \in program.results[o] THEN program.layout[v]
     ELSE IF \E e \in EdgesOf(o) : program.operands[o][e.operand] = v
       THEN (CHOOSE e \in EdgesOf(o) : program.operands[o][e.operand] = v).target
     ELSE mapped[v]]

MappedAfter(o) ==
  [v \in DOMAIN mapped \cup program.results[o] |->
     IF v \in program.results[o] THEN program.layout[v] ELSE mapped[v]]

Entry == InnerFrame.pending[InnerFrame.at]

InPass == Rebuilding /\ InnerFrame.opened /\ InnerFrame.at <= Len(InnerFrame.pending)

\* The block in hand has a next operation, which waits for no value.
NextIsReady ==
  LET operations == program.ops[Entry[1]]
  IN  Entry[2] <= Len(operations) /\ Ready(operations[Entry[2]])

LeaveBlock ==
  /\ InPass /\ ~NextIsReady
  /\ frames' = Innermost(Pass(InnerFrame.region, InnerFrame.pending, InnerFrame.at + 1,
                              InnerFrame.progressed))
  /\ UNCHANGED <<program, phase, mapped, copy, body>>

\* rebuildOperation, up to the regions of the operation, which come next in
\* their order.
RebuildOperation ==
  /\ InPass /\ NextIsReady
  /\ LET b == Entry[1]
         o == program.ops[b][Entry[2]]
         nested == Reverse([i \in DOMAIN program.regions[o] |-> Frame(program.regions[o][i])])
         pending == [InnerFrame.pending EXCEPT ![InnerFrame.at] = <<b, Entry[2] + 1>>]
         moved == Innermost(Pass(InnerFrame.region, pending, InnerFrame.at, TRUE))
     IN  IF Mismatched(o)
           THEN /\ phase' = "mismatch"
                /\ UNCHANGED <<frames, mapped, copy>>
           ELSE /\ frames' = moved \o nested
                /\ mapped' = MappedAfter(o)
                /\ copy' = [copy EXCEPT ![b] = @ \o Conversions(o) \o <<Rebuilt(o)>>]
                /\ UNCHANGED phase
  /\ UNCHANGED <<program, body>>

\* Blocks rebuilt to their end leave the worklist; a pass over the others that
\* rebuilt nothing gives up.
AnotherPass == InnerFrame.progressed

Unfinished(f) == {e \in Range(f.pending) : e[2] <= Len(program.ops[e[1]])}

EndPass ==
  /\ Rebuilding /\ InnerFrame.opened /\ InnerFrame.at > Len(InnerFrame.pending)
  /\ LET left == Selected(InnerFrame.pending, Unfinished(InnerFrame))
     IN  IF left = <<>> THEN frames' = Front(frames) /\ UNCHANGED phase
         ELSE /\ frames' = Innermost(Pass(InnerFrame.region, left, 1, FALSE))
              /\ phase' = IF AnotherPass THEN phase ELSE "stuck"
  /\ UNCHANGED <<program, mapped, copy, body>>

-----------------------------------------------------------------------------
(* Verification and commit.                                                *)

IsOp(item) == "op" \in DOMAIN item

\* What verifyMaterializedLayouts reads back from the staged module that the
\* rebuilding is answerable for: every use has the encoding its consumer expects,
\* without help of a conversion yet to be made, and every contract is there.
ReadsBack ==
  \A b \in Blocks : \A item \in {x \in Range(copy[b]) : IsOp(x)} :
    /\ \A i \in DOMAIN item.operands : item.operands[i].encoding = program.wanted[item.op][i]
    /\ \A c \in {x \in program.bindings : x.op = item.op} :
         DOMAIN c.attrs \subseteq DOMAIN item.attrs

\* The verifiers of the operations themselves may still refuse the module.
Finish ==
  /\ phase = "rebuild" /\ frames = <<>>
  /\ \/ ReadsBack /\ phase' = "committed" /\ body' = "rebuilt"
     \/ phase' = "refused" /\ UNCHANGED body
  /\ UNCHANGED <<program, frames, mapped, copy>>

RebuildNext == Prepare \/ Open \/ LeaveBlock \/ RebuildOperation \/ EndPass \/ Finish

RebuildSpec == RebuildInit /\ [][RebuildNext]_rebuildVars


-----------------------------------------------------------------------------
(* Properties.                                                             *)

Phases == {"prepare", "rebuild", "refused", "mismatch", "stuck", "committed"}

\* Values are mapped to the encoding the solution selects, and the frames name
\* blocks of their region and a next operation of each.
RebuildTypeOK ==
  /\ program \in Programs /\ phase \in Phases /\ body \in {"original", "rebuilt"}
  /\ \A v \in DOMAIN mapped : mapped[v] = program.layout[v]
  /\ DOMAIN copy = Blocks
  /\ \A f \in Range(frames) :
       /\ f.at \in 1..Len(f.pending) + 1
       /\ \A e \in Range(f.pending) :
            /\ e[1] \in Range(program.blocks[f.region])
            /\ e[2] \in 1..Len(program.ops[e[1]]) + 1

\* Whatever the printed order of the blocks of a valid module, the worklist of
\* rebuildRegion rebuilds it: it gives up only where all that is left of a region
\* are blocks that no path from its entry reaches, for which SSA promises nothing,
\* or on an operation that waits for nothing but what such blocks inside of it read.
OnlyDeadCodeIsStuck ==
  phase = "stuck" =>
    LET live == {e \in Range(InnerFrame.pending) : e[1] \in Live(program, InnerFrame.region)}
    IN  live = {} \/ \E e \in live :
                      Checked(program, program.ops[e[1]][e[2]]) \subseteq DOMAIN mapped

\* A verified solution is enough to rebuild the module: no conversion meets an
\* operand in another encoding than its edge starts from, and when the last
\* operation is copied verifyMaterializedLayouts reads back the solution's encodings.
SolutionSuffices ==
  /\ phase # "mismatch"
  /\ (phase = "rebuild" /\ frames = <<>>) => ReadsBack

\* The operations of a block of the rebuilt module, without conversions.
Operations(s) == Selected(s, {x \in Range(s) : IsOp(x)})
Kept(b) == Operations(copy[b])

\* The module that replaces the original is the original: the same operations
\* in the same order in every block, with all their attributes; and what was
\* added is the selected conversions, each between its definition and its one
\* consumer, and the bindings.
CommitIsFaithful ==
  body = "rebuilt" =>
    /\ phase = "committed"
    /\ \A b \in Blocks :
         /\ [i \in DOMAIN Kept(b) |-> Kept(b)[i].op] = program.ops[b]
         /\ \A item \in Range(Kept(b)) :
              /\ \A a \in DOMAIN program.attrs[item.op] :
                   item.attrs[a] = program.attrs[item.op][a]
              /\ \A c \in program.bindings :
                   c.op = item.op => \A a \in DOMAIN c.attrs : item.attrs[a] = c.attrs[a]
         /\ \A i \in {j \in DOMAIN copy[b] : ~IsOp(copy[b][j])} :
              LET c == copy[b][i]
              IN  /\ \E k \in i + 1..Len(copy[b]) :
                       /\ IsOp(copy[b][k]) /\ copy[b][k].op = c.for
                       /\ \A j \in i + 1..k - 1 : ~IsOp(copy[b][j])
                  /\ c.encoding # program.layout[c.convert]
                  /\ \A j \in DOMAIN copy[b] \ {i} :
                       copy[b][j] # c
    /\ \A e \in Range(program.edges) :
         \E b \in Blocks : \E item \in Range(copy[b]) :
           /\ ~IsOp(item) /\ item.for = e.op /\ item.operand = e.operand
           /\ item.encoding = program.wanted[e.op][e.operand]
=============================================================================
