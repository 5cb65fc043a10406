------------------------ MODULE LegacyPromotionMeaning ------------------------
(***************************************************************************)
(* What a legacy kernel and its rewritten form do, and that they do the    *)
(* same.  The operations have their documented meaning on memory and on    *)
(* SSA values; tiles are symbolic terms.  An oracle answers the branch     *)
(* conditions and trip counts in the order they are asked; the observation *)
(* of a run is the sequence of its stores.                                 *)
(***************************************************************************)
EXTENDS LegacyPromotion

CONSTANT Oracles   \* sequences of answers, 0 or 1

Undefined == <<"undefined">>

Answer(m) == IF m.oracle = <<>> THEN 0 ELSE Head(m.oracle)
Ask(m) == [m EXCEPT !.oracle = IF @ = <<>> THEN @ ELSE Tail(@)]

\* A loop of unknown range runs twice or not at all.
Trips(range, m) ==
  IF range = <<>> THEN 2 * Answer(m)
  ELSE IF range[3] <= 0 THEN 0
  ELSE Cardinality({k \in range[1]..range[2] - 1 : (k - range[1]) % range[3] = 0})
AskTrips(range, m) == IF range = <<>> THEN Ask(m) ELSE m

\* A run: fragments or SSA values by name, storage, the stores so far, the
\* answers left, and whether a fragment without value was needed.
Start(oracle) == [mem |-> <<>>, storage |-> [s \in Storages |-> <<"input", s>>],
                  stores |-> <<>>, oracle |-> oracle, undefined |-> FALSE]

Get(m, x) == IF x \in Storages THEN m.storage[x]
             ELSE IF x \in DOMAIN m.mem THEN m.mem[x] ELSE Undefined

Store(m, s, v) == [m EXCEPT !.storage[s] = v, !.stores = Append(@, <<s, v>>)]

Put(m, x, v) == IF x \in Storages THEN Store(m, x, v) ELSE [m EXCEPT !.mem = Set(@, x, v)]

Need(m, fragments) ==
  [m EXCEPT !.undefined = @ \/ \E f \in fragments : Get(m, f) = Undefined]

\* What a block allocated or defined is gone after it.
Leave(m, before) == [m EXCEPT !.mem = [x \in DOMAIN before.mem |-> @[x]]]

Tile(c) == <<"tile", c>>
Mma(a, b, init) == <<"mma", a, b, init>>
Reduced(x) == <<"reduced", x>>
Combined(previous, x) == <<"combined", previous, x>>

-----------------------------------------------------------------------------
(* The legacy kernel, on memory.                                           *)

RECURSIVE Run(_, _)
RECURSIVE RunBlock(_, _)
RECURSIVE RunWhile(_, _)

RunLoop(o, m) ==
  LET modified == ModifiedExternal(o, m.mem)
      entered == AskTrips(o.range, Need(m, modified))
      run[n \in 0..Trips(o.range, m)] == IF n = 0 THEN entered ELSE RunBlock(o.blocks[1], run[n - 1])
  IN  run[Trips(o.range, m)]

RunWhile(o, m) ==
  LET asked == RunBlock(o.blocks[1], m)
  IN  IF Answer(asked) = 0 THEN Ask(asked)
      ELSE RunWhile(o, RunBlock(o.blocks[2], Ask(asked)))

RunIf(o, m) ==
  LET asked == Ask(m)
      after == IF Answer(m) = 1 THEN RunBlock(o.blocks[1], asked)
               ELSE IF Len(o.blocks) = 2 THEN RunBlock(o.blocks[2], asked) ELSE asked
  IN  Need(after, ModifiedExternal(o, m.mem))

Run(o, m) ==
  LET operands == Need(m, (Range(o.from) \cup (IF o.clear THEN {} ELSE {o.to})) \cap Fragments)
      source_ == Need(m, Range(o.from) \cap Fragments)
  IN  CASE o.kind = "alloc" -> Put(m, o.to, Undefined)
        [] o.kind = "dealloc" -> m
        [] o.kind = "fill" -> Put(m, o.to, Tile(o.from[1]))
        [] o.kind = "copy" -> Put(source_, o.to, Get(m, o.from[1]))
        [] o.kind = "gemm" ->
             Put(operands, o.to, Mma(Get(m, o.from[1]), Get(m, o.from[2]),
                                     IF o.clear THEN Tile("zero") ELSE Get(m, o.to)))
        [] o.kind = "reduce" ->
             Put(operands, o.to, IF o.clear THEN Reduced(Get(m, o.from[1]))
                                 ELSE Combined(Get(m, o.to), Reduced(Get(m, o.from[1]))))
        [] o.kind = "if" -> RunIf(o, m)
        [] o.kind \in {"for", "legacy_for"} -> RunLoop(o, m)
        [] o.kind = "while" -> RunWhile(o, Need(m, ModifiedExternal(o, m.mem)))
        [] o.kind \in Scopes -> RunBlock(o.blocks[1], m)
        [] OTHER -> m

RunBlock(block, m) ==
  LET run[i \in 0..Len(block)] == IF i = 0 THEN m ELSE Run(block[i], run[i - 1])
  IN  Leave(run[Len(block)], m)

-----------------------------------------------------------------------------
(* The rewritten kernel, on SSA values.                                    *)

\* Names of a block's arguments, and of an operation's results, get values.
Bind(m, names, values) ==
  [m EXCEPT !.mem = Override(@, [x \in Range(names) |->
     values[CHOOSE f \in DOMAIN names : names[f] = x]])]

\* What an operand holds.
Use(m, u) == CASE u # NoValue /\ u[1] = "view" -> m.storage[u[2]]
               [] u # NoValue /\ u[1] = "tile" -> Tile(u[2])
               [] OTHER -> IF u \in DOMAIN m.mem THEN m.mem[u] ELSE Undefined
Define(m, o, v) == [m EXCEPT !.mem = Set(@, o.def, v)]

Values(m, names) == [f \in DOMAIN names |-> Use(m, names[f])]

RECURSIVE Perform(_, _)
RECURSIVE PerformBlock(_, _, _)
RECURSIVE PerformWhile(_, _, _)

\* A block with arguments, its yields, and the state around it afterwards.
Block(ops, arguments, yields, m, carried) ==
  LET ended == PerformBlock(ops, 1, Bind(m, arguments, carried))
  IN  [after |-> Leave(ended, m), carried |-> Values(ended, yields)]

PerformLoop(o, m) ==
  LET run[n \in 0..Trips(o.range, m)] ==
        IF n = 0 THEN [after |-> AskTrips(o.range, m), carried |-> Values(m, o.inits)]
        ELSE Block(o.blocks[1], o.arguments[1], o.yields[1], run[n - 1].after, run[n - 1].carried)
      last == run[Trips(o.range, m)]
  IN  Bind(last.after, o.results, last.carried)

PerformWhile(o, m, carried) ==
  LET asked == Block(o.blocks[1], o.arguments[1], o.yields[1], m, carried)
      next == Block(o.blocks[2], o.arguments[2], o.yields[2], Ask(asked.after), asked.carried)
  IN  IF Answer(asked.after) = 0 THEN Bind(Ask(asked.after), o.results, asked.carried)
      ELSE PerformWhile(o, next.after, next.carried)

PerformIf(o, m) ==
  LET side == IF Answer(m) = 1 THEN 1 ELSE 2
      run == Block(o.blocks[side], <<>>, o.yields[side], Ask(m), <<>>)
  IN  Bind(run.after, o.results, run.carried)

Perform(o, m) ==
  CASE o.kind \in {"constant", "tile_load"} -> Define(m, o, Use(m, o.uses[1]))
    [] o.kind \in {"fill", "copy", "tile_store"} -> Store(m, o.to, Use(m, o.uses[1]))
    [] o.kind = "mma" ->
         Define(m, o, Mma(Use(m, o.uses[1]), Use(m, o.uses[2]), Use(m, o.uses[3])))
    [] o.kind = "reduce_tensor" -> Define(m, o, Reduced(Use(m, o.uses[1])))
    [] o.kind = "combine" -> Define(m, o, Combined(Use(m, o.uses[1]), Use(m, o.uses[2])))
    [] o.kind = "if" -> PerformIf(o, m)
    [] o.kind = "for" -> PerformLoop(o, m)
    [] o.kind = "while" -> PerformWhile(o, m, Values(m, o.inits))
    [] o.kind = "scope" -> Leave(PerformBlock(o.blocks[1], 1, m), m)

PerformBlock(ops, i, m) == IF i > Len(ops) THEN m ELSE PerformBlock(ops, i + 1, Perform(ops[i], m))

-----------------------------------------------------------------------------
(* Properties.                                                             *)

\* Outside an operation only the fragments allocated beside it are known.
TypeOK ==
  /\ source \in Programs
  /\ outcome \in {"preflight", "process", "refused", "normalized"}
  /\ at \in 1..Len(source) + 1
  /\ DOMAIN state = {source[i].to : i \in {j \in 1..at - 1 : source[j].kind = "alloc"}}
  /\ DOMAIN state \subseteq Fragments

RunOf(oracle) == RunBlock(source, Start(oracle))

\* However the branches and loops of the kernel go, the rewritten one stores
\* the same tiles to the same buffers in the same order: promotion to SSA lost
\* no write of a nested block, no loop-carried value and no side of a branch.
Preserved ==
  outcome = "normalized" =>
    \A oracle \in Oracles :
      PerformBlock(rewritten, 1, Start(oracle)).stores = RunOf(oracle).stores

\* A kernel that is accepted reads no fragment before it has a value, on any
\* path: the normalized form never has to invent one.
NoUninitializedRead ==
  outcome = "normalized" => \A oracle \in Oracles : ~RunOf(oracle).undefined
=============================================================================
