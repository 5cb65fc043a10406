------------------------ MODULE LayoutGraphConstruction ------------------------
(***************************************************************************)
(* How the constraint graph comes to be: one walk over the operations, in  *)
(* pre-order, that names a variable for every tensor and for some of its   *)
(* uses and relates them (DistributedLayoutConstraints.cpp, the builder in *)
(* LayoutPropagation.cpp), and finalize(), which sorts variables by name   *)
(* and constraints by kind and rewrites every ID stored anywhere           *)
(* (LayoutConstraint.cpp).  A finalized graph is worth having if its       *)
(* satisfying assignments are the ways to type the program: the properties *)
(* at the end.                                                             *)
(*                                                                         *)
(* A program has operations in pre-order.  An operation has its parent,    *)
(* operands, results, and block arguments: `args' of its first region,     *)
(* `after' of the second region of a while.  Stable names are texts whose  *)
(* order follows no rule; NameOrders gives the orders considered.          *)
(***************************************************************************)
EXTENDS Integers, FiniteSets, Sequences, SequencesExt

CONSTANTS
  Programs,       \* what the walk may meet
  Encodings,      \* layouts of a tile
  NoLayout,       \* the null requiredEncoding
  Transposed,     \* what permuting the coordinates makes of a layout
  NameOrders(_)   \* permutations of 1..n: new ID of each old ID

\* What a variable stands for: a value, a use of its own, a function result, or
\* the storage of a view.
Value(v)      == <<"value", v>>
Use(o, i)     == <<"use", o, i>>
Result(f, i)  == <<"result", f, i>>
Storage(v)    == <<"storage", v>>

OpType == [kind : STRING, parent : Nat, operands : Seq(Nat), results : Seq(Nat),
           args : Seq(Nat), after : Seq(Nat), outs : Seq(Nat), mixed : SUBSET Nat]

SlotsIn(s, tensors) == {i \in DOMAIN s : s[i] \in tensors}

\* What the dialects verify of an operation: tuples that are carried into one
\* another have tensors in the same slots.  An elementwise operation whose first
\* result is no tensor is none to the collector, but an "other".
SlotsMatch(p, o) ==
  LET op       == p.ops[o]
      outer    == p.ops[op.parent]
      slots(s) == SlotsIn(s, p.tensors)
  IN  CASE op.kind = "for" ->
             slots(op.args) = slots(op.operands) /\ slots(op.args) = slots(op.results)
        [] op.kind = "while" ->
             slots(op.args) = slots(op.operands) /\ slots(op.after) = slots(op.results)
        [] op.kind = "condition" ->
             /\ op.parent # 0 /\ outer.kind = "while"
             /\ \A i \in slots(op.operands) \ {1} : i - 1 \in slots(outer.results)
        [] op.kind = "yield" ->
             /\ op.parent # 0
             /\ outer.kind \in {"if", "for"} => slots(op.operands) \subseteq slots(outer.results)
             /\ outer.kind = "while" => slots(op.operands) \subseteq slots(outer.args)
        [] op.kind = "return" ->
             op.parent # 0 /\ outer.kind = "func" /\ slots(op.operands) \subseteq slots(outer.outs)
        [] op.kind = "elementwise" ->
             slots(op.operands) \cup slots(op.results) # {} => 1 \in slots(op.results)
        [] op.kind = "transpose" -> {1, 2} \subseteq slots(op.operands) /\ 1 \in slots(op.results)
        [] op.kind = "load" -> 1 \in DOMAIN op.operands /\ 1 \in slots(op.results)
        [] op.kind = "store" -> 1 \in slots(op.operands) /\ 2 \in DOMAIN op.operands
        [] op.kind = "convert" -> 1 \in slots(op.operands) /\ 1 \in slots(op.results)
        [] OTHER -> TRUE

\* A tensor of an operation, or a result of a function: what can have an
\* encoding in its type.
Appears(p, e) ==
  \E o \in DOMAIN p.ops :
    LET op == p.ops[o]
    IN  \/ \E s \in {op.operands, op.results, op.args, op.after} :
             \E i \in SlotsIn(s, p.tensors) : e = Value(s[i])
        \/ op.kind = "func" /\ \E i \in SlotsIn(op.outs, p.tensors) : e = Result(o, i)

\* Regions are inside of their operation, so it comes first in pre-order.
WellFormed(p) ==
  /\ p.ops \in Seq(OpType)
  /\ \A o \in DOMAIN p.ops : p.ops[o].parent < o /\ SlotsMatch(p, o)
  /\ \A e \in DOMAIN p.pinned : p.pinned[e] \in Encodings /\ Appears(p, e)

\* Coordinates can be permuted back.
ASSUME ProgramsAssumption ==
  /\ \A p \in Programs : WellFormed(p)
  /\ Encodings # {} /\ Transposed \in Bijection(Encodings, Encodings)

VARIABLES
  program,  \* [ops, tensors, bad: no legal tile, pinned: encodings in types]
  at,       \* the operation the walk comes to
  graph,    \* [vars: entity of each ID, cons: constraints, edges: region edges]
  phase     \* "collect", "finalized", "refused" or "rejected"
vars == <<program, at, graph, phase>>

Op(o)     == program.ops[o]
TensorSlots(s) == SlotsIn(s, program.tensors)

\* The kinds of ConstraintKind that arise here, in the order of the enumeration.
KindOrder == <<"SameLayout", "Convertible", "TransformLayout", "RequireEncoding",
               "StorageAccess", "Preference">>
Binary    == {"Convertible", "TransformLayout", "StorageAccess"}
ResultEdges == {"ForResult", "WhileResult"}

NoUse  == <<0, 0>>
NoEdge == [kind |-> "none", owner |-> 0, slot |-> 0]

\* One call of the builder: the variables it looks up or creates, the relation
\* it adds, and the region edge recorded with it.
Call(kind, ends, use, edge) ==
  [kind |-> kind, ends |-> ends, use |-> use, existing |-> FALSE,
   edge |-> edge]
Bind(e)         == Call("bind", <<e>>, NoUse, NoEdge)
Same(a, b, edge) == Call("SameLayout", <<Value(a), Value(b)>>, NoUse, edge)
OwnUse(o, i)    == Call("Convertible", <<Value(Op(o).operands[i]), Use(o, i)>>,
                        <<o, i>>, NoEdge)
Connect(o, i, expected, edge) ==
  Call("Convertible", <<Value(Op(o).operands[i]), expected>>, <<o, i>>, edge)
Access(a, s) == <<Call("StorageAccess", <<a, s>>, NoUse, NoEdge),
                  Call("Preference", <<a, s>>, NoUse, NoEdge)>>
Edge(kind, owner, slot) == [kind |-> kind, owner |-> owner, slot |-> slot]

\* The calls made for each tensor slot of a sequence of values.
PerSlot(s, calls) ==
  FlattenSeq([i \in DOMAIN s |-> IF i \in TensorSlots(s) THEN calls[i] ELSE <<>>])

Bound(s)         == PerSlot(s, [i \in TensorSlots(s) |-> <<Bind(Value(s[i]))>>])
FunctionCalls(o) == PerSlot(Op(o).outs, [i \in TensorSlots(Op(o).outs) |-> <<Bind(Result(o, i))>>])
ReturnCalls(o) ==
  LET in == Op(o).operands
  IN  PerSlot(in, [i \in TensorSlots(in) |->
        <<Connect(o, i, Result(Op(o).parent, i), NoEdge)>>])
\* Faulty: the result of a loop is taken for another tensor than its argument.
UntiedForCalls(o) ==
  LET arg == Op(o).args
  IN  PerSlot(arg, [i \in TensorSlots(arg) |->
        <<Connect(o, i, Value(arg[i]), Edge("ForInit", o, i))>>])

\* A loop carries one layout through argument and result; the initial value is
\* converted to it at its use.
ForCalls(o) ==
  LET arg == Op(o).args
      res == Op(o).results
  IN  PerSlot(arg, [i \in TensorSlots(arg) |->
        <<Same(arg[i], res[i], Edge("ForResult", o, i)),
          Connect(o, i, Value(arg[i]), Edge("ForInit", o, i))>>])
\* Faulty: the tuples of a while are matched slot by slot.
SlotwiseWhileCalls(o) ==
  LET before == Op(o).args
      after  == Op(o).after
  IN  PerSlot(before, [i \in TensorSlots(before) |->
        <<Connect(o, i, Value(before[i]), Edge("WhileInit", o, i))>>])
        \o PerSlot(after, [i \in TensorSlots(after) |->
             <<Same(before[i], after[i], NoEdge),
               Same(after[i], Op(o).results[i], Edge("WhileResult", o, i))>>])

\* The two tuples of a while have arities and types of their own.
WhileCalls(o) ==
  LET before == Op(o).args
      after  == Op(o).after
      res    == Op(o).results
  IN  PerSlot(before, [i \in TensorSlots(before) |->
        <<Connect(o, i, Value(before[i]), Edge("WhileInit", o, i))>>])
        \o PerSlot(after, [i \in TensorSlots(after) |->
             <<Same(after[i], res[i], Edge("WhileResult", o, i))>>])
\* A yield is converted to the result of its if or for, or to the argument of
\* the first region of its while.
YieldEdge == [if |-> "IfYield", for |-> "ForBackedge", while |-> "WhileBackedge"]
Expected(o, i) == LET p == Op(Op(o).parent)
                  IN  IF p.kind = "while" THEN p.args[i] ELSE p.results[i]
YieldCalls(o) ==
  LET in == Op(o).operands
  IN  PerSlot(in, [i \in TensorSlots(in) |->
        <<Connect(o, i, Value(Expected(o, i)),
                  Edge(YieldEdge[Op(Op(o).parent).kind], Op(o).parent, i))>>])
\* The first operand of a condition is the flag.
ConditionCalls(o) ==
  LET in == Op(o).operands
      w  == Op(o).parent
  IN  PerSlot(in, [i \in TensorSlots(in) |-> IF i = 1 THEN <<>> ELSE
        <<Connect(o, i, Value(Op(w).results[i - 1]), Edge("WhileCondition", w, i - 1))>>])
\* An operand with the element type of the result may be converted to its
\* layout; one of another element type gets a variable that must agree.
ElementwiseCalls(o) ==
  LET res == Op(o).results
      in  == Op(o).operands
  IN  PerSlot(res, [i \in TensorSlots(res) |->
        IF i = 1 THEN <<>> ELSE <<Same(res[1], res[i], NoEdge)>>])
        \o PerSlot(in, [i \in TensorSlots(in) |->
             IF i \in Op(o).mixed
             THEN <<OwnUse(o, i), Call("SameLayout", <<Use(o, i), Value(res[1])>>, NoUse, NoEdge)>>
             ELSE <<Connect(o, i, Value(res[1]), NoEdge)>>])
TransposeCalls(o) ==
  LET dst == Value(Op(o).results[1])
  IN  <<OwnUse(o, 1), Call("TransformLayout", <<Use(o, 1), dst>>, NoUse, NoEdge),
        Connect(o, 2, dst, NoEdge)>>
ConvertCalls(o) ==
  <<[kind |-> "Convertible", ends |-> <<Value(Op(o).operands[1]), Value(Op(o).results[1])>>,
     use |-> <<o, 1>>, existing |-> TRUE, edge |-> NoEdge]>>

\* The relations of one operation, after its values are bound.
Relations(o) ==
  CASE Op(o).kind = "func"        -> FunctionCalls(o)
    [] Op(o).kind = "return"      -> ReturnCalls(o)
    [] Op(o).kind = "for"         -> ForCalls(o)
    [] Op(o).kind = "while"       -> WhileCalls(o)
    [] Op(o).kind = "yield"       -> YieldCalls(o)
    [] Op(o).kind = "condition"   -> ConditionCalls(o)
    [] Op(o).kind = "load"        -> Access(Value(Op(o).results[1]), Storage(Op(o).operands[1]))
    [] Op(o).kind = "store"       -> <<OwnUse(o, 1)>> \o Access(Use(o, 1), Storage(Op(o).operands[2]))
    [] Op(o).kind = "convert"     -> ConvertCalls(o)
    [] Op(o).kind = "transpose"   -> TransposeCalls(o)
    [] Op(o).kind = "elementwise" -> ElementwiseCalls(o)
    [] OTHER                      -> <<>>   \* if, constant, empty, mma, reduction

\* All calls for one operation: its values are bound first.
Binds(o) == Bound(Op(o).operands) \o Bound(Op(o).results)
              \o Bound(Op(o).args) \o Bound(Op(o).after)
Calls(o) == Binds(o) \o Relations(o)

AddConstraint(g, kind, ids, call) ==
  [g EXCEPT !.cons = Append(@, [id |-> Len(@) + 1, kind |-> kind, vars |-> ids,
     use |-> call.use, existing |-> call.existing,
     enc |-> IF kind = "RequireEncoding" THEN program.pinned[call.ends[1]] ELSE NoLayout])]

RecordRegion(g, ids, call) ==
  IF call.edge = NoEdge THEN g
  ELSE [g EXCEPT !.edges = @ \cup
         {[kind |-> call.edge.kind, owner |-> call.edge.owner, slot |-> call.edge.slot,
           source |-> ids[1], target |-> ids[2], constraint |-> Len(g.cons),
           use |-> call.use]}]

\* getOrCreate.
Naming(s, e) == IF e \in Range(s) THEN s ELSE Append(s, e)
\* One call: getOrCreate for its ends, addConstraint and recordRegion.  The first
\* sight of a value, and a function result, require the encoding of their type.
Perform(g, call) ==
  LET names == FoldLeft(Naming, g.vars, call.ends)
      ID(e) == CHOOSE n \in DOMAIN names : names[n] = e
      ids   == [k \in DOMAIN call.ends |-> ID(call.ends[k])]
      named == [g EXCEPT !.vars = names]
  IN  IF call.kind # "bind"
      THEN RecordRegion(AddConstraint(named, call.kind, ids, call), ids, call)
      ELSE IF names # g.vars /\ call.ends[1] \in DOMAIN program.pinned
           THEN AddConstraint(named, "RequireEncoding", ids, call)
           ELSE named

\* The walk only looks at operations that touch tensors.
TensorBearing(o) ==
  \E s \in {Op(o).operands, Op(o).results, Op(o).args, Op(o).after, Op(o).outs} : TensorSlots(s) # {}
\* What the collector refuses: a tensor that is no static power-of-two tile, an
\* operation without a model, an external function, a yield of another region.
Unsupported(o) ==
  \/ \E s \in {Op(o).operands, Op(o).results, Op(o).args, Op(o).after} : Range(s) \cap program.bad # {}
  \/ Op(o).kind \in {"other", "external"}
  \/ Op(o).kind = "yield" /\ Op(Op(o).parent).kind \notin {"if", "for", "while"}

Skip ==
  /\ phase = "collect" /\ at <= Len(program.ops) /\ ~TensorBearing(at)
  /\ at' = at + 1
  /\ UNCHANGED <<program, graph, phase>>

Visit ==
  /\ phase = "collect" /\ at <= Len(program.ops)
  /\ TensorBearing(at) /\ ~Unsupported(at)
  /\ graph' = FoldLeft(Perform, graph, Calls(at))
  /\ at' = at + 1
  /\ UNCHANGED <<program, phase>>

Refuse ==
  /\ phase = "collect" /\ at <= Len(program.ops)
  /\ TensorBearing(at) /\ Unsupported(at)
  /\ phase' = "refused"
  /\ UNCHANGED <<program, at, graph>>
------------------------------------------------------------------------------
\* The values and the use a region edge stands for, read off the operations.
Terminator(o, kind) == CHOOSE t \in DOMAIN program.ops : Op(t).parent = o /\ Op(t).kind = kind
Boundary(e) ==
  LET p == Op(e.owner)
      used(o, i) == [source |-> Op(o).operands[i], use |-> <<o, i>>]
      from == CASE e.kind = "ForResult"      -> [source |-> p.args[e.slot], use |-> NoUse]
                [] e.kind = "WhileResult"    -> [source |-> p.after[e.slot], use |-> NoUse]
                [] e.kind \in {"ForInit", "WhileInit"} -> used(e.owner, e.slot)
                [] e.kind \in {"ForBackedge", "WhileBackedge"} ->
                     used(Terminator(e.owner, "yield"), e.slot)
                [] e.kind = "WhileCondition" ->
                     used(Terminator(e.owner, "condition"), e.slot + 1)
                [] e.kind = "IfYield"        -> used(e.use[1], e.slot)
  IN  [source |-> from.source, use |-> from.use,
       target |-> IF e.kind \in {"ForInit", "WhileInit", "WhileBackedge"}
                  THEN p.args[e.slot] ELSE p.results[e.slot]]

\* A region edge matches its relation and the operations around it.
EdgeIsGenuine(g, e) ==
  LET c == g.cons[e.constraint]
      b == Boundary(e)
  IN  /\ e.constraint \in DOMAIN g.cons /\ {e.source, e.target} \subseteq DOMAIN g.vars
      /\ Len(c.vars) = 2 /\ {e.source, e.target} \subseteq Range(c.vars)
      /\ IF e.kind \in ResultEdges
         THEN e.use = NoUse /\ c.kind = "SameLayout"
         ELSE /\ e.use # NoUse /\ c.use = e.use /\ c.kind = "Convertible"
              /\ c.vars = <<e.source, e.target>>
      /\ e.use = b.use
      /\ g.vars[e.source] = Value(b.source) /\ g.vars[e.target] = Value(b.target)

\* verifyInvariants, for what the walk builds: same() relates two variables, so
\* the lower bound of the code is exact here.
Commutative(c) == c.kind = "SameLayout"
Verified(g) ==
  /\ IsInjective(g.vars)
  /\ \A n \in DOMAIN g.cons :
       LET c == g.cons[n]
       IN  /\ c.id = n /\ Range(c.vars) \subseteq DOMAIN g.vars
           /\ c.kind \in Binary => Len(c.vars) = 2
           /\ c.kind = "Convertible" => c.use # NoUse
           /\ c.kind = "RequireEncoding" => Len(c.vars) = 1 /\ c.enc # NoLayout
           /\ Commutative(c) => Len(c.vars) = 2
  /\ \A e \in g.edges : EdgeIsGenuine(g, e)
  /\ \A e, f \in g.edges :
       e # f => <<e.kind, e.source, e.target, e.use, e.slot>>
                  # <<f.kind, f.source, f.target, f.use, f.slot>>

\* The order of constraints: kind, then endpoints; the texts that break the
\* remaining ties follow the order of creation here.
KindRank(k) == CHOOSE n \in DOMAIN KindOrder : KindOrder[n] = k
Lexicographic(s, t) == \E n \in 1..Len(t) :
  /\ \A k \in 1..(n - 1) : k \in DOMAIN s /\ s[k] = t[k]
  /\ IF n \in DOMAIN s THEN s[n] < t[n] ELSE TRUE
Precedes(c, d) ==
  \/ KindRank(c.kind) < KindRank(d.kind)
  \/ /\ c.kind = d.kind
     /\ \/ Lexicographic(c.vars, d.vars)
        \/ c.vars = d.vars /\ c.id < d.id

\* Endpoints under their new IDs; a commutative relation, here of two variables,
\* lists them in order.
Ends(c, remap) == [k \in DOMAIN c.vars |-> remap[c.vars[k]]]
Sorted(ids)    == IF ids[1] <= ids[2] THEN ids ELSE <<ids[2], ids[1]>>

Renamed(c, remap) ==
  [c EXCEPT !.vars = IF Commutative(c) THEN Sorted(Ends(c, remap)) ELSE Ends(c, remap)]

RenamedEdge(e, remap, constraintRemap) ==
  [e EXCEPT !.source = remap[@], !.target = remap[@], !.constraint = constraintRemap[@]]

\* The position of each constraint in the sorted array.
Places(cons) ==
  [n \in DOMAIN cons |-> 1 + Cardinality({m \in DOMAIN cons : Precedes(cons[m], cons[n])})]

OldID(remap, n) == CHOOSE m \in DOMAIN remap : remap[m] = n

Renumbered(g, remap) ==
  LET cons  == [n \in DOMAIN g.cons |-> Renamed(g.cons[n], remap)]
      place == Places(cons)
  IN  [vars  |-> [n \in DOMAIN g.vars |-> g.vars[OldID(remap, n)]],
       cons  |-> [n \in DOMAIN cons |-> [cons[OldID(place, n)] EXCEPT !.id = n]],
       edges |-> {RenamedEdge(e, remap, place) : e \in g.edges}]

\* finalize(): verify, renumber, verify again.
Finalize ==
  /\ phase = "collect" /\ at > Len(program.ops)
  /\ \E remap \in NameOrders(Len(graph.vars)) :
       LET g == Renumbered(graph, remap)
       IN  /\ remap \in Bijection(DOMAIN graph.vars, DOMAIN graph.vars)
           /\ IF Verified(graph) /\ Verified(g)
              THEN graph' = g /\ phase' = "finalized"
              ELSE graph' = graph /\ phase' = "rejected"
  /\ UNCHANGED <<program, at>>

Init ==
  /\ program \in Programs /\ at = 1 /\ phase = "collect"
  /\ graph = [vars |-> <<>>, cons |-> <<>>, edges |-> {}]
Next == Skip \/ Visit \/ Refuse \/ Finalize
Spec == Init /\ [][Next]_vars
------------------------------------------------------------------------------
\* What the rest of the pipeline takes an assignment for: a relation holds ...
Holds(c, a) ==
  CASE c.kind = "SameLayout"      -> \A v, w \in Range(c.vars) : a[v] = a[w]
    [] c.kind = "TransformLayout" -> a[c.vars[2]] = Transposed[a[c.vars[1]]]
    [] c.kind = "RequireEncoding" -> a[c.vars[1]] = c.enc
    [] OTHER                      -> TRUE
Solutions == {a \in [DOMAIN graph.vars -> Encodings] : \A c \in Range(graph.cons) : Holds(c, a)}

\* ... and a use is converted from its value's layout to that of the relation
\* that names the use.  An operand arrives with one of these layouts.
VarOf(e)       == CHOOSE n \in DOMAIN graph.vars : graph.vars[n] = e
Layout(a, v)   == a[VarOf(Value(v))]
Arrives(a, o, i) ==
  LET cs == {c \in Range(graph.cons) : c.use = <<o, i>> /\ ~c.existing}
  IN  IF cs = {} THEN {Layout(a, Op(o).operands[i])} ELSE {a[c.vars[2]] : c \in cs}

\* An operation accepts the layouts that arrive.
Accepts(a, o) ==
  LET p == Op(o)
      gets(i, v) == Arrives(a, o, i) = {Layout(a, v)}
  IN  CASE p.kind = "for" -> \A i \in TensorSlots(p.args) :
             gets(i, p.args[i]) /\ Layout(a, p.args[i]) = Layout(a, p.results[i])
        [] p.kind = "while" ->
             /\ \A i \in TensorSlots(p.args) : gets(i, p.args[i])
             /\ \A i \in TensorSlots(p.after) : Layout(a, p.after[i]) = Layout(a, p.results[i])
        [] p.kind = "condition" -> \A i \in TensorSlots(p.operands) \ {1} :
             gets(i, Op(p.parent).after[i - 1])
        [] p.kind = "yield" -> \A i \in TensorSlots(p.operands) :
             gets(i, IF Op(p.parent).kind = "if" THEN Op(p.parent).results[i]
                                                 ELSE Op(p.parent).args[i])
        [] p.kind = "return" -> \A i \in TensorSlots(p.operands) :
             Arrives(a, o, i) = {a[VarOf(Result(p.parent, i))]}
        [] p.kind = "elementwise" ->
             /\ \A i \in TensorSlots(p.operands) : gets(i, p.results[1])
             /\ \A i \in TensorSlots(p.results) : Layout(a, p.results[i]) = Layout(a, p.results[1])
        [] p.kind = "transpose" ->
             /\ {Transposed[d] : d \in Arrives(a, o, 1)} = {Layout(a, p.results[1])}
             /\ gets(2, p.results[1])
        [] OTHER -> TRUE

\* A solution types the program: with its conversions inserted, every operation
\* gets the layouts it can take, loop arguments, results and back edges agree,
\* and a declared encoding is kept.  (What materialization and the verifier of
\* the IR need from collectDistributedLayoutConstraints and finalize.)
SolutionsTypecheck ==
  phase = "finalized" =>
    \A a \in Solutions :
      /\ \A o \in DOMAIN program.ops : Accepts(a, o)
      /\ \A e \in DOMAIN program.pinned : a[VarOf(e)] = program.pinned[e]

\* What a typing must observe however many operands are converted: only these
\* relations bind values to one another.
Typable(t) ==
  /\ \A v \in DOMAIN t : Value(v) \in DOMAIN program.pinned => t[v] = program.pinned[Value(v)]
  /\ \A o \in DOMAIN program.ops :
       LET p == Op(o)
           alike(s, r) == \A i \in TensorSlots(s) : t[s[i]] = t[r[i]]
       IN  /\ p.kind = "for" => alike(p.args, p.results)
           /\ p.kind = "while" => alike(p.after, p.results)
           /\ p.kind = "elementwise" =>
                \A i \in TensorSlots(p.results) : t[p.results[i]] = t[p.results[1]]

\* The relations tie nothing together that the program leaves apart: every way
\* to lay out the tensors that converting operands can make well typed extends
\* to a solution, and no other does.  (The comment in the while case of
\* collectDistributedLayoutConstraints: "Do not tie unrelated tuple slots".)
NothingExcluded ==
  phase = "finalized" =>
    LET bound == {v \in program.tensors : Value(v) \in Range(graph.vars)}
    IN  {t \in [bound -> Encodings] : Typable(t)}
          = {[v \in bound |-> Layout(a, v)] : a \in Solutions}

\* A graph read by names instead of IDs.
NamedRelation(g, c) ==
  LET ends == [k \in DOMAIN c.vars |-> g.vars[c.vars[k]]]
  IN  [kind |-> c.kind, use |-> c.use, existing |-> c.existing, enc |-> c.enc,
       ends |-> IF Commutative(c) THEN Range(ends) ELSE ends]
NamedEdge(g, e) ==
  [kind |-> e.kind, owner |-> e.owner, slot |-> e.slot, use |-> e.use,
   source |-> g.vars[e.source], target |-> g.vars[e.target],
   relation |-> NamedRelation(g, g.cons[e.constraint])]
Named(g) ==
  [variables |-> Range(g.vars),
   relations |-> {NamedRelation(g, g.cons[n]) : n \in DOMAIN g.cons},
   edges     |-> {NamedEdge(g, e) : e \in g.edges}]

\* finalize() changes IDs and nothing else: read by names, the graph before and
\* after it has the same variables, relations and region edges, each edge with
\* the relation it was recorded with, whatever the order of the names is.
RenumberingIsImmaterial ==
  [][phase' = "finalized" => Named(graph') = Named(graph)]_vars
==============================================================================
