-------------------------- MODULE MCLayoutCollection --------------------------
(***************************************************************************)
(* Two parts of collectLayoutConstraints: the collectors of operations on  *)
(* small programs, and the projection of candidates on small graphs.  A    *)
(* behaviour is one of the two: the graphs are more than those programs    *)
(* have, so they start by themselves, and the other part stands still.     *)
(*                                                                         *)
(* Graphs: four variables and two encodings that a transpose exchanges;    *)
(* every pair of relations between neighbours in both orders, with every   *)
(* choice of a hard binding, a reduction result, an instruction role and a *)
(* variable the target accepts one encoding for.                           *)
(*                                                                         *)
(* Programs: value 1 comes from outside, 2 is the result of a matrix       *)
(* product that starts from it, 3 and 4 are made from them (converted,     *)
(* permuted, computed, or the two ends of a loop's slot), 5 and 6 are the  *)
(* results of reductions of any of these.                                  *)
(***************************************************************************)
EXTENDS LayoutCollection, OperationCollectors

(* Graphs.                                                                 *)

MCEncodings == {"row", "column"}
V == 1..4
Transposed(e) == IF e = "row" THEN "column" ELSE "row"

Between(kind, a, b) == [kind |-> kind, vars |-> <<a, b>>]
Same(a, b) == Between("same", a, b)
Transpose(a, b) == Between("transform", a, b)

\* A reduction projects from the source to the result alone.
Reduction(a, b) == Between("reduction", a, b)

MCImage(k, s, e, t) ==
  CASE k.kind = "same" -> {e}
    [] k.kind = "transform" -> {Transposed(e)}
    [] OTHER -> IF s = k.vars[1] /\ t = k.vars[2] THEN {Transposed(e)} ELSE {}

Pairs == {<<1, 2>>, <<2, 1>>, <<2, 3>>, <<4, 3>>, <<1, 4>>}
Relations == {Same(x[1], x[2]) : x \in Pairs} \cup {Transpose(x[1], x[2]) : x \in Pairs}
               \cup {Reduction(2, 3)}
Graphs ==
  [1..2 -> Relations] \cup {<<r, Same(4, 3), Transpose(2, 3)>> : r \in Relations}
    \cup {<<Same(3, 2), Transpose(4, 3), r>> : r \in Relations}

Problem(graph, seeds, valid, bound, storage, roles, reductions) ==
  [vars |-> 4, seeds |-> seeds, enumerated |-> [v \in V |-> {"row"}], valid |-> valid,
   bound |-> bound, storage |-> storage, roles |-> roles, reductions |-> reductions,
   relations |-> graph]

Everything == [v \in V |-> MCEncodings]
NoSeeds == [v \in V |-> {}]

MCProblems ==
  {Problem(g, [NoSeeds EXCEPT ![b] = {"row"}], a, {b}, {}, {}, r) :
     g \in Graphs, b \in {1, 3, 4}, a \in {Everything, [Everything EXCEPT ![2] = {"column"}]},
     r \in {{}, {3}}}
    \cup {Problem(g, NoSeeds, Everything, {}, x, {}, r) :
            g \in Graphs, x \in {{}, {1}}, r \in {{}, {3}}}
    \cup {Problem(g, [NoSeeds EXCEPT ![4] = {"row"}, ![1] = {"column"}], Everything, {1}, {}, {4}, {}) :
            g \in Graphs}

-----------------------------------------------------------------------------
(* Programs.                                                               *)

MCOp(kind, in, out, threads, scope) ==
  [kind |-> kind, in |-> in, out |-> out, threads |-> threads, parallel |-> scope,
   sound |-> TRUE, pinned |-> None, binding |-> None]

Undeclared == [v \in 1..6 |-> None]
Scoped(s) == [v \in 1..6 |-> IF v = 1 THEN None ELSE s]
MCFlow(kind, a, b) == [kind |-> kind, from |-> a, to |-> b]

MCProgram(ops, flows, same, declared, scope, frozen) ==
  [ops |-> ops, values |-> 1..6, same |-> same, flows |-> flows,
   declared |-> declared, scope |-> scope, frozen |-> frozen]

One == {{1, 2}}

\* Who makes 3 and 4: a value both have the layout of, or a loop that starts with
\* 1 as its argument 3 and yields 2 to its result 4.
Shapes ==
  {<<{MCFlow("convert", 2, 3)}, {<<3, 4>>}>>,
   <<{MCFlow("convert", 1, 3), MCFlow("convert", 2, 4)}, {<<3, 4>>}>>,
   <<{MCFlow("agree", 1, 3), MCFlow("permute", 2, 4)}, {}>>,
   <<{MCFlow("permute", 2, 3), MCFlow("agree", 3, 4)}, {}>>}

Declared ==
  {Undeclared} \cup {[Undeclared EXCEPT ![v] = 32] : v \in {1, 2}}
    \cup {[Undeclared EXCEPT ![3] = n, ![4] = n] : n \in {64, 96, Unsupported}}

\* Two reductions of values that others may use or know threads of.
Inheriting ==
  {MCProgram(<<MCOp("mma", <<21, 22, 1>>, 2, None, s),
               MCOp("reduce", <<a>>, 5, t, s), MCOp("reduce", <<b>>, 6, u, s)>>,
             shape[1], shape[2], d, Scoped(s), One)
     : s \in {None, 128}, a \in {1, 3, 4}, b \in {2, 3, 4, 5}, t \in {None, 32, 128},
       u \in {None, 128}, shape \in Shapes, d \in Declared}

\* Copies, fills and products that run with their own or the loop's threads.
Executing ==
  {MCProgram(<<[MCOp("copy", <<21, 22>>, 0, t, s) EXCEPT !.pinned = p],
               MCOp("fill", <<22>>, 0, None, s), MCOp("parallel", <<>>, 0, None, None),
               MCOp("mma", <<21, m, 3>>, 2, u, s)>>,
             {MCFlow("convert", 1, 3)}, {}, Undeclared, Scoped(s), One)
     : t \in {None, 64, 128}, s \in {None, 64, 128}, p \in {None, 64}, m \in {1, 21},
       u \in {None, 64, 256}}

\* What the collectors refuse, a loop with a bad thread count among it.
Refusals ==
  {MCProgram(<<[MCOp(k, <<21, 22, 1>>, 2, None, 48) EXCEPT !.sound = FALSE],
               [MCOp("reduce", <<1>>, 5, None, None) EXCEPT !.sound = FALSE]>>,
             {}, {}, Undeclared, [Undeclared EXCEPT ![2] = 48], One)
     : k \in {"parallel", "copy", "mma"}}

\* Frozen domains of every size, bindings given or planned.
Domains == {{1, 2}, {2, 3}, {3}, 1..5}
Jointly ==
  {MCProgram(<<[MCOp("mma", <<21, m, i>>, 2, None, None) EXCEPT !.binding = b],
               [MCOp("reduce", <<2>>, 5, None, None) EXCEPT !.binding = c]>>,
             {}, {}, Undeclared, Undeclared, Domains)
     : m \in {1, 21, 22}, i \in {1}, b \in {None, 2}, c \in {None, 3}}

MCPrograms == Inheriting \cup Executing \cup Refusals \cup Jointly

\* A plan for some tuples; a proof that reads the first role and the last.
MCPlan(kind, n, t) == IF t[1] = 3 /\ kind = "mma" THEN None ELSE t[Len(t)]
MCProven(kind, n, t, binding) == binding = t[Len(t)] /\ (kind = "mma" \/ t[1] # t[2] \/ t[1] = 3)

-----------------------------------------------------------------------------
(* One of the two parts.                                                   *)

NoProgram == [MCProgram(<<>>, {}, {}, Undeclared, Undeclared, {}) EXCEPT !.values = {}]
NoProblem == [Problem(<<>>, <<>>, <<>>, {}, {}, {}, {}) EXCEPT !.vars = 0, !.enumerated = <<>>]

\* A part that is not looked at has ended before.
CollectorsEnded ==
  /\ program = NoProgram /\ progress = "refused" /\ at = 0 /\ failed = TRUE
  /\ required = <<>> /\ relations = {} /\ decided = <<>> /\ adopted = {}
  /\ candidates = <<>> /\ offered = <<>>

CollectionEnded ==
  /\ problem = NoProblem /\ domain = <<>> /\ phase = "conflict"
  /\ relation = 1 /\ source = 1 /\ added = FALSE /\ turn = 1 /\ defaulted = {}

PartsInit == (Init /\ CollectorsEnded) \/ (CollectorsInit /\ CollectionEnded)
PartsNext ==
  \/ Next /\ UNCHANGED collectorsVars
  \/ CollectorsNext /\ UNCHANGED vars

PartsSpec == PartsInit /\ [][PartsNext]_<<vars, collectorsVars>>
=============================================================================
