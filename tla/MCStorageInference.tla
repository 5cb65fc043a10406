--------------------------- MODULE MCStorageInference ---------------------------
(***************************************************************************)
(* Inference of the layouts of buffers between two runs of                 *)
(* preserveStorageContracts: the views and the declarations in effect at   *)
(* them are collected into a problem of StorageCandidates, and a view      *)
(* without a layout is bound to one of its candidates.  The rest of the    *)
(* collector is in LayoutCollection, the search in LayoutCandidateSolver.  *)
(*                                                                         *)
(* Programs have five points: two in the entry block, one in each branch   *)
(* of an if and one after it, or the last one in a region whose contracts  *)
(* are not understood.  Each holds a declaration, a view or nothing.       *)
(* Layouts "a" and "c" agree and "b" agrees with neither; all but "c" can  *)
(* be proven of the second buffer.                                         *)
(*                                                                         *)
(* Problems that no such program poses start by themselves: four views of  *)
(* two buffers, three of the first.  Views 1 and 2 alias, copies close     *)
(* cycles through the second buffer, and one of the relations may be a     *)
(* transpose, so that a cycle brings another encoding back.  Some views    *)
(* accept or prove only some encodings.                                    *)
(***************************************************************************)
EXTENDS StorageContracts, StorageCandidates, SequencesExt

P == 1..5
MCBuffers == {"r", "s"}
MCLayouts == {"a", "b", "c"}
MCProven == {<<r, l>> \in MCBuffers \X MCLayouts : r = "s" => l # "c"}
MCAgree == {<<x, y>> \in MCLayouts \X MCLayouts : x = "b" <=> y = "b"}

MCAbove == <<{}, {1}, {1, 2}, {1, 2}, {1, 2}>>
MCBlock == <<"entry", "entry", "then", "else", "entry">>

Empty == [kind |-> "nothing"]
Declare(root, layout) == [kind |-> "declare", root |-> root, layout |-> layout]
Show(kind, root, layout) == [kind |-> kind, root |-> root, layout |-> layout]

Common == {Empty, Declare("r", "a"), Declare("r", "b"), Show("whole", "r", "a"),
           Show("whole", "r", "b"), Show("whole", "r", Unbound)}
Items(x) ==
  CASE x = 1 -> {Empty, Declare("r", "a"), Show("whole", "r", "a"), Show("whole", "r", Unbound)}
    [] x = 2 -> {Empty, Show("part", "r", "b"), Show("whole", "s", Unbound), Declare("s", "b"),
                 Declare("r", "b")}
    [] x = 5 -> {Show("whole", "r", "c"), Show("whole", "r", Unbound), Show("whole", "s", "c"),
                 Declare("r", "c"), Show("unknown", "s", "a")}
    [] OTHER -> Common

Shapes == {f \in [P -> UNION {Items(x) : x \in P}] : \A x \in P : f[x] \in Items(x)}

Where(shape, kinds) == SelectSeq(<<1, 2, 3, 4, 5>>, LAMBDA x : shape[x].kind \in kinds)

ViewKinds == {"whole", "part", "unknown"}

Of(shape, scoped) ==
  LET d == Where(shape, {"declare"})
      w == Where(shape, ViewKinds)
  IN  [above |-> MCAbove, block |-> MCBlock, scoped |-> scoped,
       declared |-> [i \in DOMAIN d |-> [at |-> d[i], root |-> shape[d[i]].root,
                                         layout |-> shape[d[i]].layout, added |-> FALSE]],
       views |-> [i \in DOMAIN w |-> [at |-> w[i], root |-> shape[w[i]].root,
                                      kind |-> shape[w[i]].kind]],
       bound |-> [i \in DOMAIN w |-> shape[w[i]].layout]]

MCPrograms == {Of(shape, scoped) : shape \in Shapes, scoped \in {P, P \ {5}}}

-----------------------------------------------------------------------------
(* Problems of storage candidates.                                         *)

MCEncodings == {"row", "column"} \cup MCLayouts
V == 1..4

Turned(e) == IF e = "row" THEN "column" ELSE "row"

\* A relation that cannot invert the layout projects it in one direction only.
MCImage(p, k, v, e) ==
  IF k = p.oneway /\ v = k[2] THEN {}
  ELSE IF k = p.turned THEN {Turned(e)} ELSE {e}

\* Views 3 of "turns" are transposed views of their buffers; a view of "flat"
\* cannot hold columns.
MCRootImage(p, r, t, v) ==
  LET e == p.palette[t]
  IN  IF v \in p.turns THEN {Turned(e)} ELSE IF v \in p.flat /\ e = "column" THEN {} ELSE {e}

MCRelations ==
  { <<>>, << <<1, 2>> >>, << <<1, 2>>, <<2, 4>>, <<4, 1>> >>,
    << <<4, 1>>, <<2, 4>>, <<1, 2>> >>, << <<1, 2>>, <<4, 3>>, <<2, 2>> >>,
    << <<2, 1>>, <<3, 4>>, <<4, 2>>, <<3, 1>> >>, << <<1, 4>>, <<4, 1>>, <<2, 4>>, <<3, 2>> >> }

Everything == [v \in V |-> {"row", "column"}]
Except(v, S) == [Everything EXCEPT ![v] = S]

MCSeeds == {[v \in V |-> {}], [v \in V |-> IF v = 2 THEN {"row"} ELSE {}],
            [v \in V |-> IF v = 1 THEN {"column"} ELSE IF v = 4 THEN {"row"} ELSE {}]}
MCContracts ==
  { <<>>, << [var |-> 3, image |-> {"row"}] >>, << [var |-> 4, image |-> {}] >>,
    << [var |-> 1, image |-> {"column"}], [var |-> 2, image |-> {"row"}] >> }
MCAccepting == {Everything, Except(2, {"row"}), Except(4, {"column"})}

MCProblems ==
  {[vars |-> 4, root |-> <<"r", "r", "r", "s">>, seeds |-> seeds, contracts |-> contracts,
    relations |-> rs, turned |-> turned, oneway |-> oneway, turns |-> {3}, flat |-> {2},
    palette |-> <<"row", "column">>, proven |-> proven, accepted |-> accepted,
    templates |-> [r \in MCBuffers |-> IF r = "r" THEN 2 ELSE n]] :
      seeds \in MCSeeds, contracts \in MCContracts, rs \in MCRelations,
      turned \in {<<0, 0>>, <<1, 2>>, <<4, 1>>}, oneway \in {<<0, 0>>, <<2, 4>>},
      proven \in MCAccepting, accepted \in {Everything, Except(1, {"row"})}, n \in 0..1}

-----------------------------------------------------------------------------
(* The problem a program poses.                                            *)

InEffect(p, D, w) == SelectSeq(D, LAMBDA d : d.root = w.root /\ Effective(p, d, w.at))

\* Whole views of one buffer see the same layout; every other view keeps its own.
Posed(p, D, B) ==
  LET N == Len(p.views)
      whole(i) == p.views[i].kind = "whole"
  IN  [vars |-> N, root |-> [i \in 1..N |-> p.views[i].root],
       seeds |-> [i \in 1..N |-> {B[i]} \ {Unbound}],
       contracts |-> FlattenSeq([i \in 1..N |->
         LET ds == IF whole(i) THEN InEffect(p, D, p.views[i]) ELSE <<>>
         IN  [k \in DOMAIN ds |-> [var |-> i, image |-> {ds[k].layout}]]]),
       relations |-> SetToSeq({<<i, j>> \in (1..N) \X (1..N) :
         i < j /\ whole(i) /\ whole(j) /\ p.views[i].root = p.views[j].root}),
       turned |-> <<0, 0>>, oneway |-> <<0, 0>>, turns |-> {}, flat |-> {},
       palette |-> <<"a", "b", "c">>,
       proven |-> [i \in 1..N |->
         {l \in MCLayouts : whole(i) => <<p.views[i].root, l>> \in ProvenLayouts}],
       accepted |-> [i \in 1..N |-> MCLayouts],
       templates |-> [r \in MCBuffers |-> 3]]

NoProblem == Posed(Of([x \in P |-> Empty], P), <<>>, <<>>)

Begin(p) ==
  /\ problem' = p /\ domain' = p.seeds
  /\ phase' = "contracts" /\ contract' = 1
  /\ origins' = {} /\ starts' = Nothing(p) /\ offered' = Nothing(p)
  /\ queue' = <<>> /\ cursor' = 1
  /\ turn' = 1 /\ template' = 0 /\ initialized' = {}

Idle ==
  /\ problem = NoProblem /\ domain = NoProblem.seeds
  /\ phase = "done" /\ contract = 1
  /\ origins = {} /\ starts = Nothing(problem) /\ offered = Nothing(problem)
  /\ queue = <<>> /\ cursor = 1
  /\ turn = 1 /\ template = 0 /\ initialized = {}

NoProgram ==
  /\ program = Of([x \in P |-> Empty], P) /\ declared = <<>> /\ bound = <<>>
  /\ progress = "refused" /\ next = 1 /\ again = FALSE

\* Programs with nothing left to infer are collected as well; their problems
\* are left out.
Collect ==
  /\ progress = "preserved" /\ again /\ phase = "done"
  /\ \E i \in DOMAIN bound : bound[i] = Unbound /\ program.views[i].kind = "whole"
  /\ Begin(Posed(program, declared, bound))
  /\ UNCHANGED contractVars

InferFromCandidates ==
  /\ phase = "done" /\ again /\ problem = Posed(program, declared, bound)
  /\ Infer
  /\ \A i \in DOMAIN program.views : bound'[i] # bound[i] => bound'[i] \in domain[i]
  /\ UNCHANGED vars

ComposedInit == (ContractsInit /\ Idle) \/ (NoProgram /\ Init)

ComposedNext ==
  \/ (Preserve \/ Skip \/ Refuse \/ Add \/ FinishPreserving) /\ UNCHANGED vars
  \/ Next /\ UNCHANGED contractVars
  \/ Collect
  \/ InferFromCandidates

ComposedSpec == ComposedInit /\ [][ComposedNext]_<<contractVars, vars>>
=============================================================================
