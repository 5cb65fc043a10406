--------------------------- MODULE MCLayoutExchange ---------------------------
(***************************************************************************)
(* The lowering of the conversions of a module with two kernels, followed, *)
(* for one of the modules, by the execution of the code it emitted.        *)
(*                                                                         *)
(* Modules have up to three conversions of one, two or four bytes per      *)
(* element, a budget close to the largest unsigned number, and workgroup   *)
(* attributions of every kind the walk distinguishes.                      *)
(*                                                                         *)
(* The module that is run has four conversions in one kernel, run by two   *)
(* warps of two lanes: from a tensor the second warp holds only half of,   *)
(* and elects nothing of, to one replicated over the warps (Shared), a     *)
(* transposal within each warp (Shuffle), from a tensor replicated over    *)
(* the lanes (Shared), and the duplication of a thread's only register     *)
(* (Register).                                                             *)
(***************************************************************************)
EXTENDS LayoutExchange, LayoutConversionLowering

Lane(t) == t % LaneExtent

Table(Slot(_, _), regs) == [o \in Threads \X (0..(regs - 1)) |-> Slot(o[1], o[2])]

\* Some right inverse: the last owner of each slot.
PlanOf(source, m, dest, n, volume) ==
  [source |-> source, sourceRegisters |-> m, dest |-> dest, destinationRegisters |-> n,
   inverse |-> [s \in 0..(volume - 1) |->
      CHOOSE o \in DOMAIN source :
        source[o] = s /\ \A p \in DOMAIN source : source[p] = s => ~Earlier(o, p)]]

FirstWarp == Table(LAMBDA t, r : IF Warp(t) = 0 THEN r + 2 * Lane(t) ELSE 1 - r, 2)
OverLanes == Table(LAMBDA t, r : r + 2 * Warp(t), 2)
OverWarps == Table(LAMBDA t, r : Lane(t) + 2 * r, 2)
RowMajor == Table(LAMBDA t, r : r + 2 * Lane(t) + 4 * Warp(t), 2)
ColumnMajor == Table(LAMBDA t, r : Lane(t) + 2 * r + 4 * Warp(t), 2)
OneEach == Table(LAMBDA t, r : t, 1)
Doubled == Table(LAMBDA t, r : t, 2)

MCConversions == << [PlanOf(FirstWarp, 2, OverWarps, 2, 4) EXCEPT
                       !.inverse = [s \in 0..3 |-> <<s \div 2, s % 2>>]],
                    PlanOf(RowMajor, 2, ColumnMajor, 2, 8),
                    PlanOf(OverLanes, 2, OverWarps, 2, 4),
                    PlanOf(OneEach, 1, Doubled, 2, 4) >>

ASSUME AllModes == ModeOf = <<"Shared", "Shuffle", "Shared", "Register">>

-----------------------------------------------------------------------------
(* Modules that are lowered.                                               *)

OfWarp == Table(LAMBDA t, r : Warp(t), 1)
OfOtherWarp == Table(LAMBDA t, r : 1 - Warp(t), 1)
OfNone == Table(LAMBDA t, r : 0, 1)
FirstLanes == [s \in 0..1 |-> <<LaneExtent * s, 0>>]

Swap == PlanOf(OfWarp, 1, OfOtherWarp, 1, 2)
Keep == PlanOf(OfWarp, 1, OfWarp, 1, 2)
Hole == [Keep EXCEPT !.source = OfNone, !.inverse = FirstLanes]

Op(kernel, plan, bytes, uniform, limits, block) ==
  [kernel |-> kernel, plan |-> plan, bytes |-> bytes,
   uniform |-> uniform, withinLimits |-> limits, blockMatches |-> block]

MCKernels == {"f", "g"}
MCOps ==
  {Op("f", Swap, b, TRUE, TRUE, TRUE) : b \in {1, 2, 4}}
    \cup {Op("g", Swap, 4, TRUE, TRUE, TRUE),
          Op("f", Keep, 4, TRUE, TRUE, TRUE), Op("g", Hole, 4, TRUE, TRUE, TRUE),
          Op("f", Swap, 1, FALSE, TRUE, TRUE), Op("f", Keep, 1, TRUE, FALSE, TRUE),
          Op("g", Swap, 1, TRUE, TRUE, FALSE)}

RunModule == [c \in DOMAIN MCConversions |-> Op("f", MCConversions[c], 1, TRUE, TRUE, TRUE)]

\* The walk never gets past a conversion it refuses.
RefusableLast(p) == \A i \in 1..(Len(p) - 1) : ~Refusable(p[i])

MCPrograms ==
  {p \in UNION {[1..n -> MCOps] : n \in 1..3} : RefusableLast(p)} \cup {RunModule}

Attribution(element, shape, align, static) ==
  [element |-> element, shape |-> shape, align |-> align, static |-> static]

OfF ==
  { <<>>,
    <<Attribution(1, <<3>>, <<>>, TRUE)>>,
    <<Attribution(1, <<1>>, <<>>, TRUE), Attribution(2, <<1, 2>>, <<4>>, TRUE)>>,
    <<Attribution(1, <<13>>, <<>>, TRUE)>>,
    <<Attribution(2, <<0, 9>>, <<3>>, TRUE)>>,
    <<Attribution(2, <<4, 2>>, <<>>, TRUE)>>,
    <<Attribution(1, <<1>>, <<0>>, TRUE)>>,
    <<Attribution(0, <<1>>, <<>>, TRUE)>>,
    <<Attribution(1, <<1>>, <<>>, FALSE)>> }
OfG == <<Attribution(4, <<1>>, <<>>, TRUE)>>
MCStorages == {[k \in MCKernels |-> IF k = "f" THEN a ELSE OfG] : a \in OfF}

-----------------------------------------------------------------------------
(* The emitted code runs when the pass is through.                         *)

Lowered == program = RunModule /\ lowered = Len(program)

\* What the kernel was attributed before does not matter to the code: only the
\* kernel that had nothing is run.
Launched == Lowered /\ original["f"] = <<>>

ComposedInit == LoweringInit /\ Init

ComposedVars == <<loweringVars, vars>>

Lower == LoweringNext /\ UNCHANGED vars

Execute(step) == Launched /\ step /\ UNCHANGED loweringVars

ComposedNext == Lower \/ Execute(Next)

\* The pass runs to its end, and the hardware runs every thread that can run.
ComposedSpec ==
  /\ ComposedInit /\ [][ComposedNext]_ComposedVars
  /\ WF_ComposedVars(Lower)
  /\ WF_ComposedVars(Execute(Barrier))
  /\ \A t \in Threads : WF_ComposedVars(Execute(Store(t) \/ Read(t) \/ Insert(t)))
  /\ \A w \in {Warp(t) : t \in Threads} : WF_ComposedVars(Execute(Shuffle(w)))

\* A module that is accepted is lowered, and in its kernel every thread gets
\* through every barrier and shuffle and ends with all of its results.
LoweredDelivers ==
  program = RunModule /\ original["f"] = <<>> /\ "f" \notin untracked ~> Delivered
=============================================================================
