--------------------------- MODULE ExecutionLayout ---------------------------
(***************************************************************************)
(* Which hardware point holds which element of a tile                      *)
(* (ExecutionLayoutProof.cpp).  Hardware points are numbered with the      *)
(* register fastest, then lane, warp, warp group and block; elements are   *)
(* numbered row by row.  What a reduction of a tile makes of it is at the  *)
(* end.                                                                    *)
(***************************************************************************)
EXTENDS LayoutEncodings

CONSTANT EnumerationBudget  \* the hardware or logical points a proof enumerates

ASSUME BudgetAssumption == EnumerationBudget \in Nat

Policies == {"all", "first_owner"}

HardwarePoint(topology, h) == PointAt(Reverse(topology), h)
FlatOf(shape, point) ==
  Sum([d \in DOMAIN shape |-> point[d] * Product(SubSeq(shape, d + 1, Len(shape)))])

\* Extents are counted in order: the first that is refused, with a point that
\* shows it, or with which the count exceeds the budget, decides.
Counted(extents, refused, point) ==
  LET stops == refused \cup {i \in DOMAIN extents :
                               Product(SubSeq(extents, 1, i)) > EnumerationBudget}
  IN  IF stops = {} THEN Proven
      ELSE IF Min(stops) \in refused THEN Disproven(point[Min(stops)]) ELSE Unknown

HardwareCounted(topology) ==
  Counted(topology,
          {c \in DOMAIN topology : ~IsPowerOf2(topology[c]) \/ (c = 2 /\ topology[c] > MaxLanes)},
          [c \in DOMAIN topology |-> <<c - 1, topology[c]>>])
LogicalCounted(shape) ==
  Counted(shape, {d \in DOMAIN shape : ~IsPowerOf2(shape[d])}, [d \in DOMAIN shape |-> <<>>])

\* The map of an execution has the widths of its topology and of its tile.
MapMatches(e, shape) ==
  LET m == e.map
  IN  /\ Len(m.inputs) = Len(m.inputWidths) /\ Unique(m.inputs) /\ Unique(m.outputs)
      /\ Len(m.outputs) = Len(m.outputWidths) /\ Extents(m.outputWidths) = shape
      /\ \A i \in DOMAIN m.inputs : \E c \in Find(Carriers, m.inputs[i]) :
           2 ^ m.inputWidths[i] = e.topology[c]
      /\ Len(m.matrix.rows) = Sum(m.outputWidths) /\ m.matrix.columns = Sum(m.inputWidths)

\* The element a hardware point holds, whatever order the map names carriers in.
ElementAt(e, shape, h) ==
  LET m == e.map
      point == Reverse(HardwarePoint(e.topology, h))
      input == [i \in DOMAIN m.inputs |-> point[CarrierOf(m.inputs[i])]]
  IN  FlatOf(shape, Unpacked(Apply(m.matrix, Packed(input, m.inputWidths)), m.outputWidths))

Enumeration(proof, logical, first, e, shape) ==
  [proof |-> proof, logical |-> logical, first |-> first,
   topology |-> e.topology, shape |-> shape]

\* The first of two verdicts that is not a proof.
Unless(verdict, next) == IF verdict # Proven THEN verdict ELSE next

\* Pairs of a hardware point and its element: the element of each point, and the
\* first holder of each element, past the end when there is none.
ElementsOf(held, hardware) == [h \in Bits(hardware) |-> (CHOOSE x \in held : x[1] = h)[2]]
FirstHolders(held, hardware, count) ==
  [x \in Bits(count) |-> Min({hardware} \cup {y[1] : y \in {z \in held : z[2] = x}})]
HoldersVerdict(e, shape, policy, held, first, hardware) ==
  LET missing == {x \in DOMAIN first : first[x] = hardware}
      second == {x[1] : x \in {y \in held : first[y[2]] # y[1]}}
  IN  IF missing # {} THEN Disproven(PointAt(shape, Min(missing)))
      ELSE IF e.replication # hardware \div Product(shape) THEN Disproven(<<>>)
      ELSE IF policy = "all" /\ second # {}
      THEN Disproven(HardwarePoint(e.topology, Min(second)))
      ELSE Proven
HoldersFrom(e, shape, policy, held, first, hardware) ==
  Enumeration(HoldersVerdict(e, shape, policy, held, first, hardware),
              ElementsOf(held, hardware), first, e, shape)
Holders(e, shape, policy, held, hardware) ==
  HoldersFrom(e, shape, policy, held, FirstHolders(held, hardware, Product(shape)), hardware)

\* Proven when all hardware points can be evaluated.
Enumerable(e, shape, policy) ==
  IF policy \notin Policies \/ Len(e.topology) # 5 \/ e.map.kind # "bits" THEN Disproven(<<>>)
  ELSE Unless(HardwareCounted(e.topology), Unless(LogicalCounted(shape),
              IF MapMatches(e, shape) THEN Proven ELSE Disproven(<<>>)))
EnumerateUnless(refused, e, shape, policy) ==
  IF refused # Proven THEN Enumeration(refused, <<>>, <<>>, e, shape)
  ELSE LET hardware == Product(e.topology)
       IN  Holders(e, shape, policy,
                   {<<h, ElementAt(e, shape, h)>> : h \in Bits(hardware)}, hardware)
Enumerate(e, shape, policy) == EnumerateUnless(Enumerable(e, shape, policy), e, shape, policy)

EnumerateLayout(e, shape) == Enumerate(e, shape, "first_owner")
ExecutionOwnership(e, shape, policy) == Enumerate(e, shape, policy).proof

-----------------------------------------------------------------------------
(* Reductions of a tile along one axis (ReductionLayoutProof.cpp): the     *)
(* encoding of the result that follows from the encoding of the source,    *)
(* and the tree along which each element of the result is summed and       *)
(* handed to its holders.  Nodes of a tree are numbered from one; a leaf   *)
(* has no left and no right node.                                          *)

Without(s, axis) == RemoveAt(s, axis)
ReductionTypes(src, dst, axis) ==
  /\ Len(src) >= 2 /\ Len(dst) + 1 = Len(src) /\ axis \in DOMAIN src
  /\ \A e \in ToSet(src \o dst) : e > 1 /\ IsPowerOf2(e)
  /\ dst = Without(src, axis)

\* What is left of a vector after elimination by a basis in which every vector
\* has a lowest one of its own.
ReducedBy(basis, v) ==
  FoldLeft(LAMBDA u, w : IF Min(w) \in u THEN SymDiff(u, w) ELSE u, v,
           SetToSortSeq(basis, LAMBDA a, b : Min(a) < Min(b)))

\* Only columns that the axis alone distinguished are dropped.
KeptNonzero(columns, registers) ==
  SelectSeq([i \in DOMAIN columns |-> i],
            LAMBDA i : i \notin registers \/ columns[i] # {})

\* The positions, in order, of register columns that the earlier ones do not span.
Kept(columns, registers) ==
  LET Step(state, i) ==
        LET rest == ReducedBy(state.basis, columns[i])
        IN  IF i \notin registers THEN [state EXCEPT !.keep = Append(@, i)]
            ELSE IF rest = {} THEN state
            ELSE [keep |-> Append(state.keep, i), basis |-> state.basis \cup {rest}]
  IN  FoldLeft(Step, [keep |-> <<>>, basis |-> {}], [i \in DOMAIN columns |-> i]).keep

\* The encoding left when the rows of the axis and the columns not kept are gone.
KeptColumns(e, others, columns, registers, reg, keep, dst) ==
  LET m == e.map
      keptRegisters == Cardinality(registers) - (m.matrix.columns - Len(keep))
      widths == [i \in DOMAIN m.inputs |-> IF i \in reg THEN keptRegisters ELSE m.inputWidths[i]]
      inputs == SelectSeq([i \in DOMAIN m.inputs |-> i], LAMBDA i : widths[i] > 0)
      topology == [e.topology EXCEPT ![1] = 2 ^ keptRegisters]
      outputWidths == Selected(m.outputWidths, others)
      kept == Matrix([i \in DOMAIN keep |-> columns[keep[i]]], Sum(outputWidths))
  IN  [e EXCEPT !.map = [m EXCEPT !.inputs = Selected(@, inputs),
                                  !.inputWidths = Selected(widths, inputs),
                                  !.outputs = Selected(@, others),
                                  !.outputWidths = outputWidths,
                                  !.matrix = Transposed(kept)],
                !.topology = topology,
                !.replication = Product(topology) \div Product(dst)]
WithKept(e, others, columns, registers, reg, dst) ==
  KeptColumns(e, others, columns, registers, reg, Kept(columns, registers), dst)
WithoutAxis(e, dst, axis) ==
  LET m == e.map
      Rows(o) == SubSeq(m.matrix.rows, Offset(m.outputWidths, o) + 1,
                        Offset(m.outputWidths, o) + m.outputWidths[o])
      others == Without([o \in DOMAIN m.outputs |-> o], axis)
      left == Matrix(FlattenSeq([i \in DOMAIN others |-> Rows(others[i])]), m.matrix.columns)
      reg == Find(m.inputs, "register")
      registers == UNION {Offset(m.inputWidths, i) + 1 .. Offset(m.inputWidths, i)
                                                           + m.inputWidths[i] : i \in reg}
  IN  WithKept(e, others, Transposed(left).rows, registers, reg, dst)
ProjectReduction(e, src, dst, axis) ==
  IF ~ReductionTypes(src, dst, axis) \/ EnumerateLayout(e, src).proof # Proven THEN {}
  ELSE {r \in {WithoutAxis(e, dst, axis)} : EnumerateLayout(r, dst).proof = Proven}

-----------------------------------------------------------------------------
(* The tree of each element of the result. *)

Scopes == <<"register", "warp", "cta_shared_tree">>
EdgeScope(a, b) == IF a[1] # b[1] THEN 3
                   ELSE IF a[2] # b[2] \/ a[3] # b[3] THEN 2
                   ELSE IF a[4] # b[4] THEN 1 ELSE 0

Leaf(logical, owner) == [logical |-> logical, left |-> 0, right |-> 0, holder |-> owner]

\* One layer: neighbours are joined where the left one lives, an odd one waits.
Paired(state, pass) ==
  LET layer == state.layer
      half == Len(layer) \div 2
      Joined(k) == [logical |-> -1, left |-> layer[2 * k - 1], right |-> layer[2 * k],
                    holder |-> state.nodes[layer[2 * k - 1]].holder]
  IN  [nodes |-> state.nodes \o [k \in 1..half |-> Joined(k)],
       layer |-> [k \in 1..half |-> Len(state.nodes) + k]
                 \o SubSeq(layer, 2 * half + 1, Len(layer))]

Tree(leaves) ==
  LET all == [i \in DOMAIN leaves |-> i]
      built == FoldLeft(Paired, [nodes |-> leaves, layer |-> all], all)
  IN  [nodes |-> built.nodes, root |-> built.layer[1]]

\* The first holders of the elements of fiber y, in the order of the hardware.
FiberOf(source, axis, x) ==
  FlatOf(Without(source.shape, axis), Without(PointAt(source.shape, x), axis))
OwnersAll(source, axis, y) ==
  {h \in DOMAIN source.logical : FiberOf(source, axis, source.logical[h]) = y}
Owners(source, axis, y) ==
  {h \in DOMAIN source.logical : /\ source.first[source.logical[h]] = h
                                 /\ FiberOf(source, axis, source.logical[h]) = y}
Leaves(source, axis, y) ==
  LET sorted == Ascending(Owners(source, axis, y))
  IN  [i \in DOMAIN sorted |-> Leaf(source.logical[sorted[i]],
                                    HardwarePoint(source.topology, sorted[i]))]
Broadcasts(result, y) ==
  LET holders == Ascending({h \in DOMAIN result.logical : result.logical[h] = y})
  IN  [i \in DOMAIN holders |-> HardwarePoint(result.topology, holders[i])]
Fiber(source, result, axis, y) ==
  LET tree == Tree(Leaves(source, axis, y))
  IN  [nodes |-> tree.nodes, root |-> tree.root, broadcasts |-> Broadcasts(result, y)]

\* The widest exchange any sum or any broadcast of a fiber needs.
FiberScope(fiber) ==
  LET n == fiber.nodes
  IN  Max({0} \cup {EdgeScope(n[n[i].left].holder, n[n[i].right].holder) :
                      i \in {k \in DOMAIN n : n[k].left # 0}}
              \cup {EdgeScope(n[fiber.root].holder, b) : b \in ToSet(fiber.broadcasts)})

ReductionProof(proof, fibers, scope) == [proof |-> proof, fibers |-> fibers, scope |-> scope]
Refusal(proof) == ReductionProof(proof, <<>>, "")

\* The proof from both enumerations, that of the natural result and the fibers.
ScopedProof(fibers) ==
  LET scope == Max({FiberScope(fibers[y]) : y \in DOMAIN fibers})
  IN  ReductionProof(Proven, fibers, Scopes[IF scope > 2 THEN 3 ELSE scope + 1])
ProofFrom(source, result, natural, axis) ==
  IF source.proof # Proven THEN Refusal(source.proof)
  ELSE IF result.proof # Proven THEN Refusal(result.proof)
  ELSE IF \/ source.topology[5] # 1 \/ result.topology[5] # 1
          \/ \A p \in natural : p.topology # result.topology \/ p.logical # result.logical
  THEN Refusal(Disproven(<<>>))
  ELSE ScopedProof([y \in DOMAIN result.first |-> Fiber(source, result, axis, y)])
BuildReductionProof(from, to, src, dst, axis) ==
  IF ~ReductionTypes(src, dst, axis) THEN Refusal(Disproven(<<>>))
  ELSE ProofFrom(EnumerateLayout(from, src), EnumerateLayout(to, dst),
                 {EnumerateLayout(p, dst) : p \in ProjectReduction(from, src, dst, axis)}, axis)

\* A recorded proof is accepted when it is the one that would be built now.
Unchanged(proof, expected) ==
  IF expected.proof # Proven THEN expected.proof
  ELSE IF proof # expected THEN Disproven(<<>>) ELSE Proven
VerifyReductionProof(from, to, src, dst, axis, proof) ==
  Unchanged(proof, BuildReductionProof(from, to, src, dst, axis))
=============================================================================
