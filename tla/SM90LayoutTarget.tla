--------------------------- MODULE SM90LayoutTarget ---------------------------
(***************************************************************************)
(* What the SM90 target proposes and accepts (Target/SM90): candidates for *)
(* tiles and buffers, the encodings and shared buffers of a matrix product *)
(* executed by warp groups, and the contracts of products and reductions.  *)
(* A buffer of a product is read through descriptors, whose address        *)
(* equation swaps 16-byte chunks within rows (a swizzle); the numbers in   *)
(* this module that are not named are those of the hardware.  What may     *)
(* fail to exist is a set: empty, or the one value.                        *)
(***************************************************************************)
EXTENDS LayoutRelations

CONSTANT Subjects  \* what the target is asked about: values, products and reductions

VARIABLES subject,    \* the one being handled, or none yet
          proposals,  \* the candidates proposed for it, by role
          choice,     \* the encodings chosen from them
          contract    \* the contract built for these: empty, or the one

targetVars == <<subject, proposals, choice, contract>>

PointBudget == 65536
BoundedTile(a, b) ==
  a > 1 /\ b > 1 /\ IsPowerOf2(a) /\ IsPowerOf2(b) /\ a * b <= PointBudget

-----------------------------------------------------------------------------
(* Default candidates of a tile: which bits of its flat index are named by *)
(* the registers, the lanes and the warps, from the lowest on.             *)

Log(n) == CHOOSE k \in 0..16 : 2 ^ k = n
Interval(start, count) == [i \in 1..count |-> start + i - 1]
LaneBits == 5
\* The columns in the order in which the flat bits take them.
Allocation(family, registers, warps) ==
  CASE family \in {0, 3} -> Interval(0, registers + LaneBits + warps)
    [] family = 1 -> Interval(registers, LaneBits) \o Interval(0, registers)
                     \o Interval(registers + LaneBits, warps)
    [] family = 2 -> Interval(registers + LaneBits, warps) \o Interval(registers, LaneBits)
                     \o Interval(0, registers)
WarpBits(value, family) ==
  IF value.threads # 0 THEN Log(value.threads \div 32) ELSE IF family = 2 THEN 2 ELSE 0
RegisterBits(logical, warps, family) ==
  IF family = 3 THEN logical ELSE Max({0, logical - LaneBits - warps})

\* The flat bits of an axis come after those of the later ones.
AxisRows(widths, allocation) ==
  FlattenSeq([d \in DOMAIN widths |-> [bit \in 1..widths[d] |->
    {allocation[Sum(SubSeq(widths, d + 1, Len(widths))) + bit]}]])
\* Carriers without bits are not named.
TileEncoding(carriers, widths, rows) ==
  [map |-> [kind |-> "bits", inputs |-> [i \in DOMAIN carriers |-> carriers[i][1]],
            inputWidths |-> [i \in DOMAIN carriers |-> carriers[i][2]],
            outputs |-> SubSeq(<<"dim0", "dim1", "dim2">>, 1, Len(widths)),
            outputWidths |-> widths,
            matrix |-> Matrix(rows, Sum([i \in DOMAIN carriers |-> carriers[i][2]]))],
   topology |-> <<1, 32, 1, 1, 1>>, replication |-> 1]
Allocated(widths, registers, warps, family) ==
  [TileEncoding(SelectSeq(<<<<"register", registers>>, <<"lane", LaneBits>>, <<"warp", warps>>>>,
                          LAMBDA x : x[2] > 0),
                widths, AxisRows(widths, Allocation(family, registers, warps)))
     EXCEPT !.topology = <<2 ^ registers, 32, 2 ^ warps, 1, 1>>,
            !.replication = 2 ^ (registers + LaneBits + warps - Sum(widths))]
DistributedCandidate(value, widths, family) ==
  Allocated(widths, RegisterBits(Sum(widths), WarpBits(value, family), family),
            WarpBits(value, family), family)
DistributedCandidates(value) ==
  IF value.shape = <<>> \/ \E d \in DOMAIN value.shape :
                             value.shape[d] <= 1 \/ ~IsPowerOf2(value.shape[d])
  THEN {}
  ELSE {DistributedCandidate(value, [d \in DOMAIN value.shape |-> Log(value.shape[d])], f) :
          f \in 0..3}

-----------------------------------------------------------------------------
(* Default candidates of a buffer. *)

\* An address in elements for every point, in a buffer of so many elements.
AffineStorage(type, element, count) ==
  LET bytes == Max({1, type.bits \div 8})
      alignment == IF IsPowerOf2(bytes) THEN bytes ELSE 1
  IN  IF type.space = "local" THEN {}
      ELSE {[map |-> [kind |-> "table", inputExtents |-> type.shape,
                      outputs |-> <<"byte_offset", "bit_offset">>,
                      outputExtents |-> <<(count * type.bits + 7) \div 8, 8>>,
                      address |-> [p \in Points(type.shape) |-> At(element[p] * type.bits)]],
             space |-> type.space, alignment |-> alignment, vector |-> alignment]}
LinearStorage(type) ==
  AffineStorage(type, [p \in Points(type.shape) |-> FlatOf(type.shape, p)], Product(type.shape))
TransposedStorage(type) ==
  IF Len(type.shape) # 2 THEN {}
  ELSE AffineStorage(type, [p \in Points(type.shape) |-> p[2] * type.shape[1] + p[1]],
                     Product(type.shape))
\* Rows are lengthened to whole chunks of 32 bytes, and by one if they were.
PaddedStorage(type) ==
  LET chunk == Max({1, 256 \div type.bits})
      columns == type.shape[2]
      aligned == ((columns + chunk - 1) \div chunk) * chunk
      padded == IF aligned = columns THEN columns + chunk ELSE aligned
  IN  IF Len(type.shape) # 2 \/ type.bits % 8 # 0 THEN {}
      ELSE AffineStorage(type, [p \in Points(type.shape) |-> p[1] * padded + p[2]],
                         type.shape[1] * padded)
\* Odd rows swap the halves of their swizzle.
XorRows(rowBits, columnBits, elementBits, target) ==
  [c \in 1..(rowBits + columnBits) |->
     IF c > rowBits THEN {elementBits + c - rowBits - 1}
     ELSE {columnBits + elementBits + c - 1} \cup (IF c = 1 THEN {target} ELSE {})]
XorMap(rowBits, columnBits, elementBits, target) ==
  LET byteBits == rowBits + columnBits + elementBits
  IN  [kind |-> "bits", inputs |-> <<"dim0", "dim1">>, inputWidths |-> <<rowBits, columnBits>>,
       outputs |-> <<"byte_offset", "bit_offset">>, outputWidths |-> <<byteBits, 3>>,
       matrix |-> Transposed(Matrix(XorRows(rowBits, columnBits, elementBits, target),
                                    byteBits + 3))]
XorStorage(type, swizzle) ==
  IF \/ Len(type.shape) # 2 \/ \E d \in DOMAIN type.shape : ~IsPowerOf2(type.shape[d])
     \/ type.bits < 8 \/ type.bits % 8 # 0 \/ ~IsPowerOf2(type.bits \div 8)
     \/ type.space = "local"
  THEN {}
  ELSE {[map |-> m, space |-> type.space, alignment |-> type.bits \div 8,
         vector |-> type.bits \div 8] :
          m \in {XorMap(Log(type.shape[1]), Log(type.shape[2]), Log(type.bits \div 8), target) :
                   target \in {t \in {Log(swizzle) - 1} :
                                 /\ type.shape[1] > 1
                                 /\ t < Log(type.shape[2]) + Log(type.bits \div 8)}}}
SwizzleOf(rowBytes) == IF rowBytes <= 32 THEN 32 ELSE IF rowBytes <= 64 THEN 64 ELSE 128
StorageTemplates(type) ==
  LinearStorage(type) \cup TransposedStorage(type) \cup PaddedStorage(type)
    \cup (IF Len(type.shape) = 2 /\ type.bits % 8 = 0
          THEN XorStorage(type, SwizzleOf(type.shape[2] * (type.bits \div 8))) ELSE {})

\* enumerateCandidates and verifyCandidate
DefaultCandidates(value) ==
  IF value.kind = "Distributed" THEN DistributedCandidates(value)
  ELSE StorageTemplates(value.type)
VerifiedCandidate(value, c) ==
  IF value.kind = "Distributed"
  THEN IsDistributed(c) /\ c.topology[5] = 1 /\ EncodingFits(c, value.shape)
  ELSE IsStorage(c) /\ StorageFits(c, value.type)

-----------------------------------------------------------------------------
(* The fragments of a product: who holds which element of a tile. *)

\* getSM90MmaGeometry: the warp groups form a grid over rows and columns of the
\* result, the one with the best score and among these the one of fewest rows.
GridScore(op, rows, columns) ==
  CASE op.policy = "FullRow" -> -rows
    [] op.policy = "FullCol" -> -columns
    [] OTHER -> Max({op.m \div rows - op.n \div columns, op.n \div columns - op.m \div rows})
Score(op, rows) == GridScore(op, rows, (op.threads \div 128) \div rows)
Grids(op) ==
  {rows \in {1, 2, 4, 8} : /\ rows <= op.threads \div 128 /\ op.m % (64 * rows) = 0
                           /\ op.n % (8 * ((op.threads \div 128) \div rows)) = 0}
GeometryOn(op, gM, gN, atomN) ==
  [m |-> op.m, n |-> op.n, k |-> op.k, threads |-> op.threads, gM |-> gM, gN |-> gN,
   atomN |-> atomN, mRepeat |-> op.m \div (64 * gM), nRepeat |-> op.n \div (atomN * gN),
   kRepeat |-> op.k \div 16]
AtomColumns(columns) == Max({w \in {8, 16, 32, 64, 128, 256} : columns % w = 0})
GridOf(op, gM, gN) == GeometryOn(op, gM, gN, AtomColumns(op.n \div gN))
Geometry(op) ==
  IF \/ op.threads \notin {128, 256, 512, 1024}
     \/ ~BoundedTile(op.m, op.n) \/ ~BoundedTile(op.m, op.k) \/ ~BoundedTile(op.n, op.k)
     \/ op.m % 64 # 0 \/ op.k % 16 # 0 \/ op.n < 8
  THEN {}
  ELSE {GridOf(op, gM, (op.threads \div 128) \div gM) :
          gM \in {g \in Grids(op) : \A h \in Grids(op) \ {g} :
                    \/ Score(op, g) < Score(op, h)
                    \/ Score(op, g) = Score(op, h) /\ g < h}}

\* getSM90MmaFragmentCoordinate, of a hardware point: register, lane, warp, group.
\* A register is a slot of an atom; the atoms of a group are repeated by rows.
SlotCoordinate(g, isA, inner, outer, repeat, point) ==
  <<(point[4] \div g.gN) * (g.m \div g.gM) + (outer \div repeat) * 64
      + point[3] * 16 + point[2] \div 4 + ((inner \div 2) % 2) * 8,
    (IF isA THEN 0 ELSE (point[4] % g.gN) * (g.n \div g.gN))
      + (outer % repeat) * (IF isA THEN 16 ELSE g.atomN)
      + (point[2] % 4) * 2 + (inner % 2) + (inner \div 4) * 8>>
Slots(g, isA) == IF isA THEN 8 ELSE g.atomN \div 2
FragmentCoordinate(g, isA, transposed, point) ==
  LET place == SlotCoordinate(g, isA, point[1] % Slots(g, isA), point[1] \div Slots(g, isA),
                              IF isA THEN g.kRepeat ELSE g.nRepeat, point)
  IN  IF isA /\ transposed THEN Reverse(place) ELSE place

FragmentRegisters(g, isA) ==
  IF isA THEN g.mRepeat * g.kRepeat * 8 ELSE (g.mRepeat * g.nRepeat * g.atomN) \div 2
FragmentShape(g, isA, transposed) ==
  IF ~isA THEN <<g.m, g.n>> ELSE IF transposed THEN <<g.k, g.m>> ELSE <<g.m, g.k>>
FragmentTopology(g, isA) == <<FragmentRegisters(g, isA), 32, 4, g.threads \div 128, 1>>

\* buildSM90MmaFragment: the linear map that agrees with the hardware where one
\* bit of the hardware point is set.
UnitPoint(c, bit) == [d \in 1..5 |-> IF d = c THEN 2 ^ bit ELSE 0]
FragmentColumns(g, isA, transposed, topology, carriers, widths) ==
  FlattenSeq([i \in DOMAIN carriers |->
    [bit \in 1..Log(topology[carriers[i]]) |->
       Packed(FragmentCoordinate(g, isA, transposed, UnitPoint(carriers[i], bit - 1)), widths)]])
LinearFragment(g, isA, transposed, topology, carriers, widths) ==
  [map |-> [kind |-> "bits", inputs |-> Selected(Carriers, carriers),
            inputWidths |-> [i \in DOMAIN carriers |-> Log(topology[carriers[i]])],
            outputs |-> <<"dim0", "dim1">>, outputWidths |-> widths,
            matrix |-> Transposed(
              Matrix(FragmentColumns(g, isA, transposed, topology, carriers, widths),
                     Sum(widths)))],
   topology |-> topology, replication |-> IF isA THEN g.gN ELSE 1]
FragmentOver(g, isA, transposed, topology, shape) ==
  LinearFragment(g, isA, transposed, topology,
                 SelectSeq(<<1, 2, 3, 4, 5>>, LAMBDA c : topology[c] > 1),
                 [d \in DOMAIN shape |-> Log(shape[d])])
Fragment(g, isA, transposed) ==
  IF FragmentRegisters(g, isA) > PointBudget \div g.threads THEN {}
  ELSE {FragmentOver(g, isA, transposed, FragmentTopology(g, isA),
                     FragmentShape(g, isA, transposed))}

\* verifySM90MmaFragment
FragmentPointRight(g, isA, transposed, e, shape, h) ==
  ElementAt(e, shape, h)
    = FlatOf(shape, FragmentCoordinate(g, isA, transposed, Reverse(HardwarePoint(e.topology, h))))
FragmentVerified(g, isA, transposed, e) ==
  /\ FragmentRegisters(g, isA) <= PointBudget \div g.threads
  /\ IsDistributed(e) /\ e.topology = FragmentTopology(g, isA)
  /\ e.replication = (IF isA THEN g.gN ELSE 1)
  /\ ExecutionOwnership(e, FragmentShape(g, isA, transposed), "first_owner") = Proven
  /\ \A h \in Bits(Product(e.topology)) :
       FragmentPointRight(g, isA, transposed, e, FragmentShape(g, isA, transposed), h)

-----------------------------------------------------------------------------
(* The descriptors of a shared operand. *)

\* The exclusive or of two numbers below eight.
XorTable == [a \in 0..7 |-> [b \in 0..7 |->
               MapThenSumSet(LAMBDA i : 2 ^ i,
                             {i \in 0..2 : (a \div 2 ^ i) % 2 # (b \div 2 ^ i) % 2})]]
\* The chunk an address lies in, with some bits of it flipped.
Flipped(address, bits) ==
  LET chunk == (address \div 16) % 8 IN address + 16 * (XorTable[chunk][bits] - chunk)
Chunks(swizzle) == IF swizzle = 0 THEN 1 ELSE swizzle \div 16
\* An address and its swizzled form: the same function goes both ways.
Swizzled(swizzle, address) == Flipped(address, (address \div 128) % Chunks(swizzle))
Phase(swizzle, start) == IF swizzle = 0 THEN 0 ELSE (start \div 128) % 8

\* getSM90DescriptorAddress of the element at mn, k of an atom.
Relative(plan, s, mn, k) ==
  IF plan.major = "k"
  THEN (mn % 8) * 16 * s + (mn \div 8) * plan.stride + (k % 8) * 2
       + (k \div 8) * (IF plan.swizzle # 0 THEN 16 ELSE plan.leading)
  ELSE IF plan.swizzle = 0
  THEN (mn % 8) * 2 + (mn \div 8) * plan.stride + (k % 8) * 16 + (k \div 8) * plan.leading
  ELSE (mn % (8 * s)) * 2 + (mn \div (8 * s)) * plan.leading
       + (k % 8) * 16 * s + (k \div 8) * plan.stride
\* The start taken as it is.
DescriptorAddressUnphased(plan, start, phase, mn, k) ==
  Swizzled(plan.swizzle, start + Relative(plan, Chunks(plan.swizzle), mn, k))
\* The start of an atom is swizzled itself: its phase says by what.
DescriptorAddress(plan, start, phase, mn, k) ==
  Swizzled(plan.swizzle, Flipped(start, phase % Chunks(plan.swizzle))
                         + Relative(plan, Chunks(plan.swizzle), mn, k))

\* A shared operand: the descriptor of its view, whether k is the second axis,
\* its extents and the rows of an atom.
Operand(info, kSecond, mn, k, atom) ==
  [info |-> info, kSecond |-> kSecond, mn |-> mn, k |-> k, atom |-> atom]
Starts(operand) ==
  FlattenSeq([i \in 1..(operand.mn \div operand.atom) |->
               [j \in 1..(operand.k \div 16) |-> <<(i - 1) * operand.atom, (j - 1) * 16>>]])
\* The byte at which the element at mn, k begins, when the layout fits the view.
ByteAt(operand, map, mn, k) ==
  BitOf(map.address[IF operand.kSecond THEN <<mn, k>> ELSE <<k, mn>>]) \div 8
Addressable(operand, c) ==
  /\ Verified(operand.info, c)
  /\ Len(operand.info.viewType.shape) = 2 /\ operand.info.viewType.bits = 16
  /\ \A map \in AsAffine(c.map) : \A p \in DOMAIN map.address : BitOf(map.address[p]) % 16 = 0
RequiredAlignment(swizzle) == IF swizzle = 0 THEN 16 ELSE swizzle * 8

\* MmaDescriptorPlanAttr::verify: what the fields of a descriptor can hold.
FieldLimit == 262144
Encodable(n) == n \in Bits(FieldLimit) /\ n % 16 = 0
KeyBefore(a, b) == a[1] < b[1] \/ (a[1] = b[1] /\ a[2] < b[2])
PlanVerify(plan) ==
  /\ plan.major \in {"k", "mn"} /\ plan.swizzle \in {0, 32, 64, 128}
  /\ Encodable(plan.leading) /\ Encodable(plan.stride)
  /\ plan.entries # <<>> /\ 4 * Len(plan.entries) <= PointBudget
  /\ \A e \in ToSet(plan.entries) :
       Encodable(e.start) /\ e.phase \in 0..7 /\ (plan.swizzle = 0 => e.phase = 0)
  /\ \A i \in 2..Len(plan.entries) : KeyBefore(plan.entries[i - 1].key, plan.entries[i].key)

\* verifySM90MmaDescriptor: every element of every atom is where the equation of
\* the hardware says, within the root.
ElementRight(info, actual, expected) ==
  actual = expected /\ 8 * expected >= info.lowerBit /\ 8 * expected + 16 <= info.upperBit
AtomRight(operand, map, plan, entry, key) ==
  /\ entry.key = key /\ entry.phase = Phase(plan.swizzle, entry.start)
  /\ \A mn \in Bits(operand.atom), k \in Bits(16) :
       ElementRight(operand.info, ByteAt(operand, map, key[1] + mn, key[2] + k),
                    DescriptorAddress(plan, entry.start, entry.phase, mn, k))
AtomsRight(operand, map, plan, starts) ==
  /\ Len(plan.entries) = Len(starts)
  /\ \A i \in DOMAIN starts : AtomRight(operand, map, plan, plan.entries[i], starts[i])
PlanHolds(operand, map, plan) ==
  /\ BoundedTile(operand.mn, operand.k) /\ PlanVerify(plan)
  /\ operand.info.rootAlignment >= RequiredAlignment(plan.swizzle)
  /\ (plan.major = "k" /\ plan.swizzle # 0) => plan.leading = 16
  /\ AtomsRight(operand, map, plan, Starts(operand))
DescriptorVerified(operand, c, plan) ==
  /\ IsStorage(c) /\ c.space = "shared" /\ Addressable(operand, c)
  /\ \A map \in AsAffine(c.map) : PlanHolds(operand, map, plan)

\* decodeDescriptor: the fields are read off the distances of a few elements, if
\* the operand has them; the first form with which the whole operand verifies.
Forms == <<<<"k", 0>>, <<"k", 32>>, <<"k", 64>>, <<"k", 128>>,
           <<"mn", 0>>, <<"mn", 32>>, <<"mn", 64>>, <<"mn", 128>>>>
Unswizzled(operand, map, swizzle, mn, k) == Swizzled(swizzle, ByteAt(operand, map, mn, k))
Delta(operand, map, swizzle, mn, k, default) ==
  IF mn >= operand.mn \/ k >= operand.k THEN default
  ELSE Unswizzled(operand, map, swizzle, mn, k) - Unswizzled(operand, map, swizzle, 0, 0)
PlanLeading(operand, map, major, swizzle, s) ==
  CASE swizzle = 0 -> Delta(operand, map, 0, 0, 8, 16)
    [] major = "k" /\ swizzle # 0 -> 16
    [] OTHER -> Delta(operand, map, swizzle, 8 * s, 0, 128 * s)
PlanStride(operand, map, major, swizzle, s) ==
  IF major = "mn" /\ swizzle # 0 THEN Delta(operand, map, swizzle, 0, 8, 128 * s)
  ELSE Delta(operand, map, swizzle, 8, 0, 128 * s)
PlanEntry(operand, map, swizzle, key) ==
  LET start == ByteAt(operand, map, key[1], key[2])
  IN  [key |-> key, start |-> start, phase |-> Phase(swizzle, start)]
PlanOf(operand, map, form, starts) ==
  [major |-> form[1], swizzle |-> form[2],
   leading |-> PlanLeading(operand, map, form[1], form[2], Chunks(form[2])),
   stride |-> PlanStride(operand, map, form[1], form[2], Chunks(form[2])),
   entries |-> [i \in DOMAIN starts |-> PlanEntry(operand, map, form[2], starts[i])]]
\* The forms whose plan verifies, each with it.
DecodedForms(operand, map) ==
  {x \in {<<f, PlanOf(operand, map, Forms[f], Starts(operand))>> : f \in DOMAIN Forms} :
     PlanHolds(operand, map, x[2])}
FirstForm(decoded) == {x[2] : x \in {y \in decoded : \A z \in decoded : y[1] <= z[1]}}
DecodeDescriptor(operand, c) ==
  IF ~Addressable(operand, c) THEN {}
  ELSE UNION {FirstForm(DecodedForms(operand, map)) : map \in AsAffine(c.map)}

\* storageProposal: a layout of the whole root in the form of a descriptor, as
\* seen by the view.  The major axis is the last one of the buffer.
RootView(info) == [info EXCEPT !.viewType = info.rootType, !.viewToRoot = IdentityForms(2)]
ProposedByte(kSecond, mnExtent, s, mn, k) ==
  IF kSecond
  THEN (mn % 8) * 16 * s + (mn \div 8) * 128 * s
       + (k % (8 * s)) * 2 + (k \div (8 * s)) * mnExtent * 16 * s
  ELSE (mn % (8 * s)) * 2 + (mn \div (8 * s)) * 128 * s
       + (k % 8) * 16 * s + (k \div 8) * mnExtent * 16
ProposedAddress(info, kSecond, swizzle, mnExtent, mn, k) ==
  <<Swizzled(swizzle, info.lowerBit \div 8
                      + ProposedByte(kSecond, mnExtent, Chunks(swizzle), mn, k)), 0>>
ProposedLayout(info, kSecond, swizzle, shape) ==
  MakeLayout(RootView(info),
             [p \in Points(shape) |->
                IF kSecond THEN ProposedAddress(info, kSecond, swizzle, shape[1], p[1], p[2])
                ELSE ProposedAddress(info, kSecond, swizzle, shape[2], p[2], p[1])],
             info.rootAlignment, 1)
Proposable(info, type, swizzle) ==
  /\ Len(type.shape) = 2 /\ type.bits = 16
  /\ info.rootAlignment >= RequiredAlignment(swizzle) /\ info.lowerBit % 128 = 0
  /\ BoundedTile(type.shape[1], type.shape[2]) /\ type.shape[2] >= swizzle \div 2
StorageProposal(info, kSecond, swizzle) ==
  IF ~Proposable(info, info.rootType, swizzle) THEN {}
  ELSE ProjectAlias(RootView(info),
                    ProposedLayout(info, kSecond, swizzle, info.rootType.shape), info)

-----------------------------------------------------------------------------
(* Products: the candidates of their roles, and the contract of a choice.  *)
(* Roles are the two operands, the accumulator and the result; a first     *)
(* operand that is a tensor is held in registers.                          *)

BufferRoles(op) == IF op.tensorA THEN {2} ELSE {1, 2}
KSecond(op, role) == IF role = 2 THEN op.transB ELSE ~op.transA
OperandOf(op, g, role, info) ==
  Operand(info, KSecond(op, role), IF role = 2 THEN g.n ELSE g.m, g.k,
          IF role = 2 THEN g.atomN ELSE 64)

\* A buffer with a required encoding needs no proposal; one that is not
\* described cannot have any.
BufferProposals(op, role) ==
  IF role \in op.required THEN {}
  ELSE UNION {StorageProposal(info, KSecond(op, role), swizzle) :
                info \in op.alias[role], swizzle \in {0, 32, 64, 128}}
RoleProposals(op, g, role) ==
  CASE role \in {3, 4} -> Fragment(g, FALSE, FALSE)
    [] role = 1 /\ op.tensorA -> Fragment(g, TRUE, op.transA)
    [] OTHER -> BufferProposals(op, role)
FragmentsExist(op, g) ==
  /\ Fragment(g, FALSE, FALSE) # {} /\ (op.tensorA => Fragment(g, TRUE, op.transA) # {})
\* prepareSM90MmaCandidates
MmaProposals(op) ==
  {[role \in 1..4 |-> op.declared[role] \cup RoleProposals(op, g, role)] :
     g \in {x \in Geometry(op) : FragmentsExist(op, x)}}

FormOf(op) == IF op.tensorA THEN "rs" ELSE "ss"
PackingOf(form) == IF form = "rs" THEN "f16x2-low-high" ELSE "none"
MmaContract(op, g, plans) ==
  [target |-> "sm_90a", form |-> FormOf(op), input |-> op.input, accumulator |-> op.accumulator,
   atom |-> <<64, g.atomN, 16>>, grid |-> <<g.gM, g.gN>>,
   repeats |-> <<g.mRepeat, g.nRepeat, g.kRepeat>>, packing |-> PackingOf(FormOf(op)),
   plans |-> plans]
\* MmaInstructionContractAttr::verify
MmaContractVerify(c) ==
  /\ c.target # "" /\ c.form \in {"ss", "rs"} /\ c.packing = PackingOf(c.form)
  /\ \A n \in ToSet(c.atom \o c.grid \o c.repeats) : n > 0
  /\ c.plans[2] # {} /\ (c.form = "ss" <=> c.plans[1] # {})
  /\ \A plan \in c.plans[1] \cup c.plans[2] : PlanVerify(plan)

\* Both operands in one buffer: they agree about it.
OperandsAgree(op, e) ==
  \A a \in op.alias[1], b \in op.alias[2] : a.root = b.root =>
    ProveFootprints(BuildFootprint(a, e[1]), BuildFootprint(b, e[2])) = Proven
OperandVerified(op, g, role, c, plans) ==
  /\ role \in op.direct
  /\ \E info \in op.alias[role], plan \in plans :
       DescriptorVerified(OperandOf(op, g, role, info), c, plan)
\* verifySM90MmaContract, with the geometry that the operation has.
RolesVerified(op, g, e, c) ==
  /\ \A n \in op.explicitThreads : n = op.threads
  /\ c.grid = <<g.gM, g.gN>> /\ c.atom = <<64, g.atomN, 16>>
  /\ c.repeats = <<g.mRepeat, g.nRepeat, g.kRepeat>> /\ c.form = FormOf(op)
  /\ FragmentVerified(g, FALSE, FALSE, e[4]) /\ e[3] = e[4]
  /\ op.tensorA => FragmentVerified(g, TRUE, op.transA, e[1])
  /\ \A role \in BufferRoles(op) : OperandVerified(op, g, role, e[role], c.plans[role])
  /\ op.tensorA \/ OperandsAgree(op, e)
MmaVerified(op, e, c) ==
  /\ MmaContractVerify(c)
  /\ op.target = "sm_90a" /\ c.target = op.target
  /\ op.input \in {"f16", "bf16"} /\ op.accumulator = "f32"
  /\ c.input = op.input /\ c.accumulator = op.accumulator
  /\ \E g \in Geometry(op) : RolesVerified(op, g, e, c)

Decoded(op, g, role, c) ==
  UNION {DecodeDescriptor(OperandOf(op, g, role, info), c) :
           info \in {x \in op.alias[role] : IsStorage(c)}}
DecodedPlans(op, g, e) ==
  IF op.tensorA THEN {<<{}, {b}>> : b \in Decoded(op, g, 2, e[2])}
  ELSE {<<{a}, {b}>> : a \in Decoded(op, g, 1, e[1]), b \in Decoded(op, g, 2, e[2])}
\* buildSM90MmaContract: a binding that is given is taken or refused.
BuildMmaContract(op, e) ==
  {c \in op.binding \cup (IF op.binding # {} THEN {}
                          ELSE UNION {{MmaContract(op, g, plans) :
                                         plans \in DecodedPlans(op, g, e)} : g \in Geometry(op)}) :
     MmaVerified(op, e, c)}

-----------------------------------------------------------------------------
(* Reductions. *)

\* The nearest target of the scopes around it, or else the default one.
ReductionTarget(op) ==
  {t \in {IF op.target = "" THEN "sm_90" ELSE op.target} : t \in {"sm_90", "sm_90a"}}
ThreadsMatch(op, source, result) ==
  /\ op.threads = op.resultThreads
  /\ MatchesThreads(source, op.threads) /\ MatchesThreads(result, op.threads)
ReductionContract(op, target, scope) ==
  [target |-> target, reducer |-> op.reducer, axis |-> op.axis, dtype |-> op.dtype,
   source |-> op.source, result |-> op.result, threads |-> op.threads, scope |-> scope]
\* decodeCanonicalContract, which is what building returns and verifying expects.
BuildReductionContract(op, source, result) ==
  IF ~IsDistributed(source) \/ ~IsDistributed(result) \/ ~ThreadsMatch(op, source, result) THEN {}
  ELSE {ReductionContract(op, target, proof.scope) : target \in ReductionTarget(op),
          proof \in {p \in {BuildReductionProof(source, result, op.source, op.result, op.axis)} :
                       p.proof = Proven}}
ReductionVerified(op, source, result, c) == c \in BuildReductionContract(op, source, result)

-----------------------------------------------------------------------------
(* What is asked of the target, one subject at a time. *)

TargetInit == subject \in Subjects /\ proposals = <<>> /\ choice = <<>> /\ contract = {}

\* enumerateCandidates
EnumerateDefaults ==
  /\ subject.kind \in {"Distributed", "Storage"} /\ proposals = <<>>
  /\ proposals' = <<DefaultCandidates(subject)>>
  /\ UNCHANGED <<subject, choice, contract>>

\* prepareInstructionCandidates; the frozen domains of a reduction are given.
PrepareProduct ==
  /\ subject.kind = "product" /\ proposals = <<>>
  /\ proposals' \in MmaProposals(subject)
  /\ UNCHANGED <<subject, choice, contract>>
PrepareReduction ==
  /\ subject.kind = "reduction" /\ proposals = <<>>
  /\ proposals' = <<subject.sources, subject.results>>
  /\ UNCHANGED <<subject, choice, contract>>

\* buildInstructionContract and buildReductionContract, of one choice from the
\* domains; a role without a candidate admits none.
BuildProduct ==
  /\ subject.kind = "product" /\ Len(proposals) = 4 /\ choice = <<>>
  /\ \E a \in proposals[1], b \in proposals[2], init \in proposals[3], result \in proposals[4] :
       choice' = <<a, b, init, result>>
  /\ contract' = BuildMmaContract(subject, choice')
  /\ UNCHANGED <<subject, proposals>>
BuildReduction ==
  /\ subject.kind = "reduction" /\ Len(proposals) = 2 /\ choice = <<>>
  /\ \E source \in proposals[1], result \in proposals[2] : choice' = <<source, result>>
  /\ contract' = BuildReductionContract(subject, choice'[1], choice'[2])
  /\ UNCHANGED <<subject, proposals>>

TargetNext ==
  EnumerateDefaults \/ PrepareProduct \/ PrepareReduction \/ BuildProduct \/ BuildReduction
=============================================================================
