---------------------------- MODULE StorageAlias ----------------------------
(***************************************************************************)
(* Views of a buffer and the storage layouts proposed for them             *)
(* (LayoutAliasAnalysis.cpp).  A value is a root and the steps by which it *)
(* was viewed.  A view is described by its root and by one linear form in  *)
(* its own coordinates per root coordinate.  A candidate gives every live  *)
(* point of the view a byte and a bit counted from the pointer of the      *)
(* root, as a table.  Descriptors, maps and proofs that may fail to exist  *)
(* are sets: empty, or the one value.                                      *)
(***************************************************************************)
EXTENDS LayoutEncodings

CONSTANTS MaxPath,        \* the longest chain of views that is followed
          GlobalAccesses  \* the accesses of global buffers, in program order

Form(constant, coefficient) == [constant |-> constant, coefficient |-> coefficient]
Linear(forms, point) == [r \in DOMAIN forms |-> Value(forms[r], point)]
Axis(rank, d) == [k \in 1..rank |-> IF k = d THEN 1 ELSE 0]
IdentityForms(rank) == [d \in 1..rank |-> Form(0, Axis(rank, d))]
InShape(point, shape) == \A d \in DOMAIN shape : point[d] \in Bits(shape[d])

-----------------------------------------------------------------------------
(* The descriptor of a value. *)

\* A step keeps the element type and the space; a subview maps its retained
\* axes into the box of its source.
SubviewFits(step, shape) ==
  /\ Len(step.offsets) = Len(shape)
  /\ \A i \in DOMAIN shape :
       /\ step.offsets[i] >= 0 /\ step.sizes[i] > 0 /\ step.strides[i] > 0
       /\ step.offsets[i] + (step.sizes[i] - 1) * step.strides[i] < shape[i]
       /\ i \in step.dropped => step.sizes[i] = 1
SubviewOf(base, step) ==
  LET kept == SelectSeq([i \in DOMAIN step.sizes |-> i], LAMBDA i : i \notin step.dropped)
      rank == Len(kept)
      position == [i \in DOMAIN step.sizes |->
                     IF i \in step.dropped THEN 0 ELSE CHOOSE k \in DOMAIN kept : kept[k] = i]
      forms == [i \in DOMAIN step.sizes |->
                  Form(step.offsets[i],
                       [k \in 1..rank |-> IF position[i] = k THEN step.strides[i] ELSE 0])]
  IN  [base EXCEPT !.shape = Selected(step.sizes, kept),
                   !.transform = [r \in DOMAIN @ |-> Substituted(@[r], forms)]]

Stepped(base, step) ==
  LET next == IF step.op = "subview" THEN SubviewOf(base, step) ELSE base
  IN  IF \/ step.type.bits # base.type.bits \/ step.type.space # base.type.space
         \/ step.op = "subview" /\ ~SubviewFits(step, base.shape)
         \/ Len(step.type.shape) # Len(next.shape)
         \/ \E d \in DOMAIN next.shape : step.type.shape[d] \notin {Dynamic, next.shape[d]}
      THEN {} ELSE {[next EXCEPT !.type = step.type]}

\* Accesses of one global are one root: the first of them in the program.
FirstAccess(root) ==
  IF root.kind # "global" THEN root
  ELSE GlobalAccesses[Min({i \in DOMAIN GlobalAccesses :
                             GlobalAccesses[i].symbol = root.symbol})]
RootKinds == {"alloc", "alloca", "global", "entry_argument"}

Normalized(value) ==
  LET root == FirstAccess(value.root)
      start == [root |-> root, type |-> root.type, shape |-> root.type.shape,
                transform |-> IdentityForms(Len(root.type.shape))]
  IN  IF \/ Len(value.steps) > MaxPath \/ value.root.kind \notin RootKinds
         \/ root.type # value.root.type
         \/ \E d \in DOMAIN root.type.shape : root.type.shape[d] <= 0
      THEN {}
      ELSE FoldLeft(LAMBDA found, step : UNION {Stepped(base, step) : base \in found},
                    {start}, value.steps)

ElementOf(type, point) ==
  type.offset + Sum([d \in DOMAIN point |-> point[d] * type.strides[d]])
LastElement(type) == ElementOf(type, [d \in DOMAIN type.shape |-> type.shape[d] - 1])

\* No two elements of a root share an address: shown axis by axis from the
\* smallest stride on, or else point by point.
NestedStrides(type) ==
  LET wide == SetToSeq({d \in DOMAIN type.shape : type.shape[d] > 1})
      axes == SortSeq(wide, LAMBDA a, b : type.strides[a] < type.strides[b])
      Occupied(i) == 1 + Sum([k \in 1..(i - 1) |->
                                (type.shape[axes[k]] - 1) * type.strides[axes[k]]])
  IN  \A i \in DOMAIN axes : type.strides[axes[i]] >= Occupied(i)
DistinctElements(type) ==
  /\ PointCount(type.shape) # {}
  /\ \A p, q \in Points(type.shape) : ElementOf(type, p) = ElementOf(type, q) => p = q

RootAlignment(root) ==
  IF root.kind # "entry_argument" /\ root.alignment > 0 /\ IsPowerOf2(root.alignment)
  THEN root.alignment ELSE 1

\* analyzeStorageAlias
Analyzed(value, viewType) ==
  LET Accepted(n) ==
        LET type == n.root.type
        IN  /\ type.offset >= 0 /\ type.bits > 0
            /\ \A d \in DOMAIN type.shape : type.strides[d] > 0
            /\ LastElement(type) < MaxInt /\ (LastElement(type) + 1) * type.bits <= MaxInt
            /\ NestedStrides(type) \/ DistinctElements(type)
      Described(n) ==
        [root |-> n.root.id, rootType |-> n.root.type, viewType |-> viewType,
         viewToRoot |-> n.transform,
         lowerBit |-> n.root.type.offset * n.root.type.bits,
         upperBit |-> (LastElement(n.root.type) + 1) * n.root.type.bits,
         rootAlignment |-> RootAlignment(n.root)]
  IN  IF Dynamic \in ToSet(viewType.shape) THEN {}
      ELSE {Described(n) : n \in {x \in Normalized(value) : Accepted(x)}}

-----------------------------------------------------------------------------
(* The footprint of a candidate. *)

\* Any map of the layout attributes as a table of addresses.
AsAffine(m) ==
  IF m.kind = "table" THEN {m}
  ELSE {[kind |-> "table", inputExtents |-> d, outputs |-> OutputsOf(m), outputExtents |-> e,
         address |-> [p \in Points(d) |-> CHOOSE out \in Evaluate(m, p) : TRUE]] :
          d \in {x \in StaticDomain(m) : m.kind # "product" /\ Evaluable(m, x)},
          e \in OutputExtents(m)}

BitOf(address) == 8 * address[1] + address[2]
Entry(info, map, i) ==
  LET view == PointAt(info.viewType.shape, i - 1)
      begin == BitOf(map.address[view])
  IN  [view |-> view, root |-> Linear(info.viewToRoot, view),
       begin |-> begin, end |-> begin + info.viewType.bits]

\* Each point in order: inside the root, apart from the earlier ones, at an
\* address the map declares and the root can hold.
PointRefused(info, map, e) ==
  \/ ~InShape(e.root, info.rootType.shape)
  \/ map.address[e.view][1] < 0 \/ map.address[e.view][2] \notin Bits(8)
  \/ ~InShape(map.address[e.view], map.outputExtents)
  \/ e.begin < info.lowerBit \/ e.end > info.upperBit
RepeatedPoints(entries) ==
  IF Cardinality({entries[i].root : i \in DOMAIN entries}) = Len(entries) THEN {}
  ELSE {i \in DOMAIN entries : \E k \in 1..(i - 1) : entries[k].root = entries[i].root}
RefusedPoints(info, map, entries) ==
  RepeatedPoints(entries) \cup {i \in DOMAIN entries : PointRefused(info, map, entries[i])}

\* A vector granularity above one promises aligned, contiguous chunks of rows.
ChunkHolds(entries, first, i, bits, vector) ==
  /\ entries[first].begin % (8 * vector) = 0
  /\ entries[i].begin = entries[first].begin + (i - first) * bits
VectorHolds(info, entries, vector) ==
  LET bits == info.viewType.bits
      shape == info.viewType.shape
      row == IF shape = <<>> THEN 1 ELSE shape[Len(shape)]
  IN  \/ vector = 1
      \/ /\ bits % 8 = 0
         /\ IF bits \div 8 >= vector
            THEN \A i \in DOMAIN entries :
                   (bits \div 8) % vector = 0 /\ entries[i].begin % (8 * vector) = 0
            ELSE LET count == vector \div (bits \div 8)
                 IN  /\ vector % (bits \div 8) = 0 /\ row % count = 0
                     /\ \A i \in DOMAIN entries :
                          ChunkHolds(entries, ((i - 1) \div count) * count + 1, i, bits, vector)

ByBegin(entries) == Sorted(entries, [i \in DOMAIN entries |-> entries[i].begin])
Overlapping(sorted) == \E i \in 2..Len(sorted) : sorted[i].begin < sorted[i - 1].end

AlignmentHolds(info, candidate) ==
  /\ IsPowerOf2(candidate.alignment) /\ IsPowerOf2(candidate.vector)
  /\ candidate.vector <= candidate.alignment
  /\ candidate.alignment <= info.rootAlignment /\ info.rootAlignment % candidate.alignment = 0

Footprint(info, proof, entries) ==
  [root |-> info.root, rootType |-> info.rootType, proof |-> proof, entries |-> entries]
\* indexCandidate and buildStorageAliasFootprint: only a proof keeps entries.
Unindexed(info, proof) == Footprint(info, proof, <<>>)
SortedFootprint(info, sorted) ==
  IF Overlapping(sorted) THEN Unindexed(info, Disproven(<<>>)) ELSE Footprint(info, Proven, sorted)
Judged(info, candidate, entries, bad) ==
  IF bad # {} THEN Unindexed(info, Disproven(entries[Min(bad)].view))
  ELSE IF ~VectorHolds(info, entries, candidate.vector) THEN Unindexed(info, Disproven(<<>>))
  ELSE SortedFootprint(info, ByBegin(entries))
JudgedEntries(info, candidate, map, entries) ==
  Judged(info, candidate, entries, RefusedPoints(info, map, entries))
Indexed(info, candidate, map) ==
  IF map.inputExtents # info.viewType.shape \/ map.outputs # <<"byte_offset", "bit_offset">>
  THEN Unindexed(info, Disproven(<<>>))
  ELSE JudgedEntries(info, candidate, map,
                     [i \in 1..Product(info.viewType.shape) |-> Entry(info, map, i)])
IndexedUnder(info, candidate, maps) ==
  IF maps = {} THEN Unindexed(info, Unknown)
  ELSE Indexed(info, candidate, CHOOSE map \in maps : TRUE)
BuildFootprint(info, candidate) ==
  IF \/ PointCount(info.viewType.shape) = {} \/ info.rootType.bits # info.viewType.bits
     \/ info.rootType.space # info.viewType.space THEN Unindexed(info, Unknown)
  ELSE IF info.viewType.space # candidate.space \/ ~AlignmentHolds(info, candidate)
  THEN Unindexed(info, Disproven(<<>>))
  ELSE IndexedUnder(info, candidate, AsAffine(candidate.map))

Verified(info, candidate) == BuildFootprint(info, candidate).proof = Proven

-----------------------------------------------------------------------------
(* Two footprints of one root. *)

\* Both lists advance together.
AdvancedInStep(x, y) == <<1, 1>>
\* The interval that ends first is done with.
Advanced(x, y) == IF x.end <= y.end THEN <<1, 0>> ELSE <<0, 1>>
\* Two lists of intervals, each ordered and disjoint, in one pass: none meets
\* another, unless that one is of the same root coordinate and this is tolerated.
Sweep(xs, ys, tolerated) ==
  LET Meeting(x, y) == /\ x.begin < y.end /\ y.begin < x.end
                       /\ ~(tolerated /\ x.root = y.root)
      clear[p \in (1..Len(xs) + 1) \X (1..Len(ys) + 1)] ==
        IF p[1] > Len(xs) \/ p[2] > Len(ys) THEN TRUE
        ELSE LET x == xs[p[1]]
                 y == ys[p[2]]
             IN  ~Meeting(x, y) /\ clear[<<p[1] + Advanced(x, y)[1], p[2] + Advanced(x, y)[2]>>]
  IN  clear[<<1, 1>>]
SameCoordinateMoves(x, y) ==
  \E i \in DOMAIN x.entries, j \in DOMAIN y.entries :
    x.entries[i].begin # y.entries[j].begin /\ x.entries[i].root = y.entries[j].root
ProveFootprints(x, y) ==
  IF x.root # y.root \/ x.rootType # y.rootType THEN Unknown
  ELSE IF x.proof # Proven THEN x.proof
  ELSE IF y.proof # Proven THEN y.proof
  ELSE IF \/ SameCoordinateMoves(x, y)
          \/ ~Sweep(x.entries, y.entries, TRUE)
  THEN Disproven(<<>>) ELSE Proven

-----------------------------------------------------------------------------
(* Candidates from candidates. *)

Table(info, address) ==
  [kind |-> "table", inputExtents |-> info.viewType.shape,
   outputs |-> <<"byte_offset", "bit_offset">>,
   outputExtents |-> <<(info.upperBit + 7) \div 8, 8>>, address |-> address]
MakeLayout(info, address, alignment, vector) ==
  [map |-> Table(info, address), space |-> info.viewType.space,
   alignment |-> alignment, vector |-> vector]
At(bit) == <<bit \div 8, bit % 8>>

RootLinear(info) ==
  IF \/ info.viewType # info.rootType \/ info.rootType.space = "local"
     \/ info.viewToRoot # IdentityForms(Len(info.rootType.shape))
  THEN {}
  ELSE {MakeLayout(info, [p \in Points(info.rootType.shape) |->
                            At(ElementOf(info.rootType, p) * info.rootType.bits)],
                   info.rootAlignment, 1)}

\* evaluateStorageViewCoordinates
ViewCoordinates(info, point) ==
  {r \in {Linear(info.viewToRoot, point)} :
     /\ Len(point) = Len(info.viewType.shape) /\ InShape(point, info.viewType.shape)
     /\ InShape(r, info.rootType.shape)}

\* The coordinates of the source at which a destination point is seen: every
\* source axis runs along one root axis, in steps of its stride.
RootAxes(source, s) == {r \in DOMAIN source.viewToRoot :
                          source.viewToRoot[r].coefficient[s] # 0}
Embedding(source, destination, point) ==
  LET target == Linear(destination.viewToRoot, point)
      Along(s) == CHOOSE r \in RootAxes(source, s) : TRUE
      Origin(r) == source.viewToRoot[r].constant
      Stride(s) == source.viewToRoot[Along(s)].coefficient[s]
  IN  [s \in DOMAIN source.viewType.shape |->
         (target[Along(s)] - Origin(Along(s))) \div Stride(s)]
\* A point off the lattice of the source rounds to one that is not its preimage.
Embedded(source, destination) ==
  /\ \A s \in DOMAIN source.viewType.shape : Cardinality(RootAxes(source, s)) = 1
  /\ \A p \in Points(destination.viewType.shape) :
       LET q == Embedding(source, destination, p)
       IN  /\ InShape(q, source.viewType.shape)
           /\ Linear(source.viewToRoot, q) = Linear(destination.viewToRoot, p)

Restricted(source, destination, map, alignment, v) ==
  MakeLayout(destination,
             [p \in Points(destination.viewType.shape) |->
                map.address[Embedding(source, destination, p)]], alignment, v)
\* The widest vector under which a layout of the view is still accepted.
Widest(layouts) == {c \in layouts : \A d \in layouts : d.vector <= c.vector}
RestrictedTo(source, candidate, destination, alignment) ==
  Widest({c \in {Restricted(source, destination, map, alignment, v) :
                   map \in AsAffine(candidate.map),
                   v \in {w \in 1..Min({candidate.vector, alignment}) : IsPowerOf2(w)}} :
            Verified(destination, c)})
SameView(source, destination) ==
  /\ source.viewType.shape = destination.viewType.shape
  /\ source.viewToRoot = destination.viewToRoot
ProjectAlias(source, candidate, destination) ==
  IF \/ source.root # destination.root \/ source.rootType # destination.rootType
     \/ ~Verified(source, candidate)
  THEN {}
  ELSE IF SameView(source, destination) /\ Verified(destination, candidate) THEN {candidate}
  ELSE IF PointCount(destination.viewType.shape) = {} \/ ~Embedded(source, destination) THEN {}
  ELSE RestrictedTo(source, candidate, destination,
                    Min({candidate.alignment, destination.rootAlignment}))

\* The shape of a layout moved to where the destination view begins.
FirstBit(info) ==
  ElementOf(info.rootType, Linear(info.viewToRoot, [d \in DOMAIN info.viewType.shape |-> 0]))
    * info.viewType.bits
MovedBy(map, destination, alignment, delta) ==
  MakeLayout(destination,
             [p \in Points(destination.viewType.shape) |-> At(BitOf(map.address[p]) + delta)],
             alignment, 1)
MovedFrom(footprint, candidate, destination) ==
  IF footprint.proof # Proven THEN {}
  ELSE {MovedBy(map, destination, Min({candidate.alignment, destination.rootAlignment}),
                FirstBit(destination) - footprint.entries[1].begin) :
          map \in AsAffine(candidate.map)}
RebaseCopy(source, candidate, destination) ==
  IF \/ source.viewType.shape # destination.viewType.shape
     \/ source.viewType.bits # destination.viewType.bits
  THEN {}
  ELSE {r \in MovedFrom(BuildFootprint(source, candidate), candidate, destination) :
          Verified(destination, r)}
=============================================================================
