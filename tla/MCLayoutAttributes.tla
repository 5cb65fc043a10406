------------------------- MODULE MCLayoutAttributes -------------------------
(***************************************************************************)
(* Every linear map from four registers and two lanes to two rows and two  *)
(* columns, some larger ones, affine maps and a product, and of both kinds *)
(* maps on both sides of the limit on points to enumerate; every legacy    *)
(* layout of a tile of two by two over two lanes, some over more warps,    *)
(* and legacy storage layouts by rows, by columns, padded and permuted.    *)
(***************************************************************************)
EXTENDS LayoutAttributes

BitMap(inputs, inputWidths, outputs, outputWidths, rows) ==
  [kind |-> "bits", inputs |-> inputs, inputWidths |-> inputWidths, outputs |-> outputs,
   outputWidths |-> outputWidths, matrix |-> Matrix(rows, Sum(inputWidths))]
Tile(rows) == BitMap(<<"register", "lane">>, <<2, 1>>, <<"row", "col">>, <<1, 1>>, rows)
Tiles == {Tile(<<a, b>>) : a \in SUBSET (0..2), b \in SUBSET (0..2)}
Wide(rows) ==
  BitMap(<<"register", "lane", "warp">>, <<2, 1, 1>>, <<"row", "col">>, <<2, 1>>, rows)
Wides == {Wide(<<{0}, {2}, {1}>>), Wide(<<{2}, {3}, {0}>>), Wide(<<{0, 2}, {0, 1}, {2}>>),
          Wide(<<{0, 3}, {2}, {1, 3}>>), Wide(<<{0}, {1}, {0, 1}>>)}

Form(constant, coefficient) == [constant |-> constant, coefficient |-> coefficient]
Affine(inputs, inputExtents, outputs, outputExtents, results) ==
  [kind |-> "affine", inputs |-> inputs, inputExtents |-> inputExtents, outputs |-> outputs,
   outputExtents |-> outputExtents, results |-> results,
   symbols |-> Cardinality({i \in DOMAIN inputExtents : inputExtents[i] = Dynamic})]
Skewed == Affine(<<"i", "j">>, <<2, 3>>, <<"j", "i">>, <<3, 2>>, <<Form(0, <<0, 1>>), Form(0, <<1, 0>>)>>)
Flat == Affine(<<"i", "j">>, <<2, 3>>, <<"x">>, <<6>>, <<Form(0, <<3, 1>>)>>)
Sparse == Affine(<<"i", "j">>, <<2, 3>>, <<"x", "y">>, <<4, 3>>, <<Form(0, <<2, 0>>), Form(2, <<0, -1>>)>>)
Folded == Affine(<<"i", "j">>, <<2, 3>>, <<"x">>, <<4>>, <<Form(0, <<1, 1>>)>>)
Unbounded == Affine(<<"i", "j">>, <<Dynamic, 3>>, <<"x">>, <<Dynamic>>, <<Form(0, <<3, 1>>)>>)
\* Beyond the enumeration limit, or one row below it.
Swapped(rows) == Affine(<<"i", "j">>, <<rows, 6>>, <<"j", "i">>, <<6, 6>>, <<Form(0, <<0, 1>>), Form(0, <<1, 0>>)>>)
Affines == {Skewed, Flat, Sparse, Folded, Unbounded, Swapped(5), Swapped(6)}
Broads == {BitMap(<<"a", "b">>, <<3, 3>>, <<"x">>, <<6>>, <<{0}, {1}, {2}, {3}, {4}, top>>) : top \in {{5}, {0, 4}}}

Inner(rows) == BitMap(<<"u", "v">>, <<1, 1>>, <<"x", "y">>, <<1, 1>>, rows)
Outer(a, b) == Affine(<<"i">>, <<2>>, <<"x", "y">>, <<4, 4>>, <<Form(0, <<a>>), Form(0, <<b>>)>>)
Joined(outer, inner) == [kind |-> "product", outer |-> outer, inner |-> inner, splits |-> <<2, 2>>]
Products == {Joined(Outer(2, 0), Inner(<<{0}, {1}>>)), Joined(Outer(2, 2), Inner(<<{1}, {0, 1}>>))}
PartProduct == Joined(Affine(<<"y", "x">>, <<4, 4>>, <<"x", "y">>, <<4, 4>>,
                             <<Form(0, <<2, 0>>), Form(0, <<0, 2>>)>>),
                      BitMap(<<"y", "x">>, <<1, 1>>, <<"x", "y">>, <<1, 1>>, <<{0}, {1}>>))

MCMaps == Tiles \cup Wides \cup Broads \cup Affines \cup Products
MCPartners ==
  {BitMap(<<"a", "b">>, <<1, 2>>, <<"lane", "register">>, <<1, 2>>, <<{1}, {0, 2}, {1}>>),
   BitMap(<<"col", "row">>, <<1, 1>>, <<"y", "x">>, <<1, 1>>, <<{0}, {0, 1}>>),
   Skewed, Flat, PartProduct}

-----------------------------------------------------------------------------
TypeOf(shape, bits) ==
  [shape |-> shape, bits |-> bits, space |-> "shared", offset |-> 0,
   strides |-> [d \in DOMAIN shape |-> Product(SubSeq(shape, d + 1, Len(shape)))]]
Legacy(shape, index, thread, replication) ==
  [shape |-> shape, index |-> index, thread |-> thread, replication |-> replication]
Square == Points(<<2, 2>>)
Ones(f) == [p \in DOMAIN f |-> <<f[p]>>]
Scattered(registers, threads, copies) ==
  {[layout |-> Legacy(<<2, 2>>, Ones(r), {t}, {n}), type |-> TypeOf(<<2, 2>>, 8)] :
     r \in [Square -> 0..registers], t \in [Square -> 0..threads], n \in copies}
\* Sixteen elements over four lanes times warps, and eight over eight.
Spread(shape, Register(_), Thread(_), copies) ==
  {[layout |-> Legacy(shape, [p \in Points(shape) |-> <<Register(p)>>],
                      {[p \in Points(shape) |-> Thread(p)]}, {n}), type |-> TypeOf(shape, 8)] :
     n \in copies}
Spreads == Spread(<<4, 2>>, LAMBDA p : p[2], LAMBDA p : p[1], {1, 2, 4, 8})
           \cup Spread(<<4, 2>>, LAMBDA p : 0, LAMBDA p : 4 * p[2] + p[1], {1, 2})
           \cup Spread(<<4, 2>>, LAMBDA p : 0, LAMBDA p : (2 * p[1] + 3 * p[2]) % 8, {1})
           \cup Spread(<<4, 4>>, LAMBDA p : 0, LAMBDA p : p[1] + 4 * p[2], {1, 2})
           \cup Spread(<<3, 2>>, LAMBDA p : p[1], LAMBDA p : p[2], {1})
Placed(shape, bits, Index(_)) ==
  [layout |-> Legacy(shape, [p \in Points(shape) |-> Index(p)], {}, {}), type |-> TypeOf(shape, bits)]
Storages == {[layout |-> Legacy(<<2, 2>>, Ones(r), {}, {}), type |-> TypeOf(<<2, 2>>, bits)] :
               r \in [Square -> 0..3], bits \in {4, 8, 12}}
            \cup {Placed(<<3, 2>>, 16, LAMBDA p : <<2 * p[1] + p[2]>>),
                  Placed(<<3, 2>>, 16, LAMBDA p : <<p[2], p[1]>>),
                  Placed(<<4, 2>>, 8, LAMBDA p : <<p[2], p[1]>>),
                  Placed(<<4, 2>>, 8, LAMBDA p : <<3 * p[1] + p[2]>>),
                  Placed(<<2, 2>>, 8, LAMBDA p : <<5 + 2 * p[1] + p[2]>>)}
MCImports == Scattered(1, 1, {1, 2, 3, 8}) \cup Scattered(0, 3, {1}) \cup Spreads \cup Storages

-----------------------------------------------------------------------------
Coordinate(m, out, name) == out[CHOOSE o \in DOMAIN out : OutputsOf(m)[o] = name]
Domains(m) == StaticDomain(m)
\* The value of l at the outputs of r at p, matched by name.
Through(l, r, p) ==
  UNION {Evaluate(l, [i \in DOMAIN InputsOf(l) |-> Coordinate(r, out, InputsOf(l)[i])]) :
           out \in Evaluate(r, p)}
IsComposition(c, l, r) ==
  /\ OutputsOf(c) = OutputsOf(l) /\ InputsOf(c) = InputsOf(r)
  /\ \A d \in StaticDomain(r) : \A p \in Points(d) : Evaluate(c, p) = Through(l, r, p)
\* The two parts of a product are composed each by itself.
PartsCompose(c, l, r) ==
  IF l.kind # "product" THEN IsComposition(c, l, r)
  ELSE IsComposition(c.outer, l.outer, r.outer) /\ IsComposition(c.inner, l.inner, r.inner)
Restricts(c, m, names) ==
  /\ OutputsOf(c) = names
  /\ \A d \in StaticDomain(m) : \A p \in Points(d) : \A out \in Evaluate(m, p) :
       Evaluate(c, p) = {[i \in DOMAIN names |-> Coordinate(m, out, names[i])]}

\* Editing a map does to its values what it says: a composition evaluates to
\* one map at the outputs of the other, matched by name whatever order either
\* lists them in, a projection or permutation to the named outputs, and the
\* canonical form to the same (FriskLayoutAttrs.cpp:220-262, 816-1012).
MeaningKept ==
  [][/\ \A r \in Partners : ComposeWith(r) =>
          \A m \in map, c \in map' : PartsCompose(c, m, r)
     /\ \A l \in Partners : ComposeUnder(l) =>
          \A m \in map, c \in map' : PartsCompose(c, l, m)
     /\ \A m \in map : \A names \in Requests(m) :
          ProjectTo(names) \/ PermuteTo(names) => \A c \in map' : Restricts(c, m, names)
     /\ Canonicalize => \A m \in map, c \in map' : Restricts(c, m, OutputsOf(m))]_editVars

\* Shapes to ask about: the whole one, and one with one point less on an axis.
Shapes(whole) == {whole} \cup {[whole EXCEPT ![d] = @ - 1] : d \in {x \in DOMAIN whole : whole[x] > 1}}
SameImage(m, p, q) == p # q /\ Evaluate(m, p) = Evaluate(m, q)
InjectivityTrue(m, d, verdict) ==
  CASE verdict.status = "Proven" -> Cardinality({x[2] : x \in Values(m, d)}) = Product(d)
    [] verdict.status = "Disproven" -> \E q \in Points(d) : SameImage(m, verdict.point, q)
    [] verdict.status = "Unknown" -> Product(d) > EnumerationLimit
CoverageTrue(m, s, verdict, image) ==
  CASE verdict.status = "Proven" -> Points(s) \subseteq image
    [] verdict.status = "Disproven" -> verdict.point \in Points(s) \ image
    [] verdict.status = "Unknown" ->
         \E d \in StaticDomain(m) \cup {s} : Product(d) > EnumerationLimit

\* Verdicts are what enumeration says, and a refutation comes with a point that
\* refutes; the rank, kernel and inverses behind them are those of the matrix
\* (FriskLayoutAttrs.cpp:395-416, 1014-1098; LayoutAlgebra.cpp:15-164).
VerdictsAreTrue ==
  \A m \in map :
    /\ m.kind = "bits" => Solves(m.matrix)
    /\ \A whole \in StaticDomain(m) : \A d \in Shapes(whole) :
         InjectivityTrue(m, d, CheckInjectivity(m, d))
    /\ \A whole \in OutputExtents(m) : \A s \in Shapes(whole) :
         CoverageTrue(m, s, CheckCoverage(m, s), UNION {ImageOf(m, d) : d \in StaticDomain(m)})

-----------------------------------------------------------------------------
\* The encodings a map may be part of: another carrier may copy everything.
TopologyOf(m, extra) ==
  [c \in DOMAIN Carriers |->
     IF Find(m.inputs, Carriers[c]) # {}
     THEN 2 ^ m.inputWidths[CHOOSE i \in DOMAIN m.inputs : m.inputs[i] = Carriers[c]]
     ELSE IF c = extra THEN 2 ELSE 1]
Encodings(m) ==
  IF m.kind # "bits" \/ ~(ToSet(m.inputs) \subseteq ToSet(Carriers)) THEN {}
  ELSE {e \in {[map |-> m, topology |-> TopologyOf(m, extra), replication |-> n] :
                 extra \in {0, 3, 5}, n \in {1, 2, 4}} : EncodingVerify(e)}
ShapeOf(m) == Extents(m.outputWidths)
Held(e, shape) == {<<h, ElementAt(e, shape, h)>> : h \in Bits(Product(e.topology))}
HeldBy(held, x) == {y[1] : y \in {z \in held : z[2] = x}}
Fitting == UNION {{e \in Encodings(m) : EncodingFits(e, ShapeOf(m))} : m \in map}

OwnershipDecided(e, shape, fits, held) ==
  /\ fits <=> \A x \in Bits(Product(shape)) : Cardinality(HeldBy(held, x)) = e.replication
  /\ fits <=> EnumerateLayout(e, shape).proof = Proven
  /\ (fits /\ e.replication = 1) <=> ExecutionOwnership(e, shape, "all") = Proven

\* The rank of a matrix decides ownership: an encoding fits a tile exactly when
\* each element is held by as many registers as it is said to be copied, and
\* exactly when the enumeration of all hardware points proves it
\* (FriskLayoutAttrs.cpp:1243-1303, ExecutionLayoutProof.cpp:20-124).
FitsIsOwnership ==
  \A m \in map : \A e \in Encodings(m) :
    OwnershipDecided(e, ShapeOf(m), EncodingFits(e, ShapeOf(m)), Held(e, ShapeOf(m)))

ThreadOf(e, h) == Tail(Reverse(HardwarePoint(e.topology, h)))
Reducible(e, axis) == ReductionTypes(ShapeOf(e.map), Without(ShapeOf(e.map), axis), axis)
Target(e, axis, x) ==
  FlatOf(Without(ShapeOf(e.map), axis), Without(PointAt(ShapeOf(e.map), x), axis))

Own(e, held, t) == {x \in held : ThreadOf(e, x[1]) = t}
Elements(held) == {x[2] : x \in held}
\* What a thread holds of the result, against what it holds of the source.
SameThread(e, axis, mine, before) ==
  /\ Elements(mine) = {Target(e, axis, x) : x \in Elements(before)}
  /\ Cardinality(mine) = Cardinality(Elements(mine))
StaysLocal(e, axis, before, r, after) ==
  \A t \in {ThreadOf(e, x[1]) : x \in before} :
    SameThread(e, axis, Own(r, after, t), Own(e, before, t))
ProjectedLocally(e, axis, src, dst, results) ==
  results # {} /\ \A r \in results : StaysLocal(e, axis, Held(e, src), r, Held(r, dst))

\* The result of a reduction lives where its source does: it can always be
\* encoded, every thread holds exactly the results of the elements it holds,
\* and none of them in two registers (ReductionLayoutProof.cpp:52-88).
ProjectionIsLocal ==
  \A e \in Fitting : \A axis \in {x \in {1, 2} : Reducible(e, x)} :
    ProjectedLocally(e, axis, ShapeOf(e.map), Without(ShapeOf(e.map), axis),
                     ProjectReduction(e, ShapeOf(e.map), Without(ShapeOf(e.map), axis), axis))

\* The nodes a sum is made of, each as often as it is used.
Uses(nodes) ==
  LET used[k \in 0..Len(nodes)] ==
        IF k = 0 THEN <<>>
        ELSE IF nodes[k].left = 0 THEN used[k - 1]
        ELSE used[k - 1] \o <<nodes[k].left, nodes[k].right>>
  IN  used[Len(nodes)]

LeavesOf(nodes) == {k \in DOMAIN nodes : nodes[k].left = 0}
\* Every node but the root is used once, and the leaves are the elements, each
\* where one of its holders is.
AddsEach(nodes, root, leaves, used, elements, e, sources) ==
  /\ Unique(used) /\ ToSet(used) = DOMAIN nodes \ {root}
  /\ Cardinality(leaves) = Cardinality(elements) /\ {nodes[k].logical : k \in leaves} = elements
  /\ \A k \in leaves : \E h \in HeldBy(sources, nodes[k].logical) :
       nodes[k].holder = HardwarePoint(e.topology, h)
HandsOut(fiber, scope, holders) ==
  /\ ToSet(fiber.broadcasts) = holders
  /\ scope = "register" => fiber.nodes[fiber.root].holder \in holders
FiberSumsOnce(fiber, scope, elements, e, sources, holders) ==
  /\ AddsEach(fiber.nodes, fiber.root, LeavesOf(fiber.nodes), Uses(fiber.nodes), elements, e, sources)
  /\ HandsOut(fiber, scope, holders)
SumsOnce(e, r, axis, proof, sources, results, src) ==
  /\ proof.proof = Proven
  /\ \A y \in DOMAIN proof.fibers :
       FiberSumsOnce(proof.fibers[y], proof.scope,
                     {x \in Bits(Product(src)) : Target(e, axis, x) = y}, e, sources,
                     {HardwarePoint(r.topology, h) : h \in HeldBy(results, y)})
Recorded(e, r, src, dst, axis, proof) ==
  /\ VerifyReductionProof(e, r, src, dst, axis, proof) = Proven
  /\ SumsOnce(e, r, axis, proof, Held(e, src), Held(r, dst), src)
SummedInto(e, src, dst, axis) ==
  \A r \in ProjectReduction(e, src, dst, axis) :
    Recorded(e, r, src, dst, axis, BuildReductionProof(e, r, src, dst, axis))

\* A reduction that is declared possible adds every element of a fiber exactly
\* once, from one of its holders, and hands the sum to every holder of the
\* result; no edge of a tree leaves the scope that is recorded, and the record
\* is accepted when it is checked again (ReductionLayoutProof.cpp:90-156).
TreesSumOnce ==
  \A e \in {x \in Fitting : x.topology[5] = 1} : \A axis \in {x \in {1, 2} : Reducible(e, x)} :
    SummedInto(e, ShapeOf(e.map), Without(ShapeOf(e.map), axis), axis)

-----------------------------------------------------------------------------
\* The bits of the place of an element: its register, then its thread.
Place(x, p) == <<x.layout.index[p][1], (CHOOSE t \in x.layout.thread : TRUE)[p]>>
Highest(x, i) == Max({Place(x, p)[i] : p \in Points(x.type.shape)})
\* A bijection onto a rectangle of registers and threads that is linear in bits.
IsLinear(x) ==
  LET shape == x.type.shape
      image == {Place(x, p) : p \in Points(shape)}
  IN  /\ Widths(shape) # {} /\ Cardinality(image) = Product(shape)
      /\ IsPowerOf2(Highest(x, 1) + 1) /\ IsPowerOf2(Highest(x, 2) + 1)
      /\ image = (0..Highest(x, 1)) \X (0..Highest(x, 2))
      /\ \A w \in Widths(shape) : \A p, q, s \in Points(shape) :
           Packed(s, w) = SymDiff(Packed(p, w), Packed(q, w)) =>
             Packed(Place(x, s), <<8, 8>>)
               = SymDiff(Packed(Place(x, p), <<8, 8>>), Packed(Place(x, q), <<8, 8>>))

SamePlace(x, e, place, holders) ==
  /\ Cardinality(holders) = e.replication
  /\ \E h \in holders : h[5] = place[1] /\ h[4] = place[2] % MaxLanes
SamePlaces(x, e, held) ==
  \A p \in Points(x.type.shape) :
    SamePlace(x, e, Place(x, p),
              {HardwarePoint(e.topology, h) : h \in HeldBy(held, FlatOf(x.type.shape, p))})
StorageFaithful(x) ==
  \A s \in encoding :
    /\ VerifyLegacyStorage(x.layout, s, x.type)
    /\ \A p, q \in Points(x.type.shape) : p # q => x.layout.index[p] # x.layout.index[q]
DistributedFaithful(x) ==
  /\ \A e \in encoding : /\ VerifyLegacyDistributed(x.layout, e, x.type)
                         /\ SamePlaces(x, e, Held(e, x.type.shape))
  /\ (IsLinear(x) /\ Highest(x, 2) + 1 >= MaxLanes
        /\ \A n \in x.layout.replication : IsPowerOf2(n)) => encoding # {}

\* A legacy layout is taken over only when it means the same afterwards, at
\* every element and for every copy, and the check made afterwards agrees; the
\* linear ones, over whole warps, are all taken over
\* (LegacyLayoutAdapter.cpp:348-616).
ImportsAreFaithful ==
  \A x \in {y \in legacy : edits = 1} :
    IF x.layout.thread = {} THEN StorageFaithful(x) ELSE DistributedFaithful(x)
=============================================================================
