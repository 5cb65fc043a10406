--------------------------- MODULE LayoutEncodings ---------------------------
(***************************************************************************)
(* Verdicts about layout maps and the two encodings built on them          *)
(* (FriskLayoutAttrs.cpp): a distributed encoding says which register of   *)
(* which thread holds an element, a storage layout at which bit of a       *)
(* buffer it starts.  A verdict has a status and a point that refutes.     *)
(***************************************************************************)
EXTENDS LayoutMaps

CONSTANT MaxLanes  \* the lanes of a warp

ASSUME LanesAssumption == MaxLanes \in Nat \ {0}

Verdict(status, point) == [status |-> status, point |-> point]
Proven == Verdict("Proven", <<>>)
Unknown == Verdict("Unknown", <<>>)
Disproven(point) == Verdict("Disproven", point)

\* All points of a shape of bounded size can be evaluated, to so many outputs.
Evaluable(m, shape) ==
  PointCount(shape) # {} /\ \A p \in Points(shape) : Evaluate(m, p) # {}
ImageOf(m, shape) == UNION {Evaluate(m, p) : p \in Points(shape)}

InjectiveWith(m, kernel) ==
  IF kernel = <<>> THEN Proven ELSE Disproven(Unpacked(kernel[1], m.inputWidths))
Injective(m) == IF MatrixOf(m) = {} THEN Unknown ELSE InjectiveWith(m, KernelBasis(m.matrix))
Surjective(m) == MatrixOf(m) # {} /\ Rank(m.matrix) = Len(m.matrix.rows)

\* Every point of the shape is among those covered; else the first that is not.
CoveredAll(shape, covered) ==
  LET missing == {i \in Bits(Product(shape)) : PointAt(shape, i) \notin covered}
  IN  IF missing = {} THEN Proven ELSE Disproven(PointAt(shape, Min(missing)))
CheckCoverage(m, shape) ==
  IF m.kind = "bits" /\ Len(shape) = Len(OutputsOf(m)) /\ Surjective(m)
     /\ \A i \in DOMAIN shape : shape[i] \in 1..(2 ^ m.outputWidths[i])
  THEN Proven
  ELSE IF \/ PointCount(shape) = {} \/ Len(OutputsOf(m)) # Len(shape)
          \/ \A d \in StaticDomain(m) : ~Evaluable(m, d)
  THEN Unknown
  ELSE CoveredAll(shape, UNION {ImageOf(m, d) : d \in StaticDomain(m)})

\* The values of the points of a shape, numbered; the first value seen before.
Values(m, shape) == {<<i, Evaluate(m, PointAt(shape, i))>> : i \in Bits(Product(shape))}
RepeatedIn(shape, values) ==
  LET repeated == {x[1] : x \in {y \in values : \E z \in values : z[1] < y[1] /\ z[2] = y[2]}}
  IN  IF \E x \in values : x[2] = {} THEN Unknown
      ELSE IF repeated = {} THEN Proven
      ELSE Disproven(PointAt(shape, Min(repeated)))
CheckInjectivity(m, shape) ==
  IF m.kind = "bits" /\ StaticDomain(m) = {shape} THEN Injective(m)
  ELSE IF PointCount(shape) = {} THEN Unknown
  ELSE RepeatedIn(shape, Values(m, shape))

-----------------------------------------------------------------------------
(* Distributed encodings. *)

Carriers == <<"register", "lane", "warp", "warp_group", "cta">>
CarrierOf(name) == CHOOSE c \in DOMAIN Carriers : Carriers[c] = name

EncodingVerify(e) ==
  /\ Len(e.topology) = Len(Carriers) /\ \A c \in DOMAIN e.topology : e.topology[c] > 0
  /\ e.topology[2] <= MaxLanes /\ e.replication > 0
  /\ ToSet(InputsOf(e.map)) \subseteq ToSet(Carriers) /\ Unique(InputsOf(e.map))

\* The rank compared with the bits of the carriers instead of the outputs.
EncodingFitsInjectively(e, shape) ==
  /\ e.map.kind = "bits" /\ Extents(e.map.outputWidths) = shape
  /\ \A c \in DOMAIN e.topology : IsPowerOf2(e.topology[c])
  /\ \A i \in DOMAIN e.map.inputs :
       e.topology[CarrierOf(e.map.inputs[i])] = 2 ^ e.map.inputWidths[i]
  /\ MatrixOf(e.map) # {}
  /\ e.replication = Product(e.topology) \div 2 ^ Rank(e.map.matrix)

\* verifyForType of a distributed encoding, by the rank of its matrix.
RankFits(e, rank) ==
  /\ rank = Sum(e.map.outputWidths) /\ Product(e.topology) % 2 ^ rank = 0
  /\ e.replication = Product(e.topology) \div 2 ^ rank
EncodingFits(e, shape) ==
  /\ e.map.kind = "bits" /\ Extents(e.map.outputWidths) = shape
  /\ \A c \in DOMAIN e.topology : IsPowerOf2(e.topology[c])
  /\ \A i \in DOMAIN e.map.inputs :
       e.topology[CarrierOf(e.map.inputs[i])] = 2 ^ e.map.inputWidths[i]
  /\ MatrixOf(e.map) # {} /\ RankFits(e, Rank(e.map.matrix))

-----------------------------------------------------------------------------
(* Storage layouts; a buffer type has a shape, strides, an offset, the bits *)
(* of an element and a memory space.                                        *)

MaxUnsigned == 2 * MaxInt + 1
Spaces == {"local", "shared", "global"}

StorageOutputsVerify(m) ==
  /\ OutputsOf(m) = <<"byte_offset", "bit_offset">>
  /\ m.kind \in {"affine", "table"} => m.outputExtents[2] = 8
  /\ m.kind = "bits" => m.outputWidths[2] = 3
StorageVerify(s) ==
  /\ s.space # "local"
  /\ IsPowerOf2(s.alignment) /\ IsPowerOf2(s.vector) /\ s.vector <= s.alignment
  /\ StorageOutputsVerify(s.map)

DomainMatches(m, shape) == m.kind # "product" /\ StaticDomain(m) = {shape}

CapacityBytes(type) ==
  LET last == type.offset
              + Sum([d \in DOMAIN type.shape |-> (type.shape[d] - 1) * type.strides[d]])
  IN  IF \/ type.offset < 0 \/ last >= MaxUnsigned \/ last + 1 > MaxUnsigned \div type.bits
         \/ \E d \in DOMAIN type.shape : type.shape[d] <= 0 \/ type.strides[d] < 0
      THEN {} ELSE {((last + 1) * type.bits + 7) \div 8}

\* Where elements begin, in order; the sweep that finds two of them overlapping.
Disjoint(begins, bits) ==
  \A i \in 2..Len(begins) : begins[i] >= begins[i - 1] + bits
Bytes(begins, bits) ==
  IF ~Disjoint(begins, bits) \/ begins[Len(begins)] > MaxUnsigned - bits THEN {}
  ELSE {(begins[Len(begins)] + bits + 7) \div 8}
\* Numbers with their places, in ascending order: how many come before one, and
\* the place of each in turn.
Earlier(keys, x) == {y \in keys : y[1] < x[1] \/ (y[1] = x[1] /\ y[2] < x[2])}
Ordered(keys) ==
  LET ranked == {<<Cardinality(Earlier(keys, x)), x[2]>> : x \in keys}
  IN  [i \in 1..Cardinality(keys) |-> (CHOOSE r \in ranked : r[1] = i - 1)[2]]
Sorted(s, begins) == SubSeq(Selected(s, Ordered({<<begins[i], i>> : i \in DOMAIN s})), 1, Len(s))
ValueBegin(values, i) ==
  LET out == CHOOSE o \in UNION {x[2] : x \in {y \in values : y[1] = i}} : TRUE
  IN  8 * out[1] + out[2]
InOrder(begins) == Sorted(begins, begins)
Begins(values) == InOrder([i \in 1..Cardinality(values) |-> ValueBegin(values, i - 1)])
FootprintOf(values, bits) ==
  IF \E x \in values : \E out \in x[2] : Len(out) # 2 \/ out[2] \notin Bits(8) THEN {}
  ELSE Bytes(Begins(values), bits)

FootprintBytes(m, type) ==
  IF OutputBoundsHold(m, type.shape) THEN FootprintOf(Values(m, type.shape), type.bits) ELSE {}

\* verifyForType of a storage layout.
StorageFits(s, type) ==
  /\ s.space = type.space /\ DomainMatches(s.map, type.shape)
  /\ CheckInjectivity(s.map, type.shape) = Proven
  /\ \A x \in Values(s.map, type.shape) : \A out \in x[2] :
       Len(out) = 2 /\ out[1] >= 0 /\ out[2] \in Bits(8)
  /\ FootprintBytes(s.map, type) # {}
=============================================================================
