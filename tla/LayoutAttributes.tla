-------------------------- MODULE LayoutAttributes --------------------------
(***************************************************************************)
(* A layout map on its way through the algebra: it is taken over from a    *)
(* legacy layout or built, then composed with others on either side,       *)
(* projected to some of its outputs, permuted and put in canonical form:   *)
(* the functions of LayoutAlgebra.h in any order.                          *)
(*                                                                         *)
(* Layouts of the old dialect are turned into encodings as                 *)
(* LegacyLayoutAdapter.cpp does it.  A legacy layout gives each element of *)
(* a shape an index, of one or more coordinates, and maybe a thread; its   *)
(* maps are given by their values.  An encoding is accepted only when a    *)
(* linear map agrees with all of them.                                     *)
(***************************************************************************)
EXTENDS ExecutionLayout

-----------------------------------------------------------------------------
(* Taking over legacy layouts *)

WarpsPerGroup == 4

Log2(n) == CHOOSE k \in 0..16 : 2 ^ k = n
Widths(shape) ==
  IF \A d \in DOMAIN shape : shape[d] > 1 /\ IsPowerOf2(shape[d])
  THEN {[d \in DOMAIN shape |-> Log2(shape[d])]} ELSE {}
DimensionNames(n) == SubSeq(<<"dim0", "dim1", "dim2", "dim3">>, 1, n)

\* The points with a single one among the bits of their coordinates, in order.
Units(widths) ==
  FlattenSeq([d \in DOMAIN widths |->
    [b \in 1..widths[d] |-> [x \in DOMAIN widths |-> IF x = d THEN 2 ^ (b - 1) ELSE 0]]])

\* The matrix whose columns are the given bit vectors.
WithColumns(columns, rows) ==
  UNION {Checked(m.rows, m.columns) : m \in {Transposed(Matrix(columns, rows))}}

\* Whether the matrix sends every input where it should go, and a test that is
\* content with the columns it was built from.
BasisAgrees(m, image) == \A x \in DOMAIN image : Cardinality(x) = 1 => Apply(m, x) = image[x]
Agrees(m, image) == \A x \in DOMAIN image : Apply(m, x) = image[x]

-----------------------------------------------------------------------------
(* Storage *)

\* Where elements lie: coordinates of the index count row by row, within the
\* extents that occur; no two elements may share an address.
AnalyzeStorage(legacy, type) ==
  LET shape == type.shape
      physical == [i \in Bits(Product(shape)) |-> legacy.index[PointAt(shape, i)]]
      extents == [r \in DOMAIN physical[0] |->
                    Max({0} \cup {physical[i][r] + 1 : i \in DOMAIN physical})]
      address == [i \in DOMAIN physical |-> FlatOf(extents, physical[i]) * type.bits]
      bytes == Max({address[i] \div 8 + (type.bits + 7) \div 8 : i \in DOMAIN address})
  IN  IF \/ legacy.thread # {} \/ legacy.shape # shape \/ PointCount(shape) = {}
      THEN {}
      ELSE IF \/ extents = <<>>
              \/ \E i \in DOMAIN physical : \E r \in DOMAIN extents : physical[i][r] < 0
              \/ \E i \in DOMAIN address : address[i] > MaxUnsigned
              \/ \E i \in DOMAIN address : \E j \in Bits(i) : address[i] = address[j]
      THEN {} ELSE {[address |-> address, bytes |-> bytes]}

\* The lowest one of the bytes of an element.
ConservativeAlignment(bits) ==
  IF bits < 8 \/ bits % 8 # 0 THEN 1
  ELSE Max({2 ^ k : k \in {x \in 0..8 : (bits \div 8) % 2 ^ x = 0}})

BitLinearStorageMap(type, info) ==
  LET shape == type.shape
      byteBits == CHOOSE k \in 1..16 : info.bytes <= 2 ^ k
                                       /\ \A j \in 1..(k - 1) : 2 ^ j < info.bytes
      At(p) == LET a == info.address[FlatOf(shape, p)]
               IN  Packed(<<a \div 8, a % 8>>, <<byteBits, 3>>)
      Built(widths) ==
        {[kind |-> "bits", inputs |-> DimensionNames(Len(shape)), inputWidths |-> widths,
          outputs |-> <<"byte_offset", "bit_offset">>, outputWidths |-> <<byteBits, 3>>,
          matrix |-> m] :
           m \in {x \in WithColumns([c \in DOMAIN Units(widths) |-> At(Units(widths)[c])],
                                    byteBits + 3) :
                    Agrees(x, [v \in {Packed(p, widths) : p \in Points(shape)} |->
                                 At(Unpacked(v, widths))])}}
  IN  IF info.address[0] # 0 THEN {} ELSE UNION {Built(w) : w \in Widths(shape)}

AffineStorageMap(legacy, type, info) ==
  IF \E p \in DOMAIN legacy.index : Len(legacy.index[p]) # 1 THEN {}
  ELSE {[kind |-> "table", inputs |-> DimensionNames(Len(type.shape)),
         inputExtents |-> type.shape,
         outputs |-> <<"byte_offset", "bit_offset">>, outputExtents |-> <<info.bytes, 8>>,
         address |-> [p \in Points(type.shape) |->
                        LET a == legacy.index[p][1] * type.bits IN <<a \div 8, a % 8>>]]}

ConvertLegacyStorage(legacy, type) ==
  LET CanonicalOf(info) == IF BitLinearStorageMap(type, info) # {}
                          THEN BitLinearStorageMap(type, info)
                          ELSE AffineStorageMap(legacy, type, info)
      Built(map) == [map |-> map, space |-> type.space,
                     alignment |-> ConservativeAlignment(type.bits),
                     vector |-> ConservativeAlignment(type.bits)]
  IN  IF type.space \notin Spaces \ {"local"} THEN {}
      ELSE {s \in {Built(m) : m \in UNION {CanonicalOf(i) : i \in AnalyzeStorage(legacy, type)}} :
              StorageVerify(s) /\ StorageFits(s, type)}

VerifyLegacyStorage(legacy, storage, type) ==
  \E info \in AnalyzeStorage(legacy, type) :
    \A p \in Points(type.shape) :
      LET a == info.address[FlatOf(type.shape, p)]
      IN  Evaluate(storage.map, p) = {<<a \div 8, a % 8>>}

-----------------------------------------------------------------------------
(* Distributed layouts *)

\* From thread and register to the element there, when no two elements meet.
InverseOf(legacy, shape) ==
  LET At(p) == <<(CHOOSE t \in legacy.thread : TRUE)[p], legacy.index[p][1]>>
      places == {At(p) : p \in Points(shape)}
  IN  IF \/ Cardinality(places) # Product(shape) \/ \E x \in places : x[1] < 0 \/ x[2] < 0
      THEN {} ELSE {[x \in places |-> CHOOSE p \in Points(shape) : At(p) = x]}

\* Warps first fill one group, and copies first fill its free warps.
BaseTopology(registers, threads) ==
  LET warps == Min({WarpsPerGroup, threads \div MaxLanes})
  IN  <<registers, MaxLanes, warps, threads \div (MaxLanes * warps), 1>>
Replicated(base, copies) ==
  LET byWarps == Min({copies, WarpsPerGroup \div base[3]})
  IN  [base EXCEPT ![3] = @ * byWarps, ![4] = @ * (copies \div byWarps)]

PlaceOf(base, point) == <<point[2] + MaxLanes * (point[3] + base[3] * point[4]), point[1]>>
CarrierPoint(base, place) ==
  <<place[2], place[1] % MaxLanes, (place[1] \div MaxLanes) % base[3],
    place[1] \div (MaxLanes * base[3]), 0>>

\* A bit beyond the base topology tells copies apart: its column is zero.
CarrierColumns(inverse, base, topology, outputWidths) ==
  LET widths == [c \in DOMAIN topology |-> Log2(topology[c])]
      Column(unit) == IF \E c \in DOMAIN base : unit[c] >= base[c] THEN {}
                      ELSE Packed(inverse[PlaceOf(base, unit)], outputWidths)
  IN  [i \in DOMAIN Units(widths) |-> Column(Units(widths)[i])]

DistributedFrom(inverse, type, copies, outputWidths) ==
  LET registers == 1 + Max({x[2] : x \in DOMAIN inverse})
      threads == 1 + Max({x[1] : x \in DOMAIN inverse})
      base == BaseTopology(registers, threads)
      topology == Replicated(base, copies)
      widths == [c \in DOMAIN topology |-> Log2(topology[c])]
      named == SelectSeq([c \in DOMAIN topology |-> c], LAMBDA c : topology[c] # 1)
      image == [v \in {Packed(CarrierPoint(base, x), widths) : x \in DOMAIN inverse} |->
                  Packed(inverse[PlaceOf(base, Unpacked(v, widths))], outputWidths)]
      Built(m) ==
        [map |-> [kind |-> "bits", inputs |-> Selected(Carriers, named),
                  inputWidths |-> Selected(widths, named),
                  outputs |-> DimensionNames(Len(type.shape)), outputWidths |-> outputWidths,
                  matrix |-> m],
         topology |-> topology, replication |-> copies]
  IN  IF \/ ~IsPowerOf2(registers) \/ threads < MaxLanes \/ ~IsPowerOf2(threads)
         \/ threads % MaxLanes # 0 \/ registers * threads # Cardinality(DOMAIN inverse)
      THEN {}
      ELSE IF \E d \in DOMAIN type.shape : inverse[<<0, 0>>][d] # 0 THEN {}
      ELSE {Built(m) : m \in {x \in WithColumns(CarrierColumns(inverse, base, topology, outputWidths),
                                                Sum(outputWidths)) : Agrees(x, image)}}

ConvertLegacyDistributed(legacy, type) ==
  IF \/ legacy.shape # type.shape \/ legacy.thread = {} \/ PointCount(type.shape) = {}
     \/ \A n \in legacy.replication : n <= 0 \/ ~IsPowerOf2(n)
     \/ \E p \in DOMAIN legacy.index : Len(legacy.index[p]) # 1
  THEN {}
  ELSE {e \in UNION {DistributedFrom(inverse, type, n, w) :
                       inverse \in InverseOf(legacy, type.shape), n \in legacy.replication,
                       w \in Widths(type.shape)} :
          EncodingVerify(e) /\ EncodingFits(e, type.shape)}

\* The verifier splits threads into warps and groups by a rule of its own.
VerifierPoint(names, place) ==
  [i \in DOMAIN names |->
     CASE names[i] = "register" -> place[2]
       [] names[i] = "lane" -> place[1] % MaxLanes
       [] names[i] = "warp" -> (place[1] \div MaxLanes) % WarpsPerGroup
       [] names[i] = "warp_group" -> place[1] \div (MaxLanes * WarpsPerGroup)
       [] names[i] = "cta" -> 0]
VerifyLegacyDistributed(legacy, e, type) ==
  /\ e.map.kind = "bits" /\ legacy.thread # {}
  /\ \A p \in Points(type.shape) :
       LET place == <<(CHOOSE t \in legacy.thread : TRUE)[p], legacy.index[p][1]>>
       IN  EvaluateBits(e.map, VerifierPoint(e.map.inputs, place)) = {p}

-----------------------------------------------------------------------------
(* Editing *)

CONSTANTS Maps,      \* the maps that may be built
          Partners,  \* the maps they are composed with
          Imports,   \* legacy layouts, each with the type of its value
          MaxEdits   \* how often one map is edited

VARIABLES map,       \* the map: empty, or the one
          legacy,    \* the legacy layout still to be taken over: empty, or the one
          encoding,  \* the encoding made of it: empty, or the one
          edits      \* how often the map has been edited

editVars == <<map, legacy, encoding, edits>>

EditsInit ==
  /\ encoding = {} /\ edits = 0
  /\ \/ \E m \in Maps : MapVerify(m) /\ map = {m} /\ legacy = {}
     \/ \E x \in Imports : map = {} /\ legacy = {x}

\* A legacy layout with threads becomes a distributed encoding, one without a
\* storage layout.
Converted(x) == IF x.layout.thread # {} THEN ConvertLegacyDistributed(x.layout, x.type)
                ELSE ConvertLegacyStorage(x.layout, x.type)
Import ==
  \E x \in legacy :
    /\ encoding = {} /\ edits = 0
    /\ encoding' = Converted(x)
    /\ map' = {e.map : e \in encoding'}
    /\ edits' = 1
    /\ UNCHANGED legacy

Edited(results) ==
  /\ edits < MaxEdits /\ edits' = edits + 1
  /\ \E r \in results : map' = {r}
  /\ UNCHANGED <<legacy, encoding>>

Requests(m) ==
  LET names == ToSet(OutputsOf(m)) \cup {"none"}
  IN  {<<n>> : n \in names} \cup (names \X names)

ComposeWith(r) == \E m \in map : Edited(Compose(m, r))
ComposeUnder(l) == \E m \in map : Edited(Compose(l, m))
ProjectTo(names) == \E m \in map : Edited(Project(m, names))
PermuteTo(names) == \E m \in map : Edited(Permute(m, names))
Canonicalize == \E m \in map : Edited(Canonical(m))

EditsNext ==
  \/ Import
  \/ \E r \in Partners : ComposeWith(r)
  \/ \E l \in Partners : ComposeUnder(l)
  \/ \E m \in map : \E names \in Requests(m) : ProjectTo(names)
  \/ \E m \in map : \E names \in Requests(m) : PermuteTo(names)
  \/ Canonicalize

EditsSpec == EditsInit /\ [][EditsNext]_editVars
=============================================================================
