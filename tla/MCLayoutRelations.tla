-------------------------- MODULE MCLayoutRelations --------------------------
(***************************************************************************)
(* A shared buffer of four rows of two bytes, whole, every second row of   *)
(* it and its second half; a shared buffer to copy to; a buffer without a  *)
(* descriptor; a tile of two by two over the lanes and registers of a      *)
(* warp, with a second one to convert and transpose to; and a tile of      *)
(* three axes with another one whose axes are the first one's, rotated.    *)
(* The target is asked about tiles and buffers of their own, products that *)
(* read views of larger buffers, and a reduction.                          *)
(***************************************************************************)
EXTENDS LayoutCost, SM90LayoutTarget

CONSTANT MaxAssigned  \* how many variables are priced together

Type(shape, strides, offset) ==
  [shape |-> shape, strides |-> strides, offset |-> offset, bits |-> 8, space |-> "shared"]
Root(id, type, alignment) ==
  [kind |-> "alloc", id |-> id, symbol |-> "", type |-> type, alignment |-> alignment]
Viewed(offsets, sizes, strides, type) ==
  [op |-> "subview", offsets |-> offsets, sizes |-> sizes, strides |-> strides,
   dropped |-> {}, type |-> type]
MCGlobals == <<>>

Whole == Root("whole", Type(<<4, 2>>, <<2, 1>>, 0), 4)
Other == Root("other", Type(<<2, 2>>, <<2, 1>>, 1), 2)
AlternateType == Type(<<2, 2>>, <<4, 1>>, 0)
HalfType == Type(<<2, 2>>, <<2, 1>>, 4)

\* The descriptors of the whole, of its two views and of the other buffer.
Descriptor(root, viewType, begin, step) ==
  [root |-> root.id, rootType |-> root.type, viewType |-> viewType,
   viewToRoot |-> <<Form(begin, <<step, 0>>), Form(0, <<0, 1>>)>>,
   lowerBit |-> 8 * root.type.offset,
   upperBit |-> 8 * (root.type.offset + 2 * root.type.shape[1]),
   rootAlignment |-> root.alignment]
WholeInfo == Descriptor(Whole, Whole.type, 0, 1)
AlternateInfo == Descriptor(Whole, AlternateType, 0, 2)
HalfInfo == Descriptor(Whole, HalfType, 2, 1)
OtherInfo == Descriptor(Other, Other.type, 0, 1)
Viewing(root, steps) == [root |-> root, steps |-> steps]
StorageVar(type, alias) ==
  [kind |-> "Storage", shape |-> type.shape, bits |-> 8, space |-> "shared", type |-> type,
   alias |-> alias, threads |-> 0, execution |-> {}, names |-> <<>>, perUse |-> FALSE]
TileVar(names, bytes, policy) ==
  [kind |-> "Distributed", shape |-> <<2, 2>>, bits |-> 8, space |-> "",
   type |-> Type(<<2, 2>>, <<2, 1>>, 0), alias |-> {}, threads |-> 0, names |-> names,
   execution |-> {[vectorBytes |-> bytes, policy |-> policy]}, perUse |-> FALSE]

CubeVar(names) == [TileVar(names, 1, "all") EXCEPT !.shape = <<2, 2, 2>>, !.perUse = TRUE]

MCVars == <<StorageVar(Whole.type, {WholeInfo}), StorageVar(AlternateType, {AlternateInfo}),
            StorageVar(HalfType, {HalfInfo}), StorageVar(Other.type, {OtherInfo}),
            StorageVar(Type(<<2, 2>>, <<2, 1>>, 0), {}),
            TileVar(<<>>, 2, "first_owner"),
            [TileVar(<<"y", "x">>, 1, "all") EXCEPT !.threads = 32],
            CubeVar(<<>>), CubeVar(<<"y", "z", "x">>)>>

Relation(kind, a, b) == [kind |-> kind, vars |-> <<a, b>>, order |-> <<2, 1>>, axis |-> 1,
                         access |-> "Write"]
MCRelated == <<Relation("AliasLayout", 1, 2), Relation("AliasLayout", 1, 3),
               Relation("AliasLayout", 2, 3), Relation("CopyAccess", 2, 3),
               Relation("CopyAccess", 3, 4), Relation("CopyAccess", 2, 2),
               Relation("StorageAccess", 6, 3),
               [Relation("StorageAccess", 2, 6) EXCEPT !.access = "Read"],
               Relation("StorageAccess", 4, 7), Relation("TransformLayout", 6, 7),
               Relation("Convertible", 6, 7), Relation("Convertible", 8, 9),
               [Relation("TransformLayout", 8, 9) EXCEPT !.order = <<2, 3, 1>>]>>

\* Storage candidates: by rows, by columns, and at a wrong distance.
Placed(info, alignment, vector, base, row, column) ==
  MakeLayout(info, [p \in (0..(info.viewType.shape[1] - 1)) \X (0..1) |->
                      <<base + row * p[1] + column * p[2], 0>>], alignment, vector)
OtherRows == Placed(OtherInfo, 2, 1, 1, 2, 1)
\* Without a descriptor, the address is given bit by bit.
Declared(inputs) ==
  [space |-> "shared", alignment |-> 1, vector |-> 1,
   map |-> [kind |-> "bits", inputs |-> <<"d0", "d1">>, inputWidths |-> <<1, 1>>,
            outputs |-> <<"byte_offset", "bit_offset">>, outputWidths |-> <<2, 3>>,
            matrix |-> Matrix(<<{inputs[1]}, {inputs[2]}, {}, {}, {}>>, 2)]]
\* Distributed candidates: which bits of register and lane name the two axes.
Tile(outputs, registers, lanes, rows) ==
  [map |-> [kind |-> "bits",
            inputs |-> <<"register", "lane">>, inputWidths |-> <<registers, lanes>>,
            outputs |-> outputs, outputWidths |-> <<1, 1>>,
            matrix |-> Matrix(rows, registers + lanes)],
   topology |-> <<2 ^ registers, 2 ^ lanes, 1, 1, 1>>,
   replication |-> 2 ^ (registers + lanes - 2)]
Cube(outputs, rows) ==
  [map |-> [kind |-> "bits", inputs |-> <<"register", "lane">>, inputWidths |-> <<2, 1>>,
            outputs |-> outputs, outputWidths |-> <<1, 1, 1>>, matrix |-> Matrix(rows, 3)],
   topology |-> <<4, 2, 1, 1, 1>>, replication |-> 1]
MCOffers ==
  <<<<Placed(WholeInfo, 4, 2, 0, 2, 1), Placed(WholeInfo, 4, 1, 0, 1, 4)>>,
    <<Placed(AlternateInfo, 4, 2, 0, 4, 1), Placed(AlternateInfo, 4, 1, 0, 2, 4),
      Placed(AlternateInfo, 4, 2, 2, 4, 1)>>,
    <<Placed(HalfInfo, 4, 2, 4, 2, 1), Placed(HalfInfo, 4, 1, 2, 1, 4),
      Placed(HalfInfo, 4, 2, 0, 2, 1)>>,
    <<OtherRows, Placed(OtherInfo, 1, 1, 1, 1, 2)>>,
    <<Declared(<<1, 0>>), Declared(<<0, 0>>)>>,
    <<Tile(<<"x", "y">>, 1, 1, <<{1}, {0}>>), Tile(<<"x", "y">>, 1, 2, <<{1}, {0}>>),
      Tile(<<"x", "y">>, 2, 1, <<{1}, {0, 2}>>)>>,
    <<Tile(<<"y", "x">>, 1, 1, <<{0}, {1}>>), Tile(<<"y", "x">>, 1, 5, <<{0}, {1}>>)>>,
    <<Cube(<<"x", "y", "z">>, <<{0}, {1}, {2}>>)>>,
    <<Cube(<<"y", "z", "x">>, <<{1}, {2}, {0}>>), Cube(<<"y", "z", "x">>, <<{2}, {0}, {1}>>)>>>>

\* They are the ones that the analysis finds, and the layout of the other
\* buffer by rows is the one that it gives.
ASSUME DescriptorsAssumption ==
  /\ Analyzed(Viewing(Whole, <<>>), Whole.type) = {WholeInfo}
  /\ Analyzed(Viewing(Whole, <<Viewed(<<0, 0>>, <<2, 2>>, <<2, 1>>, AlternateType)>>),
              AlternateType) = {AlternateInfo}
  /\ Analyzed(Viewing(Whole, <<Viewed(<<2, 0>>, <<2, 2>>, <<1, 1>>, HalfType)>>), HalfType)
       = {HalfInfo}
  /\ Analyzed(Viewing(Other, <<>>), Other.type) = {OtherInfo}
  /\ RootLinear(OtherInfo) = {OtherRows}

\* A contract of the whole buffer on each view, and what a launch requires of tiles.
Require(kind, v) == [kind |-> kind, var |-> v, threads |-> 32, contract |-> <<>>]
RowContract(v) == [Require("RootStorageContract", v) EXCEPT
  !.contract = [info |-> WholeInfo, layout |-> Placed(WholeInfo, 4, 2, 0, 2, 1)]]
MCRequired == <<RowContract(2), RowContract(3), RowContract(4),
                Require("ResourceLimit", 7), Require("Ownership", 7)>>

\* What the target is asked about: nothing, a tile, a buffer, ...
Idle == [kind |-> "none"]
TileOf(shape, threads) == [kind |-> "Distributed", shape |-> shape, threads |-> threads]
Matrix2(shape, bits) == [shape |-> shape, strides |-> <<shape[2], 1>>, offset |-> 0, bits |-> bits,
                         space |-> "shared"]
BufferOf(shape, bits) == [kind |-> "Storage", type |-> Matrix2(shape, bits)]
\* ... a product, reading the part of a buffer that begins at some element, ...
Part(root, extents, shape, row, column) ==
  [root |-> root, rootType |-> Matrix2(extents, 16), viewType |-> Matrix2(shape, 16),
   viewToRoot |-> <<Form(row, <<1, 0>>), Form(column, <<0, 1>>)>>,
   lowerBit |-> 0, upperBit |-> 16 * Product(extents), rootAlignment |-> 1024]
ProductOf(n, k, a, transA, b, transB) ==
  [kind |-> "product", m |-> 64, n |-> n, k |-> k, threads |-> 128, policy |-> "Square",
   transA |-> transA, transB |-> transB, tensorA |-> FALSE, input |-> "f16",
   accumulator |-> "f32", target |-> "sm_90a", explicitThreads |-> {}, alias |-> <<{a}, {b}>>,
   direct |-> {1, 2}, required |-> {}, declared |-> <<{}, {}, {}, {}>>, binding |-> {}]
FromRegisters(product) == [product EXCEPT !.tensorA = TRUE, !.alias[1] = {}, !.direct = {2}]
\* ... or the sum of the rows of a tile.
SumOfRows(tile) ==
  [kind |-> "reduction", target |-> "", threads |-> 32, resultThreads |-> 32,
   source |-> tile.shape, result |-> <<4>>, axis |-> 1, dtype |-> "f32", reducer |-> "sum",
   sources |-> DefaultCandidates(tile),
   results |-> UNION {ProjectReduction(c, tile.shape, <<4>>, 1) : c \in DefaultCandidates(tile)}]

WholeA == Part("a", <<64, 16>>, <<64, 16>>, 0, 0)
SmallB == Part("b", <<16, 16>>, <<8, 16>>, 4, 0)
ColumnB == Part("b", <<16, 16>>, <<16, 8>>, 0, 8)
MCSubjects ==
  {Idle, TileOf(<<8, 8>>, 0), TileOf(<<8, 8>>, 64), TileOf(<<2, 4, 2>>, 128), TileOf(<<3, 8>>, 0),
   BufferOf(<<4, 16>>, 16), BufferOf(<<8, 32>>, 8),
   ProductOf(8, 16, WholeA, FALSE, SmallB, TRUE),
   ProductOf(8, 16, WholeA, FALSE, Part("a", <<64, 16>>, <<8, 16>>, 0, 0), TRUE),
   ProductOf(8, 32, [Part("a", <<64, 32>>, <<64, 32>>, 0, 0) EXCEPT !.rootAlignment = 16], FALSE,
             Part("b", <<16, 64>>, <<8, 32>>, 4, 32), TRUE),
   ProductOf(8, 16, Part("a", <<16, 128>>, <<16, 64>>, 0, 64), TRUE, SmallB, TRUE),
   FromRegisters(ProductOf(8, 16, WholeA, FALSE, ColumnB, FALSE)),
   [FromRegisters(ProductOf(16, 16, WholeA, TRUE, Part("b", <<64, 16>>, <<16, 16>>, 16, 0), FALSE))
      EXCEPT !.threads = 256, !.explicitThreads = {256}],
   [ProductOf(8, 16, WholeA, FALSE, SmallB, TRUE) EXCEPT !.threads = 256],
   SumOfRows(TileOf(<<4, 4>>, 32))}

-----------------------------------------------------------------------------
\* The graph is asked questions, an assignment is priced, the target is asked.
RelationsInit == PricingInit /\ TargetInit
RelationsVars == <<pricingVars, targetVars>>
RelationsSpec ==
  /\ RelationsInit
  /\ [][\/ subject = Idle /\ assignment = <<>> /\ QuestionsNext /\ UNCHANGED <<costVars, targetVars>>
        \/ /\ subject = Idle /\ asked = 0 /\ Cardinality(DOMAIN assignment) < MaxAssigned
           /\ CostNext /\ UNCHANGED targetVars
        \/ TargetNext /\ UNCHANGED pricingVars]_RelationsVars

CopyWithinRoot ==
  /\ Kind = "CopyAccess"
  /\ \E l \in GraphVars[answer.x[1]].alias, r \in GraphVars[answer.y[1]].alias : l.root = r.root

Execution == IF IsDistributed(OfferAt(answer.x)) THEN answer.x ELSE answer.y
Buffer == IF IsDistributed(OfferAt(answer.x)) THEN answer.y ELSE answer.x
MovesTheTile(held, address, vectors, bytes, isRead) ==
  LET moved == {<<h, k>> : h \in vectors, k \in Bits(bytes)}
  IN  /\ \A m \in moved : /\ m[1] + m[2] \in DOMAIN held
                          /\ address[m[1] + m[2]] = address[m[1]] + m[2]
                          /\ address[m[1]] % bytes = 0
      /\ ~isRead => \A m, n \in moved : address[m[1]] + m[2] = address[n[1]] + n[2] => m = n
      /\ {address[m[1]] + m[2] : m \in moved} = {address[h] : h \in DOMAIN held}
\* With the element of each hardware point: the bytes, and the starts of vectors.
VectorsOf(e, c, shape, held, bytes, isRead) ==
  MovesTheTile(held, [h \in DOMAIN held |-> Address(c, PointAt(shape, held[h])) \div 8],
               {h \in DOMAIN held : /\ (h % e.topology[1]) % bytes = 0
                                    /\ (isRead \/ \A k \in Bits(h) : held[k] # held[h])},
               bytes, isRead)
AccessMoves(e, c, var, bytes, isRead) ==
  bytes > 1 => VectorsOf(e, c, var.shape,
                         [h \in Bits(Product(e.topology)) |-> ElementAt(e, var.shape, h)],
                         bytes, isRead)

\* An accepted vector access moves exactly the bits of the tile: with every
\* thread accessing whole vectors at their address, each register gets the
\* element it holds, a write touches no bit twice and leaves none out
\* (ExecutionLayoutProof.cpp:190-217).
VectorsMoveTheTile ==
  (Kind = "StorageAccess" /\ answer.holds /\ IsDistributed(OfferAt(Execution))
     /\ IsStorage(OfferAt(Buffer))) =>
    \A x \in GraphVars[Execution[1]].execution :
      AccessMoves(OfferAt(Execution), OfferAt(Buffer), GraphVars[Execution[1]], x.vectorBytes,
                  Related[answer.rel].access = "Read")

FootprintThere(v, c) ==
  IF GraphVars[v].alias = {} \/ ~IsStorage(c) THEN Fresh(answer.x)
  ELSE BuildFootprint(CHOOSE i \in GraphVars[v].alias : TRUE, c)
BothWays(rel, lhs, a, rhs, b, here, there) ==
  \A forth \in BOOLEAN :
    Answered(rel, IF forth THEN lhs ELSE rhs, IF forth THEN a ELSE b,
             IF forth THEN rhs ELSE lhs, IF forth THEN b ELSE a,
             IF forth THEN here ELSE there, IF forth THEN there ELSE here)

\* A candidate projected along a relation satisfies that relation with the one
\* it was projected from, whichever end the relation is asked from, so that
\* propagation never proposes what the verifier then refuses; only rebasing a
\* copy within one root ignores overlap (LayoutRelations.cpp:262-316).
ProjectionsAreCompatible ==
  (answer.kind = "relation" /\ ~CopyWithinRoot) =>
    \A c \in ProjectCandidate(Related[answer.rel], answer.x[1], OfferAt(answer.x), answer.y[1]) :
      BothWays(Related[answer.rel], answer.x[1], OfferAt(answer.x), answer.y[1], c,
               Fresh(answer.x), FootprintThere(answer.y[1], c))

SameBytes(a, b) == \A p \in DOMAIN a.map.address \cap DOMAIN b.map.address :
                     a.map.address[p] = b.map.address[p]
\* Two operands in one buffer, each the beginning of its rows, at the same bytes.
Agreeing ==
  (\E a \in subject.alias[1], b \in subject.alias[2] : a.root = b.root) =>
    SameBytes(choice[1], choice[2])
\* The descriptors of a contract fit no other proposed buffer.
NamesItsBuffers ==
  \A c \in contract, role \in BufferRoles(subject), g \in Geometry(subject) :
    \A other \in proposals[role] \ {choice[role]} :
      ~OperandVerified(subject, g, role, other, c.plans[role])

\* What the target proposes it accepts: its default candidates suit the tile or
\* the buffer and its threads; every choice from its proposals for a product
\* has a contract, also where an operand begins in the middle of
\* a swizzled row or block of rows, unless two operands disagree about a buffer
\* they share, and that contract tells the buffers apart; the natural result of
\* a reduction has one too.  Proposals, decoding and verification compute
\* addresses independently (SM90GemmConstraints.cpp:60-91 and 122-136,
\* SM90MmaLayoutProof.cpp:103-117).
TargetDelivers ==
  /\ (subject.kind \in {"Distributed", "Storage"} /\ proposals # <<>>) =>
       \A c \in proposals[1] :
         /\ VerifiedCandidate(subject, c)
         /\ (subject.kind = "Distributed" /\ subject.threads # 0) =>
              MatchesThreads(c, subject.threads)
  /\ (subject.kind = "product" /\ choice # <<>>) =>
       (contract # {} <=> Agreeing) /\ NamesItsBuffers
  /\ (subject.kind = "reduction" /\ choice # <<>>) =>
       (choice[2] \in ProjectReduction(choice[1], subject.source, subject.result, subject.axis)
          => contract # {})
=============================================================================
