--------------------------- MODULE LayoutRelations ---------------------------
(***************************************************************************)
(* What the constraints of a layout graph ask of concrete encodings        *)
(* (LayoutRelations.cpp, and proveExecutionVectorAccess of                 *)
(* ExecutionLayoutProof.cpp).  Variables are numbered; a storage variable  *)
(* may carry the descriptor of its view, an execution variable the vector  *)
(* width and the writer policy of its operation.  Footprints and proofs    *)
(* about pairs of them are kept in two caches of the graph.                *)
(***************************************************************************)
EXTENDS ExecutionLayout, StorageAlias

CONSTANTS GraphVars,    \* the variables: kind, shape, bits, space, alias, threads, ...
          Offers,       \* the candidates of each variable, in order
          Related,      \* the relations: kind, vars, order, axis, access
          Required,     \* what is required of one: kind, var, threads, contract
          MaxQuestions  \* how many questions are asked of the graph

VARIABLES footprints,   \* aliasFootprints, by variable and candidate
          pairs,        \* aliasPairProofs, by ordered pairs of those
          prepared,     \* the evaluations counted in preparationStatistics
          answer,       \* the last question and what was answered
          asked         \* the number of questions so far

questionVars == <<footprints, pairs, prepared, answer, asked>>

IsDistributed(c) == "topology" \in DOMAIN c
IsStorage(c) == "alignment" \in DOMAIN c
SameLogicalType(a, b) == a.shape = b.shape /\ a.bits = b.bits
EncodingsEqual(a, b) == a = b

\* What types and attributes verify when they are built, and what the analysis
\* of the views and the collection of the constraints hand to the graph.
TypeVerify(type) ==
  /\ type.shape \in Seq(Int) /\ type.strides \in Seq(Int) /\ Len(type.strides) = Len(type.shape)
  /\ type.offset \in Int /\ type.bits \in Nat \ {0}
LayoutVerify(c) ==
  /\ IsDistributed(c) => /\ EncodingVerify(c)
                         /\ c.topology \in Seq(Int) /\ c.replication \in Int
  /\ IsStorage(c) => /\ StorageVerify(c) /\ c.map.kind \in MapKinds /\ MapVerify(c.map)
                     /\ \A e \in OutputExtents(c.map) : e \in Seq(Int) /\ Len(e) = Len(OutputsOf(c.map))
ASSUME VariablesAssumption ==
  /\ IsFiniteSet(DOMAIN GraphVars)
  /\ \A v \in DOMAIN GraphVars :
       /\ GraphVars[v].bits \in Nat
       /\ GraphVars[v].kind = "Storage" => TypeVerify(GraphVars[v].type)
       /\ \A info, other \in GraphVars[v].alias : info = other
       /\ \A info \in GraphVars[v].alias :
            TypeVerify(info.viewType) /\ SameLogicalType(info.viewType, GraphVars[v])
       /\ \A i \in DOMAIN Offers[v] : LayoutVerify(Offers[v][i])
ASSUME ConstraintsAssumption ==
  /\ IsFiniteSet(DOMAIN Related)
  /\ \A i \in DOMAIN Related, k \in {1, 2} : Related[i].vars[k] \in DOMAIN GraphVars
  /\ \A i \in DOMAIN Required :
       /\ Required[i].var \in DOMAIN GraphVars
       /\ Required[i].kind = "RootStorageContract" =>
            LET known == Required[i].contract
            IN  TypeVerify(known.info.viewType) /\ IsStorage(known.layout) /\ LayoutVerify(known.layout)

-----------------------------------------------------------------------------
(* One encoding. *)

\* matchesLayoutThreadCount
MatchesThreads(c, threads) ==
  /\ IsDistributed(c) /\ threads > 0
  /\ c.topology[2] = MaxLanes /\ c.topology[5] = 1
  /\ c.topology[2] * c.topology[3] * c.topology[4] = threads

\* A footprint holds one interval per point of the tile, within the root.
FootprintFits(info, storage, shape) ==
  /\ Len(storage.entries) = Product(shape)
  /\ \A i \in DOMAIN storage.entries :
       LET e == storage.entries[i]
       IN  /\ ViewCoordinates(info, e.view) = {e.root}
           /\ e.begin >= info.lowerBit /\ e.end <= info.upperBit
           /\ e.end - e.begin = info.viewType.bits
           /\ \A k \in 1..(i - 1) : storage.entries[k].view # e.view
  /\ ~Overlapping(ByBegin(storage.entries))

VectorWidths == {1, 2, 4, 8, 16}
\* Only the first register of a chunk is looked at.
FirstsHold(points, elected, begin, chunk, bits, bytes) ==
  LET registers == points.topology[1]
      starts == {h \in DOMAIN points.logical : (h % registers) % chunk = 0}
  IN  \A h \in starts \cap elected : begin[h] % (8 * bytes) = 0
\* The registers of a thread are accessed in chunks of one vector: a chunk of
\* which any register is used is whole, aligned, contiguous and used entirely.
ChunksHold(points, elected, begin, chunk, bits, bytes) ==
  LET registers == points.topology[1]
      starts == {h \in DOMAIN points.logical : (h % registers) % chunk = 0}
  IN  \A h \in starts :
        LET width == Min({chunk, registers - (h % registers)})
            members == h .. (h + width - 1)
        IN  members \cap elected # {} =>
               /\ width = chunk /\ begin[h] % (8 * bytes) = 0
               /\ \A r \in members : r \in elected /\ begin[r] = begin[h] + (r - h) * bits
Elected(points, access) ==
  {h \in DOMAIN points.logical : access = "Read" \/ points.first[points.logical[h]] = h}
\* Where the element of each hardware point begins in the footprint.
BeginOf(storage, view) ==
  storage.entries[CHOOSE i \in DOMAIN storage.entries : storage.entries[i].view = view].begin
BeginsOf(points, storage, shape) ==
  [h \in DOMAIN points.logical |-> BeginOf(storage, PointAt(shape, points.logical[h]))]
VectorsHold(points, info, storage, bytes, access, element) ==
  \/ bytes = 1
  \/ /\ info.viewType.bits % 8 = 0 /\ info.rootAlignment % bytes = 0
     /\ IF element >= bytes THEN element % bytes = 0 ELSE bytes % element = 0
     /\ ChunksHold(points, Elected(points, access),
                   BeginsOf(points, storage, info.viewType.shape),
                   IF element >= bytes THEN 1 ELSE bytes \div element,
                   info.viewType.bits, bytes)
EnumeratedAccess(points, info, storage, bytes, access) ==
  IF points.proof # Proven THEN points.proof
  ELSE IF /\ FootprintFits(info, storage, info.viewType.shape)
          /\ VectorsHold(points, info, storage, bytes, access, info.viewType.bits \div 8)
  THEN Proven ELSE Disproven(<<>>)
VectorAccess(e, info, storage, bytes, access, policy) ==
  IF bytes \notin VectorWidths THEN Disproven(<<>>)
  ELSE IF storage.proof # Proven THEN storage.proof
  ELSE IF storage.root # info.root \/ storage.rootType # info.rootType THEN Disproven(<<>>)
  ELSE EnumeratedAccess(Enumerate(e, info.viewType.shape, policy), info, storage, bytes, access)

\* proveUnaryLayoutConstraint; the contract of a root is a footprint of it.
ContractHolds(contract, info, c) ==
  /\ IsStorage(c) /\ info.root = contract.info.root
  /\ ProveFootprints(BuildFootprint(contract.info, contract.layout), BuildFootprint(info, c)) = Proven
UnaryHolds(constraint, var, c) ==
  CASE constraint.kind = "RootStorageContract" ->
         \E info \in var.alias : ContractHolds(constraint.contract, info, c)
    [] constraint.kind = "ResourceLimit" -> MatchesThreads(c, constraint.threads)
    [] constraint.kind = "Ownership" ->
         /\ IsDistributed(c)
         /\ \E x \in var.execution : ExecutionOwnership(c, var.shape, x.policy) = Proven

-----------------------------------------------------------------------------
(* The caches of the graph. *)

AliasFootprint(v, c) ==
  IF GraphVars[v].alias = {} \/ ~IsStorage(c)
  THEN [root |-> "", rootType |-> <<>>, proof |-> Unknown, entries |-> <<>>]
  ELSE BuildFootprint(CHOOSE info \in GraphVars[v].alias : TRUE, c)
\* A candidate is known by its variable and its place among the offers of it.
OfferedFootprints ==
  [v \in DOMAIN GraphVars |-> [i \in DOMAIN Offers[v] |-> AliasFootprint(v, Offers[v][i])]]

\* Any footprint of the variable will do.
PreparedByVariable(cache, keys) ==
  [k \in DOMAIN cache \cup keys |->
     LET known == {c \in DOMAIN cache : c[1] = k[1]}
     IN  IF known = {} THEN OfferedFootprints[k[1]][k[2]] ELSE cache[CHOOSE c \in known : TRUE]]
\* A cache after the keys have been looked up.
Prepared(cache, keys) ==
  [k \in DOMAIN cache \cup keys |->
     IF k \in DOMAIN cache THEN cache[k] ELSE OfferedFootprints[k[1]][k[2]]]

\* A pair is kept under the order of its variables, however it was asked.
PairKey(x, y) == IF y[1] < x[1] THEN <<y, x>> ELSE <<x, y>>
OfferAt(key) == Offers[key[1]][key[2]]
\* The footprints a relation looks up for the keys x and y of its two ends.
LookedUp(kind, x, y) ==
  IF kind \in {"AliasLayout", "CopyAccess"} THEN {x, y}
  ELSE IF kind = "StorageAccess" /\ IsDistributed(OfferAt(x)) # IsDistributed(OfferAt(y))
  THEN LET execution == IF IsDistributed(OfferAt(x)) THEN x ELSE y
           storage == IF IsDistributed(OfferAt(x)) THEN y ELSE x
       IN  IF \/ GraphVars[execution[1]].execution = {} \/ GraphVars[storage[1]].alias = {}
              \/ ~SameLogicalType(GraphVars[x[1]], GraphVars[y[1]])
           THEN {} ELSE {storage}
  ELSE {}

-----------------------------------------------------------------------------
(* Permutation of the axes of an encoding. *)

ForwardOrder(order) == order
InverseOrder(order) == [i \in DOMAIN order |-> CHOOSE k \in DOMAIN order : order[k] = i]
PermuteEncoding(c, order, shape, declared, inverse, requested) ==
  LET m == c.map
      names == IF requested # <<>> THEN requested
               ELSE IF declared # <<>> THEN declared ELSE m.outputs
      applied == IF inverse THEN InverseOrder(order) ELSE order
      Rows(o) == SubSeq(m.matrix.rows, Offset(m.outputWidths, o) + 1,
                        Offset(m.outputWidths, o) + m.outputWidths[o])
      widths == Selected(m.outputWidths, applied)
      rows == FlattenSeq([i \in DOMAIN applied |-> Rows(applied[i])])
  IN  IF \/ ~IsDistributed(c) \/ m.kind # "bits" \/ Len(order) # Len(m.outputWidths)
         \/ Len(names) # Len(order) \/ ToSet(order) # DOMAIN order \/ Extents(widths) # shape
      THEN {}
      ELSE {[c EXCEPT !.map = [m EXCEPT !.outputs = names, !.outputWidths = widths,
                                        !.matrix.rows = rows]]}
-----------------------------------------------------------------------------
(* Projection of a candidate along a relation, and compatibility of two. *)

ProjectCandidate(rel, source, c, target) ==
  LET src == GraphVars[source]
      dst == GraphVars[target]
      Storage == IF IsStorage(c) THEN {c} ELSE {}
  IN  IF dst.threads # 0 /\ dst.kind = "Distributed" /\ ~MatchesThreads(c, dst.threads) THEN {}
      ELSE CASE rel.kind = "CopyAccess" ->
                  UNION {RebaseCopy(i, s, j) : i \in src.alias, s \in Storage, j \in dst.alias}
             [] rel.kind = "AliasLayout" ->
                  UNION {ProjectAlias(i, s, j) : i \in src.alias, s \in Storage, j \in dst.alias}
             [] rel.kind \in {"SameLayout", "Convertible"} -> {c}
             [] rel.kind = "TransformLayout" ->
                  PermuteEncoding(c, rel.order, dst.shape, dst.names, source # rel.vars[1], <<>>)
             [] rel.kind = "ReductionLayout" ->
                  IF <<source, target>> # rel.vars \/ ~IsDistributed(c) THEN {}
                  ELSE ProjectReduction(c, src.shape, dst.shape, rel.axis)
             [] rel.kind = "StorageAccess" ->
                  {[s EXCEPT !.space = dst.space] :
                     s \in {x \in Storage : dst.kind = "Storage" /\ dst.space # "local"}}

CopyCompatible(x, y) ==
  /\ x.proof = Proven /\ y.proof = Proven
  /\ \/ x.root # y.root
     \/ Len(x.entries) = Len(y.entries)
        /\ \A i \in DOMAIN x.entries : LET p == x.entries[i] q == y.entries[i]
                                       IN  p.view = q.view /\ p.begin = q.begin /\ p.end = q.end
     \/ Sweep(x.entries, y.entries, FALSE)

\* A distributed end with an execution contract is held to it; without one,
\* covering the tile and addressing the same tile are enough.
AccessHolds(rel, e, execution, storage, footprint) ==
  /\ SameLogicalType(execution, storage)
  /\ \A contract \in execution.execution : \E info \in storage.alias :
       VectorAccess(e, info, footprint, contract.vectorBytes, rel.access, contract.policy) = Proven
AccessCompatible(rel, lhs, a, rhs, b, x, y) ==
  IF IsDistributed(a) = IsDistributed(b)
  THEN IF IsStorage(a) THEN a.map = b.map ELSE EncodingsEqual(a, b)
  ELSE LET first == IsDistributed(a)
       IN  AccessHolds(rel, IF first THEN a ELSE b, GraphVars[IF first THEN lhs ELSE rhs],
                       GraphVars[IF first THEN rhs ELSE lhs], IF first THEN y ELSE x)

\* layoutRelationCompatible; x and y are the footprints of the two ends, and
\* proof is the proof about them in the order of their variables.
Compatible(rel, lhs, a, rhs, b, x, y, proof) ==
  LET l == GraphVars[lhs]
      r == GraphVars[rhs]
  IN  CASE rel.kind = "CopyAccess" -> /\ SameLogicalType(l, r) /\ l.alias # {} /\ r.alias # {}
                                      /\ CopyCompatible(x, y)
        [] rel.kind = "AliasLayout" -> proof = Proven
        [] rel.kind = "TransformLayout" ->
             /\ IsDistributed(b) /\ b.map.kind = "bits"
             /\ b \in PermuteEncoding(a, rel.order, r.shape, r.names, lhs # rel.vars[1],
                                      b.map.outputs)
        [] rel.kind = "Convertible" ->
             /\ IsDistributed(a) /\ IsDistributed(b) /\ SameLogicalType(l, r)
             /\ a.topology[5] = 1 /\ b.topology[5] = 1
        [] rel.kind = "StorageAccess" -> AccessCompatible(rel, lhs, a, rhs, b, x, y)
        [] OTHER -> EncodingsEqual(a, b)

\* verifyLayoutStorageCapacity
CapacityHolds(var, c, footprint) ==
  \/ var.kind # "Storage"
  \/ /\ IsStorage(c)
     /\ IF var.alias # {} THEN footprint.proof = Proven
        ELSE \E required \in FootprintBytes(c.map, var.type), capacity \in CapacityBytes(var.type) :
               required <= capacity

-----------------------------------------------------------------------------
(* Questions, in any order. *)

Question(kind, rel, x, y, holds) ==
  [kind |-> kind, rel |-> rel, x |-> x, y |-> y, holds |-> holds]
QuestionsInit ==
  /\ footprints = <<>> /\ pairs = <<>>
  /\ prepared = [footprints |-> 0, pairs |-> 0]
  /\ answer = Question("none", 0, <<1, 1>>, <<1, 1>>, FALSE) /\ asked = 0

Looked(keys) ==
  /\ footprints' = Prepared(footprints, keys)
  /\ prepared' = [prepared EXCEPT !.footprints = @ + Cardinality(keys \ DOMAIN footprints)]

\* Whether the candidate of a buffer fits it.
AskCapacity(x) ==
  LET var == GraphVars[x[1]]
      keys == IF var.alias = {} THEN {} ELSE {x}
  IN  /\ asked < MaxQuestions /\ var.kind = "Storage"
      /\ Looked(keys)
      /\ answer' = Question("capacity", 0, x, x, CapacityHolds(var, OfferAt(x), footprints'[x]))
      /\ asked' = asked + 1
      /\ UNCHANGED pairs

\* Whether a candidate satisfies what is required of its variable alone.
AskUnary(i, x) ==
  /\ asked < MaxQuestions
  /\ answer' = Question("unary", i, x, x, UnaryHolds(Required[i], GraphVars[x[1]], OfferAt(x)))
  /\ asked' = asked + 1
  /\ UNCHANGED <<footprints, pairs, prepared>>

\* Whether two candidates satisfy a relation, asked from either side.
AskRelation(i, x, y) ==
  LET rel == Related[i]
      key == PairKey(x, y)
      fresh == rel.kind = "AliasLayout" /\ key \notin DOMAIN pairs
      keys == IF rel.kind = "AliasLayout" /\ ~fresh THEN {} ELSE LookedUp(rel.kind, x, y)
  IN  /\ asked < MaxQuestions
      /\ footprints' = Prepared(footprints, keys)
      /\ pairs' = IF ~fresh THEN pairs
                  ELSE [k \in DOMAIN pairs \cup {key} |->
                          IF k \in DOMAIN pairs THEN pairs[k]
                          ELSE ProveFootprints(footprints'[key[1]], footprints'[key[2]])]
      /\ prepared' = [footprints |-> prepared.footprints + Cardinality(keys \ DOMAIN footprints),
                      pairs |-> prepared.pairs + (IF fresh THEN 1 ELSE 0)]
      /\ answer' = Question("relation", i, x, y,
                            Compatible(rel, x[1], OfferAt(x), y[1], OfferAt(y),
                                       footprints'[x], footprints'[y], pairs'[key]))
      /\ asked' = asked + 1

\* The candidates of a variable, as long as questions may be asked.
Keys(v) == {<<v, i>> : i \in DOMAIN Offers[v]}
Askable(v) == {k \in Keys(v) : asked < MaxQuestions}
QuestionsNext ==
  \/ \E x \in UNION {Askable(v) : v \in DOMAIN GraphVars} : AskCapacity(x)
  \/ \E r \in UNION {{i} \X Askable(Required[i].var) : i \in DOMAIN Required} :
       AskUnary(r[1], r[2])
  \/ \E r \in UNION {{i} \X Askable(Related[i].vars[1]) \X Askable(Related[i].vars[2]) :
                      i \in {k \in DOMAIN Related : Related[k].kind # "ReductionLayout"}} :
       AskRelation(r[1], r[2], r[3]) \/ AskRelation(r[1], r[3], r[2])
QuestionsSpec == QuestionsInit /\ [][QuestionsNext]_questionVars

-----------------------------------------------------------------------------
(* What the answers say. *)

Kind == IF answer.kind = "relation" THEN Related[answer.rel].kind ELSE answer.kind
Fresh(x) == OfferedFootprints[x[1]][x[2]]
\* The verdict of a relation on footprints built and proved here and now.
Answered(rel, lhs, a, rhs, b, x, y) ==
  Compatible(rel, lhs, a, rhs, b, x, y,
             ProveFootprints(IF rhs < lhs THEN y ELSE x, IF rhs < lhs THEN x ELSE y))

\* What the graph answers does not depend on what it was asked before: the two
\* caches, keyed by candidate and by ordered pair (LayoutRelations.cpp:91-121),
\* return what building and proving again would.
AnswersAreFresh ==
  /\ answer.kind = "relation" =>
       answer.holds = Answered(Related[answer.rel], answer.x[1], OfferAt(answer.x), answer.y[1],
                               OfferAt(answer.y), Fresh(answer.x), Fresh(answer.y))
  /\ answer.kind = "capacity" =>
       answer.holds = CapacityHolds(GraphVars[answer.x[1]], OfferAt(answer.x), Fresh(answer.x))
  /\ \A k \in DOMAIN pairs : pairs[k] = ProveFootprints(Fresh(k[1]), Fresh(k[2]))

Address(c, p) == BitOf(CHOOSE out \in Evaluate(c.map, p) : TRUE)
Meets(a, b, bits) == a < b + bits /\ b < a + bits
\* All points of a candidate of a view, with the root coordinates and the bits.
Placings(info, c) ==
  {[point |-> p, root |-> Linear(info.viewToRoot, p), bit |-> Address(c, p)] :
     p \in Points(info.viewType.shape)}
AgreeByRoot(xs, ys, bits) ==
  \A p \in xs, q \in ys : IF p.root = q.root THEN p.bit = q.bit ELSE ~Meets(p.bit, q.bit, bits)
InPlaceOrApart(xs, ys, bits) ==
  \/ \A p \in xs, q \in ys : p.point = q.point => p.bit = q.bit
  \/ \A p \in xs, q \in ys : ~Meets(p.bit, q.bit, bits)

BothFit(l, a, r, b) == IsStorage(a) /\ IsStorage(b) /\ Verified(l, a) /\ Verified(r, b)
\* Two views of one root give every coordinate of it one place of its own.
ShareTheRoot(l, a, r, b) ==
  /\ BothFit(l, a, r, b) /\ l.root = r.root /\ l.rootType = r.rootType
  /\ AgreeByRoot(Placings(l, a), Placings(r, b), l.viewType.bits)
CopyKeepsApart(l, a, r, b) ==
  /\ BothFit(l, a, r, b)
  /\ l.root = r.root => InPlaceOrApart(Placings(l, a), Placings(r, b), l.viewType.bits)
\* A buffer of its own holds every element, none on the bits of another.
FitsApart(c, shape, bits, bytes) ==
  LET element(i) == Address(c, PointAt(shape, i))
  IN  \A i \in Bits(Product(shape)) :
        /\ \A out \in Evaluate(c.map, PointAt(shape, i)) : out[2] \in Bits(8)
        /\ element(i) + bits <= 8 * bytes /\ element(i) + bits <= MaxUnsigned
        /\ \A k \in Bits(Product(shape)) \ {i} : ~Meets(element(i), element(k), bits)

RelationJudged(x, y) ==
  LET left == GraphVars[x[1]]
      right == GraphVars[y[1]]
  IN  /\ Kind = "AliasLayout" =>
           (answer.holds <=> \E l \in left.alias, r \in right.alias :
                               ShareTheRoot(l, OfferAt(x), r, OfferAt(y)))
      /\ Kind = "CopyAccess" =>
           (answer.holds <=> /\ SameLogicalType(left, right)
                             /\ \E l \in left.alias, r \in right.alias :
                                  CopyKeepsApart(l, OfferAt(x), r, OfferAt(y)))
ContractJudged(x, known) ==
  answer.holds <=> \E info \in GraphVars[x[1]].alias :
                     ShareTheRoot(known.info, known.layout, info, OfferAt(x))
CapacityJudged(x, var) ==
  answer.holds <=> /\ IsStorage(OfferAt(x)) /\ OutputBoundsHold(OfferAt(x).map, var.type.shape)
                   /\ \E bytes \in CapacityBytes(var.type) :
                        FitsApart(OfferAt(x), var.type.shape, var.type.bits, bytes)

\* Two views of one root are declared compatible exactly when both fit it and,
\* taken point by point, equal root coordinates have equal addresses and
\* different ones never touch the same bits, and so it is between a view and the
\* contract of its root; a copy within one root is
\* accepted exactly when it stays in place or its two sides never meet.  A
\* buffer of its own is large enough exactly when no two elements meet and all
\* lie within its bytes.  The code decides each by one pass over sorted
\* intervals (LayoutAliasAnalysis.cpp:500-506, FriskLayoutAttrs.cpp:1439-1446).
ConflictsAreFound ==
  /\ RelationJudged(answer.x, answer.y)
  /\ (answer.kind = "unary" /\ Required[answer.rel].kind = "RootStorageContract") =>
       ContractJudged(answer.x, Required[answer.rel].contract)
  /\ (answer.kind = "capacity" /\ GraphVars[answer.x[1]].alias = {}) =>
       CapacityJudged(answer.x, GraphVars[answer.x[1]])
=============================================================================
