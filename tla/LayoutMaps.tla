----------------------------- MODULE LayoutMaps -----------------------------
(***************************************************************************)
(* Layout maps and the attributes that carry them (FriskLayoutAttrs.cpp).  *)
(* A map sends a point, one coordinate per input name, to one coordinate   *)
(* per output name.  A bit-linear map is a matrix over the bits of its     *)
(* coordinates, an affine map has one linear form per output, a product    *)
(* adds a bit-linear inner map to an affine outer one.  An affine map with *)
(* divisions in it is given as the table of its values.  The result of a   *)
(* function that may fail is a set: empty, or the one value.               *)
(***************************************************************************)
EXTENDS GF2Algebra, Integers

CONSTANTS MaxInt,           \* the largest signed integer
          EnumerationLimit  \* kEnumerationLimit

ASSUME MapsAssumption == MaxInt \in Nat /\ EnumerationLimit \in Nat

Dynamic == -1  \* ShapedType::kDynamic

Sum(s) == LET upTo[i \in 0..Len(s)] == IF i = 0 THEN 0 ELSE upTo[i - 1] + s[i]
          IN  upTo[Len(s)]
Product(s) == LET upTo[i \in 0..Len(s)] == IF i = 0 THEN 1 ELSE upTo[i - 1] * s[i]
              IN  upTo[Len(s)]
Offset(widths, i) == Sum(SubSeq(widths, 1, i - 1))
IsPowerOf2(n) == \E k \in 0..16 : n = 2 ^ k
Extents(widths) == [i \in DOMAIN widths |-> 2 ^ widths[i]]
Find(names, name) == {i \in DOMAIN names : names[i] = name}
Unique(s) == Cardinality(ToSet(s)) = Len(s)

\* A point lies in a shape; all of them, when there are not too many.
Within(point, shape) ==
  Len(point) = Len(shape) /\ \A i \in DOMAIN shape : point[i] \in Bits(shape[i])
PointCount(shape) ==
  IF (\E i \in DOMAIN shape : shape[i] <= 0) \/ Product(shape) > EnumerationLimit
  THEN {} ELSE {Product(shape)}
\* The i-th point in row-major order.
PointAt(shape, i) ==
  [d \in DOMAIN shape |-> (i \div Product(SubSeq(shape, d + 1, Len(shape)))) % shape[d]]
Points(shape) == {PointAt(shape, i) : i \in Bits(Product(shape))}

-----------------------------------------------------------------------------
(* Construction: what each attribute verifies of itself. *)

NamesVerify(names) == "" \notin ToSet(names) /\ Unique(names)
WidthsVerify(widths) == \A i \in DOMAIN widths : widths[i] > 0
ExtentsVerify(extents) == \A i \in DOMAIN extents : extents[i] > 0 \/ extents[i] = Dynamic
BitsVerify(m) ==
  /\ Len(m.inputs) = Len(m.inputWidths) /\ Len(m.outputs) = Len(m.outputWidths)
  /\ NamesVerify(m.inputs) /\ NamesVerify(m.outputs)
  /\ WidthsVerify(m.inputWidths) /\ WidthsVerify(m.outputWidths)
  /\ Len(m.matrix.rows) = Sum(m.outputWidths) /\ m.matrix.columns = Sum(m.inputWidths)

AffineVerify(m) ==
  /\ Len(m.inputs) = Len(m.inputExtents) /\ Len(m.outputs) = Len(m.outputExtents)
  /\ NamesVerify(m.inputs) /\ NamesVerify(m.outputs)
  /\ ExtentsVerify(m.inputExtents) /\ ExtentsVerify(m.outputExtents)
  /\ Len(m.results) = Len(m.outputs)
  /\ \A o \in DOMAIN m.results : Len(m.results[o].coefficient) = Len(m.inputs)
  /\ m.symbols = Cardinality({i \in DOMAIN m.inputExtents : m.inputExtents[i] = Dynamic})

MultipleOf(form, n) ==
  form.constant % n = 0 /\ \A i \in DOMAIN form.coefficient : form.coefficient[i] % n = 0

ProductVerify(m) ==
  /\ m.outer.kind = "affine" /\ m.inner.kind = "bits"
  /\ Len(m.splits) = Len(m.outer.outputs) /\ Len(m.inner.outputs) = Len(m.outer.outputs)
  /\ \A o \in DOMAIN m.splits :
       /\ m.splits[o] > 0 /\ IsPowerOf2(m.splits[o])
       /\ \E i \in Find(m.inner.outputs, m.outer.outputs[o]) :
            2 ^ m.inner.outputWidths[i] = m.splits[o]
       /\ MultipleOf(m.outer.results[o], m.splits[o])

\* A table stands for the values of an affine map with divisions.
TableVerify(m) ==
  /\ NamesVerify(m.outputs)
  /\ m.outputExtents \in Seq(Int) /\ Len(m.outputs) = Len(m.outputExtents)
  /\ DOMAIN m.address = Points(m.inputExtents)

MapKinds == {"bits", "affine", "table", "product"}
MapVerify(m) == CASE m.kind = "bits" -> BitsVerify(m)
                  [] m.kind = "affine" -> AffineVerify(m)
                  [] m.kind = "table" -> TableVerify(m)
                  [] m.kind = "product" -> /\ AffineVerify(m.outer) /\ BitsVerify(m.inner)
                                           /\ ProductVerify(m)

OutputsOf(m) == IF m.kind = "product" THEN m.outer.outputs ELSE m.outputs
InputsOf(m) == IF m.kind = "product" THEN m.outer.inputs \o m.inner.inputs ELSE m.inputs

-----------------------------------------------------------------------------
(* Evaluation at a point. *)

\* The bits of the coordinates side by side, and the coordinates of such bits.
Packed(point, widths) ==
  UNION {{Offset(widths, i) + b : b \in {k \in Bits(widths[i]) : (point[i] \div 2 ^ k) % 2 = 1}} :
           i \in DOMAIN widths}
Unpacked(bits, widths) ==
  [o \in DOMAIN widths |->
     MapThenSumSet(LAMBDA b : 2 ^ b, {b \in Bits(widths[o]) : Offset(widths, o) + b \in bits})]

MatrixOf(m) == Checked(m.matrix.rows, m.matrix.columns)
EvaluateBits(m, point) ==
  IF ~Within(point, Extents(m.inputWidths)) THEN {}
  ELSE {Unpacked(Apply(a, Packed(point, m.inputWidths)), m.outputWidths) :
          a \in MatrixOf(m)}

Value(form, point) ==
  form.constant + Sum([i \in DOMAIN point |-> form.coefficient[i] * point[i]])
EvaluateAffine(m, point) ==
  IF Len(point) # Len(m.inputs) \/ m.symbols # 0 THEN {}
  ELSE {[o \in DOMAIN m.results |-> Value(m.results[o], point)]}

EvaluateProduct(m, point) ==
  LET split == Len(m.outer.inputs)
      Outer == EvaluateAffine(m.outer, SubSeq(point, 1, split))
      Inner == EvaluateBits(m.inner, SubSeq(point, split + 1, Len(point)))
      Added(a, b) == [o \in DOMAIN a |->
                        a[o] + b[CHOOSE i \in DOMAIN b : m.inner.outputs[i] = m.outer.outputs[o]]]
  IN  IF Len(point) # split + Len(m.inner.inputs) THEN {}
      ELSE {r \in {Added(a, b) : a \in Outer, b \in Inner} : \A o \in DOMAIN r : r[o] <= MaxInt}

Evaluate(m, point) == CASE m.kind = "bits" -> EvaluateBits(m, point)
                        [] m.kind = "affine" -> EvaluateAffine(m, point)
                        [] m.kind = "table" -> {m.address[p] : p \in {point} \cap DOMAIN m.address}
                        [] m.kind = "product" -> EvaluateProduct(m, point)

StaticDomain(m) ==
  CASE m.kind = "bits" -> {Extents(m.inputWidths)}
    [] m.kind \in {"affine", "table"} -> {e \in {m.inputExtents} : Dynamic \notin ToSet(e)}
    [] m.kind = "product" -> {d \in {m.outer.inputExtents \o Extents(m.inner.inputWidths)} :
                                Dynamic \notin ToSet(d)}
OutputExtents(m) ==
  CASE m.kind = "bits" -> {Extents(m.outputWidths)}
    [] m.kind \in {"affine", "table"} -> {e \in {m.outputExtents} : Dynamic \notin ToSet(e)}
    [] m.kind = "product" -> {e \in {m.outer.outputExtents} : Dynamic \notin ToSet(e)}

OutputBoundsHold(m, shape) ==
  /\ OutputExtents(m) # {} /\ PointCount(shape) # {}
  /\ \A p \in Points(shape) : \E out \in Evaluate(m, p), e \in OutputExtents(m) : Within(out, e)

-----------------------------------------------------------------------------
(* Maps from maps: canonical form, composition, projection, permutation. *)

\* A matrix read off column by column.
DenseMatrix(a) == Transposed(Matrix([c \in 1..a.columns |-> Apply(a, {c - 1})], Len(a.rows)))
CanonicalBits(m) == {[m EXCEPT !.matrix = DenseMatrix(a)] : a \in MatrixOf(m)}
Canonical(m) ==
  CASE m.kind = "bits" -> CanonicalBits(m)
    [] m.kind \in {"affine", "table"} -> {m}
    [] m.kind = "product" -> {[m EXCEPT !.inner = b] : b \in CanonicalBits(m.inner)}

\* The outputs of rhs as they stand.
AlignmentByPosition(lhs, rhs) ==
  IF Sum(lhs.inputWidths) # Sum(rhs.outputWidths) THEN {}
  ELSE Checked(Identity(Sum(rhs.outputWidths)), Sum(rhs.outputWidths))
\* The outputs of rhs in the order of the inputs of lhs, as a matrix.
Alignment(lhs, rhs) ==
  LET Source(i) == CHOOSE j \in DOMAIN rhs.outputs : rhs.outputs[j] = lhs.inputs[i]
      Rows(i) == [b \in 1..lhs.inputWidths[i] |-> {Offset(rhs.outputWidths, Source(i)) + b - 1}]
  IN  IF \/ Len(lhs.inputs) # Len(rhs.outputs) \/ Sum(lhs.inputWidths) # Sum(rhs.outputWidths)
         \/ \E i \in DOMAIN lhs.inputs :
              \A j \in Find(rhs.outputs, lhs.inputs[i]) : rhs.outputWidths[j] # lhs.inputWidths[i]
      THEN {} ELSE Checked(FlattenSeq([i \in DOMAIN lhs.inputs |-> Rows(i)]), Sum(rhs.outputWidths))

ComposeBits(lhs, rhs) ==
  {[lhs EXCEPT !.inputs = rhs.inputs, !.inputWidths = rhs.inputWidths, !.matrix = composed] :
     composed \in UNION {MatrixProduct(aligned, rhs.matrix) :
        aligned \in UNION {MatrixProduct(b, a) : b \in MatrixOf(lhs), a \in Alignment(lhs, rhs)}}}

\* The positions of the requested names, each named once.
OutputOrder(available, requested) ==
  IF ~Unique(requested) \/ \E i \in DOMAIN requested : Find(available, requested[i]) = {} THEN {}
  ELSE {[i \in DOMAIN requested |-> CHOOSE j \in DOMAIN available : available[j] = requested[i]]}
Selected(s, order) == [i \in DOMAIN order |-> s[order[i]]]

Substituted(form, forms) ==
  [constant |-> form.constant
                + Sum([i \in DOMAIN forms |-> form.coefficient[i] * forms[i].constant]),
   coefficient |-> [k \in DOMAIN forms[1].coefficient |->
                      Sum([i \in DOMAIN forms |-> form.coefficient[i] * forms[i].coefficient[k]])]]
ComposeAffine(lhs, rhs) ==
  LET Fits(order) == /\ Len(order) = Len(rhs.outputs)
                     /\ \A i \in DOMAIN order :
                          LET a == lhs.inputExtents[i] b == rhs.outputExtents[order[i]]
                          IN  a = Dynamic \/ b = Dynamic \/ a = b
      Composed(order) ==
        [lhs EXCEPT !.inputs = rhs.inputs, !.inputExtents = rhs.inputExtents,
                    !.results = [o \in DOMAIN @ |-> Substituted(@[o], Selected(rhs.results, order))]]
  IN  IF lhs.symbols # 0 \/ rhs.symbols # 0 THEN {}
      ELSE {Composed(order) : order \in {x \in OutputOrder(rhs.outputs, lhs.inputs) : Fits(x)}}

Compose(lhs, rhs) ==
  CASE lhs.kind # rhs.kind -> {}
    [] lhs.kind = "bits" /\ rhs.kind = "bits" -> ComposeBits(lhs, rhs)
    [] lhs.kind = "affine" /\ rhs.kind = "affine" -> ComposeAffine(lhs, rhs)
    [] lhs.kind = "product" /\ rhs.kind = "product" ->
         IF lhs.splits # rhs.splits THEN {}
         ELSE {[lhs EXCEPT !.outer = outer, !.inner = inner] :
                 outer \in ComposeAffine(lhs.outer, rhs.outer),
                 inner \in ComposeBits(lhs.inner, rhs.inner)}

ProjectAffine(m, names) ==
  {[m EXCEPT !.outputs = Selected(@, order), !.outputExtents = Selected(@, order),
             !.results = Selected(@, order)] : order \in OutputOrder(m.outputs, names)}
ProjectTable(m, names) ==
  {[m EXCEPT !.outputs = Selected(@, order), !.outputExtents = Selected(@, order),
             !.address = [p \in DOMAIN @ |-> Selected(@[p], order)]] :
     order \in OutputOrder(m.outputs, names)}
ProjectBits(m, names) ==
  LET RowsOf(o) == SubSeq(m.matrix.rows, Offset(m.outputWidths, o) + 1,
                          Offset(m.outputWidths, o) + m.outputWidths[o])
  IN  {[m EXCEPT !.outputs = Selected(@, order), !.outputWidths = Selected(@, order),
                 !.matrix.rows = FlattenSeq([i \in DOMAIN order |-> RowsOf(order[i])])] :
         order \in OutputOrder(m.outputs, names)}
Project(m, names) ==
  CASE m.kind = "bits" -> ProjectBits(m, names)
    [] m.kind = "affine" -> ProjectAffine(m, names)
    [] m.kind = "table" -> ProjectTable(m, names)
    [] m.kind = "product" ->
         {[m EXCEPT !.outer = outer, !.inner = inner, !.splits = Selected(@, order)] :
            order \in OutputOrder(m.outer.outputs, names),
            outer \in ProjectAffine(m.outer, names), inner \in ProjectBits(m.inner, names)}
Permute(m, names) == IF Len(OutputsOf(m)) # Len(names) THEN {} ELSE Project(m, names)
=============================================================================
