----------------------------- MODULE GF2Algebra -----------------------------
(***************************************************************************)
(* Matrices over the field of two elements (LayoutAlgebra.cpp).  A bit     *)
(* vector is the set of the positions of its ones, so the exclusive or of  *)
(* vectors is their symmetric difference.  The result of a function that   *)
(* may fail is a set: empty, or the one value.                             *)
(***************************************************************************)
EXTENDS Naturals, Sequences, SequencesExt, FiniteSetsExt, Functions, TLC

Bits(n) == 0..(n - 1)
Odd(S) == Cardinality(S) % 2 = 1
\* The members of a set of numbers in increasing order.
Ascending(S) ==
  [i \in 1..Cardinality(S) |-> CHOOSE x \in S : Cardinality({y \in S : y < x}) = i - 1]

Matrix(rows, columns) == [rows |-> rows, columns |-> columns]
Checked(rows, columns) ==
  IF rows = <<>> \/ columns = 0 THEN {} ELSE {Matrix(rows, columns)}

Apply(m, x) == {r \in Bits(Len(m.rows)) : Odd(m.rows[r + 1] \cap x)}

Transposed(m) ==
  Matrix([c \in 1..m.columns |-> {r \in Bits(Len(m.rows)) : c - 1 \in m.rows[r + 1]}],
         Len(m.rows))

\* Row r of the product is the exclusive or of the rows of b that row r of a names.
MatrixProduct(a, b) ==
  IF a.columns # Len(b.rows) THEN {}
  ELSE {Matrix([r \in DOMAIN a.rows |-> Apply(Transposed(b), a.rows[r])], b.columns)}

Identity(n) == [r \in 1..n |-> {r - 1}]

\* The rows a pivot row is added to: all the others, not only those below it.
ClearsBelow(r, pivot) == r > pivot
Clears(r, pivot) == r # pivot

\* One column of Gauss-Jordan elimination: the first row from the pivot row on
\* with a one in it is swapped up and added to every other row with a one.
Eliminate(state, column) ==
  LET pivot == Len(state.pivots) + 1
      hits == {r \in pivot..Len(state.rows) : column \in state.rows[r]}
      Swapped(q) == [q EXCEPT ![pivot] = q[Min(hits)], ![Min(hits)] = q[pivot]]
      rows == Swapped(state.rows)
      Reduced(q) == [r \in DOMAIN q |-> IF Clears(r, pivot) /\ column \in rows[r]
                                        THEN SymDiff(q[r], q[pivot]) ELSE q[r]]
  IN  IF hits = {} THEN state
      ELSE [rows |-> Reduced(rows), transform |-> Reduced(Swapped(state.transform)),
            pivots |-> Append(state.pivots, column)]

Columns(m) == [c \in 1..m.columns |-> c - 1]
Augmented(m) == [rows |-> m.rows, transform |-> Identity(Len(m.rows)), pivots |-> <<>>]
Rref(m) == FoldLeft(Eliminate, Augmented(m), Columns(m))

Rank(m) == Len(Rref(m).pivots)

Pivoted(reduced, column) == {p \in DOMAIN reduced.pivots : reduced.pivots[p] = column}
KernelOf(reduced, columns) ==
  LET free == Ascending({c \in Bits(columns) : Pivoted(reduced, c) = {}})
      Vector(c) == {c} \cup {reduced.pivots[p] : p \in {q \in DOMAIN reduced.pivots :
                                                          c \in reduced.rows[q]}}
  IN  [i \in DOMAIN free |-> Vector(free[i])]
KernelBasis(m) == KernelOf(Rref(m), m.columns)

FullInverseOf(reduced, columns) ==
  IF Len(reduced.rows) # columns \/ Len(reduced.pivots) # columns THEN {}
  ELSE {Matrix(reduced.transform, columns)}
Inverted(m) == FullInverseOf(Rref(m), m.columns)

RightInverseOf(reduced, columns) ==
  LET RowOf(c) == UNION {reduced.transform[p] : p \in Pivoted(reduced, c)}
  IN  IF Len(reduced.pivots) # Len(reduced.rows) THEN {}
      ELSE {Matrix([c \in 1..columns |-> RowOf(c - 1)], Len(reduced.rows))}
RightInverse(m) == RightInverseOf(Rref(m), m.columns)

-----------------------------------------------------------------------------
\* Reference: a vector as a combination of vectors, by enumeration of subsets.
Span(vectors) == {{c \in UNION vectors : Odd({v \in S : c \in v})} : S \in SUBSET vectors}

\* Elimination solves what it claims: the rank is the size of the image, the
\* kernel basis spans exactly the vectors sent to zero, independently, and a
\* one-sided or full inverse exists exactly when it should and is one.
KernelSolves(m, kernel, inputs) ==
  /\ Span(ToSet(kernel)) = {x \in inputs : Apply(m, x) = {}}
  /\ Len(kernel) = m.columns - Rank(m)
RightInverseSolves(m, inverse, image, outputs) ==
  /\ (inverse # {}) <=> (image = outputs)
  /\ \A i \in inverse : \A y \in outputs : Apply(m, Apply(i, y)) = y
InverseSolves(m, inverse, image, inputs, outputs) ==
  /\ (inverse # {}) <=> (Len(m.rows) = m.columns /\ image = outputs)
  /\ \A i \in inverse : \A x \in inputs :
       Apply(i, Apply(m, x)) = x /\ Apply(m, Apply(i, x)) = x
Solves(m) ==
  LET inputs == SUBSET Bits(m.columns)
      outputs == SUBSET Bits(Len(m.rows))
      image == {Apply(m, x) : x \in inputs}
  IN  /\ Cardinality(image) = 2 ^ Rank(m)
      /\ KernelSolves(m, KernelBasis(m), inputs)
      /\ RightInverseSolves(m, RightInverse(m), image, outputs)
      /\ InverseSolves(m, Inverted(m), image, inputs, outputs)
=============================================================================
