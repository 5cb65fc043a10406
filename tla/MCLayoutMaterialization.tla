------------------------ MODULE MCLayoutMaterialization ------------------------
(***************************************************************************)
(* A function of three blocks, one of them with a region of two blocks of  *)
(* which control reaches one, in both printed orders of its last two       *)
(* blocks, under every control flow between them.  Operands range over the *)
(* values that SSA lets the operation use, captured ones included.         *)
(***************************************************************************)
EXTENDS LayoutMaterialization, TLC

MCBlocks == {"top", "E", "A", "B", "L", "M"}
OpsIn == ("top" :> <<"func">>) @@ ("E" :> <<"e1">>) @@ ("A" :> <<"a1">>)
           @@ ("B" :> <<"b1", "b2">>) @@ ("L" :> <<"l1">>) @@ ("M" :> <<"m1">>)

Uses == ("func" :> <<>>) @@ ("e1" :> <<"e">>)

ProgramOf(order, succ, operands, layout, wanted, edges, attrs, bindings) ==
  [blocks |-> ("module" :> <<"top">>) @@ ("body" :> order) @@ ("loop" :> <<"L", "M">>),
   ops |-> OpsIn,
   args |-> [b \in MCBlocks |-> CASE b = "E" -> {"e"} [] b = "L" -> {"n"} [] OTHER -> {}],
   operands |-> operands @@ Uses,
   results |-> ("a1" :> {"a"}) @@ ("b1" :> {"b"}) @@ [o \in {"func", "e1", "b2", "l1", "m1"} |-> {}],
   regions |-> ("func" :> <<"body">>) @@ ("b1" :> <<"loop">>)
                 @@ [o \in {"e1", "a1", "b2", "l1", "m1"} |-> <<>>],
   ancestors |-> ("l1" :> {"b1", "func"}) @@ ("m1" :> {"b1", "func"}) @@ ("func" :> {})
                   @@ [o \in {"e1", "a1", "b1", "b2"} |-> {"func"}],
   layout |-> layout, wanted |-> wanted, edges |-> edges,
   bindings |-> bindings, attrs |-> attrs,
   succ |-> succ @@ ("top" :> {}) @@ ("L" :> {}) @@ ("M" :> {"L"})]

Edge(o, i, source, target) == [op |-> o, operand |-> i, source |-> source, target |-> target]

AllOps == {"func", "e1", "a1", "b1", "b2", "l1", "m1"}

\* The edges a solution selects, in the order of the operations or reversed.
EdgesOfSolution(operands, layout, wanted) ==
  LET all == operands @@ Uses
      of(o) == [i \in DOMAIN all[o] |-> Edge(o, i, layout[all[o][i]], wanted[o][i])]
  IN  SelectSeq(of("e1") \o of("a1") \o of("b1") \o of("b2") \o of("l1") \o of("m1"),
                LAMBDA e : e.source # e.target)

Plain == [o \in AllOps |-> <<>>]

Orders == {<<"E", "A", "B">>, <<"E", "B", "A">>}
Flows == {("E" :> s) @@ ("A" :> t) @@ ("B" :> u) :
            s \in SUBSET {"A", "B"}, t \in SUBSET {"B"}, u \in SUBSET {"A"}}
Operands ==
  {("a1" :> <<p, q>>) @@ ("b1" :> <<r>>) @@ ("b2" :> <<"b">>) @@ ("l1" :> <<s>>) @@ ("m1" :> <<t>>) :
     p \in {"e", "a", "b"}, q \in {"e", "b"}, r \in {"e", "a", "b"}, s \in {"e", "a", "n"},
     t \in {"e", "b"}}

Layout(x) == [v \in {"e", "a", "b", "n"} |-> IF v \in x THEN "row" ELSE "column"]

Wanted(a, q, b, l) ==
  ("func" :> <<>>) @@ ("e1" :> <<"row">>) @@ ("a1" :> <<a, q>>) @@ ("b1" :> <<b>>)
    @@ ("b2" :> <<b>>) @@ ("l1" :> <<l>>) @@ ("m1" :> <<l>>)

WithSolution(order, succ, operands, layout, wanted, reversed, attrs, bindings) ==
  LET edges == EdgesOfSolution(operands, layout, wanted)
  IN  ProgramOf(order, succ, operands, layout, wanted,
                IF reversed THEN Reverse(edges) ELSE edges, attrs, bindings)

\* Every control flow, with one solution.
Shapes ==
  {p \in {WithSolution(order, succ, operands, Layout({"e", "b"}),
                       Wanted("row", "column", "column", "row"), FALSE, Plain, {}) :
            order \in Orders, succ \in Flows, operands \in Operands} : IsSSA(p)}

\* One control flow, with every solution of two encodings.
Encodings == {"row", "column"}
Diamond == ("E" :> {"A"}) @@ ("A" :> {"B"}) @@ ("B" :> {"A"})
Shared == ("a1" :> <<"e", "e">>) @@ ("b1" :> <<"e">>) @@ ("b2" :> <<"b">>) @@ ("l1" :> <<"a">>)
            @@ ("m1" :> <<"e">>)
Solutions ==
  {WithSolution(<<"E", "B", "A">>, Diamond, Shared, Layout(x), Wanted(p, q, r, s), v, Plain, {}) :
     x \in SUBSET {"e", "a", "b"}, p \in Encodings, q \in Encodings,
     r \in Encodings, s \in Encodings, v \in BOOLEAN}

\* A view with a storage layout and an operation with a contract, where none,
\* the same, another or an unrelated attribute is there already.
Present == {<<>>, "layout" :> "swizzled", "layout" :> "plain", "note" :> "kept",
            "threads" :> 128, ("threads" :> 64) @@ ("note" :> "kept")}
Bound ==
  {WithSolution(<<"E", "B", "A">>, Diamond, Shared, Layout({"e"}),
                Wanted("row", "row", "column", "row"), FALSE,
                [Plain EXCEPT !["e1"] = x, !["a1"] = y],
                {[op |-> "e1", attrs |-> "layout" :> "swizzled"],
                 [op |-> "a1", attrs |-> ("threads" :> 128) @@ ("contract" :> "reduce")]}) :
     x \in Present, y \in Present}

MCPrograms == Shapes \cup Solutions \cup Bound
=============================================================================
