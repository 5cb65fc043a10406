---------------------- MODULE MCLayoutGraphConstruction ----------------------
(***************************************************************************)
(* Small programs for LayoutGraphConstruction: a loop with two carried     *)
(* tensors and every way to yield them, a while whose two tuples differ in *)
(* arity and order, a branch with a transpose and an explicit conversion,  *)
(* code without regions, and programs the collector refuses.               *)
(***************************************************************************)
EXTENDS LayoutGraphConstruction

Layouts == {"row", "column"}
Flip    == [d \in Layouts |-> IF d = "row" THEN "column" ELSE "row"]

\* The names sort as created, backwards, or from the middle on.
Orders(n) == {[i \in 1..n |-> i], [i \in 1..n |-> n + 1 - i],
              [i \in 1..n |-> 1 + ((i + n \div 2) % n)]}

flag   == 90
memory == 80
MCOp(kind, parent, operands, results, args) ==
  [kind |-> kind, parent |-> parent, operands |-> operands, results |-> results,
   args |-> args, after |-> <<>>, outs |-> <<>>, mixed |-> {}]
Func(args) == [MCOp("func", 0, <<>>, <<>>, args) EXCEPT !.outs = <<31>>]
Prog(ops, pinned) == [ops |-> ops, tensors |-> 1..40, bad |-> {40}, pinned |-> pinned]

Pins(e) == {<<>>, [x \in {e} |-> "row"]}

Loops ==
  {Prog(<<Func(<<1, 2>>),
          MCOp("for", 1, <<1, i>>, <<5, 6>>, <<3, 4>>),
          [MCOp("elementwise", 2, <<a, 1>>, <<7>>, <<>>) EXCEPT !.mixed = m],
          MCOp("yield", 2, <<y, z>>, <<>>, <<>>),
          MCOp("return", 1, <<r>>, <<>>, <<>>)>>, pin)
     : i \in {1, 2}, a \in {1, 3}, m \in {{}, {2}}, y \in {3, 4, 7}, z \in {3, 4},
       r \in {5, 6}, pin \in Pins(<<"value", 1>>) \cup Pins(<<"result", 1, 1>>)}

Whiles ==
  {Prog(<<Func(<<1, 2>>),
          [MCOp("while", 1, <<1, 2>>, <<7, 8>>, <<3, 4>>) EXCEPT !.after = <<5, 6>>],
          MCOp("condition", 2, <<flag, c, d>>, <<>>, <<>>),
          MCOp("yield", 2, <<y, z>>, <<>>, <<>>),
          MCOp("return", 1, <<8>>, <<>>, <<>>)>>, pin)
     : c \in {3, 4}, d \in {3, 4}, y \in {5, 6, 1}, z \in {5, 6},
       pin \in Pins(<<"value", 3>>)}
  \cup
  {Prog(<<Func(<<1, 2>>),
          [MCOp("while", 1, <<1, 2>>, <<7>>, <<3, 4>>) EXCEPT !.after = <<5>>],
          MCOp("condition", 2, <<flag, c>>, <<>>, <<>>),
          [MCOp("elementwise", 2, <<5, 1>>, <<9, 10>>, <<>>) EXCEPT !.mixed = m],
          MCOp("yield", 2, <<y, z>>, <<>>, <<>>),
          MCOp("return", 1, <<7>>, <<>>, <<>>)>>, <<>>)
     : c \in {3, 4}, y \in {5, 9}, z \in {5, 10}, m \in {{}, {1}}}

Branches ==
  {Prog(<<Func(<<1>>),
          MCOp("load", 1, <<memory>>, <<2>>, <<>>),
          MCOp("if", 1, <<flag>>, <<3>>, <<>>),
          MCOp("transpose", 3, <<1, x>>, <<4>>, <<>>),
          MCOp("yield", 3, <<y>>, <<>>, <<>>),
          MCOp("convert", 3, <<2>>, <<5>>, <<>>),
          MCOp("yield", 3, <<z>>, <<>>, <<>>),
          MCOp("store", 1, <<3, memory>>, <<>>, <<>>),
          MCOp("other", 1, <<flag>>, <<>>, <<>>),
          MCOp("return", 1, <<3>>, <<>>, <<>>)>>, pin)
     : x \in {1, 2}, y \in {1, 4}, z \in {2, 5}, pin \in Pins(<<"value", 5>>)}

Straight ==
  {Prog(<<Func(<<1, 2>>),
          [MCOp("elementwise", 1, <<a, 2>>, <<3, 4>>, <<>>) EXCEPT !.mixed = m],
          MCOp("transpose", 1, <<b, 1>>, <<5>>, <<>>),
          MCOp("return", 1, <<r>>, <<>>, <<>>)>>, pin)
     : a \in {1, 2}, m \in {{}, {1}}, b \in {3, 4}, r \in {4, 5}, pin \in Pins(<<"value", 2>>)}

Refusals ==
  {Prog(<<Func(<<1>>), MCOp("constant", 1, <<>>, <<40>>, <<>>)>>, <<>>),
   Prog(<<Func(<<1>>), MCOp("other", 1, <<1>>, <<2>>, <<>>)>>, <<>>),
   Prog(<<[Func(<<>>) EXCEPT !.kind = "external"]>>, <<>>),
   Prog(<<Func(<<1>>), MCOp("block", 1, <<flag>>, <<>>, <<>>),
          MCOp("yield", 2, <<1>>, <<>>, <<>>)>>, <<>>)}

MCPrograms == Loops \cup Whiles \cup Branches \cup Straight \cup Refusals
==============================================================================
