-------------------------- MODULE MCLegacyPromotion --------------------------
(***************************************************************************)
(* Kernels with two fragments: nothing, a fill or a load, then a branch or *)
(* loop with every body of up to two operations, one more level of nesting *)
(* for some, and stores of both fragments at the end.                      *)
(***************************************************************************)
EXTENDS LegacyPromotionMeaning

Op(kind, from, to) ==
  [kind |-> kind, from |-> from, to |-> to, clear |-> TRUE, legal |-> TRUE,
   range |-> <<>>, blocks |-> <<>>]
Region(kind, blocks) == [Op(kind, <<>>, "") EXCEPT !.blocks = blocks]
Accumulating(o) == [o EXCEPT !.clear = FALSE]

FillF == Op("fill", <<"one">>, "f")
LoadG == Op("copy", <<"s">>, "g")
CopyFG == Op("copy", <<"f">>, "g")
Gemm == Accumulating(Op("gemm", <<"g", "s">>, "f"))
GemmClear == Op("gemm", <<"s", "s">>, "f")
Sum == Accumulating(Op("reduce", <<"f">>, "g"))
SumClear == Op("reduce", <<"s">>, "g")
StoreF == Op("copy", <<"f">>, "t")
StoreG == Op("copy", <<"g">>, "s")

Leaves == {FillF, LoadG, CopyFG, Gemm, GemmClear, Sum, SumClear, StoreG}
Few == {FillF, CopyFG, Gemm, StoreG}

Bodies(ops) == {<<>>} \cup {<<x>> : x \in ops}
Pairs(ops) == Bodies(ops) \cup {<<x, y>> : x \in ops, y \in ops}

If(b, c) == Region("if", <<b, c>>)
When(b) == Region("if", <<b>>)
For(b) == Region("for", <<b>>)
While(b, c) == Region("while", <<b, c>>)
LegacyFor(l, u, s, b) == [Region("legacy_for", <<b>>) EXCEPT !.range = <<l, u, s>>]

Flat ==
  {When(b) : b \in Pairs(Leaves)} \cup {For(b) : b \in Pairs(Leaves)}
    \cup {If(b, c) : b \in Bodies(Leaves), c \in Bodies(Leaves)}
    \cup {While(b, c) : b \in Bodies(Leaves), c \in Bodies(Leaves)}
    \cup {LegacyFor(0, 3, 2, b) : b \in Pairs(Few)}
    \cup {LegacyFor(l, u, s, <<StoreG>>) : l \in 0..1, u \in 0..1, s \in 0..1}

Inner == {If(b, c) : b \in Bodies(Few), c \in Bodies(Few)} \cup {For(b) : b \in Bodies(Few)}
           \cup {While(b, c) : b \in Bodies({Gemm}), c \in Bodies({CopyFG, FillF})}
Deep ==
  {Region(k, <<<<x>> \o y>>) : k \in {"if", "for"}, x \in Inner, y \in Bodies({CopyFG, Gemm})}
    \cup {While(<<x>>, y) : x \in Inner, y \in Bodies({CopyFG})}
    \cup {While(y, <<x>>) : x \in Inner, y \in Bodies({CopyFG})}

Allocate == <<Op("alloc", <<>>, "f"), Op("alloc", <<>>, "g")>>
Starts == {<<>>, <<FillF>>, <<FillF, LoadG>>}
Ends == {<<StoreF>>, <<StoreF, StoreG>>}

Kernels ==
  {Allocate \o x \o <<y>> \o z : x \in Starts, y \in Flat, z \in Ends}
    \cup {Allocate \o x \o <<y>> \o <<StoreF, StoreG>> : x \in {<<FillF>>, <<FillF, LoadG>>}, y \in Deep}

\* Lifetimes, scopes and unsupported places.
Drop(f) == Op("dealloc", <<>>, f)
AllocateIn(b) == <<Op("alloc", <<>>, "g")>> \o b
Illegal(o) == [o EXCEPT !.legal = FALSE]
Special ==
  { Allocate \o <<FillF, LoadG, StoreF, Drop("f"), StoreG, Drop("g")>>,
    Allocate \o <<FillF, LoadG, Drop("f"), StoreF>>,
    Allocate \o <<FillF, StoreF, Drop("f"), Drop("f")>>,
    Allocate \o <<FillF, When(<<Drop("f")>>)>>,
    Allocate \o <<FillF, When(<<StoreF>>), Drop("f")>>,
    <<Op("alloc", <<>>, "f"), FillF, For(AllocateIn(<<CopyFG, Drop("g")>>)), StoreF>>,
    <<Op("alloc", <<>>, "f"), FillF, For(AllocateIn(<<StoreG>>)), StoreF>>,
    <<Op("alloc", <<>>, "f"), FillF, Region("parallel", <<AllocateIn(<<LoadG, StoreG>>)>>), StoreF>>,
    <<Op("alloc", <<>>, "f"), FillF, Region("kernel", <<AllocateIn(<<CopyFG, StoreG>>)>>)>>,
    <<Op("alloc", <<>>, "f"), For(<<Region("parallel", <<<<FillF>>>>)>>)>>,
    Allocate \o <<FillF, Region("opaque", <<<<Op("copy", <<"s">>, "t")>>>>), StoreF>>,
    Allocate \o <<FillF, Region("opaque", <<<<StoreF>>>>)>>,
    <<Region("opaque", <<<<Op("gemm", <<"s", "s">>, "t")>>>>)>>,
    <<StoreF>>,
    <<LegacyFor(0, 2, 1, <<Op("copy", <<"s">>, "t")>>), LegacyFor(1, 0, 0, <<Op("fill", <<"one">>, "t")>>)>>,
    Allocate \o <<FillF, Op("gemm", <<"s", "s">>, "t")>>,
    Allocate \o <<FillF, Op("gemm", <<"s", "f">>, "g")>>,
    Allocate \o <<FillF, Op("reduce", <<"f">>, "t")>>,
    Allocate \o <<Illegal(FillF), StoreF>>, Allocate \o <<FillF, Illegal(StoreF)>>,
    Allocate \o <<Illegal(GemmClear), StoreF>>,
    <<Illegal(Op("alloc", <<>>, "f")), FillF, StoreF>> }

MCPrograms == Kernels \cup Special
MCOracles == UNION {[1..n -> 0..1] : n \in {4}}
=============================================================================
