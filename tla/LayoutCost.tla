----------------------------- MODULE LayoutCost -----------------------------
(***************************************************************************)
(* The price of an assignment (LayoutCostModel.cpp): nine counts compared  *)
(* in order of importance, in arithmetic that stops at the largest         *)
(* unsigned integer and reports that it did.  An assignment is built one   *)
(* variable at a time, and the price of a part is what the solver bounds   *)
(* the price of the whole by.                                              *)
(***************************************************************************)
EXTENDS LayoutRelations

CONSTANT MaxCost  \* the largest count

ASSUME CountsAssumption == MaxCost \in Nat

VARIABLES assignment,  \* the candidates chosen so far, by variable
          estimate     \* what they cost, with the conversions between them

costVars == <<assignment, estimate>>

\* Counts that stop at the largest one; an estimate remembers that one did.
Stopped(n) == Min({n, MaxCost})
Count(value, saturated) == [value |-> value, saturated |-> saturated]
\* A sum that wraps, and the one that stops.
PlusWrapped(a, b) == Count((a.value + b.value) % (MaxCost + 1), a.saturated \/ b.saturated)
Plus(a, b) == Count(Stopped(a.value + b.value),
                    a.saturated \/ b.saturated \/ a.value > MaxCost - b.value)
Times(a, b) == Count(Stopped(a.value * b.value),
                     a.saturated \/ b.saturated \/ a.value * b.value > MaxCost)
Known(n) == Count(n, FALSE)
Multiplied(extents) == FoldLeft(LAMBDA a, n : Times(a, Known(n)), Known(1), extents)

Fields == 1..9
ConversionField == 4
RegistersField == 5
SharedField == 6
ReplicationField == 7
CodeField == 8
Free == [f \in Fields |-> 0]
Estimate(cost, saturated) == [cost |-> cost, saturated |-> saturated]

\* operator<: the first field that differs decides.
Cheaper(a, b) ==
  \E f \in Fields : a[f] < b[f] /\ \A g \in 1..(f - 1) : a[g] = b[g]
AddCosts(a, b) ==
  LET Sum9(f) == Plus(Known(a.cost[f]), Known(b.cost[f]))
  IN  Estimate([f \in Fields |-> Sum9(f).value],
               a.saturated \/ b.saturated \/ \E f \in Fields : Sum9(f).saturated)

\* Charges added to what is there, in any order.
Total(start, charges) == FoldFunction(AddCosts, start, charges)

-----------------------------------------------------------------------------
(* validateDistributed, threads and evaluateLayoutConversionCost *)

ValidDistributed(var, c) ==
  /\ IsDistributed(c) /\ Len(c.topology) = 5 /\ \A i \in DOMAIN c.topology : c.topology[i] > 0
  /\ EncodingFits(c, var.shape)
Threads(c) == {t.value : t \in {x \in {Multiplied(SubSeq(c.topology, 2, 4))} :
                                  c.topology[5] = 1 /\ ~x.saturated}}

Syncs == 2
ConversionEstimate(var, source, target) ==
  LET Priced(s, t) ==
        LET carriers == Plus(Multiplied(source.topology), Multiplied(target.topology))
            bytes == Times(Known((var.bits + 7) \div 8), carriers)
            barrier == Times(Times(Known(4), Known(Max({s, t}))), Known(Syncs))
            moved == Plus(bytes, barrier)
        IN  IF source = target THEN Estimate(Free, FALSE)
            ELSE Estimate([Free EXCEPT ![ConversionField] = moved.value, ![CodeField] = 1],
                          moved.saturated)
  IN  IF ~ValidDistributed(var, source) \/ ~ValidDistributed(var, target) THEN {}
      ELSE {Priced(s, t) : s \in Threads(source), t \in Threads(target)}

-----------------------------------------------------------------------------
(* evaluateStaticLayoutCost *)

Picked(chosen, v) == Offers[v][chosen[v]]
Charged(chosen) == {v \in DOMAIN chosen : ~GraphVars[v].perUse}
Tiles(chosen) == {v \in Charged(chosen) : GraphVars[v].kind = "Distributed"}
StoredBuffers(chosen) == {v \in Charged(chosen) : GraphVars[v].kind = "Storage"}
SharedBuffers(chosen) == {v \in StoredBuffers(chosen) : Picked(chosen, v).space = "shared"}
\* Whether the offers fit the types of their buffers.
Fitting == [v \in DOMAIN GraphVars |->
              {i \in DOMAIN Offers[v] : /\ IsStorage(Offers[v][i])
                                        /\ StorageFits(Offers[v][i], GraphVars[v].type)}]
CanBePriced(chosen, kept) ==
  /\ \A v \in Tiles(chosen) : ValidDistributed(GraphVars[v], Picked(chosen, v))
  /\ \A v \in StoredBuffers(chosen) : chosen[v] \in Fitting[v]
  /\ \A v \in SharedBuffers(chosen) :
       IF GraphVars[v].alias # {} THEN kept[<<v, chosen[v]>>].proof = Proven
       ELSE FootprintBytes(Picked(chosen, v).map, GraphVars[v].type) # {}

BytesOf(footprint) == Max({0} \cup {(e.end + 7) \div 8 : e \in ToSet(footprint.entries)})
Aliased(chosen) == {v \in SharedBuffers(chosen) : GraphVars[v].alias # {}}
\* Views of one root share its bytes; a buffer without a descriptor has its own.
RootBytes(chosen, kept) ==
  LET Root(v) == kept[<<v, chosen[v]>>].root
  IN  [r \in {Root(v) : v \in Aliased(chosen)} |->
         Max({BytesOf(kept[<<v, chosen[v]>>]) : v \in {x \in Aliased(chosen) : Root(x) = r}})]
OwnBytes(chosen) ==
  [v \in SharedBuffers(chosen) \ Aliased(chosen) |->
     CHOOSE b \in FootprintBytes(Picked(chosen, v).map, GraphVars[v].type) : TRUE]

TileCharges(chosen) ==
  [v \in Tiles(chosen) |->
     Estimate([Free EXCEPT ![RegistersField] = Picked(chosen, v).topology[1],
                           ![ReplicationField] = Picked(chosen, v).replication - 1], FALSE)]
BytesCharges(bytes) == [x \in DOMAIN bytes |-> Estimate([Free EXCEPT ![SharedField] = bytes[x]], FALSE)]
StaticEstimate(chosen, kept) ==
  LET tiles == Total(Estimate(Free, FALSE), TileCharges(chosen))
      roots == Total(tiles, BytesCharges(RootBytes(chosen, kept)))
  IN  IF ~CanBePriced(chosen, kept) THEN {} ELSE {Total(roots, BytesCharges(OwnBytes(chosen)))}

\* The conversions between ends that are both chosen, and differ.
Conversions(chosen) ==
  {i \in DOMAIN Related :
     LET from == Related[i].vars[1]
         to == Related[i].vars[2]
     IN  /\ Related[i].kind = "Convertible" /\ {from, to} \subseteq DOMAIN chosen
         /\ ~EncodingsEqual(Picked(chosen, from), Picked(chosen, to))}
EdgeEstimate(chosen, i) ==
  LET from == Related[i].vars[1]
      to == Related[i].vars[2]
  IN  ConversionEstimate(GraphVars[from], Picked(chosen, from), Picked(chosen, to))
EdgeCharges(chosen) ==
  [i \in Conversions(chosen) |-> CHOOSE e \in EdgeEstimate(chosen, i) : TRUE]
WholeEstimate(chosen, kept) ==
  IF \E i \in Conversions(chosen) : EdgeEstimate(chosen, i) = {} THEN {}
  ELSE {Total(static, EdgeCharges(chosen)) : static \in StaticEstimate(chosen, kept)}

-----------------------------------------------------------------------------
CostInit == assignment = <<>> /\ estimate = Estimate(Free, FALSE)

Assign(v, i) ==
  LET chosen == [w \in DOMAIN assignment \cup {v} |-> IF w = v THEN i ELSE assignment[w]]
      keys == {<<w, chosen[w]>> : w \in {x \in SharedBuffers(chosen) : GraphVars[x].alias # {}}}
  IN  /\ v \notin DOMAIN assignment
      /\ Looked(keys)
      /\ \E e \in WholeEstimate(chosen, footprints') : estimate' = e
      /\ assignment' = chosen
      /\ UNCHANGED <<pairs, answer, asked>>

CostNext == \E v \in DOMAIN GraphVars \ DOMAIN assignment : \E i \in DOMAIN Offers[v] : Assign(v, i)

\* Questions and prices look footprints up in the same cache.
pricingVars == <<questionVars, costVars>>
PricingInit == QuestionsInit /\ CostInit
PricingNext == \/ QuestionsNext /\ UNCHANGED costVars
               \/ CostNext
PricingSpec == PricingInit /\ [][PricingNext]_pricingVars

-----------------------------------------------------------------------------
(* What a price promises. *)

\* Choosing one more variable never makes the price smaller in the order in
\* which prices are compared, also once a count has stopped at its largest
\* value: what a part costs is a lower bound (LayoutTarget.h:32-34).
CostsOnlyGrow ==
  [][/\ ~Cheaper(estimate'.cost, estimate.cost)
     /\ estimate.saturated => estimate'.saturated]_pricingVars
=============================================================================
