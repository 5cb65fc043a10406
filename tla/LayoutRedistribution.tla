------------------------- MODULE LayoutRedistribution -------------------------
(***************************************************************************)
(* How one layout conversion moves registers between the threads of a CTA  *)
(* (lib/Conversion/FriskLayoutToGPU/LayoutConversionPlan.cpp).             *)
(*                                                                         *)
(* A conversion k is a record of functions.  An owner is <<thread,         *)
(* register>>, a slot is a row-major logical coordinate: k.source and      *)
(* k.dest give the slot an owner holds before and after, k.inverse is the  *)
(* right inverse of k.source, which elects one owner of every slot.        *)
(***************************************************************************)
EXTENDS Integers, FiniteSets

CONSTANTS NumThreads, LaneExtent

ASSUME TopologyAssumption ==
  /\ NumThreads \in Nat \ {0} /\ LaneExtent \in Nat \ {0}
  /\ NumThreads % LaneExtent = 0

Threads == 0..(NumThreads - 1)

Warp(t) == t \div LaneExtent

SameWarp(t, u) == Warp(t) = Warp(u)

Slots(k) == DOMAIN k.inverse

\* The owner tables are total: every thread has the same registers.
Conversion(k) ==
  /\ k.sourceRegisters \in Nat \ {0} /\ k.destinationRegisters \in Nat \ {0}
  /\ DOMAIN k.source = Threads \X (0..(k.sourceRegisters - 1))
  /\ DOMAIN k.dest = Threads \X (0..(k.destinationRegisters - 1))

\* Physical-thread-major, then register-major: the order owners are met in.
Earlier(o, p) == o[1] < p[1] \/ (o[1] = p[1] /\ o[2] < p[2])

FirstOf(S) == CHOOSE o \in S : \A p \in S \ {o} : Earlier(o, p)

\* The owners of the slot that thread t wants in register r.
OwnersOf(k, t, r) == {o \in DOMAIN k.source : k.source[o] = k.dest[<<t, r>>]}

\* A thread prefers its own copy, then one in its warp, then the elected one.
Source(k, t, r) ==
  LET mine == {o \in OwnersOf(k, t, r) : o[1] = t}
      near == {o \in OwnersOf(k, t, r) : SameWarp(o[1], t)}
  IN  IF mine # {} THEN FirstOf(mine)
      ELSE IF near # {} THEN FirstOf(near)
      ELSE k.inverse[k.dest[<<t, r>>]]

\* The exchange the whole conversion needs.
Mode(k) ==
  IF \E o \in DOMAIN k.dest : ~SameWarp(Source(k, o[1], o[2])[1], o[1]) THEN "Shared"
  ELSE IF \E o \in DOMAIN k.dest : Source(k, o[1], o[2])[1] # o[1] THEN "Shuffle"
  ELSE "Register"

\* planRedistribution finds every slot covered by the source, every table entry
\* in bounds and every chosen source holding the slot it is chosen for.
Accepted(k) ==
  /\ Conversion(k)
  /\ \A o \in DOMAIN k.source : k.source[o] \in Slots(k)
  /\ \A s \in Slots(k) : k.inverse[s] \in DOMAIN k.source /\ k.source[k.inverse[s]] = s
  /\ \A o \in DOMAIN k.dest :
       /\ k.dest[o] \in Slots(k)
       /\ Source(k, o[1], o[2]) \in DOMAIN k.source
       /\ k.source[Source(k, o[1], o[2])] = k.dest[o]

\* The registers some thread wants for its destination register r.
PossibleRegisters(k, r) == {Source(k, t, r)[2] : t \in Threads}
=============================================================================
