------------------------- MODULE LayoutExchangeProofs -------------------------
(***************************************************************************)
(* Safety of LayoutExchange for every CTA and every sequence of plans the  *)
(* planner accepts, and of LayoutConversionLowering for every module.      *)
(***************************************************************************)
EXTENDS LayoutExchange, LayoutConversionLowering, FiniteInduction, TLAPS

-----------------------------------------------------------------------------
(* What the planner guarantees.                                            *)

\* A thread number is its warp's first lane plus its lane.
LEMMA LaneOfThread ==
  ASSUME NEW t \in Threads
  PROVE  (Warp(t) * LaneExtent) + (t % LaneExtent) = t
BY TopologyAssumption, SMT DEF Threads, Warp
\* The tables of an accepted plan: every owner has a slot, the elected owner of
\* a slot holds it, and so does the source chosen for a destination register.
LEMMA PlanTables ==
  ASSUME NEW c \in Ids
  PROVE  /\ LastSource(c) \in Nat /\ LastDest(c) \in Nat
         /\ DOMAIN K(c).source = Threads \X (0..LastSource(c))
         /\ DOMAIN K(c).dest = Threads \X (0..LastDest(c))
         /\ \A o \in DOMAIN K(c).source : K(c).source[o] \in Slots(K(c))
         /\ \A s \in Slots(K(c)) :
              K(c).inverse[s] \in DOMAIN K(c).source /\ K(c).source[K(c).inverse[s]] = s
         /\ \A o \in DOMAIN K(c).dest :
              /\ K(c).dest[o] \in Slots(K(c))
              /\ SourceOf[c][o] \in DOMAIN K(c).source
              /\ K(c).source[SourceOf[c][o]] = K(c).dest[o]
<1>1. Accepted(K(c))
  BY ConversionsAssumption DEF Ids, K
<1>2. SourceOf[c] = [o \in DOMAIN K(c).dest |-> Source(K(c), o[1], o[2])]
  BY DEF SourceOf
<1> QED
  BY <1>1, <1>2 DEF Accepted, Conversion, LastSource, LastDest

\* How far the chosen source may be from the thread that wants it.
LEMMA PlanModes ==
  ASSUME NEW c \in Ids
  PROVE  /\ ModeOf[c] \in {"Shared", "Shuffle", "Register"}
         /\ ModeOf[c] # "Shared" =>
              \A o \in DOMAIN K(c).dest : SameWarp(SourceOf[c][o][1], o[1])
         /\ ModeOf[c] = "Register" =>
              \A o \in DOMAIN K(c).dest : SourceOf[c][o][1] = o[1]
<1>1. SourceOf[c] = [o \in DOMAIN K(c).dest |-> Source(K(c), o[1], o[2])]
  BY DEF SourceOf
<1>2. ModeOf[c] = Mode(K(c))
  BY DEF ModeOf
<1> QED
  BY <1>1, <1>2 DEF Mode

\* The register a thread wants is among those shuffled for it.
LEMMA PlanCandidates ==
  ASSUME NEW c \in Ids, NEW t \in Threads, NEW r \in 0..LastDest(c)
  PROVE  /\ SourceOf[c][<<t, r>>][2] \in PossibleRegisters(K(c), r)
         /\ PossibleRegisters(K(c), r) \subseteq Nat
<1>1. \A u \in Threads : <<u, r>> \in DOMAIN K(c).dest
  BY PlanTables
<1>2. \A u \in Threads : SourceOf[c][<<u, r>>] = Source(K(c), u, r)
  BY <1>1 DEF SourceOf
<1>3. \A u \in Threads : SourceOf[c][<<u, r>>] \in Threads \X (0..LastSource(c))
  BY <1>1, PlanTables
<1>4. ASSUME NEW u \in Threads PROVE Source(K(c), u, r)[2] \in Nat
  <2>1. Source(K(c), u, r) \in Threads \X (0..LastSource(c))
    BY <1>2, <1>3
  <2>2. Source(K(c), u, r)[2] \in 0..LastSource(c)
    BY <2>1
  <2> QED
    BY <2>2, PlanTables
<1>5. PossibleRegisters(K(c), r) = {Source(K(c), u, r)[2] : u \in Threads}
  BY DEF PossibleRegisters
<1> HIDE DEF PossibleRegisters
<1>6. SourceOf[c][<<t, r>>][2] = Source(K(c), t, r)[2]
  BY <1>2
<1>7. SourceOf[c][<<t, r>>][2] \in PossibleRegisters(K(c), r)
  BY <1>5, <1>6, Zenon
<1>8. PossibleRegisters(K(c), r) \subseteq Nat
  BY <1>4, <1>5, Zenon
<1> QED
  BY <1>7, <1>8

\* The lane a shuffle addresses is the chosen source itself.
LEMMA PeerIsSource ==
  ASSUME NEW c \in Ids, ModeOf[c] = "Shuffle", NEW t \in Threads, NEW r \in 0..LastDest(c)
  PROVE  <<Peer(t, c, <<t, r>>), SourceOf[c][<<t, r>>][2]>> = SourceOf[c][<<t, r>>]
<1> DEFINE from == SourceOf[c][<<t, r>>]
<1>1. <<t, r>> \in DOMAIN K(c).dest
  BY PlanTables
<1>2. from \in Threads \X (0..LastSource(c)) /\ SameWarp(from[1], t)
  BY <1>1, PlanTables, PlanModes
<1>3. (Warp(from[1]) * LaneExtent) + (from[1] % LaneExtent) = from[1]
  BY <1>2, LaneOfThread
<1>4. Peer(t, c, <<t, r>>) = from[1]
  BY <1>2, <1>3 DEF Peer, SameWarp
<1> QED
  BY <1>2, <1>4

-----------------------------------------------------------------------------
(* The inductive invariant.                                                *)

\* A thread is in a stage of the mode of its conversion, and waits at a barrier
\* with its loads ahead of it.
StageInv ==
  \A t \in Threads : at[t] \in Ids =>
    /\ stage[t] \in {"store", "barrier"} => ModeOf[at[t]] = "Shared"
    /\ stage[t] = "shuffle" <=> ModeOf[at[t]] = "Shuffle"
    /\ stage[t] = "barrier" => register[t] = 0

\* Thread t has left the barrier of conversion c behind.
Passed(t, c) == at[t] > c \/ (at[t] = c /\ stage[t] = "read")

\* A barrier lets all threads pass at once.
BarrierInv ==
  \A c \in Ids : ModeOf[c] = "Shared" =>
    \A t, u \in Threads : Passed(t, c) => Passed(u, c)

\* The thread of owner o is done storing it.
Stored(o, c) ==
  \/ at[o[1]] > c
  \/ at[o[1]] = c /\ stage[o[1]] \in {"barrier", "read"}
  \/ at[o[1]] = c /\ stage[o[1]] = "store" /\ o[2] < register[o[1]]

\* What an elected owner has stored is there to stay.
BufferInv ==
  \A c \in Ids : ModeOf[c] = "Shared" =>
    \A o \in DOMAIN K(c).source :
      Elected(c, o) /\ Stored(o, c) => scratch[c][K(c).source[o]] = Held(c, o)

\* Once the wanted register was shuffled, the selected value stays the right one.
ShuffleInv ==
  \A t \in Threads :
    Running(t, "shuffle") /\ SourceOf[at[t]][<<t, register[t]>>][2] \in tried[t]
      => chosen[t] = Wanted(at[t], <<t, register[t]>>)

IInv == TypeOK /\ StageInv /\ BarrierInv /\ BufferInv /\ ShuffleInv /\ RightValues

-----------------------------------------------------------------------------
(* Initial states.                                                         *)

LEMMA StageFacts ==
  ASSUME NEW c
  PROVE  /\ FirstStage(c) \in {"store", "read", "shuffle"}
         /\ c \in Ids => /\ FirstStage(c) = "store" => ModeOf[c] = "Shared"
                         /\ FirstStage(c) = "shuffle" <=> ModeOf[c] = "Shuffle"
                         /\ FirstStage(c) = "read" => ModeOf[c] = "Register"
BY PlanModes DEF FirstStage

LEMMA IdsAreNumbers == Len(Conversions) \in Nat /\ Ids = 1..Len(Conversions)
BY ConversionsAssumption DEF Ids

LEMMA InitInv == Init => IInv
<1> SUFFICES ASSUME Init PROVE IInv
  OBVIOUS
<1>1. TypeOK
  <2>1. at \in [Threads -> 1..(Len(Conversions) + 1)]
    BY IdsAreNumbers DEF Init
  <2>2. stage \in [Threads -> {"store", "barrier", "read", "shuffle"}]
    BY StageFacts DEF Init
  <2>3. \A t \in Threads : at[t] \in Ids =>
          <<t, register[t]>> \in IF stage[t] \in {"store", "barrier"} THEN DOMAIN K(at[t]).source
                                 ELSE DOMAIN K(at[t]).dest
    <3> SUFFICES ASSUME NEW t \in Threads, 1 \in Ids
                 PROVE  <<t, 0>> \in DOMAIN K(1).source /\ <<t, 0>> \in DOMAIN K(1).dest
      BY DEF Init
    <3>1. 0 \in 0..LastSource(1) /\ 0 \in 0..LastDest(1)
      BY PlanTables
    <3> QED
      BY <3>1, PlanTables
  <2> QED
    BY <2>1, <2>2, <2>3 DEF Init, TypeOK
<1>2. StageInv
  BY StageFacts DEF Init, StageInv
<1>3. BarrierInv
  BY StageFacts, IdsAreNumbers DEF Init, BarrierInv, Passed
<1>4. BufferInv
  <2> SUFFICES ASSUME NEW c \in Ids, ModeOf[c] = "Shared", NEW o \in DOMAIN K(c).source,
                      Stored(o, c)
               PROVE  FALSE
    BY DEF BufferInv
  <2>1. o[1] \in Threads /\ o[2] \in Nat
    BY PlanTables
  <2>2. at[o[1]] = 1 /\ stage[o[1]] = FirstStage(1) /\ register[o[1]] = 0
    BY <2>1 DEF Init
  <2>3. c = 1
    BY <2>2, IdsAreNumbers DEF Stored
  <2>4. FirstStage(1) \notin {"barrier", "read"}
    BY <2>3, StageFacts
  <2> QED
    BY <2>1, <2>2, <2>3, <2>4 DEF Stored
<1>5. ShuffleInv
  BY DEF Init, ShuffleInv
<1>6. RightValues
  BY DEF Init, RightValues
<1> QED
  BY <1>1, <1>2, <1>3, <1>4, <1>5, <1>6 DEF IInv
-----------------------------------------------------------------------------
(* A thread moves on to its next register or conversion.                   *)

Moving(t) ==
  /\ TypeOK /\ StageInv
  /\ at[t] \in Ids /\ stage[t] \in {"read", "shuffle"}
  /\ Advance(t)

LEMMA AdvanceCases ==
  ASSUME NEW t \in Threads, Moving(t)
  PROVE  /\ \A u \in Threads \ {t} :
              at'[u] = at[u] /\ stage'[u] = stage[u] /\ register'[u] = register[u]
         /\ \/ /\ at'[t] = at[t] + 1 /\ stage'[t] = FirstStage(at[t] + 1)
               /\ register'[t] = 0
            \/ /\ at'[t] = at[t] /\ stage'[t] = stage[t]
               /\ register'[t] = register[t] + 1
               /\ register[t] + 1 \in 0..LastDest(at[t])
         /\ at' \in [Threads -> 1..(Len(Conversions) + 1)]
         /\ stage' \in [Threads -> {"store", "barrier", "read", "shuffle"}]
         /\ register' \in [Threads -> Nat]
<1>1. /\ at \in [Threads -> 1..(Len(Conversions) + 1)]
      /\ stage \in [Threads -> {"store", "barrier", "read", "shuffle"}]
      /\ register \in [Threads -> Nat]
  BY DEF Moving, TypeOK
<1>2. register[t] \in 0..LastDest(at[t])
  <2>1. <<t, register[t]>> \in DOMAIN K(at[t]).dest
    BY DEF Moving, TypeOK
  <2> QED
    BY <2>1, PlanTables DEF Moving
<1>3. LastDest(at[t]) \in Nat /\ at[t] \in 1..Len(Conversions) /\ Len(Conversions) \in Nat
  BY PlanTables, IdsAreNumbers DEF Moving
<1>4. CASE register[t] = LastDest(at[t])
  <2>1. /\ at' = [at EXCEPT ![t] = @ + 1]
        /\ stage' = [stage EXCEPT ![t] = FirstStage(at[t] + 1)]
        /\ register' = [register EXCEPT ![t] = 0]
    BY <1>4 DEF Moving, Advance
  <2>2. FirstStage(at[t] + 1) \in {"store", "barrier", "read", "shuffle"}
    BY StageFacts
  <2> QED
    BY <1>1, <1>3, <2>1, <2>2
<1>5. CASE register[t] # LastDest(at[t])
  <2>1. /\ at' = at /\ stage' = stage
        /\ register' = [register EXCEPT ![t] = @ + 1]
    BY <1>5 DEF Moving, Advance
  <2>2. register[t] + 1 \in 0..LastDest(at[t])
    BY <1>2, <1>3, <1>5
  <2> QED
    BY <1>1, <2>1, <2>2
<1> QED
  BY <1>4, <1>5

LEMMA AdvanceStages ==
  ASSUME NEW t \in Threads, Moving(t)
  PROVE  StageInv'
<1>1. at[t] \in Ids /\ StageInv /\ TypeOK
  BY DEF Moving
<1>2. SUFFICES ASSUME NEW u \in Threads, at'[u] \in Ids
               PROVE  /\ stage'[u] \in {"store", "barrier"} => ModeOf[at'[u]] = "Shared"
                      /\ stage'[u] = "shuffle" <=> ModeOf[at'[u]] = "Shuffle"
                      /\ stage'[u] = "barrier" => register'[u] = 0
  BY DEF StageInv
<1>3. CASE u # t
  BY <1>1, <1>2, <1>3, AdvanceCases DEF StageInv
<1>4. CASE u = t /\ at'[t] = at[t] /\ stage'[t] = stage[t]
  BY <1>1, <1>4 DEF StageInv, Moving
<1>5. CASE u = t /\ at'[t] = at[t] + 1 /\ stage'[t] = FirstStage(at[t] + 1)
  <2>1. at[t] + 1 \in Ids
    BY <1>2, <1>5
  <2> QED
    BY <1>5, <2>1, StageFacts
<1> QED
  BY <1>3, <1>4, <1>5, AdvanceCases

LEMMA AdvanceRegisters ==
  ASSUME NEW t \in Threads, Moving(t)
  PROVE  \A u \in Threads : at'[u] \in Ids =>
           <<u, register'[u]>> \in IF stage'[u] \in {"store", "barrier"}
                                     THEN DOMAIN K(at'[u]).source ELSE DOMAIN K(at'[u]).dest
<1>1. SUFFICES ASSUME NEW u \in Threads, at'[u] \in Ids
               PROVE  <<u, register'[u]>> \in IF stage'[u] \in {"store", "barrier"}
                        THEN DOMAIN K(at'[u]).source ELSE DOMAIN K(at'[u]).dest
  OBVIOUS
<1>2. CASE u # t
  <2>1. at'[u] = at[u] /\ stage'[u] = stage[u] /\ register'[u] = register[u]
    BY <1>2, AdvanceCases
  <2> QED
    BY <1>1, <2>1 DEF Moving, TypeOK
<1>3. CASE u = t /\ at'[t] = at[t] /\ stage'[t] = stage[t]
  <2>1. register'[t] \in 0..LastDest(at[t])
    <3>1. \/ at'[t] = at[t] + 1
          \/ register'[t] = register[t] + 1 /\ register[t] + 1 \in 0..LastDest(at[t])
      BY AdvanceCases
    <3>2. at[t] + 1 # at[t]
      BY IdsAreNumbers DEF Moving
    <3> QED
      BY <1>3, <3>1, <3>2
  <2> QED
    BY <1>3, <2>1, PlanTables DEF Moving
<1>4. CASE u = t /\ at'[t] = at[t] + 1 /\ register'[t] = 0
  <2>1. 0 \in 0..LastSource(at'[t]) /\ 0 \in 0..LastDest(at'[t])
    BY <1>1, <1>4, PlanTables
  <2> QED
    BY <1>1, <1>4, <2>1, PlanTables
<1> QED
  BY <1>2, <1>3, <1>4, AdvanceCases

\* Moving on passes no barrier and stores nothing.
LEMMA AdvancePasses ==
  ASSUME NEW t \in Threads, Moving(t), NEW c \in Ids, ModeOf[c] = "Shared"
  PROVE  /\ \A u \in Threads : Passed(u, c)' <=> Passed(u, c)
         /\ \A o \in DOMAIN K(c).source : Stored(o, c)' => Stored(o, c)
<1>1. /\ at[t] \in Nat /\ c \in Nat
      /\ stage[t] = "shuffle" => ModeOf[at[t]] = "Shuffle"
      /\ stage[t] \in {"read", "shuffle"}
  BY IdsAreNumbers DEF Moving, StageInv
<1>2. at[t] = c => stage[t] = "read"
  BY <1>1
<1>3. FirstStage(c) = "store"
  BY DEF FirstStage
<1>4. CASE at'[t] = at[t] + 1 /\ stage'[t] = FirstStage(at[t] + 1) /\ register'[t] = 0
  <2>1. ASSUME NEW u \in Threads PROVE Passed(u, c)' <=> Passed(u, c)
    <3>1. CASE u # t
      <4>1. at'[u] = at[u] /\ stage'[u] = stage[u]
        BY <3>1, AdvanceCases
      <4> QED
        BY <4>1 DEF Passed
    <3>2. CASE u = t
      <4>1. Passed(t, c) <=> at[t] >= c
        <5>1. at[t] = c \/ at[t] > c <=> at[t] >= c
          BY <1>1
        <5> QED
          BY <1>2, <5>1 DEF Passed
      <4>2. Passed(t, c)' <=> at[t] + 1 > c
        <5>1. at'[t] = c => stage'[t] = "store"
          BY <1>3, <1>4
        <5> QED
          BY <1>1, <1>4, <5>1 DEF Passed
      <4>3. at[t] + 1 > c <=> at[t] >= c
        BY <1>1
      <4> QED
        BY <3>2, <4>1, <4>2, <4>3
    <3> QED
      BY <3>1, <3>2
  <2>2. ASSUME NEW o \in DOMAIN K(c).source, Stored(o, c)' PROVE Stored(o, c)
    <3>0. o[1] \in Threads /\ o[2] \in Nat
      BY PlanTables
    <3>1. CASE o[1] # t
      <4>1. at'[o[1]] = at[o[1]] /\ stage'[o[1]] = stage[o[1]]
            /\ register'[o[1]] = register[o[1]]
        BY <3>0, <3>1, AdvanceCases
      <4> QED
        BY <2>2, <4>1 DEF Stored
    <3>2. CASE o[1] = t
      <4>1. at[t] >= c
        <5>1. at'[t] = c => stage'[t] = "store"
          BY <1>3, <1>4
        <5>2. at'[t] > c
          BY <1>1, <1>4, <2>2, <3>0, <3>2, <5>1 DEF Stored
        <5> QED
          BY <1>1, <1>4, <5>2
      <4> QED
        <5>1. at[t] > c \/ at[t] = c
          BY <1>1, <4>1
        <5> QED
          BY <1>2, <3>2, <5>1 DEF Stored
    <3> QED
      BY <3>1, <3>2
  <2> QED
    BY <2>1, <2>2
<1>5. CASE at'[t] = at[t] /\ stage'[t] = stage[t]
  <2>1. \A u \in Threads : at'[u] = at[u] /\ stage'[u] = stage[u]
    BY <1>5, AdvanceCases
  <2>2. \A u \in Threads : stage[u] = "store" => u # t
    BY <1>1
  <2>3. \A u \in Threads : stage[u] = "store" => register'[u] = register[u]
    BY <2>2, AdvanceCases
  <2>4. \A o \in DOMAIN K(c).source : o[1] \in Threads
    BY PlanTables
  <2> QED
    BY <2>1, <2>3, <2>4 DEF Passed, Stored
<1> QED
  BY <1>4, <1>5, AdvanceCases
-----------------------------------------------------------------------------
(* Stores and the barrier.                                                 *)

\* What a store does to the thread and to the buffers.
LEMMA StoreCases ==
  ASSUME TypeOK, NEW t \in Threads, Store(t)
  PROVE  /\ at' = at /\ at[t] \in Ids /\ stage[t] = "store"
         /\ register[t] \in 0..LastSource(at[t])
         /\ register' \in [Threads -> Nat]
         /\ stage' \in [Threads -> {"store", "barrier", "read", "shuffle"}]
         /\ \A u \in Threads \ {t} : stage'[u] = stage[u] /\ register'[u] = register[u]
         /\ \/ /\ register[t] = LastSource(at[t])
               /\ stage'[t] = "barrier" /\ register'[t] = 0
            \/ /\ stage'[t] = "store" /\ register'[t] = register[t] + 1
               /\ register[t] + 1 \in 0..LastSource(at[t])
<1>1. /\ at[t] \in Ids /\ stage[t] = "store" /\ at' = at
  BY DEF Store, Running
<1>2. register[t] \in 0..LastSource(at[t])
  <2>1. <<t, register[t]>> \in DOMAIN K(at[t]).source
    BY <1>1 DEF TypeOK
  <2> QED
    BY <1>1, <2>1, PlanTables
<1>3. LastSource(at[t]) \in Nat
  BY <1>1, PlanTables
<1>4. CASE register[t] = LastSource(at[t])
  <2>1. stage' = [stage EXCEPT ![t] = "barrier"] /\ register' = [register EXCEPT ![t] = 0]
    BY <1>4 DEF Store, AfterStores
  <2> QED
    BY <1>1, <1>2, <1>4, <2>1 DEF TypeOK
<1>5. CASE register[t] # LastSource(at[t])
  <2>1. stage' = stage /\ register' = [register EXCEPT ![t] = @ + 1]
    BY <1>5 DEF Store
  <2>2. register[t] + 1 \in 0..LastSource(at[t])
    BY <1>2, <1>3, <1>5
  <2> QED
    BY <1>1, <1>2, <2>1, <2>2 DEF TypeOK
<1> QED
  BY <1>4, <1>5

LEMMA StoreWrites ==
  ASSUME TypeOK, NEW t \in Threads, Store(t)
  PROVE  /\ DOMAIN scratch' = Ids
         /\ \A d \in Ids : DOMAIN scratch'[d] = Slots(K(d))
         /\ \A d \in Ids : \A s \in Slots(K(d)) :
              scratch'[d][s] =
                IF /\ Elected(at[t], <<t, register[t]>>)
                   /\ d = at[t] /\ s = K(at[t]).source[<<t, register[t]>>]
                  THEN Held(at[t], <<t, register[t]>>) ELSE scratch[d][s]
<1> DEFINE c == at[t]
           o == <<t, register[t]>>
           s0 == K(c).source[o]
<1>1. /\ DOMAIN scratch = Ids /\ \A d \in Ids : DOMAIN scratch[d] = Slots(K(d))
      /\ c \in Ids
  BY DEF TypeOK, Store, Running
<1>2. scratch' = IF Elected(c, o) THEN [scratch EXCEPT ![c][s0] = Held(c, o)] ELSE scratch
  BY DEF Store, BufferOf
<1> HIDE DEF c, o, s0
<1>3. CASE Elected(c, o)
  <2>1. scratch' = [scratch EXCEPT ![c] = [scratch[c] EXCEPT ![s0] = Held(c, o)]]
    BY <1>2, <1>3
  <2>2. scratch'[c] = [scratch[c] EXCEPT ![s0] = Held(c, o)]
    BY <1>1, <2>1
  <2>3. \A d \in Ids \ {c} : scratch'[d] = scratch[d]
    BY <1>1, <2>1
  <2>4. DOMAIN scratch' = Ids
    BY <1>1, <2>1
  <2>5. DOMAIN scratch'[c] = Slots(K(c))
    BY <1>1, <2>2
  <2>6. \A s \in Slots(K(c)) : scratch'[c][s] = IF s = s0 THEN Held(c, o) ELSE scratch[c][s]
    BY <1>1, <2>2
  <2> QED
    BY <1>1, <1>3, <2>3, <2>4, <2>5, <2>6 DEF c, o, s0
<1>4. CASE ~Elected(c, o)
  BY <1>1, <1>2, <1>4 DEF c, o, s0
<1> QED
  BY <1>3, <1>4

LEMMA StoreStep ==
  ASSUME IInv, NEW t \in Threads, Store(t)
  PROVE  IInv'
<1> DEFINE c == at[t]
           o == <<t, register[t]>>
<1>0. TypeOK /\ StageInv /\ BarrierInv /\ BufferInv /\ ShuffleInv /\ RightValues
  BY DEF IInv
<1>1. UNCHANGED <<at, chosen, tried, result>>
  BY DEF Store
<1>2. c \in Ids /\ stage[t] = "store" /\ tried[t] = {}
  BY <1>0 DEF Store, Running, TypeOK
<1>3. \A u \in Threads : stage'[u] \in {"read", "shuffle"} \/ stage[u] \in {"read", "shuffle"}
        => u # t /\ stage'[u] = stage[u] /\ register'[u] = register[u]
  BY <1>0, <1>2, StoreCases
<1>4. TypeOK'
  <2>1. \A u \in Threads : at'[u] \in Ids =>
          <<u, register'[u]>> \in IF stage'[u] \in {"store", "barrier"}
                                    THEN DOMAIN K(at'[u]).source ELSE DOMAIN K(at'[u]).dest
    <3>1. SUFFICES ASSUME NEW u \in Threads, at[u] \in Ids
                   PROVE  <<u, register'[u]>> \in IF stage'[u] \in {"store", "barrier"}
                            THEN DOMAIN K(at[u]).source ELSE DOMAIN K(at[u]).dest
      BY <1>1
    <3>2. CASE u # t
      <4>1. stage'[u] = stage[u] /\ register'[u] = register[u]
        BY <1>0, <3>2, StoreCases
      <4> QED
        BY <1>0, <3>1, <4>1 DEF TypeOK
    <3>3. CASE u = t
      <4>1. register'[t] \in 0..LastSource(c) /\ stage'[t] \in {"store", "barrier"}
        <5>1. 0 \in 0..LastSource(c)
          BY <1>2, PlanTables
        <5> QED
          BY <1>0, <5>1, StoreCases
      <4>2. <<t, register'[t]>> \in DOMAIN K(c).source
        BY <1>2, <4>1, PlanTables
      <4> QED
        BY <3>3, <4>1, <4>2
    <3> QED
      BY <3>2, <3>3
  <2>2. \A u \in Threads : tried'[u] # {} =>
          Running(u, "shuffle")' /\ tried'[u] \subseteq PossibleRegisters(K(at'[u]), register'[u])
    <3>1. SUFFICES ASSUME NEW u \in Threads, tried[u] # {}
                   PROVE  /\ at[u] \in Ids /\ stage'[u] = "shuffle"
                          /\ tried[u] \subseteq PossibleRegisters(K(at[u]), register'[u])
      BY <1>1 DEF Running
    <3>2. u # t
      BY <1>2, <3>1
    <3>3. stage'[u] = stage[u] /\ register'[u] = register[u]
      BY <1>0, <3>2, StoreCases
    <3> QED
      BY <1>0, <3>1, <3>3 DEF TypeOK, Running
  <2>3. DOMAIN scratch' = Ids /\ \A d \in Ids : DOMAIN scratch'[d] = Slots(K(d))
    BY <1>0, StoreWrites
  <2> QED
    BY <1>0, <1>1, <2>1, <2>2, <2>3, StoreCases DEF TypeOK
<1>5. StageInv'
  <2>1. \A u \in Threads :
          \/ stage'[u] = stage[u] /\ (stage[u] = "store" \/ register'[u] = register[u])
          \/ stage'[u] = "barrier" /\ stage[u] = "store" /\ register'[u] = 0
    BY <1>0, <1>2, StoreCases
  <2> QED
    BY <1>0, <1>1, <2>1 DEF StageInv
<1>6. BarrierInv'
  <2>1. \A u \in Threads : stage'[u] = "read" <=> stage[u] = "read"
    BY <1>3
  <2> QED
    BY <1>0, <1>1, <2>1 DEF BarrierInv, Passed
<1>7. BufferInv'
  <2>1. SUFFICES ASSUME NEW d \in Ids, ModeOf[d] = "Shared", NEW p \in DOMAIN K(d).source,
                        Elected(d, p), Stored(p, d)'
                 PROVE  scratch'[d][K(d).source[p]] = Held(d, p)
    BY DEF BufferInv
  <2>2. K(d).source[p] \in Slots(K(d)) /\ p \in Threads \X (0..LastSource(d))
        /\ LastSource(d) \in Nat
    BY PlanTables
  <2>3. CASE Stored(p, d)
    <3>1. scratch[d][K(d).source[p]] = Held(d, p)
      BY <1>0, <2>1, <2>3 DEF BufferInv
    <3>2. CASE d = c /\ K(d).source[p] = K(c).source[o]
      BY <1>0, <2>2, <3>1, <3>2, StoreWrites DEF Held
    <3>3. CASE ~(d = c /\ K(d).source[p] = K(c).source[o])
      BY <1>0, <2>2, <3>1, <3>3, StoreWrites
    <3> QED
      BY <3>2, <3>3
  <2>4. CASE ~Stored(p, d)
    <3>1. p[1] = t
      <4>1. SUFFICES ASSUME p[1] # t PROVE FALSE
        OBVIOUS
      <4>2. stage'[p[1]] = stage[p[1]] /\ register'[p[1]] = register[p[1]]
        BY <1>0, <2>2, <4>1, StoreCases
      <4> QED
        BY <1>1, <2>1, <2>4, <4>2 DEF Stored
    <3>2. d = c
      BY <1>1, <2>1, <2>4, <3>1 DEF Stored
    <3>3. ~(p[2] < register[t])
      BY <1>2, <2>4, <3>1, <3>2 DEF Stored
    <3>4. p[2] <= register[t]
      <4>1. CASE register[t] = LastSource(c)
        BY <2>2, <3>2, <4>1
      <4>2. CASE stage'[t] = "store" /\ register'[t] = register[t] + 1
        <5>1. p[2] < register[t] + 1
          <6>1. at'[t] = d /\ ~(at'[t] > d)
            BY <1>1, <3>2, IdsAreNumbers
          <6>2. p[2] < register'[t]
            BY <2>1, <3>1, <4>2, <6>1 DEF Stored
          <6> QED
            BY <4>2, <6>2
        <5>2. register[t] \in Nat /\ p[2] \in Nat
          BY <1>0, <2>2 DEF TypeOK
        <5> QED
          BY <5>1, <5>2
      <4> QED
        BY <1>0, <4>1, <4>2, StoreCases
    <3>5. p[2] = register[t]
      <4>1. register[t] \in Nat /\ p[2] \in Nat
        BY <1>0, <2>2 DEF TypeOK
      <4> QED
        BY <3>3, <3>4, <4>1
    <3>6. p = o
      BY <2>2, <3>1, <3>5
    <3> QED
      BY <1>0, <2>1, <2>2, <3>2, <3>6, StoreWrites
  <2> QED
    BY <2>3, <2>4
<1>8. ShuffleInv'
  BY <1>0, <1>1, <1>3 DEF ShuffleInv, Running
<1>9. RightValues'
  BY <1>0, <1>1 DEF RightValues
<1> QED
  BY <1>4, <1>5, <1>6, <1>7, <1>8, <1>9 DEF IInv
LEMMA BarrierStep ==
  ASSUME IInv, Barrier
  PROVE  IInv'
<1>0. TypeOK /\ StageInv /\ BarrierInv /\ BufferInv /\ ShuffleInv /\ RightValues
  BY DEF IInv
<1>1. /\ UNCHANGED <<at, register, scratch, chosen, tried, result>>
      /\ \A t \in Threads : at[t] \in Ids /\ stage[t] = "barrier"
      /\ stage' = [t \in Threads |-> "read"]
  BY DEF Barrier, AllWait, Running
<1>2. \A t \in Threads : ModeOf[at[t]] = "Shared" /\ tried[t] = {}
  BY <1>0, <1>1 DEF StageInv, TypeOK, Running
\* Two threads at the barrier wait for the same conversion.
<1>3. \A t, u \in Threads : at[t] = at[u]
  <2>1. SUFFICES ASSUME NEW t \in Threads, NEW u \in Threads, at[u] > at[t] PROVE FALSE
    BY <1>1, IdsAreNumbers
  <2>2. Passed(u, at[t])
    BY <2>1 DEF Passed
  <2>3. Passed(t, at[t])
    BY <1>0, <1>1, <1>2, <2>2 DEF BarrierInv
  <2> QED
    BY <1>1, <2>3, IdsAreNumbers DEF Passed
<1>4. TypeOK'
  <2>1. \A t \in Threads : <<t, register[t]>> \in DOMAIN K(at[t]).dest
    <3>1. SUFFICES ASSUME NEW t \in Threads PROVE 0 \in 0..LastDest(at[t])
      BY <1>0, <1>1, PlanTables DEF StageInv
    <3> QED
      BY <1>1, PlanTables
  <2> QED
    BY <1>0, <1>1, <1>2, <2>1 DEF TypeOK
<1>5. StageInv'
  BY <1>1, <1>2 DEF StageInv
<1>6. BarrierInv'
  BY <1>1, <1>3 DEF BarrierInv, Passed
<1>7. BufferInv'
  <2>1. ASSUME NEW c \in Ids, NEW o \in DOMAIN K(c).source, Stored(o, c)'
        PROVE  Stored(o, c)
    <3>1. o[1] \in Threads
      BY PlanTables
    <3> QED
      BY <1>1, <2>1, <3>1 DEF Stored
  <2> QED
    BY <1>0, <1>1, <2>1 DEF BufferInv
<1>8. ShuffleInv'
  BY <1>1 DEF ShuffleInv, Running
<1>9. RightValues'
  BY <1>0, <1>1 DEF RightValues
<1> QED
  BY <1>4, <1>5, <1>6, <1>7, <1>8, <1>9 DEF IInv

-----------------------------------------------------------------------------
(* Reading and shuffling.                                                  *)

\* What all threads know of a barrier and of the buffers when one moves on.
LEMMA AdvanceBuffers ==
  ASSUME NEW t \in Threads, Moving(t), BarrierInv, BufferInv, UNCHANGED scratch
  PROVE  BarrierInv' /\ BufferInv'
<1>1. BarrierInv'
  BY AdvancePasses DEF BarrierInv
<1>2. BufferInv'
  <2>1. SUFFICES ASSUME NEW c \in Ids, ModeOf[c] = "Shared", NEW o \in DOMAIN K(c).source,
                        Elected(c, o), Stored(o, c)'
                 PROVE  scratch[c][K(c).source[o]] = Held(c, o)
    BY DEF BufferInv
  <2>2. Stored(o, c)
    BY <2>1, AdvancePasses
  <2> QED
    BY <2>1, <2>2 DEF BufferInv
<1> QED
  BY <1>1, <1>2

\* A result register is written by its thread, with the value it wants.
LEMMA DeliverStep ==
  ASSUME IInv, NEW t \in Threads, Moving(t), UNCHANGED scratch,
         tried' \in [Threads -> SUBSET Nat], DOMAIN chosen' = Threads, tried'[t] = {},
         \A u \in Threads \ {t} : tried'[u] = tried[u] /\ chosen'[u] = chosen[u],
         result' = [result EXCEPT ![at[t]][<<t, register[t]>>] =
                      Wanted(at[t], <<t, register[t]>>)]
  PROVE  IInv'
<1> DEFINE c == at[t]
           o == <<t, register[t]>>
<1>0. TypeOK /\ StageInv /\ BarrierInv /\ BufferInv /\ ShuffleInv /\ RightValues
  BY DEF IInv
<1>1. c \in Ids
  BY DEF Moving
<1>2. \A d \in Ids : DOMAIN result[d] = DOMAIN K(d).dest
  BY <1>0 DEF TypeOK
<1>3. DOMAIN result = Ids
  BY <1>0 DEF TypeOK
<1>4. /\ DOMAIN result' = Ids
      /\ \A d \in Ids : DOMAIN result'[d] = DOMAIN K(d).dest
      /\ \A d \in Ids : \A p \in DOMAIN K(d).dest :
           result'[d][p] = IF d = c /\ p = o THEN Wanted(c, o) ELSE result[d][p]
  <2> HIDE DEF c, o
  <2>1. result' = [result EXCEPT ![c] = [result[c] EXCEPT ![o] = Wanted(c, o)]]
    BY DEF c, o
  <2>2. result'[c] = [result[c] EXCEPT ![o] = Wanted(c, o)]
    BY <1>1, <1>3, <2>1
  <2>3. \A d \in Ids \ {c} : result'[d] = result[d]
    BY <1>3, <2>1
  <2>4. DOMAIN result' = Ids
    BY <1>3, <2>1
  <2>5. DOMAIN result'[c] = DOMAIN K(c).dest
    BY <1>1, <1>2, <2>2
  <2>6. \A p \in DOMAIN K(c).dest : result'[c][p] = IF p = o THEN Wanted(c, o) ELSE result[c][p]
    BY <1>1, <1>2, <2>2
  <2> QED
    BY <1>2, <2>3, <2>4, <2>5, <2>6
<1>5. TypeOK'
  <2>1. \A u \in Threads : tried'[u] # {} =>
          Running(u, "shuffle")' /\ tried'[u] \subseteq PossibleRegisters(K(at'[u]), register'[u])
    <3>1. SUFFICES ASSUME NEW u \in Threads, tried'[u] # {}
                   PROVE  /\ at'[u] \in Ids /\ stage'[u] = "shuffle"
                          /\ tried'[u] \subseteq PossibleRegisters(K(at'[u]), register'[u])
      BY DEF Running
    <3>2. u # t
      BY <3>1
    <3>3. /\ at'[u] = at[u] /\ stage'[u] = stage[u] /\ register'[u] = register[u]
          /\ tried'[u] = tried[u]
      BY <3>2, AdvanceCases
    <3> QED
      BY <1>0, <3>1, <3>3 DEF TypeOK, Running
  <2>2. DOMAIN scratch' = Ids /\ \A d \in Ids : DOMAIN scratch'[d] = Slots(K(d))
    BY <1>0 DEF TypeOK
  <2>3. /\ at' \in [Threads -> 1..(Len(Conversions) + 1)]
        /\ stage' \in [Threads -> {"store", "barrier", "read", "shuffle"}]
        /\ register' \in [Threads -> Nat]
    BY AdvanceCases
  <2> QED
    BY <1>4, <2>1, <2>2, <2>3, AdvanceRegisters DEF TypeOK
<1>6. StageInv'
  BY AdvanceStages
<1>7. BarrierInv' /\ BufferInv'
  BY <1>0, AdvanceBuffers
<1>8. ShuffleInv'
  <2>1. SUFFICES ASSUME NEW u \in Threads, u # t, Running(u, "shuffle")',
                        SourceOf[at'[u]][<<u, register'[u]>>][2] \in tried'[u]
                 PROVE  chosen'[u] = Wanted(at'[u], <<u, register'[u]>>)
    BY DEF ShuffleInv, Running
  <2>2. /\ at'[u] = at[u] /\ stage'[u] = stage[u] /\ register'[u] = register[u]
        /\ tried'[u] = tried[u] /\ chosen'[u] = chosen[u]
    BY <2>1, AdvanceCases
  <2> QED
    BY <1>0, <2>1, <2>2 DEF ShuffleInv, Running
<1>9. RightValues'
  BY <1>0, <1>4 DEF RightValues, Wanted
<1> QED
  BY <1>5, <1>6, <1>7, <1>8, <1>9 DEF IInv

LEMMA ReadStep ==
  ASSUME IInv, NEW t \in Threads, Read(t)
  PROVE  IInv'
<1> DEFINE c == at[t]
           o == <<t, register[t]>>
<1>0. TypeOK /\ StageInv /\ BarrierInv /\ BufferInv /\ ShuffleInv /\ RightValues
  BY DEF IInv
<1>1. c \in Ids /\ stage[t] = "read" /\ UNCHANGED <<scratch, chosen, tried>>
  BY DEF Read, Running
<1>2. Moving(t)
  BY <1>0, <1>1 DEF Read, Moving
<1>3. tried[t] = {}
  BY <1>0, <1>1 DEF TypeOK, Running
<1>4. o \in DOMAIN K(c).dest
  BY <1>0, <1>1 DEF TypeOK
<1>5. CASE ModeOf[c] = "Shared"
  <2> DEFINE w == K(c).inverse[K(c).dest[o]]
  <2>1. K(c).dest[o] \in Slots(K(c))
    BY <1>1, <1>4, PlanTables
  <2>2. w \in DOMAIN K(c).source /\ K(c).source[w] = K(c).dest[o]
    BY <1>1, <2>1, PlanTables
  <2>3. w[1] \in Threads
    BY <1>1, <2>2, PlanTables
  <2>4. Passed(t, c)
    BY <1>1 DEF Passed
  <2>5. Passed(w[1], c)
    BY <1>0, <1>1, <1>5, <2>3, <2>4 DEF BarrierInv
  <2>6. Stored(w, c) /\ Elected(c, w)
    BY <2>2, <2>5 DEF Passed, Stored, Elected
  <2>7. scratch[c][K(c).source[w]] = Held(c, w)
    BY <1>0, <1>1, <1>5, <2>2, <2>6 DEF BufferInv
  <2>8. scratch[c][K(c).dest[o]] = Wanted(c, o)
    BY <2>2, <2>7 DEF Held, Wanted
  <2>9. result' = [result EXCEPT ![c][o] = Wanted(c, o)]
    BY <1>5, <2>8 DEF Read, BufferOf
  <2> QED
    BY <1>0, <1>1, <1>2, <1>3, <2>9, DeliverStep DEF TypeOK
<1>6. CASE ModeOf[c] # "Shared"
  <2>1. ModeOf[c] = "Register"
    BY <1>0, <1>1, <1>6, PlanModes DEF StageInv
  <2>2. SourceOf[c][o] \in DOMAIN K(c).source /\ SourceOf[c][o][1] = t
        /\ K(c).source[SourceOf[c][o]] = K(c).dest[o]
    BY <1>1, <1>4, <2>1, PlanTables, PlanModes
  <2>3. SourceOf[c][o] = <<t, SourceOf[c][o][2]>>
    <3>1. SourceOf[c][o] \in Threads \X (0..LastSource(c))
      BY <1>1, <2>2, PlanTables
    <3> QED
      BY <2>2, <3>1
  <2>4. Held(c, <<t, SourceOf[c][o][2]>>) = Wanted(c, o)
    BY <2>2, <2>3 DEF Held, Wanted
  <2>5. result' = [result EXCEPT ![c][o] = Wanted(c, o)]
    BY <1>6, <2>4 DEF Read
  <2> QED
    BY <1>0, <1>1, <1>2, <1>3, <2>5, DeliverStep DEF TypeOK
<1> QED
  BY <1>5, <1>6
LEMMA InsertStep ==
  ASSUME IInv, NEW t \in Threads, Insert(t)
  PROVE  IInv'
<1> DEFINE c == at[t]
           r == register[t]
<1>0. TypeOK /\ StageInv /\ ShuffleInv
  BY DEF IInv
<1>1. c \in Ids /\ stage[t] = "shuffle" /\ Running(t, "shuffle")
  BY DEF Insert, Running
<1>2. Moving(t)
  BY <1>0, <1>1 DEF Insert, Moving
<1>3. r \in 0..LastDest(c)
  <2>1. <<t, r>> \in DOMAIN K(c).dest
    BY <1>0, <1>1 DEF TypeOK
  <2> QED
    BY <1>1, <2>1, PlanTables
<1>4. SourceOf[c][<<t, r>>][2] \in tried[t]
  <2>1. tried[t] = PossibleRegisters(K(c), r)
    BY DEF Insert
  <2> QED
    BY <1>1, <1>3, <2>1, PlanCandidates
<1>5. chosen[t] = Wanted(c, <<t, r>>)
  BY <1>0, <1>1, <1>4 DEF ShuffleInv
<1>6. result' = [result EXCEPT ![c][<<t, r>>] = Wanted(c, <<t, r>>)]
  BY <1>5 DEF Insert
<1>7. /\ UNCHANGED scratch
      /\ tried' = [tried EXCEPT ![t] = {}] /\ chosen' = [chosen EXCEPT ![t] = Unset]
  BY DEF Insert
<1>8. /\ tried' \in [Threads -> SUBSET Nat] /\ DOMAIN chosen' = Threads /\ tried'[t] = {}
      /\ \A u \in Threads \ {t} : tried'[u] = tried[u] /\ chosen'[u] = chosen[u]
  BY <1>0, <1>7 DEF TypeOK
<1> QED
  BY <1>2, <1>6, <1>7, <1>8, DeliverStep

LEMMA ShuffleStep ==
  ASSUME IInv, NEW w, Shuffle(w)
  PROVE  IInv'
<1>0. TypeOK /\ StageInv /\ BarrierInv /\ BufferInv /\ ShuffleInv /\ RightValues
  BY DEF IInv
<1>1. UNCHANGED <<at, stage, register, scratch, result>>
      /\ \A t \in Lanes(w) : Running(t, "shuffle")
  BY DEF Shuffle
<1> DEFINE Brought(c, r, k) ==
        /\ \A t \in Lanes(w) : at[t] = c /\ register[t] = r /\ k \notin tried[t]
        /\ chosen' = [t \in Threads |->
             IF t \in Lanes(w) /\ KeptFirst(t, c, <<t, r>>, k)
               THEN Held(c, <<Peer(t, c, <<t, r>>), k>>) ELSE chosen[t]]
        /\ tried' = [t \in Threads |->
             IF t \in Lanes(w) THEN tried[t] \cup {k} ELSE tried[t]]
<1>21. PICK c \in Ids : \E r \in 0..LastDest(c) : \E k \in PossibleRegisters(K(c), r) :
        Brought(c, r, k)
  BY DEF Shuffle
<1>22. PICK r \in 0..LastDest(c) : \E k \in PossibleRegisters(K(c), r) : Brought(c, r, k)
  BY <1>21
<1>2. PICK k \in PossibleRegisters(K(c), r) : Brought(c, r, k)
  BY <1>22
<1>3. Lanes(w) \subseteq Threads
  BY DEF Lanes
<1>4. TypeOK'
  <2>1. tried' \in [Threads -> SUBSET Nat] /\ DOMAIN chosen' = Threads
    <3>1. ASSUME NEW t \in Lanes(w) PROVE k \in Nat
      BY <1>3, PlanCandidates
    <3> QED
      BY <1>0, <1>2, <3>1 DEF TypeOK
  <2>2. \A t \in Threads : tried'[t] # {} =>
          Running(t, "shuffle")' /\ tried'[t] \subseteq PossibleRegisters(K(at'[t]), register'[t])
    <3>1. SUFFICES ASSUME NEW t \in Threads, tried'[t] # {}
                   PROVE  /\ at[t] \in Ids /\ stage[t] = "shuffle"
                          /\ tried'[t] \subseteq PossibleRegisters(K(at[t]), register[t])
      BY <1>1 DEF Running
    <3>2. CASE t \in Lanes(w)
      <4>1. at[t] = c /\ register[t] = r /\ Running(t, "shuffle") /\ tried'[t] = tried[t] \cup {k}
        BY <1>1, <1>2, <3>2
      <4>2. tried[t] \subseteq PossibleRegisters(K(c), r)
        BY <1>0, <4>1 DEF TypeOK
      <4> QED
        BY <4>1, <4>2 DEF Running
    <3>3. CASE t \notin Lanes(w)
      <4>1. tried'[t] = tried[t]
        BY <1>2, <3>3
      <4> QED
        BY <1>0, <3>1, <4>1 DEF TypeOK, Running
    <3> QED
      BY <3>2, <3>3
  <2> QED
    BY <1>0, <1>1, <2>1, <2>2 DEF TypeOK
<1>5. StageInv' /\ BarrierInv' /\ BufferInv' /\ RightValues'
  BY <1>0, <1>1 DEF StageInv, BarrierInv, Passed, BufferInv, Stored, RightValues
<1>6. ShuffleInv'
  <2>1. SUFFICES ASSUME NEW t \in Threads, Running(t, "shuffle"),
                        SourceOf[at[t]][<<t, register[t]>>][2] \in tried'[t]
                 PROVE  chosen'[t] = Wanted(at[t], <<t, register[t]>>)
    BY <1>1 DEF ShuffleInv, Running
  <2>2. CASE t \notin Lanes(w)
    <3>1. tried'[t] = tried[t] /\ chosen'[t] = chosen[t]
      BY <1>2, <2>2
    <3> QED
      BY <1>0, <2>1, <3>1 DEF ShuffleInv
  <2>3. CASE t \in Lanes(w)
    <3> DEFINE from == SourceOf[c][<<t, r>>]
    <3>1. at[t] = c /\ register[t] = r /\ tried'[t] = tried[t] \cup {k}
      BY <1>2, <1>3, <2>3
    <3>2. ModeOf[c] = "Shuffle"
      BY <1>0, <2>1, <3>1 DEF StageInv, Running
    <3>3. CASE from[2] = k
      <4>1. chosen'[t] = Held(c, <<Peer(t, c, <<t, r>>), k>>)
        BY <1>2, <2>3, <3>3 DEF KeptFirst
      <4>2. <<Peer(t, c, <<t, r>>), k>> = from
        BY <3>2, <3>3, PeerIsSource
      <4>3. K(c).source[from] = K(c).dest[<<t, r>>]
        BY PlanTables
      <4> QED
        BY <3>1, <4>1, <4>2, <4>3 DEF Held, Wanted
    <3>4. CASE from[2] # k
      <4>1. from[2] \in tried[t]
        BY <2>1, <3>1, <3>4
      <4>2. ~KeptFirst(t, c, <<t, r>>, k)
        BY <3>4, <4>1 DEF KeptFirst
      <4>3. chosen'[t] = chosen[t]
        BY <1>2, <4>2
      <4> QED
        BY <1>0, <2>1, <3>1, <4>1, <4>3 DEF ShuffleInv
    <3> QED
      BY <3>3, <3>4
  <2> QED
    BY <2>2, <2>3
<1> QED
  BY <1>4, <1>5, <1>6 DEF IInv

-----------------------------------------------------------------------------
(* The theorems.                                                           *)

\* The invariant holds initially and every step of a thread, of a warp or of
\* the barrier preserves it.
THEOREM ExchangeInductive == Spec => []IInv
<1>1. Init => IInv
  BY InitInv
<1>2. IInv /\ [Next]_vars => IInv'
  <2>1. SUFFICES ASSUME IInv, [Next]_vars PROVE IInv'
    OBVIOUS
  <2>2. CASE UNCHANGED vars
    BY <2>1, <2>2 DEF IInv, TypeOK, StageInv, BarrierInv, Passed, BufferInv, Stored,
                      ShuffleInv, RightValues, Running, vars
  <2>3. ASSUME NEW t \in Threads, Store(t) PROVE IInv'
    BY <2>1, <2>3, StoreStep
  <2>4. ASSUME NEW t \in Threads, Read(t) PROVE IInv'
    BY <2>1, <2>4, ReadStep
  <2>5. ASSUME NEW t \in Threads, Insert(t) PROVE IInv'
    BY <2>1, <2>5, InsertStep
  <2>6. ASSUME NEW w, Shuffle(w) PROVE IInv'
    BY <2>1, <2>6, ShuffleStep
  <2>7. CASE Barrier
    BY <2>1, <2>7, BarrierStep
  <2> QED
    BY <2>1, <2>2, <2>3, <2>4, <2>5, <2>6, <2>7 DEF Next
<1> QED
  BY <1>1, <1>2, PTL DEF Spec

\* Threads, registers and buffers stay in the ranges of the plans.
THEOREM ExchangeTypeCorrect == Spec => []TypeOK
BY ExchangeInductive, PTL DEF IInv

\* Whatever the layouts, the size of the CTA and the interleaving, a result
\* register is only ever written with the element its layout assigns to it.
THEOREM ConversionsAreRight == Spec => []RightValues
BY ExchangeInductive, PTL DEF IInv

\* One barrier per exchange is enough: no store is ever concurrent with another
\* access to its location.
THEOREM ExchangeIsRaceFree == Spec => []RaceFree
<1>1. IInv => RaceFree
  <2>1. SUFFICES ASSUME IInv, NEW t \in Threads, NEW u \in Threads, t # u,
                        Running(t, "store"), Touches(t) \cap Touches(u) # {}
                 PROVE  FALSE
    BY DEF RaceFree
  <2> DEFINE c == at[t]
             o == <<t, register[t]>>
             p == <<u, register[u]>>
  <2>0. TypeOK /\ StageInv /\ BarrierInv
    BY <2>1 DEF IInv
  <2>2. c \in Ids /\ stage[t] = "store" /\ ModeOf[c] = "Shared"
    BY <2>0, <2>1 DEF Running, StageInv
  <2>3. Elected(c, o) /\ Touches(t) = {<<c, K(c).source[o]>>}
    <3>1. ~Running(t, "read")
      BY <2>2 DEF Running
    <3>2. Elected(c, o)
      <4>1. SUFFICES ASSUME ~Elected(c, o) PROVE Touches(t) = {}
        BY <2>1
      <4> QED
        BY <3>1, <4>1 DEF Touches
    <3> QED
      BY <2>1, <3>2 DEF Touches, BufferOf
  <2>4. at[u] = c /\ Running(u, stage[u])
        /\ (\/ stage[u] = "store" /\ Elected(c, p) /\ K(c).source[p] = K(c).source[o]
            \/ stage[u] = "read")
    <3>1. CASE Running(u, "store") /\ Elected(at[u], p)
      <4>1. Touches(u) = {<<at[u], K(at[u]).source[p]>>}
        BY <3>1 DEF Touches, BufferOf
      <4> QED
        BY <2>1, <2>3, <3>1, <4>1 DEF Running
    <3>2. CASE ~(Running(u, "store") /\ Elected(at[u], p)) /\ Running(u, "read")
                 /\ ModeOf[at[u]] = "Shared"
      <4>1. Touches(u) = {<<at[u], K(at[u]).dest[p]>>}
        BY <3>2 DEF Touches, BufferOf
      <4> QED
        BY <2>1, <2>3, <3>2, <4>1 DEF Running
    <3>3. CASE ~(Running(u, "store") /\ Elected(at[u], p))
                 /\ ~(Running(u, "read") /\ ModeOf[at[u]] = "Shared")
      BY <2>1, <3>3 DEF Touches
    <3> QED
      BY <3>1, <3>2, <3>3
  <2>5. CASE stage[u] = "store"
    <3>1. o = K(c).inverse[K(c).source[o]] /\ p = K(c).inverse[K(c).source[o]]
      BY <2>3, <2>4, <2>5 DEF Elected
    <3> QED
      BY <2>1, <3>1
  <2>6. CASE stage[u] = "read"
    <3>1. Passed(u, c)
      BY <2>4, <2>6 DEF Passed
    <3>2. Passed(t, c)
      BY <2>0, <2>2, <3>1 DEF BarrierInv
    <3> QED
      BY <2>2, <3>2, IdsAreNumbers DEF Passed
  <2> QED
    BY <2>4, <2>5, <2>6
<1> QED
  BY <1>1, ExchangeInductive, PTL

\* Threads that wait at a barrier wait for the same one.
THEOREM BarriersLineUp == Spec => []BarrierAligned
<1>1. IInv => BarrierAligned
  <2>1. SUFFICES ASSUME IInv, NEW t \in Threads, NEW u \in Threads,
                        Running(t, "barrier"), Running(u, "barrier"), at[u] > at[t]
                 PROVE  FALSE
    BY IdsAreNumbers DEF BarrierAligned, Running
  <2>2. ModeOf[at[t]] = "Shared" /\ at[t] \in Ids
    BY <2>1 DEF IInv, StageInv, Running
  <2>3. Passed(t, at[t])
    BY <2>1, <2>2 DEF IInv, BarrierInv, Passed
  <2> QED
    BY <2>1, <2>2, <2>3, IdsAreNumbers DEF Passed, Running
<1> QED
  BY <1>1, ExchangeInductive, PTL

-----------------------------------------------------------------------------
(* Lowering: sizes and accounts are folds over sequences.                  *)

\* A product is multiplied up extent by extent, and is natural; the walk stops
\* at the first one that leaves the budget.
LEMMA SizeFold ==
  ASSUME NEW s \in Seq(Nat), NEW e \in Nat
  PROVE  \E q \in [0..Len(s) -> Int] :
           /\ q[0] = e /\ q[Len(s)] = FoldLeft(Multiply, e, s)
           /\ \A i \in 1..Len(s) : q[i] = Multiply(q[i - 1], s[i])
<1> DEFINE n == Len(s)
           h == [p \in (1..n) \X Int |-> Multiply(p[2], s[p[1]])]
           It == CHOOSE g : g = [T \in SUBSET (1..n) |->
                   IF T = {} THEN e ELSE Multiply(g[T \ {Max(T)}], s[Max(T)])]
<1>1. n \in Nat /\ DOMAIN s = 1..n /\ \A i \in 1..n : s[i] \in Nat
  OBVIOUS
<1>2. \A x \in Nat, v \in Int : Multiply(v, x) \in Int
  BY LoweringAssumption DEF Multiply, Overrun
<1>3. \A i \in 1..n, v \in Int : h[<<i, v>>] = Multiply(v, s[i]) /\ h[<<i, v>>] \in Int
  BY <1>1, <1>2
<1>4. PICK g \in [SUBSET (1..n) -> Int] : \A T \in SUBSET (1..n) :
        g[T] = IF T = {} THEN e ELSE h[<<Max(T), g[T \ {Max(T)}]>>]
  <2>1. e \in Int
    OBVIOUS
  <2>2. StepsIn(n, Int, h)
    <3> HIDE DEF h, n
    <3> QED BY <1>3 DEF StepsIn
  <2> HIDE DEF h, n
  <2>3. PrefixRecursions(n, Int, e, h) # {}
    BY <1>1, <2>1, <2>2, PrefixRecursion
  <2> QED BY <2>3 DEF PrefixRecursions
<1>5. g = [T \in SUBSET (1..n) |->
             IF T = {} THEN e ELSE Multiply(g[T \ {Max(T)}], s[Max(T)])]
  <2>1. ASSUME NEW T \in SUBSET (1..n), T # {}
        PROVE  g[T] = Multiply(g[T \ {Max(T)}], s[Max(T)])
    <3>1. Max(T) \in 1..n
      BY <1>1, <2>1, LastPosition
    <3>2. T \ {Max(T)} \in SUBSET (1..n)
      OBVIOUS
    <3> HIDE DEF h, n
    <3> QED BY <1>3, <1>4, <2>1, <3>1, <3>2
  <2> HIDE DEF h, n
  <2> QED BY <1>4, <2>1
<1>6. It = [T \in SUBSET (1..n) |->
              IF T = {} THEN e ELSE Multiply(It[T \ {Max(T)}], s[Max(T)])]
  <2> HIDE DEF h, n
  <2> QED BY <1>5
<1>7. It[1..0] = e /\ \A i \in 1..n : It[1..i] = Multiply(It[1..(i - 1)], s[i])
  <2>1. 1..0 = {} /\ 1..0 \in SUBSET (1..n)
    BY <1>1
  <2>2. \A i \in 1..n : 1..i \in SUBSET (1..n) /\ 1..i # {}
    BY <1>1, LastPosition
  <2> HIDE DEF It, n
  <2> QED BY <1>1, <1>6, <2>1, <2>2, LastPosition
<1>8. FoldLeft(Multiply, e, s) = It[1..n]
  BY <1>1 DEF FoldLeft, MapThenFoldSet
<1>9. PICK q \in [0..n -> Int] :
        q[0] = It[1..0] /\ q[n] = It[1..n] /\ \A i \in 1..n : q[i] = h[<<i, q[i - 1]>>]
  <2>1. It[1..0] \in Int
    BY <1>7
  <2>2. \A i \in 1..n : It[1..(i - 1)] \in Int => It[1..i] = h[<<i, It[1..(i - 1)]>>]
    <3> HIDE DEF It, h, n
    <3> QED BY <1>3, <1>7
  <2> HIDE DEF It, h, n
  <2>3. StepsIn(n, Int, h) /\ Recursive(n, Int, h, It)
    BY <1>3, <2>1, <2>2 DEF StepsIn, Recursive
  <2>4. ValuesOf(n, Int, h, It) # {}
    BY <1>1, <2>3, PrefixValues
  <2> QED BY <2>4 DEF ValuesOf
<1>10. \A i \in 1..n : q[i] = Multiply(q[i - 1], s[i])
  <2>1. \A i \in 1..n : i - 1 \in 0..n
    BY <1>1
  <2> HIDE DEF It, h, n
  <2> QED BY <1>3, <1>9, <2>1
<1> QED BY <1>7, <1>8, <1>9, <1>10

\* The same without a limit.
LEMMA ProductFold ==
  ASSUME NEW s \in Seq(Nat), NEW e \in Nat
  PROVE  \E q \in [0..Len(s) -> Nat] :
           /\ q[0] = e /\ q[Len(s)] = FoldLeft(Times, e, s)
           /\ \A i \in 1..Len(s) : q[i] = Times(q[i - 1], s[i])
<1> DEFINE n == Len(s)
           h == [p \in (1..n) \X Nat |-> Times(p[2], s[p[1]])]
           It == CHOOSE g : g = [T \in SUBSET (1..n) |->
                   IF T = {} THEN e ELSE Times(g[T \ {Max(T)}], s[Max(T)])]
<1>1. n \in Nat /\ DOMAIN s = 1..n /\ \A i \in 1..n : s[i] \in Nat
  OBVIOUS
<1>2. \A x \in Nat, v \in Nat : Times(v, x) \in Nat
  BY DEF Times
<1>3. \A i \in 1..n, v \in Nat : h[<<i, v>>] = Times(v, s[i]) /\ h[<<i, v>>] \in Nat
  BY <1>1, <1>2
<1>4. PICK g \in [SUBSET (1..n) -> Nat] : \A T \in SUBSET (1..n) :
        g[T] = IF T = {} THEN e ELSE h[<<Max(T), g[T \ {Max(T)}]>>]
  <2>1. e \in Nat
    OBVIOUS
  <2>2. StepsIn(n, Nat, h)
    <3> HIDE DEF h, n
    <3> QED BY <1>3 DEF StepsIn
  <2> HIDE DEF h, n
  <2>3. PrefixRecursions(n, Nat, e, h) # {}
    BY <1>1, <2>1, <2>2, PrefixRecursion
  <2> QED BY <2>3 DEF PrefixRecursions
<1>5. g = [T \in SUBSET (1..n) |->
             IF T = {} THEN e ELSE Times(g[T \ {Max(T)}], s[Max(T)])]
  <2>1. ASSUME NEW T \in SUBSET (1..n), T # {}
        PROVE  g[T] = Times(g[T \ {Max(T)}], s[Max(T)])
    <3>1. Max(T) \in 1..n
      BY <1>1, <2>1, LastPosition
    <3>2. T \ {Max(T)} \in SUBSET (1..n)
      OBVIOUS
    <3> HIDE DEF h, n
    <3> QED BY <1>3, <1>4, <2>1, <3>1, <3>2
  <2> HIDE DEF h, n
  <2> QED BY <1>4, <2>1
<1>6. It = [T \in SUBSET (1..n) |->
              IF T = {} THEN e ELSE Times(It[T \ {Max(T)}], s[Max(T)])]
  <2> HIDE DEF h, n
  <2> QED BY <1>5
<1>7. It[1..0] = e /\ \A i \in 1..n : It[1..i] = Times(It[1..(i - 1)], s[i])
  <2>1. 1..0 = {} /\ 1..0 \in SUBSET (1..n)
    BY <1>1
  <2>2. \A i \in 1..n : 1..i \in SUBSET (1..n) /\ 1..i # {}
    BY <1>1, LastPosition
  <2> HIDE DEF It, n
  <2> QED BY <1>1, <1>6, <2>1, <2>2, LastPosition
<1>8. FoldLeft(Times, e, s) = It[1..n]
  BY <1>1 DEF FoldLeft, MapThenFoldSet
<1>9. PICK q \in [0..n -> Nat] :
        q[0] = It[1..0] /\ q[n] = It[1..n] /\ \A i \in 1..n : q[i] = h[<<i, q[i - 1]>>]
  <2>1. It[1..0] \in Nat
    BY <1>7
  <2>2. \A i \in 1..n : It[1..(i - 1)] \in Nat => It[1..i] = h[<<i, It[1..(i - 1)]>>]
    <3> HIDE DEF It, h, n
    <3> QED BY <1>3, <1>7
  <2> HIDE DEF It, h, n
  <2>3. StepsIn(n, Nat, h) /\ Recursive(n, Nat, h, It)
    BY <1>3, <2>1, <2>2 DEF StepsIn, Recursive
  <2>4. ValuesOf(n, Nat, h, It) # {}
    BY <1>1, <2>3, PrefixValues
  <2> QED BY <2>4 DEF ValuesOf
<1>10. \A i \in 1..n : q[i] = Times(q[i - 1], s[i])
  <2>1. \A i \in 1..n : i - 1 \in 0..n
    BY <1>1
  <2> HIDE DEF It, h, n
  <2> QED BY <1>3, <1>9, <2>1
<1> QED BY <1>7, <1>8, <1>9, <1>10

\* A size is the product, unless it left the budget.
LEMMA SizeIsProduct ==
  ASSUME NEW a \in Attributions
  PROVE  /\ SizeOf(a) \in Int /\ FoldLeft(Times, a.element, a.shape) \in Nat
         /\ SizeOf(a) # Overrun => SizeOf(a) = FoldLeft(Times, a.element, a.shape)
<1> DEFINE n == Len(a.shape)
<1>1. a.element \in Nat /\ a.shape \in Seq(Nat) /\ n \in Nat
  BY DEF Attributions
<1>2. PICK q \in [0..n -> Int] :
        /\ q[0] = a.element /\ q[n] = SizeOf(a)
        /\ \A i \in 1..n : q[i] = Multiply(q[i - 1], a.shape[i])
  BY <1>1, SizeFold DEF SizeOf
<1>3. PICK r \in [0..n -> Nat] :
        /\ r[0] = a.element /\ r[n] = FoldLeft(Times, a.element, a.shape)
        /\ \A i \in 1..n : r[i] = Times(r[i - 1], a.shape[i])
  BY <1>1, ProductFold
<1> DEFINE P == {i \in Nat : i <= n => q[i] = Overrun \/ q[i] = r[i]}
<1>4. 0 \in P
  BY <1>2, <1>3
<1>5. ASSUME NEW i \in Nat, i \in P
      PROVE  i + 1 \in P
  <2> SUFFICES ASSUME i + 1 <= n PROVE q[i + 1] = Overrun \/ q[i + 1] = r[i + 1]
    OBVIOUS
  <2>1. i + 1 \in 1..n /\ (i + 1) - 1 = i /\ i <= n
    BY <1>1
  <2>2. q[i] = Overrun \/ q[i] = r[i]
    BY <1>5, <2>1
  <2>3. q[i + 1] = Multiply(q[i], a.shape[i + 1]) /\ r[i + 1] = Times(r[i], a.shape[i + 1])
    BY <1>2, <1>3, <2>1
  <2> HIDE DEF P, n
  <2> QED BY <2>2, <2>3 DEF Multiply, Times
<1>6. n \in P
  <2> HIDE DEF P, n
  <2> QED BY <1>1, <1>4, <1>5, NaturalInduction
<1> QED
  BY <1>1, <1>2, <1>3, <1>6

\* The alignment of what can be counted is a natural number.
LEMMA AlignmentIsNat ==
  ASSUME NEW a \in Attributions
  PROVE  AlignmentOf(a) \in Nat
BY DEF Attributions, AlignmentOf

LEMMA RoundedIsNat ==
  ASSUME NEW n \in Nat, NEW a \in Nat \ {0}
  PROVE  AlignedTo(n, a) \in Nat
<1>1. n + a - 1 \in Nat
  OBVIOUS
<1>2. (n + a - 1) \div a \in Nat
  BY <1>1
<1>3. \A x \in Nat : x * a \in Nat
  OBVIOUS
<1> QED BY <1>2, <1>3 DEF AlignedTo

\* What a reservation gives: nothing, or the end of the bytes within the budget.
LEMMA Reservation ==
  ASSUME NEW n \in Int, NEW bytes \in Int, NEW alignment \in Nat,
         Reserve(n, bytes, alignment) # Overrun
  PROVE  /\ n # Overrun /\ alignment > 0
         /\ Reserve(n, bytes, alignment) = AlignedTo(n, alignment) + bytes
         /\ Reserve(n, bytes, alignment) <= ScratchBudget
         /\ Reserve(n, bytes, alignment) \in Int
<1>1. n # Overrun /\ PowerOfTwo(alignment)
  BY DEF Reserve
<1>2. alignment > 0
  BY <1>1 DEF PowerOfTwo
<1>3. AlignedTo(n, alignment) \in Int
  BY <1>2 DEF AlignedTo
<1>4. /\ Reserve(n, bytes, alignment) = AlignedTo(n, alignment) + bytes
      /\ ~(bytes > ScratchBudget - AlignedTo(n, alignment))
  <2> HIDE DEF AlignedTo
  <2> QED BY DEF Reserve
<1> QED
  <2> HIDE DEF AlignedTo
  <2> QED BY <1>1, <1>2, <1>3, <1>4, LoweringAssumption

LEMMA CountedIsInt ==
  ASSUME NEW n \in Int, NEW a \in Attributions
  PROVE  Counted(n, a) \in Int
<1>1. SizeOf(a) \in Int /\ AlignmentOf(a) \in Nat
  BY SizeIsProduct, AlignmentIsNat
<1>2. CASE Counted(n, a) = Overrun
  BY <1>2 DEF Overrun
<1>3. CASE Counted(n, a) # Overrun
  BY <1>1, <1>3, Reservation DEF Counted
<1> QED BY <1>2, <1>3

\* Attributions are counted one after the other.
LEMMA CountedFold ==
  ASSUME NEW s \in Seq(Attributions)
  PROVE  \E q \in [0..Len(s) -> Int] :
           /\ q[0] = 0 /\ q[Len(s)] = FoldLeft(Counted, 0, s)
           /\ \A i \in 1..Len(s) : q[i] = Counted(q[i - 1], s[i])
<1> DEFINE n == Len(s)
           h == [p \in (1..n) \X Int |-> Counted(p[2], s[p[1]])]
           It == CHOOSE g : g = [T \in SUBSET (1..n) |->
                   IF T = {} THEN 0 ELSE Counted(g[T \ {Max(T)}], s[Max(T)])]
<1>1. n \in Nat /\ DOMAIN s = 1..n /\ \A i \in 1..n : s[i] \in Attributions
  OBVIOUS
<1>2. \A x \in Attributions, v \in Int : Counted(v, x) \in Int
  BY CountedIsInt
<1>3. \A i \in 1..n, v \in Int : h[<<i, v>>] = Counted(v, s[i]) /\ h[<<i, v>>] \in Int
  BY <1>1, <1>2
<1>4. PICK g \in [SUBSET (1..n) -> Int] : \A T \in SUBSET (1..n) :
        g[T] = IF T = {} THEN 0 ELSE h[<<Max(T), g[T \ {Max(T)}]>>]
  <2>1. 0 \in Int
    OBVIOUS
  <2>2. StepsIn(n, Int, h)
    <3> HIDE DEF h, n
    <3> QED BY <1>3 DEF StepsIn
  <2> HIDE DEF h, n
  <2>3. PrefixRecursions(n, Int, 0, h) # {}
    BY <1>1, <2>1, <2>2, PrefixRecursion
  <2> QED BY <2>3 DEF PrefixRecursions
<1>5. g = [T \in SUBSET (1..n) |->
             IF T = {} THEN 0 ELSE Counted(g[T \ {Max(T)}], s[Max(T)])]
  <2>1. ASSUME NEW T \in SUBSET (1..n), T # {}
        PROVE  g[T] = Counted(g[T \ {Max(T)}], s[Max(T)])
    <3>1. Max(T) \in 1..n
      BY <1>1, <2>1, LastPosition
    <3>2. T \ {Max(T)} \in SUBSET (1..n)
      OBVIOUS
    <3> HIDE DEF h, n
    <3> QED BY <1>3, <1>4, <2>1, <3>1, <3>2
  <2> HIDE DEF h, n
  <2> QED BY <1>4, <2>1
<1>6. It = [T \in SUBSET (1..n) |->
              IF T = {} THEN 0 ELSE Counted(It[T \ {Max(T)}], s[Max(T)])]
  <2> HIDE DEF h, n
  <2> QED BY <1>5
<1>7. It[1..0] = 0 /\ \A i \in 1..n : It[1..i] = Counted(It[1..(i - 1)], s[i])
  <2>1. 1..0 = {} /\ 1..0 \in SUBSET (1..n)
    BY <1>1
  <2>2. \A i \in 1..n : 1..i \in SUBSET (1..n) /\ 1..i # {}
    BY <1>1, LastPosition
  <2> HIDE DEF It, n
  <2> QED BY <1>1, <1>6, <2>1, <2>2, LastPosition
<1>8. FoldLeft(Counted, 0, s) = It[1..n]
  BY <1>1 DEF FoldLeft, MapThenFoldSet
<1>9. PICK q \in [0..n -> Int] :
        q[0] = It[1..0] /\ q[n] = It[1..n] /\ \A i \in 1..n : q[i] = h[<<i, q[i - 1]>>]
  <2>1. It[1..0] \in Int
    BY <1>7
  <2>2. \A i \in 1..n : It[1..(i - 1)] \in Int => It[1..i] = h[<<i, It[1..(i - 1)]>>]
    <3> HIDE DEF It, h, n
    <3> QED BY <1>3, <1>7
  <2> HIDE DEF It, h, n
  <2>3. StepsIn(n, Int, h) /\ Recursive(n, Int, h, It)
    BY <1>3, <2>1, <2>2 DEF StepsIn, Recursive
  <2>4. ValuesOf(n, Int, h, It) # {}
    BY <1>1, <2>3, PrefixValues
  <2> QED BY <2>4 DEF ValuesOf
<1>10. \A i \in 1..n : q[i] = Counted(q[i - 1], s[i])
  <2>1. \A i \in 1..n : i - 1 \in 0..n
    BY <1>1
  <2> HIDE DEF It, h, n
  <2> QED BY <1>3, <1>9, <2>1
<1> QED BY <1>7, <1>8, <1>9, <1>10

Sized == {a \in Attributions : a.element # 0}

LEMMA BehindIsInt ==
  ASSUME NEW n \in Int, NEW a \in Sized
  PROVE  Behind(n, a) \in Int
<1>1. AlignmentOf(a) \in Nat \ {0}
  BY DEF Sized, Attributions, AlignmentOf
<1>2. AlignedTo(n, AlignmentOf(a)) \in Int
  BY <1>1 DEF AlignedTo
<1>3. FoldLeft(Times, a.element, a.shape) \in Int
  BY SizeIsProduct DEF Sized
<1> QED BY <1>2, <1>3 DEF Behind

\* And so they are placed.
LEMMA BehindFold ==
  ASSUME NEW s \in Seq(Sized)
  PROVE  \E q \in [0..Len(s) -> Int] :
           /\ q[0] = 0 /\ q[Len(s)] = FoldLeft(Behind, 0, s)
           /\ \A i \in 1..Len(s) : q[i] = Behind(q[i - 1], s[i])
<1> DEFINE n == Len(s)
           h == [p \in (1..n) \X Int |-> Behind(p[2], s[p[1]])]
           It == CHOOSE g : g = [T \in SUBSET (1..n) |->
                   IF T = {} THEN 0 ELSE Behind(g[T \ {Max(T)}], s[Max(T)])]
<1>1. n \in Nat /\ DOMAIN s = 1..n /\ \A i \in 1..n : s[i] \in Sized
  OBVIOUS
<1>2. \A x \in Sized, v \in Int : Behind(v, x) \in Int
  BY BehindIsInt
<1>3. \A i \in 1..n, v \in Int : h[<<i, v>>] = Behind(v, s[i]) /\ h[<<i, v>>] \in Int
  BY <1>1, <1>2
<1>4. PICK g \in [SUBSET (1..n) -> Int] : \A T \in SUBSET (1..n) :
        g[T] = IF T = {} THEN 0 ELSE h[<<Max(T), g[T \ {Max(T)}]>>]
  <2>1. 0 \in Int
    OBVIOUS
  <2>2. StepsIn(n, Int, h)
    <3> HIDE DEF h, n
    <3> QED BY <1>3 DEF StepsIn
  <2> HIDE DEF h, n
  <2>3. PrefixRecursions(n, Int, 0, h) # {}
    BY <1>1, <2>1, <2>2, PrefixRecursion
  <2> QED BY <2>3 DEF PrefixRecursions
<1>5. g = [T \in SUBSET (1..n) |->
             IF T = {} THEN 0 ELSE Behind(g[T \ {Max(T)}], s[Max(T)])]
  <2>1. ASSUME NEW T \in SUBSET (1..n), T # {}
        PROVE  g[T] = Behind(g[T \ {Max(T)}], s[Max(T)])
    <3>1. Max(T) \in 1..n
      BY <1>1, <2>1, LastPosition
    <3>2. T \ {Max(T)} \in SUBSET (1..n)
      OBVIOUS
    <3> HIDE DEF h, n
    <3> QED BY <1>3, <1>4, <2>1, <3>1, <3>2
  <2> HIDE DEF h, n
  <2> QED BY <1>4, <2>1
<1>6. It = [T \in SUBSET (1..n) |->
              IF T = {} THEN 0 ELSE Behind(It[T \ {Max(T)}], s[Max(T)])]
  <2> HIDE DEF h, n
  <2> QED BY <1>5
<1>7. It[1..0] = 0 /\ \A i \in 1..n : It[1..i] = Behind(It[1..(i - 1)], s[i])
  <2>1. 1..0 = {} /\ 1..0 \in SUBSET (1..n)
    BY <1>1
  <2>2. \A i \in 1..n : 1..i \in SUBSET (1..n) /\ 1..i # {}
    BY <1>1, LastPosition
  <2> HIDE DEF It, n
  <2> QED BY <1>1, <1>6, <2>1, <2>2, LastPosition
<1>8. FoldLeft(Behind, 0, s) = It[1..n]
  BY <1>1 DEF FoldLeft, MapThenFoldSet
<1>9. PICK q \in [0..n -> Int] :
        q[0] = It[1..0] /\ q[n] = It[1..n] /\ \A i \in 1..n : q[i] = h[<<i, q[i - 1]>>]
  <2>1. It[1..0] \in Int
    BY <1>7
  <2>2. \A i \in 1..n : It[1..(i - 1)] \in Int => It[1..i] = h[<<i, It[1..(i - 1)]>>]
    <3> HIDE DEF It, h, n
    <3> QED BY <1>3, <1>7
  <2> HIDE DEF It, h, n
  <2>3. StepsIn(n, Int, h) /\ Recursive(n, Int, h, It)
    BY <1>3, <2>1, <2>2 DEF StepsIn, Recursive
  <2>4. ValuesOf(n, Int, h, It) # {}
    BY <1>1, <2>3, PrefixValues
  <2> QED BY <2>4 DEF ValuesOf
<1>10. \A i \in 1..n : q[i] = Behind(q[i - 1], s[i])
  <2>1. \A i \in 1..n : i - 1 \in 0..n
    BY <1>1
  <2> HIDE DEF It, h, n
  <2> QED BY <1>3, <1>9, <2>1
<1> QED BY <1>7, <1>8, <1>9, <1>10

-----------------------------------------------------------------------------
(* The account of one kernel.                                              *)

FootprintOf(s) == FoldLeft(Behind, 0, s)

LEMMA SizedAttributions ==
  ASSUME NEW s \in Seq(Attributions), \A i \in DOMAIN s : s[i].element # 0
  PROVE  s \in Seq(Sized)
BY DEF Sized

\* What is accounted for the attributions of a kernel is where they end.
LEMMA AccountOfAttributions ==
  ASSUME NEW s \in Seq(Attributions), \A i \in DOMAIN s : Countable(s[i]),
         FoldLeft(Counted, 0, s) # Overrun
  PROVE  /\ FoldLeft(Counted, 0, s) = FootprintOf(s)
         /\ FootprintOf(s) \in 0..ScratchBudget
<1> DEFINE n == Len(s)
<1>1. n \in Nat /\ DOMAIN s = 1..n /\ \A i \in 1..n : s[i] \in Attributions
  OBVIOUS
<1>2. s \in Seq(Sized)
  BY SizedAttributions DEF Countable
<1>3. PICK q \in [0..n -> Int] :
        /\ q[0] = 0 /\ q[n] = FoldLeft(Counted, 0, s)
        /\ \A i \in 1..n : q[i] = Counted(q[i - 1], s[i])
  BY CountedFold
<1>4. PICK r \in [0..n -> Int] :
        /\ r[0] = 0 /\ r[n] = FootprintOf(s)
        /\ \A i \in 1..n : r[i] = Behind(r[i - 1], s[i])
  BY <1>2, BehindFold DEF FootprintOf
<1> DEFINE P == {i \in Nat : i <= n /\ q[i] # Overrun =>
                               q[i] = r[i] /\ 0 <= q[i] /\ q[i] <= ScratchBudget}
<1>5. 0 \in P
  BY <1>1, <1>3, <1>4, LoweringAssumption
<1>6. ASSUME NEW i \in Nat, i \in P
      PROVE  i + 1 \in P
  <2> SUFFICES ASSUME i + 1 <= n, q[i + 1] # Overrun
               PROVE  q[i + 1] = r[i + 1] /\ 0 <= q[i + 1] /\ q[i + 1] <= ScratchBudget
    OBVIOUS
  <2> DEFINE a == s[i + 1]
  <2>1. i + 1 \in 1..n /\ (i + 1) - 1 = i /\ i <= n /\ i \in 0..n
    BY <1>1
  <2>2. q[i + 1] = Counted(q[i], a) /\ r[i + 1] = Behind(r[i], a)
    BY <1>3, <1>4, <2>1
  <2>3. a \in Attributions /\ a.element # 0 /\ SizeOf(a) # Overrun
    BY <1>1, <2>1 DEF Countable
  <2>4. q[i] \in Int /\ SizeOf(a) \in Int /\ AlignmentOf(a) \in Nat
    BY <1>3, <2>1, <2>3, SizeIsProduct, AlignmentIsNat
  <2>5. /\ q[i] # Overrun /\ AlignmentOf(a) > 0
        /\ q[i + 1] = AlignedTo(q[i], AlignmentOf(a)) + SizeOf(a)
        /\ q[i + 1] <= ScratchBudget
    <3> HIDE DEF a
    <3> QED BY <2>2, <2>4, Reservation DEF Counted
  <2>6. q[i] = r[i] /\ 0 <= q[i]
    BY <1>6, <2>1, <2>5
  <2>7. /\ SizeOf(a) = FoldLeft(Times, a.element, a.shape)
        /\ FoldLeft(Times, a.element, a.shape) \in Nat
    BY <2>3, SizeIsProduct
  <2>8. q[i + 1] = r[i + 1]
    BY <2>2, <2>5, <2>6, <2>7 DEF Behind
  <2>9. AlignedTo(q[i], AlignmentOf(a)) \in Nat
    <3> HIDE DEF a
    <3>1. q[i] \in Nat /\ AlignmentOf(a) \in Nat \ {0}
      BY <2>4, <2>5, <2>6
    <3> QED BY <3>1, RoundedIsNat
  <2> HIDE DEF a, P, n
  <2> QED BY <2>5, <2>7, <2>8, <2>9
<1>7. n \in P
  <2> HIDE DEF P, n
  <2> QED BY <1>1, <1>5, <1>6, NaturalInduction
<1> QED
  BY <1>1, <1>3, <1>4, <1>7

\* A buffer added behind the others begins where they end.
LEMMA FootprintOfAppend ==
  ASSUME NEW s \in Seq(Sized), NEW a \in Sized
  PROVE  FootprintOf(Append(s, a)) = Behind(FootprintOf(s), a)
<1> DEFINE n == Len(s)
           t == Append(s, a)
<1>1. /\ n \in Nat /\ t \in Seq(Sized) /\ Len(t) = n + 1
      /\ t[n + 1] = a /\ \A i \in 1..n : t[i] = s[i]
  OBVIOUS
<1>2. PICK q \in [0..n -> Int] :
        /\ q[0] = 0 /\ q[n] = FootprintOf(s)
        /\ \A i \in 1..n : q[i] = Behind(q[i - 1], s[i])
  BY BehindFold DEF FootprintOf
<1>3. PICK r \in [0..(n + 1) -> Int] :
        /\ r[0] = 0 /\ r[n + 1] = FootprintOf(t)
        /\ \A i \in 1..(n + 1) : r[i] = Behind(r[i - 1], t[i])
  <2> HIDE DEF t, n
  <2>1. \E r \in [0..Len(t) -> Int] :
          /\ r[0] = 0 /\ r[Len(t)] = FoldLeft(Behind, 0, t)
          /\ \A i \in 1..Len(t) : r[i] = Behind(r[i - 1], t[i])
    BY <1>1, BehindFold
  <2> QED BY <1>1, <2>1 DEF FootprintOf
<1> DEFINE P == {i \in Nat : i <= n => q[i] = r[i]}
<1>4. 0 \in P
  BY <1>2, <1>3
<1>5. ASSUME NEW i \in Nat, i \in P
      PROVE  i + 1 \in P
  <2> SUFFICES ASSUME i + 1 <= n PROVE q[i + 1] = r[i + 1]
    OBVIOUS
  <2>1. i + 1 \in 1..n /\ i + 1 \in 1..(n + 1) /\ (i + 1) - 1 = i /\ i <= n
    BY <1>1
  <2>2. q[i] = r[i]
    BY <1>5, <2>1
  <2> HIDE DEF t, n, P
  <2> QED BY <1>1, <1>2, <1>3, <2>1, <2>2
<1>6. n \in P
  <2> HIDE DEF P, n
  <2> QED BY <1>1, <1>4, <1>5, NaturalInduction
<1>7. q[n] = r[n]
  BY <1>1, <1>6
<1>8. r[n + 1] = Behind(r[n], a)
  <2>1. n + 1 \in 1..(n + 1) /\ (n + 1) - 1 = n
    BY <1>1
  <2> HIDE DEF t, n
  <2> QED BY <1>1, <1>3, <2>1
<1> QED BY <1>2, <1>3, <1>7, <1>8

\* The buffer of an accepted conversion.
LEMMA BufferIsSized ==
  ASSUME NEW op, Accepted(op.plan), op.bytes \in Nat \ {0}
  PROVE  /\ Volume(op.plan) \in Nat
         /\ Buffer(op) \in Sized
         /\ AlignmentOf(Buffer(op)) = op.bytes
         /\ FoldLeft(Times, Buffer(op).element, Buffer(op).shape) = op.bytes * Volume(op.plan)
<1> DEFINE k == op.plan
           F == [o \in DOMAIN k.source |-> k.source[o]]
<1>1. IsFiniteSet(DOMAIN k.source)
  <2>1. NumThreads \in Nat \ {0} /\ k.sourceRegisters \in Nat \ {0}
    BY TopologyAssumption DEF Accepted, Conversion
  <2>4. 0 \in Int /\ NumThreads - 1 \in Int /\ k.sourceRegisters - 1 \in Int
    BY <2>1
  <2>2. IsFiniteSet(0..(NumThreads - 1)) /\ IsFiniteSet(0..(k.sourceRegisters - 1))
    <3> HIDE DEF k
    <3> QED BY <2>4, FS_Interval
  <2>3. IsFiniteSet((0..(NumThreads - 1)) \X (0..(k.sourceRegisters - 1)))
    BY <2>2, FS_Product
  <2> QED BY <2>3 DEF Accepted, Conversion, Threads
<1>2. Slots(k) \subseteq {F[o] : o \in DOMAIN k.source}
  BY DEF Accepted
<1>3. IsFiniteSet({F[o] : o \in DOMAIN k.source})
  <2> F \in Surjection(DOMAIN k.source, {F[o] : o \in DOMAIN k.source})
    BY DEF Surjection
  <2> QED BY <1>1, FS_Surjection
<1>4. Volume(k) \in Nat
  BY <1>2, <1>3, FS_Subset, FS_CardinalityType DEF Volume
<1>5. /\ Buffer(op).shape = <<Volume(k)>> /\ Buffer(op).element = op.bytes
      /\ Buffer(op).align = <<op.bytes>> /\ Buffer(op).static = TRUE
  BY DEF Buffer
<1>6. Buffer(op) \in Sized
  <2>1. <<Volume(k)>> \in Seq(Nat) /\ <<op.bytes>> \in Seq(Int)
    BY <1>4
  <2> QED BY <2>1 DEF Buffer, Sized, Attributions
<1>7. AlignmentOf(Buffer(op)) = op.bytes
  BY <1>5 DEF AlignmentOf
<1>8. PICK q \in [0..1 -> Nat] :
        /\ q[0] = op.bytes /\ q[1] = FoldLeft(Times, op.bytes, <<Volume(k)>>)
        /\ \A i \in 1..1 : q[i] = Times(q[i - 1], <<Volume(k)>>[i])
  <2>1. <<Volume(k)>> \in Seq(Nat) /\ Len(<<Volume(k)>>) = 1
    BY <1>4
  <2> QED BY <2>1, ProductFold
<1>9. q[1] = op.bytes * Volume(k)
  <2>1. 1 \in 1..1 /\ 1 - 1 = 0 /\ <<Volume(k)>>[1] = Volume(k)
    OBVIOUS
  <2>2. q[1] = Times(q[0], Volume(k))
    BY <1>8, <2>1
  <2> QED BY <1>8, <2>2 DEF Times
<1> QED
  BY <1>4, <1>5, <1>6, <1>7, <1>8, <1>9

-----------------------------------------------------------------------------
(* The walk and the emission.                                              *)

\* Nothing is emitted before the walk is over, and a refused walk is not over.
WalkInv ==
  /\ program \in Programs /\ original \in Storages
  /\ storage \in [Kernels -> Seq(Attributions)]
  /\ planned \in 0..Len(program) /\ lowered \in 0..planned
  /\ DOMAIN used \subseteq Kernels /\ refused \in BOOLEAN
  /\ lowered > 0 => planned = Len(program)
  /\ lowered = 0 => storage = original
  /\ refused => planned < Len(program)
  /\ \A i \in 1..planned : ~Refusable(program[i])

\* The end of a kernel's attributions after one more conversion.
Grown(x, k, i) ==
  IF NeedsBuffer(program[i]) /\ program[i].kernel = k THEN Behind(x, Buffer(program[i])) ELSE x

\* The ends after each of the first n conversions, none beyond the budget.
Growth(k, n) ==
  {q \in [0..n -> 0..ScratchBudget] :
     q[0] = FootprintOf(original[k]) /\ \A i \in 1..n : q[i] = Grown(q[i - 1], k, i)}

\* The account is where the attributions will end; they end where it was when
\* the walk was where the emission is now.
Tracked(k) ==
  \E q \in Growth(k, planned) : used[k] = q[planned] /\ Footprint(k) = q[lowered]

AccountInv ==
  /\ \A k \in DOMAIN used : Tracked(k) /\ storage[k] \in Seq(Sized)
  /\ \A i \in 1..planned : NeedsBuffer(program[i]) => program[i].kernel \in DOMAIN used

LoweringInv == WalkInv /\ AccountInv

LEMMA ProgramFacts ==
  ASSUME NEW p \in Programs
  PROVE  /\ Len(p) \in Nat /\ DOMAIN p = 1..Len(p)
         /\ \A i \in 1..Len(p) : p[i].kernel \in Kernels /\ p[i].bytes \in Nat \ {0}
BY LoweringAssumption

LEMMA PlanKeepsWalk ==
  ASSUME WalkInv, Plan
  PROVE  /\ WalkInv' /\ lowered = 0 /\ storage = original /\ planned + 1 \in 1..Len(program)
         /\ refused' => planned' = planned /\ used' = used
         /\ ~refused' => planned' = planned + 1 /\ ~Refusable(program[planned + 1])
         /\ lowered' = lowered /\ storage' = storage /\ original' = original
         /\ program' = program
<1> DEFINE op == program[planned + 1]
<1>1. Len(program) \in Nat /\ \A i \in 1..Len(program) : program[i].kernel \in Kernels
  BY ProgramFacts DEF WalkInv
<1>2. /\ ~refused /\ planned < Len(program)
      /\ program' = program /\ storage' = storage /\ original' = original /\ lowered' = lowered
  BY DEF Plan
<1>3. planned \in Nat /\ planned + 1 \in 1..Len(program) /\ op.kernel \in Kernels
  BY <1>1, <1>2 DEF WalkInv
<1>4. lowered = 0 /\ storage = original
  BY <1>1, <1>2, <1>3 DEF WalkInv
<1>5. \A i \in 1..planned : ~Refusable(program[i])
  BY DEF WalkInv
<1>6. CASE Refusable(op) \/ (NeedsBuffer(op) /\ UseAfter(op) = Overrun)
  <2>1. refused' = TRUE /\ planned' = planned /\ used' = used
    BY <1>6 DEF Plan
  <2> QED BY <1>1, <1>2, <1>3, <1>4, <1>5, <2>1 DEF WalkInv, Refusable
<1>7. CASE ~(Refusable(op) \/ (NeedsBuffer(op) /\ UseAfter(op) = Overrun))
  <2>1. /\ planned' = planned + 1 /\ refused' = refused
        /\ used' = IF ~NeedsBuffer(op) THEN used
                   ELSE [k \in DOMAIN used \cup {op.kernel} |->
                           IF k = op.kernel THEN UseAfter(op) ELSE used[k]]
    BY <1>7 DEF Plan
  <2>2. DOMAIN used' \subseteq Kernels
    BY <1>3, <2>1 DEF WalkInv
  <2>3. \A i \in 1..planned' : ~Refusable(program[i])
    BY <1>3, <1>5, <1>7, <2>1
  <2>4. planned' \in 0..Len(program') /\ lowered' \in 0..planned'
    BY <1>1, <1>2, <1>3, <1>4, <2>1
  <2> QED BY <1>2, <1>3, <1>4, <1>7, <2>1, <2>2, <2>3, <2>4 DEF WalkInv, Refusable
<1> QED BY <1>6, <1>7

\* A conversion without a buffer, or with one in another kernel, only makes the
\* walk longer.
LEMMA PlanExtendsGrowth ==
  ASSUME WalkInv, Plan, ~refused', NEW k, NEW q \in Growth(k, planned), NEW e \in 0..ScratchBudget,
         e = Grown(q[planned], k, planned + 1)
  PROVE  \E r \in Growth(k, planned)' : r[planned'] = e /\ Footprint(k)' = r[lowered']
<1> PICK r : r = [i \in 0..(planned + 1) |-> IF i <= planned THEN q[i] ELSE e]
  OBVIOUS
<1>1. planned \in Nat /\ planned' = planned + 1 /\ lowered' = 0 /\ lowered = 0
  BY PlanKeepsWalk, ProgramFacts DEF WalkInv
<1>2. program' = program /\ original' = original /\ storage' = storage
  BY PlanKeepsWalk
<1>3. /\ q \in [0..planned -> 0..ScratchBudget] /\ q[0] = FootprintOf(original[k])
      /\ \A i \in 1..planned : q[i] = Grown(q[i - 1], k, i)
  BY DEF Growth
<1>4. r \in [0..planned' -> 0..ScratchBudget] /\ r[0] = q[0] /\ r[planned'] = e
  BY <1>1, <1>3
<1>5. ASSUME NEW i \in 1..planned'
      PROVE  r[i] = Grown(r[i - 1], k, i)
  <2>1. CASE i <= planned
    <3>1. i \in 1..planned /\ i - 1 \in 0..planned /\ r[i] = q[i] /\ r[i - 1] = q[i - 1]
      BY <1>1, <2>1
    <3> QED BY <1>3, <3>1
  <2>2. CASE i = planned + 1
    <3>1. r[i] = e /\ i - 1 = planned /\ r[i - 1] = q[planned]
      BY <1>1, <2>2
    <3> QED BY <2>2, <3>1
  <2> QED BY <1>1, <2>1, <2>2
<1>6. r \in Growth(k, planned)'
  <2>0. ASSUME NEW x, NEW i PROVE Grown(x, k, i)' = Grown(x, k, i)
    BY <1>2 DEF Grown
  <2>1. \A i \in 1..planned' : r[i] = Grown(r[i - 1], k, i)'
    BY <1>5, <2>0
  <2> QED BY <1>2, <1>3, <1>4, <2>1 DEF Growth
<1>7. Footprint(k)' = r[lowered']
  <2>1. Footprint(k)' = FootprintOf(original[k])
    BY <1>2, PlanKeepsWalk DEF Footprint, FootprintOf
  <2> QED BY <1>1, <1>3, <1>4, <2>1
<1> QED
  <2> QED BY <1>4, <1>6, <1>7

\* A kernel whose own attributions were just counted has been without buffers.
LEMMA FirstGrowth ==
  ASSUME WalkInv, AccountInv, NEW k \in Kernels, k \notin DOMAIN used,
         FootprintOf(original[k]) \in 0..ScratchBudget
  PROVE  \E q \in Growth(k, planned) : q[planned] = FootprintOf(original[k])
<1> DEFINE q == [i \in 0..planned |-> FootprintOf(original[k])]
<1>1. planned \in Nat
  BY ProgramFacts DEF WalkInv
<1>2. q \in [0..planned -> 0..ScratchBudget]
  OBVIOUS
<1>3. ASSUME NEW i \in 1..planned
      PROVE  q[i] = Grown(q[i - 1], k, i)
  <2>1. i - 1 \in 0..planned /\ i \in 0..planned
    BY <1>1
  <2>2. ~(NeedsBuffer(program[i]) /\ program[i].kernel = k)
    BY DEF AccountInv
  <2> QED BY <2>1, <2>2 DEF Grown
<1>4. q[0] = FootprintOf(original[k]) /\ q[planned] = FootprintOf(original[k])
  BY <1>1
<1> QED
  <2> HIDE DEF q
  <2> QED BY <1>2, <1>3, <1>4 DEF Growth

LEMMA PlanKeepsAccount ==
  ASSUME LoweringInv, Plan
  PROVE  AccountInv'
<1> DEFINE op == program[planned + 1]
<1> USE DEF LoweringInv
<1>0. Len(program) \in Nat
  BY ProgramFacts DEF WalkInv
<1>1. /\ WalkInv' /\ lowered = 0 /\ storage = original /\ planned + 1 \in 1..Len(program)
      /\ lowered' = lowered /\ storage' = storage /\ original' = original /\ program' = program
  BY PlanKeepsWalk
<1>2. CASE refused'
  <2>1. planned' = planned /\ used' = used
    BY <1>2, PlanKeepsWalk
  <2>2. \A k \in DOMAIN used : Tracked(k)' <=> Tracked(k)
    BY <1>1, <2>1 DEF Tracked, Growth, Grown, Footprint
  <2> QED BY <1>1, <2>1, <2>2 DEF AccountInv
<1>3. CASE ~refused'
  <2>1. /\ planned' = planned + 1 /\ ~Refusable(op) /\ planned \in Nat
    BY <1>3, PlanKeepsWalk, ProgramFacts DEF WalkInv
  <2>2. /\ ~NeedsBuffer(op) => used' = used
        /\ NeedsBuffer(op) => /\ UseAfter(op) # Overrun
                              /\ used' = [k \in DOMAIN used \cup {op.kernel} |->
                                   IF k = op.kernel THEN UseAfter(op) ELSE used[k]]
    BY <1>3 DEF Plan
  <2>3. op.kernel \in Kernels /\ op.bytes \in Nat \ {0} /\ Accepted(op.plan)
    BY <1>1, <2>1, ProgramFacts DEF Refusable, WalkInv
  <2>4. ASSUME NEW k \in DOMAIN used, ~NeedsBuffer(op) \/ op.kernel # k
        PROVE  Tracked(k)'
    <3>1. PICK q \in Growth(k, planned) : used[k] = q[planned] /\ Footprint(k) = q[lowered]
      BY DEF AccountInv, Tracked
    <3>2. q[planned] \in 0..ScratchBudget
      BY <2>1, <3>1 DEF Growth
    <3>3. q[planned] = Grown(q[planned], k, planned + 1)
      BY <2>4 DEF Grown
    <3>4. \E r \in Growth(k, planned)' : r[planned'] = q[planned] /\ Footprint(k)' = r[lowered']
      BY <1>3, <3>1, <3>2, <3>3, PlanExtendsGrowth
    <3>5. used'[k] = used[k]
      BY <2>2, <2>4
    <3> QED BY <3>1, <3>4, <3>5 DEF Tracked
  <2>5. ASSUME NEW k \in Kernels, k = op.kernel, NeedsBuffer(op)
        PROVE  Tracked(k)' /\ storage[k] \in Seq(Sized)
    <3>1. UseAfter(op) = Reserve(UseBefore(op), Volume(op.plan) * op.bytes, op.bytes)
      BY DEF UseAfter
    <3>2. /\ Volume(op.plan) \in Nat /\ AlignmentOf(Buffer(op)) = op.bytes
          /\ FoldLeft(Times, Buffer(op).element, Buffer(op).shape) = op.bytes * Volume(op.plan)
      BY <2>3, BufferIsSized
    <3>3. UseBefore(op) # Overrun
      BY <2>2, <2>5, <3>1 DEF Reserve
    <3>4. /\ UseBefore(op) \in 0..ScratchBudget /\ storage[k] \in Seq(Sized)
          /\ \E q \in Growth(k, planned) : q[planned] = UseBefore(op)
      <4>1. CASE k \in DOMAIN used
        <5>1. PICK q \in Growth(k, planned) : used[k] = q[planned] /\ Footprint(k) = q[lowered]
          BY <4>1 DEF AccountInv, Tracked
        <5>2. q[planned] \in 0..ScratchBudget
          BY <2>1, <5>1 DEF Growth
        <5>3. UseBefore(op) = used[k]
          BY <2>5, <4>1 DEF UseBefore
        <5> QED BY <4>1, <5>1, <5>2, <5>3 DEF AccountInv
      <4>2. CASE k \notin DOMAIN used
        <5>1. UseBefore(op) = ExistingUse(k)
          BY <2>5, <4>2 DEF UseBefore
        <5>2. /\ \A i \in DOMAIN storage[k] : Countable(storage[k][i])
              /\ ExistingUse(k) = FoldLeft(Counted, 0, storage[k])
          BY <3>3, <5>1 DEF ExistingUse
        <5>3. storage[k] \in Seq(Attributions)
          BY DEF WalkInv
        <5>4. /\ FoldLeft(Counted, 0, storage[k]) = FootprintOf(storage[k])
              /\ FootprintOf(storage[k]) \in 0..ScratchBudget
          BY <3>3, <5>1, <5>2, <5>3, AccountOfAttributions
        <5>5. storage[k] \in Seq(Sized)
          BY <5>2, <5>3, SizedAttributions DEF Countable
        <5>6. \E q \in Growth(k, planned) : q[planned] = FootprintOf(original[k])
          BY <1>1, <4>2, <5>4, FirstGrowth
        <5> QED BY <1>1, <5>1, <5>2, <5>4, <5>5, <5>6
      <4> QED BY <4>1, <4>2
    <3>5. PICK q \in Growth(k, planned) : q[planned] = UseBefore(op)
      BY <3>4
    <3>6. Volume(op.plan) * op.bytes \in Nat /\ op.bytes * Volume(op.plan) = Volume(op.plan) * op.bytes
      BY <2>3, <3>2
    <3>7. /\ UseAfter(op) = AlignedTo(UseBefore(op), op.bytes) + Volume(op.plan) * op.bytes
          /\ UseAfter(op) <= ScratchBudget
      <4>1. UseBefore(op) \in Int /\ op.bytes \in Nat
        BY <2>3, <3>4
      <4> QED BY <2>2, <2>5, <3>1, <3>6, <4>1, Reservation
    <3>8. AlignedTo(UseBefore(op), op.bytes) \in Nat
      <4>1. UseBefore(op) \in Nat
        BY <3>4
      <4> QED BY <2>3, <4>1, RoundedIsNat
    <3>9. UseAfter(op) \in 0..ScratchBudget
      BY <3>6, <3>7, <3>8, LoweringAssumption
    <3>10. UseAfter(op) = Behind(UseBefore(op), Buffer(op))
      BY <3>2, <3>6, <3>7 DEF Behind
    <3>11. UseAfter(op) = Grown(q[planned], k, planned + 1)
      BY <2>5, <3>5, <3>10 DEF Grown
    <3>12. used'[k] = UseAfter(op)
      BY <2>2, <2>5
    <3>13. \E r \in Growth(k, planned)' : r[planned'] = UseAfter(op) /\ Footprint(k)' = r[lowered']
      <4> HIDE DEF op
      <4> QED BY <1>3, <3>5, <3>9, <3>11, PlanExtendsGrowth
    <3> QED
      BY <3>4, <3>12, <3>13 DEF Tracked
  <2>6. DOMAIN used' = IF NeedsBuffer(op) THEN DOMAIN used \cup {op.kernel} ELSE DOMAIN used
    BY <2>2
  <2>7. \A k \in DOMAIN used' : Tracked(k)' /\ storage'[k] \in Seq(Sized)
    <3> SUFFICES ASSUME NEW k \in DOMAIN used' PROVE Tracked(k)' /\ storage'[k] \in Seq(Sized)
      OBVIOUS
    <3>1. CASE NeedsBuffer(op) /\ k = op.kernel
      BY <1>1, <2>3, <2>5, <3>1
    <3>2. CASE ~(NeedsBuffer(op) /\ k = op.kernel)
      BY <1>1, <2>4, <2>6, <3>2 DEF AccountInv
    <3> QED BY <3>1, <3>2
  <2>8. \A i \in 1..planned' : NeedsBuffer(program'[i]) => program'[i].kernel \in DOMAIN used'
    <3>1. \A i \in 1..planned' : i \in 1..planned \/ i = planned + 1
      BY <2>1
    <3> QED BY <1>1, <2>6, <3>1 DEF AccountInv
  <2> QED BY <2>7, <2>8 DEF AccountInv
<1> QED BY <1>2, <1>3

LEMMA EmitKeeps ==
  ASSUME LoweringInv, Emit
  PROVE  LoweringInv'
<1> DEFINE op == program[lowered + 1]
<1> USE DEF LoweringInv
<1>1. /\ Len(program) \in Nat /\ planned = Len(program) /\ lowered \in Nat
      /\ lowered < planned /\ lowered' = lowered + 1 /\ ~refused
      /\ program' = program /\ original' = original /\ planned' = planned
      /\ used' = used /\ refused' = refused
      /\ storage' = IF NeedsBuffer(op)
                      THEN [storage EXCEPT ![op.kernel] = Append(@, Buffer(op))] ELSE storage
  BY ProgramFacts DEF Emit, Emittable, WalkInv
<1>2. lowered + 1 \in 1..planned /\ lowered + 1 \in 1..Len(program)
  BY <1>1
<1>3. Accepted(op.plan) /\ op.kernel \in Kernels /\ op.bytes \in Nat \ {0}
  BY <1>2, ProgramFacts DEF WalkInv, Refusable
<1>4. Buffer(op) \in Sized /\ Buffer(op) \in Attributions
  BY <1>3, BufferIsSized DEF Sized
<1>5. storage' \in [Kernels -> Seq(Attributions)]
  <2>1. storage \in [Kernels -> Seq(Attributions)]
    BY DEF WalkInv
  <2>2. Append(storage[op.kernel], Buffer(op)) \in Seq(Attributions)
    BY <1>3, <1>4, <2>1
  <2> HIDE DEF op
  <2> QED BY <1>1, <1>3, <2>1, <2>2
<1>6. WalkInv'
  <2>1. /\ planned' \in 0..Len(program') /\ lowered' \in 0..planned' /\ lowered' > 0
        /\ planned' = Len(program') /\ ~refused'
    BY <1>1
  <2>2. \A i \in 1..planned' : ~Refusable(program'[i])
    BY <1>1 DEF WalkInv
  <2> QED BY <1>1, <1>5, <2>1, <2>2 DEF WalkInv, Refusable
<1>7. ASSUME NEW k \in DOMAIN used
      PROVE  Tracked(k)' /\ storage'[k] \in Seq(Sized)
  <2>1. PICK q \in Growth(k, planned) : used[k] = q[planned] /\ Footprint(k) = q[lowered]
    BY <1>7 DEF AccountInv, Tracked
  <2>2. k \in Kernels /\ storage[k] \in Seq(Sized)
    BY <1>7 DEF AccountInv, WalkInv
  <2>3. q[lowered + 1] = Grown(q[lowered], k, lowered + 1)
    <3>1. (lowered + 1) - 1 = lowered
      BY <1>1
    <3> QED BY <1>2, <2>1, <3>1 DEF Growth
  <2>4. storage'[k] \in Seq(Sized) /\ Footprint(k)' = Grown(q[lowered], k, lowered + 1)
    <3>1. Footprint(k) = FootprintOf(storage[k]) /\ Footprint(k)' = FootprintOf(storage'[k])
      BY DEF Footprint, FootprintOf
    <3>2. CASE NeedsBuffer(op) /\ op.kernel = k
      <4>1. storage'[k] = Append(storage[k], Buffer(op))
        BY <1>1, <2>2, <3>2 DEF WalkInv
      <4>2. FootprintOf(storage'[k]) = Behind(FootprintOf(storage[k]), Buffer(op))
        BY <1>4, <2>2, <4>1, FootprintOfAppend
      <4>3. storage'[k] \in Seq(Sized)
        BY <1>4, <2>2, <4>1
      <4> QED BY <2>1, <3>1, <3>2, <4>2, <4>3 DEF Grown
    <3>3. CASE ~(NeedsBuffer(op) /\ op.kernel = k)
      <4>1. storage'[k] = storage[k]
        BY <1>1, <2>2, <3>3 DEF WalkInv
      <4> QED BY <2>1, <2>2, <3>1, <3>3, <4>1 DEF Grown
    <3> QED BY <3>2, <3>3
  <2>5. q \in Growth(k, planned)'
    <3>1. ASSUME NEW x, NEW i PROVE Grown(x, k, i)' = Grown(x, k, i)
      BY <1>1 DEF Grown
    <3> QED BY <1>1, <2>1, <3>1 DEF Growth
  <2> QED BY <1>1, <2>1, <2>3, <2>4, <2>5 DEF Tracked
<1>8. AccountInv'
  BY <1>1, <1>7 DEF AccountInv
<1> QED BY <1>6, <1>8

LEMMA InitialLowering ==
  ASSUME LoweringInit
  PROVE  LoweringInv
<1>1. Len(program) \in Nat
  BY ProgramFacts DEF LoweringInit
<1>2. original \in [Kernels -> Seq(Attributions)]
  BY LoweringAssumption DEF LoweringInit
<1>3. DOMAIN used = {}
  BY DEF LoweringInit
<1> QED
  <2>1. planned = 0 /\ lowered = 0 /\ ~refused /\ storage = original
    BY DEF LoweringInit
  <2>2. program \in Programs /\ original \in Storages
    BY DEF LoweringInit
  <2>3. 0 \in 0..Len(program) /\ 0 \in 0..0 /\ 1..0 = {}
    BY <1>1
  <2>4. refused = FALSE
    BY DEF LoweringInit
  <2>5. WalkInv
    <3>1. planned \in 0..Len(program) /\ lowered \in 0..planned /\ 1..planned = {}
      BY <2>1, <2>3
    <3>2. storage \in [Kernels -> Seq(Attributions)]
      BY <1>2, <2>1
    <3>3. ~(lowered > 0)
      BY <2>1
    <3> QED BY <1>3, <2>1, <2>2, <2>4, <3>1, <3>2, <3>3 DEF WalkInv
  <2>6. AccountInv
    BY <1>3, <2>1, <2>3 DEF AccountInv
  <2> QED BY <2>5, <2>6 DEF LoweringInv

\* The inductive invariant of the lowering: the walk comes before the emission,
\* and what it has accounted is what the emission will have placed.
THEOREM LoweringInductive == LoweringSpec => []LoweringInv
<1>1. LoweringInit => LoweringInv
  BY InitialLowering
<1>2. LoweringInv /\ [LoweringNext]_loweringVars => LoweringInv'
  <2> SUFFICES ASSUME LoweringInv, [LoweringNext]_loweringVars PROVE LoweringInv'
    OBVIOUS
  <2>1. CASE Plan
    BY <2>1, PlanKeepsWalk, PlanKeepsAccount DEF LoweringInv
  <2>2. CASE Emit
    BY <2>2, EmitKeeps
  <2>3. CASE UNCHANGED loweringVars
    BY <2>3 DEF loweringVars, LoweringInv, WalkInv, AccountInv, Tracked, Growth, Grown,
                Footprint
  <2> QED BY <2>1, <2>2, <2>3 DEF LoweringNext
<1> QED BY <1>1, <1>2, PTL DEF LoweringSpec

\* A refused module has no conversion emitted and the attributions it came
\* with (TestLayoutConversionLowering.cpp: no mutation until everything passes).
THEOREM RefusedIsUntouched == LoweringSpec => []NothingOnRefusal
<1>1. LoweringInv => NothingOnRefusal
  <2> SUFFICES ASSUME LoweringInv, refused PROVE lowered = 0 /\ storage = original
    BY DEF NothingOnRefusal
  <2>1. Len(program) \in Nat /\ planned < Len(program) /\ lowered \in 0..planned
    BY ProgramFacts DEF LoweringInv, WalkInv
  <2> QED BY <2>1 DEF LoweringInv, WalkInv
<1> QED BY <1>1, LoweringInductive, PTL

\* The account kept before any buffer exists is the footprint the kernel ends
\* with, and no kernel with an exchange leaves the budget, whatever the sizes,
\* alignments and order of its conversions (reserveScratch).
THEOREM ScratchIsAccounted == LoweringSpec => []AccountIsExact
<1>1. LoweringInv => AccountIsExact
  <2> SUFFICES ASSUME LoweringInv PROVE AccountIsExact
    OBVIOUS
  <2>1. Len(program) \in Nat /\ planned \in 0..Len(program) /\ lowered \in 0..planned
    BY ProgramFacts DEF LoweringInv, WalkInv
  <2>2. ASSUME NEW k \in DOMAIN used
        PROVE  /\ Footprint(k) \in 0..ScratchBudget
               /\ lowered = Len(program) => used[k] = Footprint(k)
    <3>1. PICK q \in Growth(k, planned) : used[k] = q[planned] /\ Footprint(k) = q[lowered]
      BY <2>2 DEF LoweringInv, AccountInv, Tracked
    <3>2. q \in [0..planned -> 0..ScratchBudget]
      BY <3>1 DEF Growth
    <3> QED BY <2>1, <3>1, <3>2
  <2>3. Exchanging \subseteq DOMAIN used
    <3>1. \A i \in 1..lowered : i \in 1..planned
      BY <2>1
    <3> QED BY <3>1 DEF Exchanging, LoweringInv, AccountInv
  <2> QED BY <2>1, <2>2, <2>3, LoweringAssumption DEF AccountIsExact
<1> QED BY <1>1, LoweringInductive, PTL
===============================================================================
