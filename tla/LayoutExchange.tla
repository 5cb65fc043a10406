---------------------------- MODULE LayoutExchange ----------------------------
(***************************************************************************)
(* The code emitPlan puts in a kernel for a sequence of conversions        *)
(* (lib/Conversion/FriskLayoutToGPU/TestLayoutConversionLowering.cpp), run *)
(* by the threads of a CTA.  Each thread runs the conversions in order; a  *)
(* conversion is a local move, a sequence of warp shuffles, or an exchange *)
(* through a workgroup buffer of its own around one barrier.  The barrier  *)
(* and the shuffle are the hardware's: a barrier releases when all threads *)
(* have arrived, a shuffle when all lanes of the warp execute it.          *)
(*                                                                         *)
(* The logical tensor of conversion c holds the value <<c, s>> in slot s,  *)
(* so that data of another conversion cannot pass for it.  The words a     *)
(* wide element is shuffled in travel together.                            *)
(***************************************************************************)
EXTENDS LayoutRedistribution, Sequences

CONSTANTS Conversions      \* the plans of the kernel, in program order

ASSUME ConversionsAssumption ==
  /\ Len(Conversions) \in Nat /\ DOMAIN Conversions = 1..Len(Conversions)
  /\ \A c \in DOMAIN Conversions : Accepted(Conversions[c])

Ids == DOMAIN Conversions
K(c) == Conversions[c]
ModeOf == [c \in Ids |-> Mode(K(c))]
SourceOf == [c \in Ids |-> [o \in DOMAIN K(c).dest |-> Source(K(c), o[1], o[2])]]


LastSource(c) == K(c).sourceRegisters - 1
LastDest(c) == K(c).destinationRegisters - 1

\* The values the source registers hold, and those the result must hold.
Held(c, o) == <<c, K(c).source[o]>>
Wanted(c, o) == <<c, K(c).dest[o]>>

\* Every conversion adds a workgroup attribution of its own; the faulty form
\* hands the first buffer to all of them.
OneBuffer(c) == 1

BufferOf(c) == c

\* A register not yet written, and what workgroup memory holds at the start.
Unset == <<>>
Junk == <<"junk">>

VARIABLES
  at,        \* the conversion a thread executes, Len(Conversions) + 1 at the end
  stage,     \* "store", "barrier", "read", or "shuffle" within it
  register,  \* the source or destination register in hand
  scratch,   \* the workgroup buffers
  chosen,    \* the value selected so far for the register in hand
  tried,     \* the source registers shuffled so far for it
  result     \* the destination registers of every conversion

vars == <<at, stage, register, scratch, chosen, tried, result>>

Running(t, s) == at[t] \in Ids /\ stage[t] = s

FirstStage(c) ==
  IF c \notin Ids THEN "read"
  ELSE CASE ModeOf[c] = "Shared" -> "store"
         [] ModeOf[c] = "Shuffle" -> "shuffle"
         [] ModeOf[c] = "Register" -> "read"

Init ==
  /\ at = [t \in Threads |-> 1]
  /\ stage = [t \in Threads |-> FirstStage(1)]
  /\ register = [t \in Threads |-> 0]
  /\ scratch = [c \in Ids |-> [s \in Slots(K(c)) |-> Junk]]
  /\ chosen = [t \in Threads |-> Unset]
  /\ tried = [t \in Threads |-> {}]
  /\ result = [c \in Ids |-> [o \in DOMAIN K(c).dest |-> Unset]]

\* One source register: only the elected owner of its slot stores it.
Elected(c, o) == o = K(c).inverse[K(c).source[o]]

\* The barrier is emitted after the predicated stores, for every thread; the
\* faulty form puts it under their predicate.
AfterStoresOfWriters(c, t) ==
  IF \E o \in DOMAIN K(c).source : o[1] = t /\ Elected(c, o) THEN "barrier" ELSE "read"

AfterStores(c, t) == "barrier"

Store(t) ==
  /\ Running(t, "store")
  /\ LET c == at[t]
         o == <<t, register[t]>>
     IN  /\ scratch' = IF Elected(c, o)
                         THEN [scratch EXCEPT ![BufferOf(c)][K(c).source[o]] = Held(c, o)]
                         ELSE scratch
         /\ IF register[t] = LastSource(c)
              THEN /\ stage' = [stage EXCEPT ![t] = AfterStores(c, t)]
                   /\ register' = [register EXCEPT ![t] = 0]
              ELSE /\ register' = [register EXCEPT ![t] = @ + 1]
                   /\ UNCHANGED stage
  /\ UNCHANGED <<at, chosen, tried, result>>

\* gpu.barrier: all threads of the CTA wait for each other, not those of a warp.
AllWait == \A t \in Threads : Running(t, "barrier")

Barrier ==
  /\ AllWait
  /\ stage' = [t \in Threads |-> IF Running(t, "barrier") THEN "read" ELSE stage[t]]
  /\ UNCHANGED <<at, register, scratch, chosen, tried, result>>

\* Where thread t goes once its destination register holds its value.
Advance(t) ==
  IF register[t] = LastDest(at[t])
    THEN /\ at' = [at EXCEPT ![t] = @ + 1]
         /\ stage' = [stage EXCEPT ![t] = FirstStage(at[t] + 1)]
         /\ register' = [register EXCEPT ![t] = 0]
    ELSE /\ register' = [register EXCEPT ![t] = @ + 1]
         /\ UNCHANGED <<at, stage>>

\* A destination register loaded from the buffer, or moved within the thread.
Read(t) ==
  /\ Running(t, "read")
  /\ LET c == at[t]
         o == <<t, register[t]>>
     IN  result' = [result EXCEPT ![c][o] =
           IF ModeOf[c] = "Shared" THEN scratch[BufferOf(c)][K(c).dest[o]]
           ELSE Held(c, <<t, SourceOf[c][o][2]>>)]
  /\ Advance(t)
  /\ UNCHANGED <<scratch, chosen, tried>>

Lanes(w) == {t \in Threads : Warp(t) = w}

\* The thread of t's warp in the lane that holds what register o wants.
Peer(t, c, o) == (Warp(t) * LaneExtent) + (SourceOf[c][o][1] % LaneExtent)

\* What a lane keeps of one shuffle: the first is kept whatever it brought.
KeptAlways(t, c, o, k) == TRUE

KeptFirst(t, c, o, k) == tried[t] = {} \/ SourceOf[c][o][2] = k

\* All lanes of warp w shuffle source register k towards destination register
\* r; the candidates come in any order, the same for all lanes.
Shuffle(w) ==
  /\ \A t \in Lanes(w) : Running(t, "shuffle")
  /\ \E c \in Ids : \E r \in 0..LastDest(c) : \E k \in PossibleRegisters(K(c), r) :
       /\ \A t \in Lanes(w) : at[t] = c /\ register[t] = r /\ k \notin tried[t]
       /\ chosen' = [t \in Threads |->
            IF t \in Lanes(w) /\ KeptFirst(t, c, <<t, r>>, k)
              THEN Held(c, <<Peer(t, c, <<t, r>>), k>>) ELSE chosen[t]]
       /\ tried' = [t \in Threads |->
            IF t \in Lanes(w) THEN tried[t] \cup {k} ELSE tried[t]]
  /\ UNCHANGED <<at, stage, register, scratch, result>>

\* After the last candidate register the selected value is the result's.
Insert(t) ==
  /\ Running(t, "shuffle")
  /\ tried[t] = PossibleRegisters(K(at[t]), register[t])
  /\ result' = [result EXCEPT ![at[t]][<<t, register[t]>>] = chosen[t]]
  /\ tried' = [tried EXCEPT ![t] = {}]
  /\ chosen' = [chosen EXCEPT ![t] = Unset]
  /\ Advance(t)
  /\ UNCHANGED scratch

Next ==
  \/ \E t \in Threads : Store(t) \/ Read(t) \/ Insert(t)
  \/ Barrier
  \/ \E w \in {Warp(t) : t \in Threads} : Shuffle(w)

Spec == Init /\ [][Next]_vars

-----------------------------------------------------------------------------
\* Threads, registers and buffers stay in the ranges the plans give them.
TypeOK ==
  /\ at \in [Threads -> 1..(Len(Conversions) + 1)]
  /\ stage \in [Threads -> {"store", "barrier", "read", "shuffle"}]
  /\ register \in [Threads -> Nat]
  /\ \A t \in Threads : at[t] \in Ids =>
       <<t, register[t]>> \in IF stage[t] \in {"store", "barrier"} THEN DOMAIN K(at[t]).source
                              ELSE DOMAIN K(at[t]).dest
  /\ tried \in [Threads -> SUBSET Nat] /\ DOMAIN chosen = Threads
  /\ \A t \in Threads : tried[t] # {} =>
       Running(t, "shuffle") /\ tried[t] \subseteq PossibleRegisters(K(at[t]), register[t])
  /\ DOMAIN scratch = Ids /\ \A c \in Ids : DOMAIN scratch[c] = Slots(K(c))
  /\ DOMAIN result = Ids /\ \A c \in Ids : DOMAIN result[c] = DOMAIN K(c).dest

\* A register of a result is only ever written with the element the layout of
\* the result assigns to it, whichever path brought it there and however far
\* the other threads are.
RightValues ==
  \A c \in Ids : \A o \in DOMAIN K(c).dest : result[c][o] \in {Unset, Wanted(c, o)}

\* The buffer location thread t is about to touch.
Touches(t) ==
  LET c == at[t]
      o == <<t, register[t]>>
  IN  IF Running(t, "store") /\ Elected(c, o) THEN {<<BufferOf(c), K(c).source[o]>>}
      ELSE IF Running(t, "read") /\ ModeOf[c] = "Shared" THEN {<<BufferOf(c), K(c).dest[o]>>}
      ELSE {}

\* No store is ever concurrent with another access to its location: replicated
\* owners are reduced to one writer, and a thread that is already in a later
\* conversion cannot overwrite what a slower one has yet to load, although only
\* one barrier is emitted per conversion and none after its loads.
RaceFree ==
  \A t, u \in Threads :
    t # u /\ Running(t, "store") => Touches(t) \cap Touches(u) = {}

\* Threads that wait at a barrier wait for the same one, however far ahead the
\* shuffles and loads between two barriers let some of them run.
BarrierAligned ==
  \A t, u \in Threads : Running(t, "barrier") /\ Running(u, "barrier") => at[t] = at[u]

\* All threads are done and hold all of their results.
Delivered ==
  /\ \A t \in Threads : at[t] \notin Ids
  /\ \A c \in Ids : \A o \in DOMAIN K(c).dest : result[c][o] = Wanted(c, o)
=============================================================================
