------------------------ MODULE LayoutPipelineProofs ------------------------
(***************************************************************************)
(* Types, atomicity, tiles, the finished module and silence of a second    *)
(* run, for every program and every choice of the stages.                  *)
(*                                                                         *)
(* First what one insertion and one rewriting do to a module: it stays one *)
(* (IsModule, Closed), its tiles and its verification are kept.  That      *)
(* conversions form no cycle is part of Closed and is needed: a conversion *)
(* that reads itself could not be replaced by what it reads.  Tiles are    *)
(* kept because a labelling of the new module extends to one of the old.   *)
(* Then the invariant of the passes, one step per action.                  *)
(*                                                                         *)
(* Last the stage that rebuilds a module (LayoutMaterialization): whatever *)
(* the order its worklists find, every operation is copied once and ends   *)
(* where it was, with the selected conversions before it; and a worklist   *)
(* that is stuck has met dead code.                                        *)
(***************************************************************************)
EXTENDS LayoutPipeline, LayoutMaterialization, FiniteInduction, TLAPS

Good(m) == IsModule(m) /\ Closed(m)
SameCode(m, n) == n.conversions = m.conversions /\ n.reads = m.reads
KeepsTiles(p, m, n) == Serves(p, m) => Serves(p, n)

\* Tiles depend on the code only.
LEMMA SameCodeKeeps ==
  ASSUME NEW p, NEW m, NEW n, Good(m), IsModule(n), SameCode(m, n)
  PROVE  Good(n) /\ KeepsTiles(p, m, n)
BY DEF Good, SameCode, KeepsTiles, Closed, Serves, Labellings, Source

\* Normalization leaves a module without legacy operations as it is.
LEMMA Normalized ==
  ASSUME NEW m, IsModule(m), NEW n, n = [m EXCEPT !.legacy = FALSE]
  PROVE  /\ IsModule(n) /\ SameCode(m, n)
         /\ ~m.legacy => n = m
BY DEF IsModule, SameCode

\* So does preserveStorageContracts a module whose bindings are declared.
LEMMA Declared ==
  ASSUME NEW m, IsModule(m)
  PROVE  /\ IsModule(Preserved(m)) /\ SameCode(m, Preserved(m))
         /\ Preserved(m).legacy = m.legacy /\ Preserved(m).bound = m.bound
         /\ Preserved(m).types = m.types
         /\ m.bound => Preserved(m).declared
         /\ m.declared => Preserved(m) = m
BY DEF IsModule, SameCode, Preserved

\* A solution keeps the encodings there are.
LEMMA TypedModule ==
  ASSUME NEW m, IsModule(m), NEW types \in Solutions(m)
  PROVE  /\ IsModule(Typed(m, types)) /\ SameCode(m, Typed(m, types))
         /\ Typed(m, types).types = types
         /\ m.bound /\ m.types \in [Roots -> Encodings] => Typed(m, types) = m
<1> DEFINE n == Typed(m, types)
<1>1. n = [legacy |-> m.legacy, bound |-> TRUE, declared |-> m.declared,
           types |-> types, conversions |-> m.conversions, reads |-> m.reads]
  <2> DEFINE k == [m EXCEPT !.types = types]
  <2>1. k = [legacy |-> m.legacy, bound |-> m.bound, declared |-> m.declared,
             types |-> types, conversions |-> m.conversions, reads |-> m.reads]
    BY DEF IsModule
  <2>2. n = [k EXCEPT !.bound = TRUE]
    BY DEF Typed
  <2> HIDE DEF k
  <2> QED BY <2>1, <2>2
<1>2. types \in [Roots -> Encodings \cup {Unset}]
  BY DEF Solutions
<1>3. IsModule(n) /\ SameCode(m, n) /\ n.types = types
  BY <1>1, <1>2 DEF IsModule, SameCode
<1>4. ASSUME m.bound, m.types \in [Roots -> Encodings] PROVE n = m
  <2>1. types = m.types
    BY <1>4, ProblemsAssumption DEF Solutions, ProblemsAssumption
  <2>2. m.bound = TRUE
    BY <1>4 DEF IsModule
  <2> QED BY <1>1, <2>1, <2>2 DEF IsModule
<1> QED BY <1>3, <1>4

-----------------------------------------------------------------------------
(* Insertion of conversions *)

\* The fields of a module with inserted conversions.
LEMMA InsertedParts ==
  ASSUME NEW p, NEW m, Good(m), NEW fresh \in Fresh(p, m)
  PROVE  LET n == Inserted(p, m, fresh)
             new == {fresh[c] : c \in Converting(p, m)}
         IN /\ n = [legacy |-> m.legacy, bound |-> m.bound, declared |-> m.declared,
                    types |-> m.types, conversions |-> n.conversions, reads |-> n.reads]
            /\ new \subseteq ConversionIds \ DOMAIN m.conversions
            /\ DOMAIN n.conversions = DOMAIN m.conversions \cup new
            /\ \A d \in DOMAIN m.conversions : n.conversions[d] = m.conversions[d]
            /\ \A c \in Converting(p, m) :
                 n.conversions[fresh[c]] = [source |-> m.reads[c], type |-> Wanted(p, m, c)]
            /\ n.reads = [c \in Consumers |->
                            IF c \in Converting(p, m) THEN fresh[c] ELSE m.reads[c]]
            /\ Converting(p, m) = {} => n = m
<1> DEFINE new == {fresh[c] : c \in Converting(p, m)}
           user(x) == CHOOSE c \in Converting(p, m) : fresh[c] = x
           conversions == [v \in DOMAIN m.conversions \cup new |->
                             IF v \in new
                             THEN [source |-> m.reads[user(v)],
                                   type |-> Wanted(p, m, user(v))]
                             ELSE m.conversions[v]]
           reads == [c \in Consumers |->
                       IF c \in Converting(p, m) THEN fresh[c] ELSE m.reads[c]]
           n == Inserted(p, m, fresh)
<1>1. n = [[m EXCEPT !.conversions = conversions] EXCEPT !.reads = reads]
  BY DEF Inserted
<1>2. \A c \in Converting(p, m) : user(fresh[c]) = c
  BY DEF Fresh, Injection
<1>3. new \subseteq ConversionIds \ DOMAIN m.conversions
  BY DEF Fresh, Injection
<1>4. /\ DOMAIN conversions = DOMAIN m.conversions \cup new
      /\ \A d \in DOMAIN m.conversions : conversions[d] = m.conversions[d]
  BY <1>3
<1>5. \A c \in Converting(p, m) :
        conversions[fresh[c]] = [source |-> m.reads[c], type |-> Wanted(p, m, c)]
  BY <1>2
<1>6. ASSUME Converting(p, m) = {}
      PROVE  conversions = m.conversions /\ reads = m.reads
  <2>1. new = {}
    BY <1>6
  <2>2. conversions = [v \in DOMAIN m.conversions |-> m.conversions[v]]
    BY <2>1
  <2>3. reads = [c \in Consumers |-> m.reads[c]]
    BY <1>6
  <2>4. /\ m.conversions = [v \in DOMAIN m.conversions |-> m.conversions[v]]
        /\ m.reads = [c \in Consumers |-> m.reads[c]]
    BY DEF Good, IsModule
  <2> HIDE DEF conversions, reads
  <2> QED BY <2>2, <2>3, <2>4
<1>7. reads = [c \in Consumers |-> IF c \in Converting(p, m) THEN fresh[c] ELSE m.reads[c]]
  OBVIOUS
<1> HIDE DEF conversions, reads, new
<1>8. n = [legacy |-> m.legacy, bound |-> m.bound, declared |-> m.declared,
           types |-> m.types, conversions |-> conversions, reads |-> reads]
  <2> DEFINE k == [m EXCEPT !.conversions = conversions]
  <2>1. k = [legacy |-> m.legacy, bound |-> m.bound, declared |-> m.declared,
             types |-> m.types, conversions |-> conversions, reads |-> m.reads]
    BY DEF Good, IsModule
  <2>2. n = [k EXCEPT !.reads = reads]
    BY <1>1
  <2> HIDE DEF k, n
  <2> QED BY <2>1, <2>2
<1> HIDE DEF n
<1>9. n.conversions = conversions /\ n.reads = reads
  BY <1>8
<1>10. Converting(p, m) = {} => n = m
  BY <1>6, <1>8 DEF Good, IsModule
<1> QED BY <1>3, <1>4, <1>5, <1>7, <1>8, <1>9, <1>10 DEF n, new

\* After insertion every consumer reads its tile in the encoding it wants.
LEMMA InsertedModule ==
  ASSUME NEW p, IsProblem(p), NEW m, Good(m), m.types \in [Roots -> Encodings],
         NEW fresh \in Fresh(p, m)
  PROVE  LET n == Inserted(p, m, fresh)
         IN /\ Good(n) /\ KeepsTiles(p, m, n)
            /\ n.legacy = m.legacy /\ n.bound = m.bound /\ n.types = m.types
            /\ \A c \in Consumers : TypeOf(n, n.reads[c]) = Wanted(p, n, c)
            /\ Converting(p, m) = {} => n = m
<1> DEFINE n == Inserted(p, m, fresh)
           new == {fresh[c] : c \in Converting(p, m)}
<1>1. /\ n = [legacy |-> m.legacy, bound |-> m.bound, declared |-> m.declared,
              types |-> m.types, conversions |-> n.conversions, reads |-> n.reads]
      /\ new \subseteq ConversionIds \ DOMAIN m.conversions
      /\ DOMAIN n.conversions = DOMAIN m.conversions \cup new
      /\ \A d \in DOMAIN m.conversions : n.conversions[d] = m.conversions[d]
      /\ \A c \in Converting(p, m) :
           n.conversions[fresh[c]] = [source |-> m.reads[c], type |-> Wanted(p, m, c)]
      /\ n.reads = [c \in Consumers |->
                      IF c \in Converting(p, m) THEN fresh[c] ELSE m.reads[c]]
      /\ Converting(p, m) = {} => n = m
  BY InsertedParts
<1> HIDE DEF n
<1>2. /\ n.legacy = m.legacy /\ n.bound = m.bound /\ n.declared = m.declared
      /\ n.types = m.types
  BY <1>1
<1>3. \A c \in Converting(p, m) : c \in Consumers /\ fresh[c] \in new
  BY DEF Converting
<1>4. \A x \in new : \E c \in Converting(p, m) : x = fresh[c]
  OBVIOUS
<1> HIDE DEF new
<1>5. \A c \in Consumers : Wanted(p, m, c) \in Encodings
  BY DEF IsProblem, Wanted
<1>6. \A c \in Consumers : m.reads[c] \in Roots \cup DOMAIN m.conversions
  BY DEF Good, Closed
<1>7. DOMAIN m.conversions \subseteq ConversionIds
  BY DEF Good, IsModule
<1>8. \A d \in DOMAIN n.conversions : n.conversions[d] \in Conversion
  <2> SUFFICES ASSUME NEW d \in DOMAIN n.conversions
               PROVE  n.conversions[d] \in Conversion
    OBVIOUS
  <2>1. CASE d \in DOMAIN m.conversions
    BY <1>1, <2>1 DEF Good, IsModule
  <2>2. CASE d \in new
    <3>1. PICK c \in Converting(p, m) : d = fresh[c]
      BY <1>4, <2>2
    <3>2. m.reads[c] \in Values /\ Wanted(p, m, c) \in Encodings
      BY <1>3, <1>5, <1>6, <1>7 DEF Values
    <3>3. n.conversions[d] = [source |-> m.reads[c], type |-> Wanted(p, m, c)]
      BY <1>1, <3>1
    <3> QED BY <3>2, <3>3 DEF Conversion
  <2> QED BY <1>1, <2>1, <2>2
<1>9. IsModule(n)
  <2>1. n.reads \in [Consumers -> Values]
    BY <1>1, <1>3, <1>6, <1>7 DEF Values
  <2>2. DOMAIN n.conversions \subseteq ConversionIds
    BY <1>1, <1>7
  <2>3. n.conversions = [d \in DOMAIN n.conversions |-> n.conversions[d]]
    BY DEF n, Inserted
  <2>4. n.conversions \in [DOMAIN n.conversions -> Conversion]
    BY <1>8, <2>3
  <2>5. /\ m.legacy \in BOOLEAN /\ m.bound \in BOOLEAN /\ m.declared \in BOOLEAN
        /\ m.types \in [Roots -> Encodings \cup {Unset}]
    BY DEF Good, IsModule
  <2> QED BY <1>1, <1>2, <2>1, <2>2, <2>4, <2>5 DEF IsModule
<1>10. \A c \in Converting(p, m) : /\ Source(n, fresh[c]) = m.reads[c]
                                   /\ n.conversions[fresh[c]].type = Wanted(p, m, c)
  <2> SUFFICES ASSUME NEW c \in Converting(p, m)
               PROVE  /\ Source(n, fresh[c]) = m.reads[c]
                      /\ n.conversions[fresh[c]].type = Wanted(p, m, c)
    OBVIOUS
  <2> DEFINE k == n.conversions[fresh[c]]
  <2>1. k = [source |-> m.reads[c], type |-> Wanted(p, m, c)]
    BY <1>1
  <2> HIDE DEF k
  <2>2. k.source = m.reads[c] /\ k.type = Wanted(p, m, c)
    BY <2>1
  <2> QED BY <2>2 DEF k, Source
<1>11. \A d \in DOMAIN m.conversions : Source(n, d) = Source(m, d)
  BY <1>1 DEF Source
<1>12. \A d \in DOMAIN n.conversions : Source(n, d) \in Roots \cup DOMAIN m.conversions
  <2>1. \A d \in DOMAIN m.conversions : Source(m, d) \in Roots \cup DOMAIN m.conversions
    BY DEF Good, Closed
  <2> QED BY <1>1, <1>3, <1>4, <1>6, <1>10, <1>11, <2>1
<1>13. Closed(n)
  <2>1. \A c \in Consumers : n.reads[c] \in Roots \cup DOMAIN n.conversions
    BY <1>1, <1>3, <1>6
  <2>2. \A d \in DOMAIN n.conversions : Source(n, d) \in Roots \cup DOMAIN n.conversions
    BY <1>1, <1>12
  <2>3. ASSUME NEW S \in SUBSET DOMAIN n.conversions, S # {}
        PROVE  \E d \in S : Source(n, d) \notin S
    <3> DEFINE T == S \cap DOMAIN m.conversions
    <3>1. CASE T # {}
      <4>1. PICK d \in T : Source(m, d) \notin T
        BY <3>1 DEF Good, Closed
      <4>2. Source(n, d) \in Roots \cup DOMAIN m.conversions /\ Source(n, d) \notin T
        BY <1>1, <1>11, <1>12, <4>1
      <4>3. Roots \cap S = {}
        BY <1>1, <1>7, ProblemsAssumption DEF ProblemsAssumption
      <4> QED BY <4>1, <4>2, <4>3
    <3>2. CASE T = {}
      <4>1. PICK d \in S : TRUE
        BY <2>3
      <4>2. Source(n, d) \in Roots \cup DOMAIN m.conversions
        BY <1>12
      <4>3. Roots \cap S = {}
        BY <1>1, <1>7, ProblemsAssumption DEF ProblemsAssumption
      <4> QED BY <3>2, <4>1, <4>2, <4>3
    <3> QED BY <3>1, <3>2
  <2> QED BY <2>1, <2>2, <2>3 DEF Closed
<1>14. KeepsTiles(p, m, n)
  <2> SUFFICES ASSUME Serves(p, m), NEW label \in Labellings(n), NEW c \in Consumers
               PROVE  Held(label, n.reads[c]) = p.tile[c]
    BY DEF KeepsTiles, Serves
  <2> DEFINE old == [d \in DOMAIN m.conversions |-> label[d]]
  <2>1. \A v \in Roots \cup DOMAIN m.conversions : Held(old, v) = Held(label, v)
    BY DEF Held
  <2>2. old \in Labellings(m)
    <3>1. old \in [DOMAIN m.conversions -> Roots]
      BY <1>1 DEF Labellings
    <3>2. ASSUME NEW d \in DOMAIN m.conversions
          PROVE  old[d] = Held(old, Source(m, d))
      <4>1. label[d] = Held(label, Source(n, d))
        BY <1>1, <3>2 DEF Labellings
      <4>2. Source(n, d) = Source(m, d) /\ Source(n, d) \in Roots \cup DOMAIN m.conversions
        BY <1>1, <1>11, <1>12
      <4> HIDE DEF old
      <4>3. Held(old, Source(m, d)) = Held(label, Source(m, d))
        BY <2>1, <4>2
      <4> QED BY <4>1, <4>2, <4>3 DEF old
    <3> QED BY <3>1, <3>2 DEF Labellings
  <2> HIDE DEF old
  <2>3. Held(old, m.reads[c]) = p.tile[c]
    BY <2>2 DEF Serves
  <2>4. Held(label, m.reads[c]) = p.tile[c]
    BY <1>6, <2>1, <2>3
  <2>5. CASE c \in Converting(p, m)
    <3>1. n.reads[c] = fresh[c] /\ fresh[c] \in DOMAIN n.conversions
      BY <1>1, <1>3, <2>5
    <3>2. label[fresh[c]] = Held(label, m.reads[c])
      BY <1>10, <2>5, <3>1 DEF Labellings
    <3>3. fresh[c] \notin Roots
      BY <1>1, <1>3, <2>5, ProblemsAssumption DEF ProblemsAssumption
    <3> QED BY <2>4, <3>1, <3>2, <3>3 DEF Held
  <2>6. CASE c \notin Converting(p, m)
    BY <1>1, <2>4, <2>6
  <2> QED BY <2>5, <2>6
<1>15. ASSUME NEW c \in Consumers
       PROVE  TypeOf(n, n.reads[c]) = Wanted(p, n, c)
  <2>1. Wanted(p, n, c) = Wanted(p, m, c)
    BY <1>2 DEF Wanted
  <2>2. CASE c \in Converting(p, m)
    <3>1. n.reads[c] = fresh[c] /\ fresh[c] \in DOMAIN n.conversions
      BY <1>1, <1>3, <2>2
    <3>2. n.conversions[fresh[c]].type = Wanted(p, m, c)
      BY <1>10, <2>2
    <3> QED BY <2>1, <3>1, <3>2 DEF TypeOf
  <2>3. CASE c \notin Converting(p, m)
    <3>1. n.reads[c] = m.reads[c]
      BY <1>1, <2>3
    <3>2. TypeOf(m, m.reads[c]) = Wanted(p, m, c)
      BY <2>3 DEF Converting
    <3>3. m.reads[c] \notin new
      BY <1>1, <1>6, ProblemsAssumption DEF ProblemsAssumption
    <3>4. TypeOf(n, m.reads[c]) = TypeOf(m, m.reads[c])
      BY <1>1, <1>2, <3>3 DEF TypeOf
    <3> QED BY <2>1, <3>1, <3>2, <3>4
  <2> QED BY <2>2, <2>3
<1> QED BY <1>1, <1>2, <1>9, <1>13, <1>14, <1>15 DEF Good, n

-----------------------------------------------------------------------------
(* Rewriting of conversions *)

\* What a conversion may be replaced by: what it reads, directly or through one.
Before(m, c) == {Source(m, c)} \cup (IF Nested(m, c) THEN {Inner(m, c)} ELSE {})

\* No conversion comes before itself.
LEMMA NoCycle ==
  ASSUME NEW m, Good(m), NEW c \in DOMAIN m.conversions, NEW v \in Before(m, c)
  PROVE  /\ Source(m, c) # c
         /\ v # c /\ v \in Roots \cup DOMAIN m.conversions
<1>1. Source(m, c) # c
  <2>1. \E d \in {c} : Source(m, d) \notin {c}
    BY DEF Good, Closed
  <2> QED BY <2>1
<1>2. Source(m, c) \in Roots \cup DOMAIN m.conversions
  BY DEF Good, Closed
<1>3. ASSUME Nested(m, c)
      PROVE  Inner(m, c) # c /\ Inner(m, c) \in Roots \cup DOMAIN m.conversions
  <2>1. Source(m, c) \in DOMAIN m.conversions
    BY <1>3 DEF Nested
  <2>2. \E d \in {c, Source(m, c)} : Source(m, d) \notin {c, Source(m, c)}
    BY <2>1 DEF Good, Closed
  <2>3. Inner(m, c) \in Roots \cup DOMAIN m.conversions
    BY <2>1 DEF Good, Closed, Inner
  <2> QED BY <2>2, <2>3 DEF Inner
<1> QED BY <1>1, <1>2, <1>3 DEF Before

\* The fields of a module in which a conversion is replaced.
LEMMA ReplacedParts ==
  ASSUME NEW m, Good(m), NEW c \in DOMAIN m.conversions, NEW v
  PROVE  LET n == Replaced(m, c, v)
         IN /\ n = [legacy |-> m.legacy, bound |-> m.bound, declared |-> m.declared,
                    types |-> m.types, conversions |-> n.conversions, reads |-> n.reads]
            /\ n.conversions = [d \in DOMAIN m.conversions \ {c} |-> n.conversions[d]]
            /\ DOMAIN n.conversions = DOMAIN m.conversions \ {c}
            /\ \A d \in DOMAIN m.conversions \ {c} :
                 n.conversions[d] = [source |-> Redirect(Source(m, d), c, v),
                                     type |-> m.conversions[d].type]
            /\ n.reads = [u \in Consumers |-> Redirect(m.reads[u], c, v)]
<1> DEFINE conversions == [d \in DOMAIN m.conversions \ {c} |->
                             [m.conversions[d] EXCEPT !.source = Redirect(@, c, v)]]
           reads == [u \in Consumers |-> Redirect(m.reads[u], c, v)]
           n == Replaced(m, c, v)
<1>1. n = [[m EXCEPT !.conversions = conversions] EXCEPT !.reads = reads]
  BY DEF Replaced
<1>2. ASSUME NEW d \in DOMAIN m.conversions \ {c}
      PROVE  conversions[d] = [source |-> Redirect(Source(m, d), c, v),
                               type |-> m.conversions[d].type]
  <2>1. m.conversions[d] \in Conversion
    BY DEF Good, IsModule
  <2> DEFINE k == m.conversions[d]
  <2>2. k = [source |-> Source(m, d), type |-> k.type]
    BY <2>1 DEF Conversion, Source
  <2>3. conversions[d] = [k EXCEPT !.source = Redirect(Source(m, d), c, v)]
    BY DEF Source
  <2> HIDE DEF k, conversions
  <2>4. conversions[d] = [source |-> Redirect(Source(m, d), c, v), type |-> k.type]
    BY <2>2, <2>3
  <2> QED BY <2>4 DEF k
<1>3. /\ DOMAIN conversions = DOMAIN m.conversions \ {c}
      /\ conversions = [d \in DOMAIN m.conversions \ {c} |-> conversions[d]]
  OBVIOUS
<1> HIDE DEF conversions
<1>4. n = [legacy |-> m.legacy, bound |-> m.bound, declared |-> m.declared,
           types |-> m.types, conversions |-> conversions, reads |-> reads]
  <2> DEFINE k == [m EXCEPT !.conversions = conversions]
  <2>1. k = [legacy |-> m.legacy, bound |-> m.bound, declared |-> m.declared,
             types |-> m.types, conversions |-> conversions, reads |-> m.reads]
    BY DEF Good, IsModule
  <2>2. n = [k EXCEPT !.reads = reads]
    BY <1>1
  <2> HIDE DEF k, n, reads
  <2> QED BY <2>1, <2>2
<1> HIDE DEF n
<1>5. n.conversions = conversions /\ n.reads = reads
  BY <1>4
<1> QED BY <1>2, <1>3, <1>4, <1>5 DEF n

\* Replacing a conversion by something before it.
LEMMA ReplacedModule ==
  ASSUME NEW m, Good(m), NEW c \in DOMAIN m.conversions, NEW v \in Before(m, c), NEW p
  PROVE  LET n == Replaced(m, c, v)
         IN /\ Good(n) /\ KeepsTiles(p, m, n)
            /\ n.declared = m.declared
            /\ TypeOf(m, v) = m.conversions[c].type /\ Verified(p, m) => Verified(p, n)
<1> DEFINE n == Replaced(m, c, v)
           D == DOMAIN m.conversions
<1>1. /\ n = [legacy |-> m.legacy, bound |-> m.bound, declared |-> m.declared,
              types |-> m.types, conversions |-> n.conversions, reads |-> n.reads]
      /\ n.conversions = [d \in D \ {c} |-> n.conversions[d]]
      /\ DOMAIN n.conversions = D \ {c}
      /\ \A d \in D \ {c} : n.conversions[d] = [source |-> Redirect(Source(m, d), c, v),
                                                type |-> m.conversions[d].type]
      /\ n.reads = [u \in Consumers |-> Redirect(m.reads[u], c, v)]
  BY ReplacedParts
<1>2. /\ Source(m, c) # c
      /\ v # c /\ v \in Roots \cup D
  BY NoCycle
<1> HIDE DEF n
<1>3. /\ n.legacy = m.legacy /\ n.bound = m.bound /\ n.declared = m.declared
      /\ n.types = m.types
  BY <1>1
<1>4. /\ D \subseteq ConversionIds /\ c \notin Roots
      /\ \A d \in D : Source(m, d) \in Roots \cup D /\ m.conversions[d].type \in Encodings
      /\ \A u \in Consumers : m.reads[u] \in Roots \cup D
  BY ProblemsAssumption DEF Good, IsModule, Closed, Conversion, ProblemsAssumption
<1>5. \A x \in Roots \cup D : Redirect(x, c, v) \in Roots \cup (D \ {c})
  BY <1>2 DEF Redirect
<1>6. ASSUME NEW d \in D \ {c}
      PROVE  /\ Source(n, d) = Redirect(Source(m, d), c, v)
             /\ n.conversions[d].type = m.conversions[d].type
  <2> DEFINE k == n.conversions[d]
  <2>1. k = [source |-> Redirect(Source(m, d), c, v), type |-> m.conversions[d].type]
    BY <1>1
  <2> HIDE DEF k
  <2>2. k.source = Redirect(Source(m, d), c, v) /\ k.type = m.conversions[d].type
    BY <2>1
  <2> QED BY <2>2 DEF k, Source
<1>7. IsModule(n)
  <2>1. ASSUME NEW d \in D \ {c} PROVE n.conversions[d] \in Conversion
    <3>1. Redirect(Source(m, d), c, v) \in Values /\ m.conversions[d].type \in Encodings
      BY <1>4, <1>5 DEF Values
    <3>2. n.conversions[d] = [source |-> Redirect(Source(m, d), c, v),
                              type |-> m.conversions[d].type]
      BY <1>1
    <3> QED BY <3>1, <3>2 DEF Conversion
  <2>2. n.conversions \in [DOMAIN n.conversions -> Conversion]
    BY <1>1, <2>1
  <2>3. n.reads \in [Consumers -> Values]
    BY <1>1, <1>4, <1>5 DEF Values
  <2>4. DOMAIN n.conversions \subseteq ConversionIds
    BY <1>1, <1>4
  <2>5. /\ m.legacy \in BOOLEAN /\ m.bound \in BOOLEAN /\ m.declared \in BOOLEAN
        /\ m.types \in [Roots -> Encodings \cup {Unset}]
    BY DEF Good, IsModule
  <2> QED BY <1>1, <1>3, <2>2, <2>3, <2>4, <2>5 DEF IsModule
<1>8. Closed(n)
  <2>1. \A u \in Consumers : n.reads[u] \in Roots \cup DOMAIN n.conversions
    BY <1>1, <1>4, <1>5
  <2>2. \A d \in DOMAIN n.conversions : Source(n, d) \in Roots \cup DOMAIN n.conversions
    BY <1>1, <1>4, <1>5, <1>6
  <2>3. ASSUME NEW S \in SUBSET DOMAIN n.conversions, S # {}
        PROVE  \E d \in S : Source(n, d) \notin S
    <3>1. S \subseteq D /\ c \notin S
      BY <1>1
    <3>2. PICK d \in S : Source(m, d) \notin S
      BY <2>3, <3>1 DEF Good, Closed
    <3>3. CASE Source(m, d) # c
      BY <1>6, <3>1, <3>2, <3>3 DEF Redirect
    <3>4. CASE Source(m, d) = c
      <4>1. Source(n, d) = v
        BY <1>6, <3>1, <3>2, <3>4 DEF Redirect
      <4>2. CASE v \notin S
        BY <4>1, <4>2
      <4>3. CASE v \in S
        <5> DEFINE T == S \cup {c} \cup (IF Nested(m, c) THEN {Source(m, c)} ELSE {})
        <5>1. T \subseteq D /\ T # {}
          BY <3>1 DEF Nested
        <5>2. PICK e \in T : Source(m, e) \notin T
          BY <5>1 DEF Good, Closed
        <5>3. e # c
          <6>1. CASE v = Source(m, c)
            BY <4>3, <5>2, <6>1
          <6>2. CASE v # Source(m, c)
            <7>1. Nested(m, c)
              BY <6>2 DEF Before
            <7>2. Source(m, c) \in T
              BY <7>1
            <7> QED BY <5>2, <7>2
          <6> QED BY <6>1, <6>2
        <5>4. e \in S
          <6>1. CASE e = Source(m, c) /\ e \notin S
            <7>1. v # Source(m, c)
              BY <4>3, <6>1
            <7>2. v = Inner(m, c)
              BY <7>1 DEF Before
            <7> QED BY <4>3, <5>2, <6>1, <7>2 DEF Inner
          <6> QED BY <5>2, <5>3, <6>1
        <5>5. Source(n, e) = Source(m, e)
          BY <1>6, <3>1, <5>2, <5>4 DEF Redirect
        <5> QED BY <5>2, <5>4, <5>5
      <4> QED BY <4>2, <4>3
    <3> QED BY <3>3, <3>4
  <2> QED BY <2>1, <2>2, <2>3 DEF Closed
<1>9. KeepsTiles(p, m, n)
  <2> SUFFICES ASSUME Serves(p, m), NEW label \in Labellings(n), NEW u \in Consumers
               PROVE  Held(label, n.reads[u]) = p.tile[u]
    BY DEF KeepsTiles, Serves
  <2> DEFINE old == [d \in D |-> IF d = c THEN Held(label, v) ELSE label[d]]
  <2>1. \A x \in Roots \cup D : Held(old, x) = Held(label, Redirect(x, c, v))
    BY <1>2, <1>4 DEF Held, Redirect
  <2>2. \A x \in Roots \cup (D \ {c}) : Held(label, x) \in Roots
    BY <1>1 DEF Held, Labellings
  <2>3. old \in [D -> Roots]
    <3>1. Held(label, v) \in Roots
      BY <1>2, <2>2
    <3>2. \A d \in D \ {c} : label[d] \in Roots
      BY <1>1 DEF Labellings
    <3> QED BY <3>1, <3>2
  <2>4. \A d \in D \ {c} : old[d] = label[d]
    OBVIOUS
  <2>5. old[c] = Held(label, v)
    OBVIOUS
  <2> HIDE DEF old
  <2>6. ASSUME NEW d \in D \ {c} PROVE old[d] = Held(old, Source(m, d))
    <3>1. label[d] = Held(label, Source(n, d))
      BY <1>1 DEF Labellings
    <3> QED BY <1>4, <1>6, <2>1, <2>4, <3>1
  <2>7. old[c] = Held(old, Source(m, c))
    <3>1. CASE v = Source(m, c)
      <4>1. Held(old, Source(m, c)) = Held(label, Redirect(Source(m, c), c, v))
        BY <1>4, <2>1
      <4> QED BY <1>2, <2>5, <3>1, <4>1 DEF Redirect
    <3>2. CASE v # Source(m, c)
      <4>1. Source(m, c) \in D \ {c} /\ v = Source(m, Source(m, c))
        BY <1>2, <3>2 DEF Before, Nested, Inner
      <4>2. old[Source(m, c)] = Held(old, v)
        BY <2>6, <4>1
      <4>3. Held(old, v) = Held(label, v)
        BY <1>2, <2>1 DEF Redirect
      <4>4. Held(old, Source(m, c)) = old[Source(m, c)]
        BY <1>4, <4>1, ProblemsAssumption DEF Held, ProblemsAssumption
      <4> QED BY <2>5, <4>2, <4>3, <4>4
    <3> QED BY <3>1, <3>2
  <2>8. old \in Labellings(m)
    BY <2>3, <2>6, <2>7 DEF Labellings
  <2>9. Held(old, m.reads[u]) = p.tile[u]
    BY <2>8 DEF Serves
  <2> QED BY <1>1, <1>4, <2>1, <2>9
<1>10. ASSUME TypeOf(m, v) = m.conversions[c].type, Verified(p, m)
       PROVE  Verified(p, n)
  <2>1. ASSUME NEW x \in Roots \cup (D \ {c}) PROVE TypeOf(n, x) = TypeOf(m, x)
    BY <1>1, <1>3, <1>4, <1>6 DEF TypeOf
  <2>2. ASSUME NEW u \in Consumers PROVE TypeOf(n, n.reads[u]) = Wanted(p, n, u)
    <3>1. n.reads[u] = Redirect(m.reads[u], c, v)
      BY <1>1
    <3>2. TypeOf(n, n.reads[u]) = TypeOf(m, Redirect(m.reads[u], c, v))
      BY <1>4, <1>5, <2>1, <3>1
    <3>3. TypeOf(m, Redirect(m.reads[u], c, v)) = TypeOf(m, m.reads[u])
      BY <1>10 DEF Redirect, TypeOf
    <3>4. TypeOf(m, m.reads[u]) = Wanted(p, m, u)
      BY <1>10 DEF Verified
    <3>5. Wanted(p, n, u) = Wanted(p, m, u)
      BY <1>3 DEF Wanted
    <3> QED BY <3>2, <3>3, <3>4, <3>5
  <2> QED BY <1>3, <1>10, <2>2 DEF Verified
<1> QED BY <1>3, <1>7, <1>8, <1>9, <1>10 DEF Good, n

\* Composing a conversion with the one it reads.
LEMMA ComposedModule ==
  ASSUME NEW m, Good(m), NEW c \in DOMAIN m.conversions, Nested(m, c), NEW p,
         NEW n, n = [m EXCEPT !.conversions[c].source = Inner(m, c)]
  PROVE  /\ Good(n) /\ KeepsTiles(p, m, n)
         /\ n.declared = m.declared
         /\ Verified(p, m) => Verified(p, n)
<1> DEFINE D == DOMAIN m.conversions
           i == Source(m, c)
           v == Inner(m, c)
           conversions == [m.conversions EXCEPT ![c].source = v]
<1>1. n = [m EXCEPT !.conversions = conversions]
  BY DEF Good, IsModule
<1>2. /\ D \subseteq ConversionIds
      /\ \A d \in D : m.conversions[d] \in Conversion
      /\ \A d \in D : Source(m, d) \in Roots \cup D
      /\ D \cap Roots = {}
  BY ProblemsAssumption DEF Good, IsModule, Closed, ProblemsAssumption
<1>3. /\ i \in D /\ i # c /\ v = Source(m, i)
      /\ v # c /\ v \in Roots \cup D
  BY NoCycle DEF Before, Nested, Inner
<1>4. /\ DOMAIN conversions = D
      /\ conversions = [d \in D |-> conversions[d]]
      /\ \A d \in D \ {c} : conversions[d] = m.conversions[d]
  BY DEF Good, IsModule
<1>5. conversions[c] = [source |-> v, type |-> m.conversions[c].type]
  <2> DEFINE k == m.conversions[c]
  <2>1. k = [source |-> i, type |-> k.type]
    BY <1>2 DEF Conversion, Source
  <2>2. conversions[c] = [k EXCEPT !.source = v]
    BY DEF Good, IsModule
  <2> HIDE DEF k, conversions, v, i
  <2>3. conversions[c] = [source |-> v, type |-> k.type]
    BY <2>1, <2>2
  <2> QED BY <2>3 DEF k
<1> HIDE DEF conversions, v, i
<1>6. /\ n = [legacy |-> m.legacy, bound |-> m.bound, declared |-> m.declared,
              types |-> m.types, conversions |-> conversions, reads |-> m.reads]
  BY <1>1 DEF Good, IsModule
<1>7. /\ n.legacy = m.legacy /\ n.bound = m.bound /\ n.declared = m.declared
      /\ n.types = m.types /\ n.conversions = conversions /\ n.reads = m.reads
  BY <1>6
<1>8. /\ Source(n, c) = v
      /\ conversions[c].type = m.conversions[c].type
      /\ \A d \in D \ {c} : Source(n, d) = Source(m, d)
  <2>1. conversions[c].source = v /\ conversions[c].type = m.conversions[c].type
    BY <1>5
  <2> QED BY <1>4, <1>7, <2>1 DEF Source
<1>9. IsModule(n)
  <2>1. v \in Values /\ m.conversions[c].type \in Encodings
    BY <1>2, <1>3 DEF Values, Conversion
  <2>2. conversions[c] \in Conversion
    BY <1>5, <2>1 DEF Conversion
  <2>3. conversions \in [D -> Conversion]
    BY <1>2, <1>4, <2>2
  <2>4. /\ m.legacy \in BOOLEAN /\ m.bound \in BOOLEAN /\ m.declared \in BOOLEAN
        /\ m.types \in [Roots -> Encodings \cup {Unset}]
        /\ m.reads \in [Consumers -> Values]
    BY DEF Good, IsModule
  <2> QED BY <1>2, <1>4, <1>6, <1>7, <2>3, <2>4 DEF IsModule
<1>10. Closed(n)
  <2>1. \A u \in Consumers : n.reads[u] \in Roots \cup D
    BY <1>7 DEF Good, Closed
  <2>2. \A d \in D : Source(n, d) \in Roots \cup D
    BY <1>2, <1>3, <1>8
  <2>3. ASSUME NEW S \in SUBSET D, S # {}
        PROVE  \E d \in S : Source(n, d) \notin S
    <3>1. CASE c \notin S
      <4>1. PICK d \in S : Source(m, d) \notin S
        BY <2>3 DEF Good, Closed
      <4> QED BY <1>8, <3>1, <4>1
    <3>2. CASE c \in S
      <4>1. PICK d \in S \cup {i} : Source(m, d) \notin S \cup {i}
        <5>1. S \cup {i} \in SUBSET D
          BY <1>3
        <5> QED BY <2>3, <5>1 DEF Good, Closed
      <4>2. d # c
        BY <4>1 DEF i
      <4>3. CASE d \in S
        BY <1>8, <4>1, <4>2, <4>3
      <4>4. CASE d = i
        BY <1>3, <1>8, <3>2, <4>1, <4>4
      <4> QED BY <4>1, <4>3, <4>4
    <3> QED BY <3>1, <3>2
  <2> QED BY <1>4, <1>7, <2>1, <2>2, <2>3 DEF Closed
<1>11. KeepsTiles(p, m, n)
  <2> SUFFICES ASSUME Serves(p, m), NEW label \in Labellings(n)
               PROVE  label \in Labellings(m)
    BY <1>7 DEF KeepsTiles, Serves
  <2>1. label \in [D -> Roots] /\ \A d \in D : label[d] = Held(label, Source(n, d))
    BY <1>4, <1>7 DEF Labellings
  <2>2. label[c] = Held(label, v) /\ label[i] = Held(label, v)
    BY <1>3, <1>8, <2>1
  <2>3. label[i] = Held(label, i)
    BY <1>2, <1>3 DEF Held
  <2>4. label[c] = Held(label, Source(m, c))
    BY <2>2, <2>3 DEF i
  <2>5. \A d \in D : label[d] = Held(label, Source(m, d))
    BY <1>8, <2>1, <2>4
  <2> QED BY <2>1, <2>5 DEF Labellings
<1>12. ASSUME Verified(p, m) PROVE Verified(p, n)
  <2>1. ASSUME NEW x PROVE TypeOf(n, x) = TypeOf(m, x)
    BY <1>4, <1>7, <1>8 DEF TypeOf
  <2>2. ASSUME NEW u \in Consumers PROVE Wanted(p, n, u) = Wanted(p, m, u)
    BY <1>7 DEF Wanted
  <2> QED BY <1>7, <1>12, <2>1, <2>2 DEF Verified
<1> QED BY <1>7, <1>9, <1>10, <1>11, <1>12 DEF Good

\* Erasing a conversion nobody reads.
LEMMA ErasedModule ==
  ASSUME NEW m, Good(m), NEW c \in DOMAIN m.conversions, ~Reads(m, c), NEW p
  PROVE  LET n == Erased(m, c)
         IN /\ Good(n) /\ KeepsTiles(p, m, n)
            /\ n.declared = m.declared
            /\ Verified(p, m) => Verified(p, n)
<1> DEFINE n == Erased(m, c)
           D == DOMAIN m.conversions
           conversions == [d \in D \ {c} |-> m.conversions[d]]
<1>1. n = [legacy |-> m.legacy, bound |-> m.bound, declared |-> m.declared,
           types |-> m.types, conversions |-> conversions, reads |-> m.reads]
  <2>1. n = [m EXCEPT !.conversions = conversions]
    BY DEF Erased, Without
  <2> HIDE DEF n, conversions
  <2> QED BY <2>1 DEF Good, IsModule
<1> HIDE DEF n
<1>2. /\ n.legacy = m.legacy /\ n.bound = m.bound /\ n.declared = m.declared
      /\ n.types = m.types /\ n.conversions = conversions /\ n.reads = m.reads
  BY <1>1
<1>3. /\ D \subseteq ConversionIds /\ D \cap Roots = {}
      /\ \A d \in D : m.conversions[d] \in Conversion /\ Source(m, d) \in Roots \cup D
      /\ \A u \in Consumers : m.reads[u] \in Roots \cup D
  BY ProblemsAssumption DEF Good, IsModule, Closed, ProblemsAssumption
<1>4. /\ \A u \in Consumers : m.reads[u] # c
      /\ \A d \in D : Source(m, d) # c
  BY DEF Reads, Source
<1>5. \A d \in D \ {c} : Source(n, d) = Source(m, d)
  BY <1>2 DEF Source
<1>6. IsModule(n)
  <2>1. conversions \in [D \ {c} -> Conversion]
    BY <1>3
  <2>2. /\ m.legacy \in BOOLEAN /\ m.bound \in BOOLEAN /\ m.declared \in BOOLEAN
        /\ m.types \in [Roots -> Encodings \cup {Unset}]
        /\ m.reads \in [Consumers -> Values]
    BY DEF Good, IsModule
  <2>3. DOMAIN conversions = D \ {c}
    OBVIOUS
  <2> HIDE DEF conversions
  <2> QED BY <1>1, <1>2, <1>3, <2>1, <2>2, <2>3 DEF IsModule
<1>7. Closed(n)
  <2>1. DOMAIN n.conversions = D \ {c}
    BY <1>2
  <2>2. \A u \in Consumers : n.reads[u] \in Roots \cup DOMAIN n.conversions
    BY <1>2, <1>3, <1>4, <2>1
  <2>3. \A d \in DOMAIN n.conversions : Source(n, d) \in Roots \cup DOMAIN n.conversions
    BY <1>3, <1>4, <1>5, <2>1
  <2>4. ASSUME NEW S \in SUBSET DOMAIN n.conversions, S # {}
        PROVE  \E d \in S : Source(n, d) \notin S
    BY <1>5, <2>1, <2>4 DEF Good, Closed
  <2> QED BY <2>2, <2>3, <2>4 DEF Closed
<1>8. KeepsTiles(p, m, n)
  <2> SUFFICES ASSUME Serves(p, m), NEW label \in Labellings(n), NEW u \in Consumers
               PROVE  Held(label, n.reads[u]) = p.tile[u]
    BY DEF KeepsTiles, Serves
  <2>1. /\ label \in [D \ {c} -> Roots]
        /\ \A d \in D \ {c} : label[d] = Held(label, Source(m, d))
    BY <1>2, <1>5 DEF Labellings
  <2> DEFINE old == [d \in D |-> IF d = c THEN Held(label, Source(m, c)) ELSE label[d]]
  <2>2. \A x \in Roots \cup (D \ {c}) : Held(old, x) = Held(label, x)
    BY <1>3 DEF Held
  <2>3. Held(label, Source(m, c)) \in Roots
    BY <1>3, <1>4, <2>1 DEF Held
  <2>4. old \in [D -> Roots]
    BY <2>1, <2>3
  <2>5. old[c] = Held(label, Source(m, c)) /\ \A d \in D \ {c} : old[d] = label[d]
    OBVIOUS
  <2> HIDE DEF old
  <2>6. \A d \in D : old[d] = Held(old, Source(m, d))
    BY <1>3, <1>4, <2>1, <2>2, <2>5
  <2>7. old \in Labellings(m)
    BY <2>4, <2>6 DEF Labellings
  <2>8. Held(old, m.reads[u]) = p.tile[u]
    BY <2>7 DEF Serves
  <2> QED BY <1>2, <1>3, <1>4, <2>2, <2>8
<1>9. ASSUME Verified(p, m) PROVE Verified(p, n)
  <2>1. ASSUME NEW u \in Consumers PROVE TypeOf(n, n.reads[u]) = TypeOf(m, m.reads[u])
    BY <1>2, <1>4 DEF TypeOf
  <2>2. ASSUME NEW u \in Consumers PROVE Wanted(p, n, u) = Wanted(p, m, u)
    BY <1>2 DEF Wanted
  <2> QED BY <1>2, <1>9, <2>1, <2>2 DEF Verified
<1> QED BY <1>2, <1>6, <1>7, <1>8, <1>9 DEF Good, n

\* What every rewriting keeps.
Carries(m, n, p) == /\ Good(n) /\ KeepsTiles(p, m, n)
                    /\ n.declared = m.declared
                    /\ Verified(p, m) => Verified(p, n)

\* One rewriting: the module stays one, keeps its tiles and its verification.
LEMMA Rewriting ==
  ASSUME NEW m, Good(m), NEW n \in Rewritings(m), NEW p
  PROVE  Carries(m, n, p)
<1>1. ASSUME NEW c \in DOMAIN m.conversions, Trivial(m, c), n = Canonicalized(m, c)
      PROVE  Carries(m, n, p)
  <2>1. n = Replaced(m, c, Source(m, c))
    BY <1>1 DEF Canonicalized
  <2>2. Source(m, c) \in Before(m, c) /\ TypeOf(m, Source(m, c)) = m.conversions[c].type
    BY <1>1 DEF Before, Trivial
  <2> QED BY <2>1, <2>2, ReplacedModule DEF Carries
<1>2. ASSUME NEW c \in DOMAIN m.conversions, ~Trivial(m, c), Nested(m, c), RoundTrip(m, c),
             n = Canonicalized(m, c)
      PROVE  Carries(m, n, p)
  <2>1. n = Replaced(m, c, Inner(m, c))
    BY <1>2 DEF Canonicalized
  <2>2. Inner(m, c) \in Before(m, c) /\ TypeOf(m, Inner(m, c)) = m.conversions[c].type
    BY <1>2 DEF Before, RoundTrip
  <2> QED BY <2>1, <2>2, ReplacedModule DEF Carries
<1>3. ASSUME NEW c \in DOMAIN m.conversions, ~Trivial(m, c), Nested(m, c), ~RoundTrip(m, c),
             n = Canonicalized(m, c)
      PROVE  Carries(m, n, p)
  <2>1. n = [m EXCEPT !.conversions[c].source = Inner(m, c)]
    BY <1>3 DEF Canonicalized
  <2> QED BY <1>3, <2>1, ComposedModule DEF Carries
<1>4. ASSUME NEW c \in DOMAIN m.conversions, ~Reads(m, c), n = Erased(m, c)
      PROVE  Carries(m, n, p)
  BY <1>4, ErasedModule DEF Carries
<1> QED BY <1>1, <1>2, <1>3, <1>4 DEF Rewritings

-----------------------------------------------------------------------------
(* The invariant of the passes *)

\* Which stages a pass has, and what it has written when it is in one of them.
StageInv ==
    /\ stage # "idle" => outcome = "running"
    /\ entry = "normalize" => stage \in {"idle", "normalize", "declare", "commit"}
    /\ entry = "infer" => stage \in {"idle", "infer", "recheck"}
    /\ entry = "analysis" => stage \in {"idle", "infer"}
    /\ stage # "idle" /\ (entry = "pipeline" \/ stage # "recheck") => unit = before
    /\ stage # "idle" /\ entry # "pipeline" => staged = unit
    /\ AllOrNothing

TileInv == /\ Serves(problem, unit) /\ Serves(problem, staged)
           /\ stage \in {"declare", "commit"} => Serves(problem, clone)

DeliveryInv ==
    /\ stage \in {"recheck", "preserve", "optimize", "verify"} => Verified(problem, staged)
    /\ stage \in {"optimize", "verify"} => staged.declared
    /\ stage = "verify" => Normal(staged)
    /\ outcome = "done" /\ entry = "pipeline" => Finished(problem, unit)

\* A run over a finished module has changed nothing so far.
SilentInv ==
    entry = "pipeline" /\ Finished(problem, before) =>
      /\ stage # "idle" => staged = before
      /\ stage \in {"declare", "commit"} => clone = before
      /\ outcome = "done" => unit = before

IInv == TypeOK /\ IsProblem(problem) /\ StageInv /\ TileInv /\ DeliveryInv /\ SilentInv

\* The four modules of a state.
LEMMA Modules == ASSUME TypeOK PROVE Good(before) /\ Good(unit) /\ Good(staged) /\ Good(clone)
BY DEF TypeOK, Good

\* Inference: what it commits, and that it finds nothing to do in a finished module.
LEMMA Inference ==
  ASSUME NEW p, IsProblem(p), NEW m, Good(m), NEW n \in Materializations(p, m)
  PROVE  /\ Good(n) /\ KeepsTiles(p, m, n)
         /\ Verified(p, m) => n = m
<1>0. PICK types \in Solutions(m) :
        n \in {Inserted(p, Typed(m, types), fresh) : fresh \in Fresh(p, Typed(m, types))}
  BY DEF Materializations
<1>1. PICK fresh \in Fresh(p, Typed(m, types)) : n = Inserted(p, Typed(m, types), fresh)
  BY <1>0
<1> DEFINE k == Typed(m, types)
<1>2. /\ IsModule(k) /\ SameCode(m, k) /\ k.types = types
      /\ m.bound /\ m.types \in [Roots -> Encodings] => k = m
  BY TypedModule DEF Good
<1> HIDE DEF k
<1>3. Good(k) /\ KeepsTiles(p, m, k)
  BY <1>2, SameCodeKeeps
<1>4. k.types \in [Roots -> Encodings]
  BY <1>2 DEF Solutions
<1>5. /\ Good(n) /\ KeepsTiles(p, k, n)
      /\ Converting(p, k) = {} => n = k
  BY <1>1, <1>3, <1>4, InsertedModule DEF k
<1>6. ASSUME Verified(p, m) PROVE n = m
  <2>1. k = m
    BY <1>2, <1>6 DEF Verified, IsProblem
  <2>2. Converting(p, m) = {}
    BY <1>6 DEF Converting, Verified
  <2> QED BY <1>5, <2>1, <2>2
<1> QED BY <1>3, <1>5, <1>6 DEF KeepsTiles

\* There is nothing to rewrite in a module in normal form.
LEMMA NothingToRewrite ==
  ASSUME NEW m, Normal(m), Good(m) PROVE Rewritings(m) = {}
BY ProblemsAssumption DEF Normal, Rewritings, Nested, Good, IsModule, ProblemsAssumption

\* When there is nothing to rewrite, the module is in normal form.
LEMMA RewrittenIsNormal ==
  ASSUME NEW m, Rewritings(m) = {}, Good(m) PROVE Normal(m)
<1> SUFFICES ASSUME NEW c \in DOMAIN m.conversions
             PROVE  Source(m, c) \in Roots /\ ~Trivial(m, c) /\ Reads(m, c)
  BY DEF Normal
<1>1. ~Trivial(m, c) /\ ~Nested(m, c) /\ Reads(m, c)
  BY DEF Rewritings
<1>2. Source(m, c) \in Roots \cup DOMAIN m.conversions
  BY DEF Good, Closed
<1> QED BY <1>1, <1>2 DEF Nested

\* The invariant is inductive: one step per action.
THEOREM Passes == Spec => []IInv
<1>1. Init => IInv
  <2> SUFFICES ASSUME Init PROVE IInv
    OBVIOUS
  <2>1. IsProblem(problem)
    BY ProblemsAssumption DEF Init, ProblemsAssumption
  <2>2. TypeOK
    BY <2>1 DEF Init, TypeOK, IsProblem, Entries, Stages
  <2>3. StageInv /\ DeliveryInv /\ SilentInv
    BY DEF Init, StageInv, AllOrNothing, DeliveryInv, SilentInv
  <2>4. TileInv
    BY <2>1 DEF Init, TileInv, IsProblem
  <2> QED BY <2>1, <2>2, <2>3, <2>4 DEF IInv
<1>2. IInv /\ [Next]_vars => IInv'
  <2> SUFFICES ASSUME IInv, [Next]_vars PROVE IInv'
    OBVIOUS
  <2>0. /\ TypeOK /\ IsProblem(problem) /\ StageInv /\ TileInv /\ DeliveryInv /\ SilentInv
        /\ Good(before) /\ Good(unit) /\ Good(staged) /\ Good(clone)
    BY Modules DEF IInv
  <2>1. ASSUME NEW e \in Entries, Begin(e) PROVE IInv'
    <3>1. TypeOK'
      BY <2>0, <2>1 DEF Begin, TypeOK, Stages
    <3>2. IsProblem(problem)' /\ TileInv'
      BY <2>0, <2>1 DEF Begin, TileInv
    <3>3. StageInv' /\ DeliveryInv' /\ SilentInv'
      BY <2>1 DEF Begin, StageInv, AllOrNothing, DeliveryInv, SilentInv, Entries
    <3> QED BY <3>1, <3>2, <3>3 DEF IInv
  <2>2. CASE NormalizeFragments
    <3>1. /\ IsModule(clone') /\ SameCode(staged, clone')
          /\ ~staged.legacy => clone' = staged
      BY <2>0, <2>2, Normalized DEF NormalizeFragments, Good
    <3>2. Good(clone') /\ KeepsTiles(problem, staged, clone')
      BY <2>0, <3>1, SameCodeKeeps
    <3>3. TypeOK'
      BY <2>0, <2>2, <3>2 DEF NormalizeFragments, Go, TypeOK, Stages, Good
    <3>4. IsProblem(problem)' /\ TileInv'
      BY <2>0, <2>2, <3>2 DEF NormalizeFragments, Go, TileInv, KeepsTiles
    <3>5. StageInv' /\ DeliveryInv'
      BY <2>0, <2>2 DEF NormalizeFragments, Go, StageInv, AllOrNothing, DeliveryInv
    <3>6. SilentInv'
      BY <2>0, <2>2, <3>1 DEF NormalizeFragments, Go, SilentInv, StageInv, Finished, Verified
    <3> QED BY <3>3, <3>4, <3>5, <3>6 DEF IInv
  <2>3. CASE DeclareBindings
    <3>1. /\ IsModule(clone') /\ SameCode(clone, clone')
          /\ clone.declared => clone' = clone
      BY <2>0, <2>3, Declared DEF DeclareBindings, Good
    <3>2. Good(clone') /\ KeepsTiles(problem, clone, clone')
      BY <2>0, <3>1, SameCodeKeeps
    <3>3. TypeOK'
      BY <2>0, <2>3, <3>2 DEF DeclareBindings, Go, TypeOK, Stages, Good
    <3>4. IsProblem(problem)' /\ TileInv'
      BY <2>0, <2>3, <3>2 DEF DeclareBindings, Go, TileInv, KeepsTiles
    <3>5. StageInv' /\ DeliveryInv'
      BY <2>0, <2>3 DEF DeclareBindings, Go, StageInv, AllOrNothing, DeliveryInv
    <3>6. SilentInv'
      BY <2>0, <2>3, <3>1 DEF DeclareBindings, Go, SilentInv, StageInv, Finished
    <3> QED BY <3>3, <3>4, <3>5, <3>6 DEF IInv
  <2>4. CASE CommitNormalized
    <3>1. TypeOK'
      BY <2>0, <2>4 DEF CommitNormalized, Write, NextOrEnd, Go, End, TypeOK, Stages, Good
    <3>2. IsProblem(problem)' /\ TileInv'
      BY <2>0, <2>4 DEF CommitNormalized, Write, NextOrEnd, Go, End, TileInv
    <3>3. StageInv'
      BY <2>0, <2>4 DEF CommitNormalized, Write, NextOrEnd, Go, End, StageInv, AllOrNothing,
                        TypeOK, Entries
    <3>4. DeliveryInv'
      BY <2>0, <2>4 DEF CommitNormalized, Write, NextOrEnd, Go, End, StageInv, DeliveryInv
    <3>5. SilentInv'
      BY <2>0, <2>4 DEF CommitNormalized, Write, NextOrEnd, Go, End, StageInv, SilentInv
    <3> QED BY <3>1, <3>2, <3>3, <3>4, <3>5 DEF IInv
  <2>5. CASE Infer
    <3>1. CASE entry = "analysis"
      <4>1. TypeOK'
        BY <2>0, <2>5, <3>1 DEF Infer, End, TypeOK, Stages
      <4>2. IsProblem(problem)' /\ TileInv' /\ SilentInv'
        BY <2>0, <2>5, <3>1 DEF Infer, End, TileInv, SilentInv
      <4>3. StageInv' /\ DeliveryInv'
        BY <2>0, <2>5, <3>1 DEF Infer, End, StageInv, AllOrNothing, DeliveryInv
      <4> QED BY <4>1, <4>2, <4>3 DEF IInv
    <3>2. CASE entry # "analysis"
      <4>1. PICK m \in Materializations(problem, staged) :
              Verified(problem, m) /\ Write(m) /\ Go("recheck")
        BY <2>5, <3>2 DEF Infer
      <4>2. /\ Good(m) /\ KeepsTiles(problem, staged, m)
            /\ Verified(problem, staged) => m = staged
        BY <2>0, Inference
      <4>3. UNCHANGED <<problem, entry, runs, before, clone>> /\ stage = "infer"
        BY <2>5 DEF Infer
      <4>4. TypeOK'
        BY <2>0, <4>1, <4>2, <4>3 DEF Write, Go, TypeOK, Stages, Good
      <4>5. IsProblem(problem)' /\ TileInv'
        BY <2>0, <4>1, <4>2, <4>3 DEF Write, Go, TileInv, KeepsTiles
      <4>6. StageInv'
        BY <2>0, <3>2, <4>1, <4>3 DEF Write, Go, StageInv, AllOrNothing, TypeOK, Entries
      <4>7. DeliveryInv'
        BY <2>0, <4>1, <4>3 DEF Write, Go, StageInv, DeliveryInv
      <4>8. SilentInv'
        BY <2>0, <4>1, <4>2, <4>3 DEF Write, Go, StageInv, SilentInv, Finished
      <4> QED BY <4>4, <4>5, <4>6, <4>7, <4>8 DEF IInv
    <3> QED BY <3>1, <3>2
  <2>6. CASE Recheck
    <3>1. Verified(problem, staged)
      BY <2>0, <2>6 DEF Recheck, DeliveryInv
    <3>2. /\ NextOrEnd("preserve") /\ stage = "recheck"
          /\ UNCHANGED <<problem, entry, runs, before, unit, staged, clone>>
      BY <2>6, <3>1 DEF Recheck
    <3>3. TypeOK'
      BY <2>0, <3>2 DEF NextOrEnd, Go, End, TypeOK, Stages
    <3>4. IsProblem(problem)' /\ TileInv'
      BY <2>0, <3>2 DEF NextOrEnd, Go, End, TileInv
    <3>5. StageInv'
      BY <2>0, <3>2 DEF NextOrEnd, Go, End, StageInv, AllOrNothing, TypeOK, Entries
    <3>6. DeliveryInv' /\ SilentInv'
      BY <2>0, <3>1, <3>2 DEF NextOrEnd, Go, End, StageInv, DeliveryInv, SilentInv
    <3> QED BY <3>3, <3>4, <3>5, <3>6 DEF IInv
  <2>7. CASE PreserveRootContracts
    <3> DEFINE m == Preserved(staged)
    <3>1. /\ Write(m) /\ Go("optimize") /\ stage = "preserve"
          /\ UNCHANGED <<problem, entry, runs, before, clone>>
      BY <2>7 DEF PreserveRootContracts
    <3>2. /\ IsModule(m) /\ SameCode(staged, m)
          /\ m.legacy = staged.legacy /\ m.bound = staged.bound /\ m.types = staged.types
          /\ staged.bound => m.declared
          /\ staged.declared => m = staged
      BY <2>0, Declared DEF Good
    <3> HIDE DEF m
    <3>3. Good(m) /\ KeepsTiles(problem, staged, m)
      BY <2>0, <3>2, SameCodeKeeps
    <3>4. Verified(problem, staged)
      BY <2>0, <3>1 DEF DeliveryInv
    <3>5. Verified(problem, m) /\ m.declared
      BY <3>2, <3>4 DEF SameCode, Verified, TypeOf, Wanted
    <3>6. TypeOK'
      BY <2>0, <3>1, <3>3 DEF Write, Go, TypeOK, Stages, Good
    <3>7. IsProblem(problem)' /\ TileInv'
      BY <2>0, <3>1, <3>3 DEF Write, Go, TileInv, KeepsTiles
    <3>8. StageInv'
      BY <2>0, <3>1 DEF Write, Go, StageInv, AllOrNothing, TypeOK, Entries
    <3>9. DeliveryInv'
      BY <2>0, <3>1, <3>5 DEF Write, Go, StageInv, DeliveryInv
    <3>10. SilentInv'
      BY <2>0, <3>1, <3>2 DEF Write, Go, StageInv, SilentInv, Finished
    <3> QED BY <3>6, <3>7, <3>8, <3>9, <3>10 DEF IInv
  <2>8. CASE Rewrite
    <3>1. PICK m \in Rewritings(staged) : Write(m)
      BY <2>8 DEF Rewrite
    <3>2. /\ UNCHANGED <<problem, entry, runs, stage, before, clone, outcome>>
          /\ stage = "optimize"
      BY <2>8 DEF Rewrite
    <3>3. Carries(staged, m, problem)
      BY <2>0, Rewriting
    <3>4. Verified(problem, m) /\ m.declared
      BY <2>0, <3>2, <3>3 DEF Carries, DeliveryInv
    <3>5. TypeOK'
      BY <2>0, <3>1, <3>2, <3>3 DEF Write, TypeOK, Carries, Good
    <3>6. IsProblem(problem)' /\ TileInv'
      BY <2>0, <3>1, <3>2, <3>3 DEF Write, TileInv, KeepsTiles, Carries
    <3>7. StageInv'
      BY <2>0, <3>1, <3>2 DEF Write, StageInv, AllOrNothing, TypeOK, Entries
    <3>8. DeliveryInv'
      BY <2>0, <3>1, <3>2, <3>4 DEF Write, StageInv, DeliveryInv
    <3>9. ~(entry = "pipeline" /\ Finished(problem, before))
      BY <2>0, <3>1, <3>2, NothingToRewrite DEF SilentInv, Finished
    <3>10. SilentInv'
      BY <3>2, <3>9 DEF SilentInv
    <3> QED BY <3>5, <3>6, <3>7, <3>8, <3>10 DEF IInv
  <2>9. CASE RewrittenAll
    <3>1. Normal(staged)
      BY <2>0, <2>9, RewrittenIsNormal DEF RewrittenAll
    <3>2. TypeOK'
      BY <2>0, <2>9 DEF RewrittenAll, Go, TypeOK, Stages
    <3>3. IsProblem(problem)' /\ TileInv' /\ StageInv' /\ SilentInv'
      BY <2>0, <2>9 DEF RewrittenAll, Go, TileInv, StageInv, AllOrNothing, SilentInv
    <3>4. DeliveryInv'
      BY <2>0, <2>9, <3>1 DEF RewrittenAll, Go, DeliveryInv
    <3> QED BY <3>2, <3>3, <3>4 DEF IInv
  <2>10. CASE Commit
    <3>1. entry = "pipeline"
      BY <2>0, <2>10 DEF Commit, StageInv, TypeOK, Entries
    <3>2. Finished(problem, staged)
      BY <2>0, <2>10 DEF Commit, DeliveryInv, Finished
    <3>3. TypeOK'
      BY <2>0, <2>10 DEF Commit, End, TypeOK, Stages
    <3>4. IsProblem(problem)' /\ TileInv' /\ StageInv' /\ SilentInv'
      BY <2>0, <2>10, <3>1 DEF Commit, End, TileInv, StageInv, AllOrNothing, SilentInv
    <3>5. DeliveryInv'
      BY <2>10, <3>2 DEF Commit, End, DeliveryInv
    <3> QED BY <3>3, <3>4, <3>5 DEF IInv
  <2>11. CASE Refuse
    <3>1. TypeOK'
      BY <2>0, <2>11 DEF Refuse, End, TypeOK, Stages
    <3>2. IsProblem(problem)' /\ TileInv' /\ DeliveryInv' /\ SilentInv'
      BY <2>0, <2>11 DEF Refuse, End, TileInv, DeliveryInv, SilentInv
    <3>3. StageInv'
      BY <2>0, <2>11 DEF Refuse, End, StageInv, AllOrNothing
    <3> QED BY <3>1, <3>2, <3>3 DEF IInv
  <2>12. CASE UNCHANGED vars
    BY <2>0, <2>12 DEF vars, IInv, TypeOK, StageInv, AllOrNothing, TileInv, DeliveryInv, SilentInv
  <2> QED
    BY <2>1, <2>2, <2>3, <2>4, <2>5, <2>6, <2>7, <2>8, <2>9, <2>10, <2>11, <2>12 DEF Next
<1> QED BY <1>1, <1>2, PTL DEF Spec

\* Types of all variables; modules are closed and their conversions form no cycle.
THEOREM TypeCorrect == Spec => []TypeOK
<1>1. IInv => TypeOK
  BY DEF IInv
<1> QED BY <1>1, Passes, PTL

\* Whatever fails, wherever, the module is the one the pass was called on.
THEOREM Atomic == Spec => []AllOrNothing
<1>1. IInv => AllOrNothing
  BY DEF IInv, StageInv
<1> QED BY <1>1, Passes, PTL

\* Conversions come, are composed and go; every consumer keeps its tile.
THEOREM TilesAreKept == Spec => []TilesKept
<1>1. IInv => TilesKept
  BY DEF IInv, TileInv, TilesKept
<1> QED BY <1>1, Passes, PTL

\* What is committed is verified, declared and in normal form.
THEOREM DeliveredIsFinished == Spec => []Delivered
<1>1. IInv => Delivered
  BY DEF IInv, DeliveryInv, Delivered
<1> QED BY <1>1, Passes, PTL

\* A second pipeline changes nothing.
THEOREM SecondPipelineIsSilent == Spec => []ReplayIsSilent
<1>1. IInv => ReplayIsSilent
  BY DEF IInv, SilentInv, ReplayIsSilent
<1> QED BY <1>1, Passes, PTL

-----------------------------------------------------------------------------
(* Materialization: what is true of the module being rebuilt, of the       *)
(* worklists and of the copies.                                            *)

Regions == DOMAIN program.blocks

FrameSet == [region : Regions, opened : BOOLEAN, pending : Seq(Blocks \X (Nat \ {0})),
             at : Nat \ {0}, progressed : BOOLEAN]

\* The types of the variables; values are copied with the encoding selected.
RebuildShape ==
  /\ program \in Programs /\ phase \in Phases
  /\ frames \in Seq(FrameSet)
  /\ DOMAIN copy = Blocks /\ \A b \in Blocks : copy[b] \in Seq(Range(copy[b]))
  /\ \A v \in DOMAIN mapped : mapped[v] = program.layout[v]
  /\ phase = "rebuild" => Preparable
  /\ phase = "prepare" => frames = <<>>

\* How far a block and a region are copied.
Count(b) == Len(Kept(b))
WasRebuilt(o) == \E b \in Blocks : \E i \in 1..Count(b) : program.ops[b][i] = o
Complete(r) == \A b \in Range(program.blocks[r]) : Count(b) = Len(program.ops[b])
Untouched(r) == \A b \in Range(program.blocks[r]) : copy[b] = <<>>
Framed(r) == \E k \in DOMAIN frames : frames[k].region = r

\* The worklist of a frame has each block that is not rebuilt to its end once,
\* with the next operation of it.
Worklist(f) ==
  LET blocks == Range(program.blocks[f.region])
  IN  IF f.opened
        THEN /\ \A i, j \in DOMAIN f.pending : f.pending[i][1] = f.pending[j][1] => i = j
             /\ \A i \in DOMAIN f.pending :
                  /\ f.pending[i][1] \in blocks
                  /\ f.pending[i][2] = Count(f.pending[i][1]) + 1
             /\ \A b \in blocks : \/ Count(b) = Len(program.ops[b])
                                  \/ \E i \in DOMAIN f.pending : f.pending[i][1] = b
        ELSE Untouched(f.region)

\* A region is rebuilt by one frame at a time.
FrameInv ==
  /\ \A j, k \in DOMAIN frames : frames[j].region = frames[k].region => j = k
  /\ \A k \in DOMAIN frames : Worklist(frames[k])

\* The regions of an operation are rebuilt after it and not before, and are left
\* complete.
PlaceInv ==
  /\ phase = "prepare" => Untouched(Top)
  /\ phase = "rebuild" => Framed(Top) \/ Complete(Top)
  /\ \A o \in Ops : \A r \in Range(program.regions[o]) :
       IF WasRebuilt(o) THEN Framed(r) \/ Complete(r) ELSE ~Framed(r) /\ Untouched(r)

\* What is copied of a block is how it begins.
CountInv ==
  \A b \in Blocks : /\ Count(b) <= Len(program.ops[b])
                    /\ \A i \in 1..Count(b) : Kept(b)[i].op = program.ops[b][i]

\* A copy that reads what the solution wants, and keeps its attributes.
IsWanted(item) ==
  /\ \A i \in DOMAIN item.operands : item.operands[i].encoding = program.wanted[item.op][i]
  /\ \A a \in DOMAIN program.attrs[item.op] :
       a \in DOMAIN item.attrs /\ item.attrs[a] = program.attrs[item.op][a]
  /\ \A c \in program.bindings : c.op = item.op =>
       \A a \in DOMAIN c.attrs : a \in DOMAIN item.attrs /\ item.attrs[a] = c.attrs[a]

\* Conversions change an encoding, and stand once before their consumer.
Added(s) ==
  \A i \in DOMAIN s : ~IsOp(s[i]) =>
     /\ \E k \in i + 1..Len(s) :
          IsOp(s[k]) /\ s[k].op = s[i].for /\ \A j \in i + 1..k - 1 : ~IsOp(s[j])
     /\ s[i].encoding # program.layout[s[i].convert]
     /\ \A j \in DOMAIN s \ {i} : s[j] # s[i]

\* The conversion of edge e is there.
Converted(e) ==
  \E b \in Blocks : \E item \in Range(copy[b]) :
    ~IsOp(item) /\ item.for = e.op /\ item.operand = e.operand /\ item.encoding = e.target

\* Whatever is copied is as it should be, conversions included.
ItemsInv ==
  /\ \A b \in Blocks : \A item \in Range(copy[b]) : IsOp(item) => IsWanted(item)
  /\ \A b \in Blocks : Added(copy[b])
  /\ \A e \in Range(program.edges) : WasRebuilt(e.op) => Converted(e)

\* How rebuilding ends: nothing mismatches, and a commit is complete.
EndInv ==
  /\ phase # "mismatch"
  /\ body = "rebuilt" => phase = "committed"
  /\ phase = "committed" => \A b \in Blocks : Count(b) = Len(program.ops[b])

RebuildInv == RebuildShape /\ FrameInv /\ PlaceInv /\ CountInv /\ ItemsInv /\ EndInv

-----------------------------------------------------------------------------
(* Materialization: what is selected from a sequence.                      *)

Step(S, t, x) == IF x \in S THEN Append(t, x) ELSE t

\* The ways from t to u by selecting from s.
Selecting(T, S, s, t, u) ==
  {q \in [0..Len(s) -> Seq(T)] :
     q[0] = t /\ q[Len(s)] = u /\ \A i \in 1..Len(s) : q[i] = Step(S, q[i - 1], s[i])}

\* A selection goes through a sequence from its first element to its last.
LEMMA SelectedFold ==
  ASSUME NEW T, NEW s \in Seq(T), NEW S
  PROVE  Selecting(T, S, s, <<>>, Selected(s, S)) # {}
<1> DEFINE n == Len(s)
           V == Seq(T)
           h == [p \in (1..n) \X V |-> Step(S, p[2], s[p[1]])]
           It == CHOOSE g : g = [U \in SUBSET (1..n) |->
                   IF U = {} THEN <<>> ELSE Step(S, g[U \ {Max(U)}], s[Max(U)])]
<1>1. n \in Nat /\ DOMAIN s = 1..n /\ \A i \in 1..n : s[i] \in T
  OBVIOUS
<1>2. \A x \in T, v \in V : Step(S, v, x) \in V
  BY DEF Step
<1>3. \A i \in 1..n, v \in V : h[<<i, v>>] = Step(S, v, s[i]) /\ h[<<i, v>>] \in V
  <2> HIDE DEF V
  <2> QED BY <1>1, <1>2
<1>e. <<>> \in V
  OBVIOUS
<1> HIDE DEF V
<1>4. PICK g \in [SUBSET (1..n) -> V] : \A U \in SUBSET (1..n) :
        g[U] = IF U = {} THEN <<>> ELSE h[<<Max(U), g[U \ {Max(U)}]>>]
  <2>2. StepsIn(n, V, h)
    <3> HIDE DEF h, n
    <3> QED BY <1>3 DEF StepsIn
  <2> HIDE DEF h, n
  <2>3. PrefixRecursions(n, V, <<>>, h) # {}
    BY <1>1, <1>e, <2>2, PrefixRecursion
  <2> QED BY <2>3 DEF PrefixRecursions
<1>5. g = [U \in SUBSET (1..n) |->
             IF U = {} THEN <<>> ELSE Step(S, g[U \ {Max(U)}], s[Max(U)])]
  <2>1. ASSUME NEW U \in SUBSET (1..n), U # {}
        PROVE  g[U] = Step(S, g[U \ {Max(U)}], s[Max(U)])
    <3>1. Max(U) \in 1..n
      BY <1>1, <2>1, LastPosition
    <3>2. U \ {Max(U)} \in SUBSET (1..n)
      OBVIOUS
    <3> HIDE DEF h, n
    <3> QED BY <1>3, <1>4, <2>1, <3>1, <3>2
  <2> HIDE DEF h, n
  <2> QED BY <1>4, <2>1
<1>6. It = [U \in SUBSET (1..n) |->
              IF U = {} THEN <<>> ELSE Step(S, It[U \ {Max(U)}], s[Max(U)])]
  <2> HIDE DEF h, n
  <2> QED BY <1>5
<1>7. It[1..0] = <<>> /\ \A i \in 1..n : It[1..i] = Step(S, It[1..(i - 1)], s[i])
  <2>1. 1..0 = {} /\ 1..0 \in SUBSET (1..n)
    BY <1>1
  <2>2. \A i \in 1..n : 1..i \in SUBSET (1..n) /\ 1..i # {}
    BY <1>1, LastPosition
  <2> HIDE DEF It, n
  <2> QED BY <1>1, <1>6, <2>1, <2>2, LastPosition
<1>8. Selected(s, S) = It[1..n]
  BY <1>1 DEF Selected, Step, FoldLeft, MapThenFoldSet
<1>9. PICK q \in [0..n -> V] :
        q[0] = It[1..0] /\ q[n] = It[1..n] /\ \A i \in 1..n : q[i] = h[<<i, q[i - 1]>>]
  <2>1. It[1..0] \in V
    <3> HIDE DEF It
    <3> QED BY <1>7, <1>e
  <2>2. \A i \in 1..n : It[1..(i - 1)] \in V => It[1..i] = h[<<i, It[1..(i - 1)]>>]
    <3> HIDE DEF It, h, n
    <3> QED BY <1>3, <1>7
  <2> HIDE DEF It, h, n
  <2>3. StepsIn(n, V, h) /\ Recursive(n, V, h, It)
    BY <1>3, <2>1, <2>2 DEF StepsIn, Recursive
  <2>4. ValuesOf(n, V, h, It) # {}
    BY <1>1, <2>3, PrefixValues
  <2> QED BY <2>4 DEF ValuesOf
<1>10. \A i \in 1..n : q[i] = Step(S, q[i - 1], s[i])
  <2>1. \A i \in 1..n : i - 1 \in 0..n
    BY <1>1
  <2> HIDE DEF It, h, n
  <2> QED BY <1>3, <1>9, <2>1
<1> QED
  <2> HIDE DEF It, h
  <2> QED BY <1>7, <1>8, <1>9, <1>10 DEF V, Selecting

\* A function that takes these steps ends at the selection.
LEMMA SelectedIs ==
  ASSUME NEW T, NEW s \in Seq(T), NEW S, NEW f,
         f[0] = <<>>, \A i \in 1..Len(s) : f[i] = Step(S, f[i - 1], s[i])
  PROVE  f[Len(s)] = Selected(s, S)
<1>s. PICK q \in Selecting(T, S, s, <<>>, Selected(s, S)) : TRUE
  BY SelectedFold
<1>1. /\ q \in [0..Len(s) -> Seq(T)] /\ q[0] = <<>> /\ q[Len(s)] = Selected(s, S)
      /\ \A i \in 1..Len(s) : q[i] = Step(S, q[i - 1], s[i])
  BY <1>s DEF Selecting
<1> DEFINE n == Len(s)
           P == {i \in Nat : i <= n => f[i] = q[i]}
<1>2. 0 \in P
  BY <1>1
<1>3. ASSUME NEW i \in Nat, i \in P
      PROVE  i + 1 \in P
  <2>1. (i + 1) - 1 = i /\ n \in Nat
    OBVIOUS
  <2> QED BY <1>1, <1>3, <2>1
<1>4. \A i \in Nat : i \in P
  <2> HIDE DEF P
  <2> QED BY <1>2, <1>3, NaturalInduction
<1>5. n \in Nat
  OBVIOUS
<1> QED BY <1>1, <1>4, <1>5

\* What follows a sequence is selected after what was selected from it.
LEMMA SelectedTail ==
  ASSUME NEW T, NEW s \in Seq(T), NEW t \in Seq(T), NEW S
  PROVE  Selecting(T, S, t, Selected(s, S), Selected(s \o t, S)) # {}
<1> DEFINE u == s \o t
           m == Len(s)
           n == Len(t)
<1>1. /\ u \in Seq(T) /\ m \in Nat /\ n \in Nat /\ Len(u) = m + n
      /\ \A i \in 1..m : u[i] = s[i]
      /\ \A i \in 1..n : u[m + i] = t[i]
  OBVIOUS
<1>s. PICK f \in Selecting(T, S, u, <<>>, Selected(u, S)) : TRUE
  <2> HIDE DEF u
  <2> QED BY <1>1, SelectedFold
<1>2. /\ f \in [0..Len(u) -> Seq(T)] /\ f[0] = <<>> /\ f[Len(u)] = Selected(u, S)
      /\ \A i \in 1..Len(u) : f[i] = Step(S, f[i - 1], u[i])
  BY <1>s DEF Selecting
<1>3. f[m] = Selected(s, S)
  <2>1. \A i \in 1..m : f[i] = Step(S, f[i - 1], s[i])
    <3> HIDE DEF u
    <3> QED BY <1>1, <1>2
  <2> QED BY <1>2, <2>1, SelectedIs
<1> DEFINE q == [i \in 0..n |-> f[m + i]]
<1>4. q \in [0..n -> Seq(T)]
  <2> HIDE DEF u
  <2> QED BY <1>1, <1>2
<1>5. \A i \in 1..n : q[i] = Step(S, q[i - 1], t[i])
  <2> TAKE i \in 1..n
  <2>1. i - 1 \in 0..n /\ i \in 0..n /\ m + i \in 1..Len(u) /\ (m + i) - 1 = m + (i - 1)
    <3> HIDE DEF u
    <3> QED BY <1>1
  <2>2. f[m + i] = Step(S, f[(m + i) - 1], u[m + i])
    <3> HIDE DEF u
    <3> QED BY <1>2, <2>1
  <2>3. u[m + i] = t[i]
    <3> HIDE DEF u
    <3> QED BY <1>1
  <2> HIDE DEF u
  <2> QED BY <2>1, <2>2, <2>3
<1>6. q[0] = f[m] /\ q[n] = f[m + n]
  <2> HIDE DEF u
  <2> QED BY <1>1
<1> QED
  <2>1. q[0] = Selected(s, S) /\ q[n] = Selected(u, S)
    <3> HIDE DEF u, q
    <3> QED BY <1>1, <1>2, <1>3, <1>6
  <2> HIDE DEF q
  <2> QED BY <2>1, <1>4, <1>5 DEF Selecting

LEMMA SelectedNone == \A S : Selected(<<>>, S) = <<>>
<1> TAKE S
<1>1. <<>> \in Seq({}) /\ Len(<<>>) = 0
  OBVIOUS
<1>s. PICK q \in Selecting({}, S, <<>>, <<>>, Selected(<<>>, S)) : TRUE
  BY <1>1, SelectedFold
<1>2. /\ q \in [0..Len(<<>>) -> Seq({})] /\ q[0] = <<>> /\ q[Len(<<>>)] = Selected(<<>>, S)
      /\ \A i \in 1..Len(<<>>) : q[i] = Step(S, q[i - 1], <<>>[i])
  BY <1>s DEF Selecting
<1> QED BY <1>1, <1>2

\* What is not selected may be left out.
LEMMA SelectedSkip ==
  ASSUME NEW T, NEW s \in Seq(T), NEW t \in Seq(T), NEW S, \A i \in 1..Len(t) : t[i] \notin S
  PROVE  Selected(s \o t, S) = Selected(s, S)
<1>s. PICK q \in Selecting(T, S, t, Selected(s, S), Selected(s \o t, S)) : TRUE
  BY SelectedTail
<1>1. /\ q \in [0..Len(t) -> Seq(T)] /\ q[0] = Selected(s, S) /\ q[Len(t)] = Selected(s \o t, S)
      /\ \A i \in 1..Len(t) : q[i] = Step(S, q[i - 1], t[i])
  BY <1>s DEF Selecting
<1>2. \A i \in 1..Len(t) : q[i] = q[i - 1]
  BY <1>1 DEF Step
<1> DEFINE P == {i \in Nat : i <= Len(t) => q[i] = q[0]}
<1>3. 0 \in P
  OBVIOUS
<1>4. ASSUME NEW i \in Nat, i \in P
      PROVE  i + 1 \in P
  <2>1. (i + 1) - 1 = i /\ Len(t) \in Nat
    OBVIOUS
  <2> QED BY <1>2, <1>4, <2>1
<1>5. \A i \in Nat : i \in P
  <2> HIDE DEF P
  <2> QED BY <1>3, <1>4, NaturalInduction
<1>6. Len(t) \in Nat
  OBVIOUS
<1> QED BY <1>1, <1>5, <1>6

LEMMA SelectedLast ==
  ASSUME NEW T, NEW s \in Seq(T), NEW x \in T, NEW S
  PROVE  Selected(s \o <<x>>, S) = Step(S, Selected(s, S), x)
<1>1. <<x>> \in Seq(T) /\ Len(<<x>>) = 1 /\ <<x>>[1] = x
  OBVIOUS
<1>s. PICK q \in Selecting(T, S, <<x>>, Selected(s, S), Selected(s \o <<x>>, S)) : TRUE
  BY <1>1, SelectedTail
<1>2. /\ q \in [0..Len(<<x>>) -> Seq(T)] /\ q[0] = Selected(s, S)
      /\ q[Len(<<x>>)] = Selected(s \o <<x>>, S)
      /\ \A i \in 1..Len(<<x>>) : q[i] = Step(S, q[i - 1], <<x>>[i])
  BY <1>s DEF Selecting
<1>3. 1 - 1 = 0 /\ 1 \in 1..1
  OBVIOUS
<1> QED BY <1>1, <1>2, <1>3

\* Only members of the sequence count.
LEMMA SelectedAgree ==
  ASSUME NEW T, NEW s \in Seq(T), NEW R, NEW S,
         \A i \in 1..Len(s) : s[i] \in R <=> s[i] \in S
  PROVE  Selected(s, R) = Selected(s, S)
<1>s. PICK q \in Selecting(T, S, s, <<>>, Selected(s, S)) : TRUE
  BY SelectedFold
<1>1. /\ q \in [0..Len(s) -> Seq(T)] /\ q[0] = <<>> /\ q[Len(s)] = Selected(s, S)
      /\ \A i \in 1..Len(s) : q[i] = Step(S, q[i - 1], s[i])
  BY <1>s DEF Selecting
<1>2. \A i \in 1..Len(s) : q[i] = Step(R, q[i - 1], s[i])
  BY <1>1 DEF Step
<1> QED BY <1>1, <1>2, SelectedIs

\* Nothing is lost, nothing comes twice.
LEMMA SelectedMembers ==
  ASSUME NEW T, NEW s \in Seq(T), NEW S
  PROVE  /\ Selected(s, S) \in Seq(T)
         /\ Range(Selected(s, S)) = Range(s) \cap S
         /\ IsInjective(s) => IsInjective(Selected(s, S))
<1>s. PICK q \in Selecting(T, S, s, <<>>, Selected(s, S)) : TRUE
  BY SelectedFold
<1>1. /\ q \in [0..Len(s) -> Seq(T)] /\ q[0] = <<>> /\ q[Len(s)] = Selected(s, S)
      /\ \A i \in 1..Len(s) : q[i] = Step(S, q[i - 1], s[i])
  BY <1>s DEF Selecting
<1> DEFINE n == Len(s)
           Stepwise(i) == {s[j] : j \in 1..i}
           P == {i \in Nat : i <= n =>
                   /\ Range(q[i]) = Stepwise(i) \cap S
                   /\ IsInjective(s) => IsInjective(q[i])}
<1>2. n \in Nat /\ DOMAIN s = 1..n
  OBVIOUS
<1>3. 0 \in P
  BY <1>1, <1>2 DEF Range, IsInjective
<1>4. ASSUME NEW i \in Nat, i \in P
      PROVE  i + 1 \in P
  <2> SUFFICES ASSUME i + 1 <= n
               PROVE  /\ Range(q[i + 1]) = Stepwise(i + 1) \cap S
                      /\ IsInjective(s) => IsInjective(q[i + 1])
    OBVIOUS
  <2>1. (i + 1) - 1 = i /\ i \in 0..n /\ i + 1 \in 1..n
    BY <1>2
  <2>2. q[i] \in Seq(T) /\ q[i + 1] = Step(S, q[i], s[i + 1]) /\ s[i + 1] \in T
    BY <1>1, <1>2, <2>1
  <2>3. Range(q[i]) = Stepwise(i) \cap S /\ (IsInjective(s) => IsInjective(q[i]))
    <3>1. i <= n
      BY <2>1, <1>2
    <3> QED BY <1>4, <3>1
  <2>4. Stepwise(i + 1) = Stepwise(i) \cup {s[i + 1]}
    <3>1. 1..(i + 1) = (1..i) \cup {i + 1}
      OBVIOUS
    <3> QED BY <3>1
  <2>5. CASE s[i + 1] \notin S
    <3>1. q[i + 1] = q[i]
      BY <2>2, <2>5 DEF Step
    <3> HIDE DEF Stepwise
    <3> QED BY <2>3, <2>4, <2>5, <3>1
  <2>6. CASE s[i + 1] \in S
    <3> DEFINE t == q[i]
               x == s[i + 1]
               k == Len(t)
    <3>1. q[i + 1] = Append(t, x)
      BY <2>2, <2>6 DEF Step
    <3>2. /\ DOMAIN Append(t, x) = (1..k) \cup {k + 1} /\ DOMAIN t = 1..k /\ k \in Nat
          /\ \A j \in 1..k : Append(t, x)[j] = t[j]
          /\ Append(t, x)[k + 1] = x
      BY <2>2
    <3>3. Range(Append(t, x)) = Range(t) \cup {x}
      <4> HIDE DEF t, x, k
      <4> QED BY <3>2 DEF Range
    <3>4. ASSUME IsInjective(s)
          PROVE  IsInjective(Append(t, x))
      <4>1. \A j \in 1..k : t[j] # x
        <5>1. x \notin Stepwise(i)
          <6>1. \A j \in 1..i : j \in 1..n /\ j # i + 1
            BY <2>1, <1>2
          <6> QED BY <1>2, <2>1, <3>4, <6>1 DEF IsInjective
        <5>2. \A j \in 1..k : t[j] \in Range(t)
          BY <3>2 DEF Range
        <5> HIDE DEF Stepwise
        <5> QED BY <2>3, <5>1, <5>2
      <4>2. IsInjective(t)
        BY <2>3, <3>4
      <4> HIDE DEF t, x, k
      <4> QED BY <3>2, <4>1, <4>2 DEF IsInjective
    <3> HIDE DEF Stepwise
    <3> QED BY <2>3, <2>4, <2>6, <3>1, <3>3, <3>4
  <2> QED BY <2>5, <2>6
<1>5. \A i \in Nat : i \in P
  <2> HIDE DEF P
  <2> QED BY <1>3, <1>4, NaturalInduction
<1>6. Range(q[n]) = Stepwise(n) \cap S /\ (IsInjective(s) => IsInjective(q[n]))
  <2>1. n \in P /\ n <= n
    <3> HIDE DEF P
    <3> QED BY <1>2, <1>5
  <2> QED BY <2>1
<1>7. Stepwise(n) = Range(s)
  BY <1>2 DEF Range
<1>8. q[n] \in Seq(T)
  BY <1>1, <1>2
<1> QED
  <2> HIDE DEF Stepwise
  <2> QED BY <1>1, <1>6, <1>7, <1>8

LEMMA OfItsRange == \A T : \A s \in Seq(T) : s \in Seq(Range(s))
BY DEF Range

LEMMA RangeIsIn == \A T : \A s \in Seq(T) : Range(s) \subseteq T
BY DEF Range

\* What the program of a state is.
LEMMA ModuleFacts ==
  ASSUME RebuildShape
  PROVE  /\ IsFiniteSet(Ops) /\ Top \in Regions /\ DOMAIN program.regions = Ops
         /\ \A b \in Blocks : program.ops[b] \in Seq(Ops) /\ IsInjective(program.ops[b])
         /\ \A b, c \in Blocks : b # c => Range(program.ops[b]) \cap Range(program.ops[c]) = {}
         /\ \A r \in Regions : program.blocks[r] \in Seq(Blocks) /\ IsInjective(program.blocks[r])
         /\ \A q, r \in Regions :
              q # r => Range(program.blocks[q]) \cap Range(program.blocks[r]) = {}
         /\ \A o \in Ops : program.regions[o] \in Seq(Regions \ {Top})
                           /\ IsInjective(program.regions[o])
         /\ \A o, x \in Ops :
              o # x => Range(program.regions[o]) \cap Range(program.regions[x]) = {}
<1>1. IsTree(program)
  BY ProgramsAssumption DEF RebuildShape
<1> QED BY <1>1 DEF IsTree, Placed, Ops, Blocks, Regions

\* What the edges of an operation are in a verified solution.
LEMMA EdgeFacts ==
  ASSUME RebuildShape, NEW o \in Ops
  PROVE  /\ \A e \in EdgesOf(o) :
              /\ e.operand \in DOMAIN program.operands[o]
              /\ e.source = program.layout[program.operands[o][e.operand]]
              /\ e.target = program.wanted[o][e.operand]
              /\ e.source # e.target
         /\ \A e, f \in EdgesOf(o) : e.operand = f.operand => e = f
         /\ \A i \in DOMAIN program.operands[o] :
              (\A e \in EdgesOf(o) : e.operand # i)
                => program.layout[program.operands[o][i]] = program.wanted[o][i]
         /\ program.edges \in Seq(Range(program.edges))
         /\ \A j, k \in DOMAIN program.edges :
              program.edges[j] \in EdgesOf(o) /\ program.edges[j] = program.edges[k] => j = k
         /\ DOMAIN program.wanted[o] = DOMAIN program.operands[o]
<1>1. IsSolved(program)
  BY ProgramsAssumption DEF RebuildShape
<1> DEFINE Of(i) == {k \in DOMAIN program.edges :
                       program.edges[k].op = o /\ program.edges[k].operand = i}
<1>2. ASSUME NEW i \in DOMAIN program.operands[o]
      PROVE  /\ (Of(i) = {}) <=> (program.layout[program.operands[o][i]] = program.wanted[o][i])
             /\ \A k \in Of(i) : /\ Of(i) = {k}
                                 /\ program.edges[k].source = program.layout[program.operands[o][i]]
                                 /\ program.edges[k].target = program.wanted[o][i]
  BY <1>1 DEF IsSolved, Ops
<1>3. \A e \in EdgesOf(o) : e.operand \in DOMAIN program.operands[o]
  BY <1>1 DEF IsSolved, EdgesOf
<1>4. ASSUME NEW k \in DOMAIN program.edges, program.edges[k] \in EdgesOf(o)
      PROVE  /\ program.edges[k].operand \in DOMAIN program.operands[o]
             /\ k \in Of(program.edges[k].operand)
  BY <1>3, <1>4 DEF EdgesOf
<1>5. ASSUME NEW e \in EdgesOf(o)
      PROVE  \E k \in DOMAIN program.edges : e = program.edges[k] /\ k \in Of(e.operand)
  BY DEF EdgesOf, Range
<1>6. \A e \in EdgesOf(o) :
              /\ e.source = program.layout[program.operands[o][e.operand]]
              /\ e.target = program.wanted[o][e.operand]
              /\ e.source # e.target
  <2> HIDE DEF Of
  <2> QED BY <1>2, <1>3, <1>5
<1>7. \A e, f \in EdgesOf(o) : e.operand = f.operand => e = f
  <2> HIDE DEF Of
  <2> QED BY <1>2, <1>3, <1>5
<1>8. \A i \in DOMAIN program.operands[o] :
              (\A e \in EdgesOf(o) : e.operand # i)
                => program.layout[program.operands[o][i]] = program.wanted[o][i]
  <2> TAKE i \in DOMAIN program.operands[o]
  <2>1. \A k \in Of(i) : program.edges[k] \in EdgesOf(o) /\ program.edges[k].operand = i
    BY DEF EdgesOf, Range
  <2> HIDE DEF Of
  <2> QED BY <1>2, <2>1
<1>9. \A j, k \in DOMAIN program.edges :
              program.edges[j] \in EdgesOf(o) /\ program.edges[j] = program.edges[k] => j = k
  <2> HIDE DEF Of
  <2> QED BY <1>2, <1>4
<1> QED BY <1>1, <1>3, <1>6, <1>7, <1>8, <1>9 DEF IsSolved, Ops

\* Conversions are no operations, and there is one per edge.
LEMMA ConversionFacts ==
  ASSUME RebuildShape, NEW o \in Ops
  PROVE  LET cs == Conversions(o) IN
         /\ cs \in Seq(Range(cs)) /\ IsInjective(cs)
         /\ \A i \in DOMAIN cs : /\ ~IsOp(cs[i]) /\ cs[i].for = o
                                 /\ cs[i].encoding # program.layout[cs[i].convert]
         /\ \A e \in EdgesOf(o) : \E i \in DOMAIN cs :
              cs[i].operand = e.operand /\ cs[i].encoding = e.target
<1> DEFINE T == Range(program.edges)
           mine == Selected(program.edges, EdgesOf(o))
           cs == Conversions(o)
<1>1. mine \in Seq(T) /\ Range(mine) = EdgesOf(o)
  <2>1. program.edges \in Seq(T)
    BY EdgeFacts
  <2>2. mine \in Seq(T) /\ Range(mine) = T \cap EdgesOf(o)
    BY <2>1, SelectedMembers
  <2> QED BY <2>2 DEF EdgesOf
<1>2. IsInjective(mine)
  <2>1. \A k \in DOMAIN program.edges :
          program.edges[k].op \in Ops /\ program.edges[k] \in EdgesOf(program.edges[k].op)
    BY ProgramsAssumption DEF RebuildShape, IsSolved, Ops, EdgesOf, Range
  <2>2. IsInjective(program.edges)
    BY <2>1, EdgeFacts DEF IsInjective
  <2> QED BY <2>2, EdgeFacts, SelectedMembers
<1>3. DOMAIN cs = DOMAIN mine /\ \A i \in DOMAIN mine : cs[i] =
         [convert |-> program.operands[o][mine[i].operand], for |-> o,
          operand |-> mine[i].operand, encoding |-> mine[i].target]
  BY DEF Conversions
<1> HIDE DEF mine, cs
<1>4. \A i \in DOMAIN mine : mine[i] \in EdgesOf(o)
  BY <1>1 DEF Range
<1>5. \A i \in DOMAIN cs : /\ ~IsOp(cs[i]) /\ cs[i].for = o /\ cs[i].operand = mine[i].operand
                           /\ cs[i].convert = program.operands[o][mine[i].operand]
                           /\ cs[i].encoding = mine[i].target
  BY <1>3 DEF IsOp
<1>6. \A i \in DOMAIN cs : cs[i].encoding # program.layout[cs[i].convert]
  BY <1>3, <1>4, <1>5, EdgeFacts
<1>7. \A e \in EdgesOf(o) : \E i \in DOMAIN cs :
              cs[i].operand = e.operand /\ cs[i].encoding = e.target
  BY <1>1, <1>3, <1>5 DEF Range
<1>8. IsInjective(cs)
  BY <1>2, <1>3, <1>4, <1>5, EdgeFacts DEF IsInjective
<1>9. cs \in Seq(Range(cs))
  <2>1. DOMAIN cs = 1..Len(mine) /\ Len(mine) \in Nat
    BY <1>1, <1>3
  <2>2. cs = [i \in 1..Len(mine) |-> cs[i]]
    BY <2>1 DEF Conversions, mine, cs
  <2> QED BY <2>1, <2>2 DEF Range
<1> QED BY <1>5, <1>6, <1>7, <1>8, <1>9 DEF cs

\* What an operation becomes once its operands are there.
LEMMA RebuiltFacts ==
  ASSUME RebuildShape, Preparable, NEW o \in Ops, Ready(o)
  PROVE  /\ ~Mismatched(o)
         /\ IsOp(Rebuilt(o)) /\ Rebuilt(o).op = o /\ IsWanted(Rebuilt(o))
<1>1. \A i \in DOMAIN program.operands[o] :
        mapped[program.operands[o][i]] = program.layout[program.operands[o][i]]
  BY DEF Ready, RebuildShape, Range
<1>2. ~Mismatched(o)
  BY <1>1, EdgeFacts DEF Mismatched
<1>3. ASSUME NEW i \in DOMAIN program.operands[o]
      PROVE  Operand(o, i).encoding = program.wanted[o][i]
  <2> DEFINE edges == {e \in EdgesOf(o) : e.operand = i}
  <2>1. CASE edges = {}
    <3>1. \A e \in EdgesOf(o) : e.operand # i
      BY <2>1
    <3> QED BY <1>1, <2>1, <3>1, EdgeFacts DEF Operand
  <2>2. CASE edges # {}
    <3>1. (CHOOSE e \in edges : TRUE) \in edges
      BY <2>2
    <3>2. Operand(o, i).encoding = (CHOOSE e \in edges : TRUE).target
      BY <2>2 DEF Operand
    <3> HIDE DEF edges
    <3>3. (CHOOSE e \in edges : TRUE) \in EdgesOf(o) /\ (CHOOSE e \in edges : TRUE).operand = i
      BY <3>1 DEF edges
    <3> QED BY <3>2, <3>3, EdgeFacts
  <2> QED BY <2>1, <2>2
<1> DEFINE x == Rebuilt(o)
<1>4. /\ IsOp(x) /\ x.op = o /\ x.attrs = Attributes(o)
      /\ x.operands = [i \in DOMAIN program.operands[o] |-> Operand(o, i)]
  BY DEF Rebuilt, IsOp
<1> DEFINE bindings == {b \in program.bindings : b.op = o}
           bound == IF bindings = {} THEN <<>> ELSE (CHOOSE b \in bindings : TRUE).attrs
<1>5. x.attrs = [a \in DOMAIN bound \cup DOMAIN program.attrs[o] |->
                   IF a \in DOMAIN bound THEN bound[a] ELSE program.attrs[o][a]]
  BY <1>4 DEF Attributes
<1>6. \A c \in program.bindings : c.op = o => bound = c.attrs
  <2>1. \A c, d \in program.bindings : c.op = d.op => c = d
    BY ProgramsAssumption DEF RebuildShape, IsSolved
  <2>2. ASSUME NEW c \in program.bindings, c.op = o
        PROVE  bindings = {c}
    BY <2>1, <2>2
  <2> HIDE DEF bindings
  <2> QED BY <2>2
<1>7. DOMAIN <<>> = {}
  OBVIOUS
<1>8. bindings = {} => DOMAIN bound = {}
  BY <1>7
<1>9. bindings # {} => \E c \in program.bindings : c.op = o /\ bound = c.attrs
  BY <1>6
<1> HIDE DEF bound, bindings
<1>10. \A a \in DOMAIN bound : a \in DOMAIN x.attrs /\ x.attrs[a] = bound[a]
  BY <1>5
<1>11. \A a \in DOMAIN program.attrs[o] \ DOMAIN bound :
         a \in DOMAIN x.attrs /\ x.attrs[a] = program.attrs[o][a]
  BY <1>5
<1>12. \A a \in DOMAIN program.attrs[o] \cap DOMAIN bound :
         program.attrs[o][a] = bound[a]
  BY <1>8, <1>9 DEF Preparable
<1>13. IsWanted(x)
  <2> HIDE DEF x
  <2>1. \A i \in DOMAIN x.operands : x.operands[i].encoding = program.wanted[o][i]
    BY <1>3, <1>4
  <2>2. \A a \in DOMAIN program.attrs[o] : a \in DOMAIN x.attrs /\ x.attrs[a] = program.attrs[o][a]
    BY <1>10, <1>11, <1>12
  <2>3. \A c \in program.bindings : c.op = o =>
          \A a \in DOMAIN c.attrs : a \in DOMAIN x.attrs /\ x.attrs[a] = c.attrs[a]
    BY <1>6, <1>10
  <2> QED BY <1>4, <2>1, <2>2, <2>3 DEF IsWanted
<1> QED BY <1>2, <1>4, <1>13

\* What is there is still there in front of what comes.
LEMMA AddedGrows ==
  ASSUME NEW T, NEW s \in Seq(T), NEW t \in Seq(T), NEW x \in T, NEW o, Added(s),
         IsOp(x), x.op = o, IsInjective(t),
         \A i \in DOMAIN t : ~IsOp(t[i]) /\ t[i].for = o
                             /\ t[i].encoding # program.layout[t[i].convert],
         \A i \in DOMAIN s : ~IsOp(s[i]) => s[i].for # o
  PROVE  Added(s \o t \o <<x>>)
<1> DEFINE u == s \o t \o <<x>>
           m == Len(s)
           n == Len(t)
<1>1. /\ m \in Nat /\ n \in Nat /\ DOMAIN s = 1..m /\ DOMAIN t = 1..n
      /\ u \in Seq(T) /\ Len(u) = m + n + 1 /\ DOMAIN u = 1..(m + n + 1)
      /\ \A i \in 1..m : u[i] = s[i]
      /\ \A i \in 1..n : u[m + i] = t[i]
      /\ u[m + n + 1] = x
  OBVIOUS
<1>2. \A i \in m + 1..m + n : i - m \in 1..n /\ u[i] = t[i - m]
  <2> TAKE i \in m + 1..m + n
  <2>1. i - m \in 1..n /\ m + (i - m) = i
    BY <1>1
  <2> HIDE DEF u
  <2> QED BY <1>1, <2>1
<1> HIDE DEF u
<1>t. ASSUME NEW i \in m + 1..m + n
      PROVE  ~IsOp(u[i]) /\ u[i].for = o /\ u[i].encoding # program.layout[u[i].convert]
  <2>1. i - m \in DOMAIN t /\ u[i] = t[i - m]
    BY <1>1, <1>2
  <2> QED BY <2>1
<1>3. \A i \in DOMAIN u : i \in 1..m \/ i \in m + 1..m + n \/ i = m + n + 1
  BY <1>1
<1>4. ASSUME NEW i \in 1..m, ~IsOp(u[i])
      PROVE  /\ \E k \in i + 1..Len(u) :
                  IsOp(u[k]) /\ u[k].op = u[i].for /\ \A j \in i + 1..k - 1 : ~IsOp(u[j])
             /\ u[i].encoding # program.layout[u[i].convert]
             /\ \A j \in DOMAIN u \ {i} : u[j] # u[i]
  <2>1. s[i] = u[i] /\ ~IsOp(s[i]) /\ i \in DOMAIN s
    BY <1>1, <1>4
  <2>2. PICK k \in i + 1..m :
          IsOp(s[k]) /\ s[k].op = s[i].for /\ \A j \in i + 1..k - 1 : ~IsOp(s[j])
    BY <2>1 DEF Added
  <2>3. k \in 1..m /\ k \in i + 1..Len(u) /\ \A j \in i + 1..k - 1 : j \in 1..m
    BY <1>1
  <2>4. IsOp(u[k]) /\ u[k].op = u[i].for /\ \A j \in i + 1..k - 1 : ~IsOp(u[j])
    BY <1>1, <2>1, <2>2, <2>3
  <2>5. s[i].encoding # program.layout[s[i].convert] /\ \A j \in DOMAIN s \ {i} : s[j] # s[i]
    BY <2>1 DEF Added
  <2>6. \A j \in DOMAIN u \ {i} : u[j] # u[i]
    <3>1. \A j \in m + 1..m + n : u[j].for = o
      BY <1>t
    <3>2. u[i].for # o
      BY <2>1
    <3>3. \A j \in 1..m : j # i => u[j] # u[i]
      BY <1>1, <2>1, <2>5
    <3> QED BY <1>1, <1>3, <1>4, <3>1, <3>2, <3>3
  <2> QED BY <2>1, <2>3, <2>4, <2>5, <2>6
<1>5. ASSUME NEW i \in m + 1..m + n
      PROVE  /\ \E k \in i + 1..Len(u) :
                  IsOp(u[k]) /\ u[k].op = u[i].for /\ \A j \in i + 1..k - 1 : ~IsOp(u[j])
             /\ u[i].encoding # program.layout[u[i].convert]
             /\ \A j \in DOMAIN u \ {i} : u[j] # u[i]
  <2>1. u[i] = t[i - m] /\ i - m \in DOMAIN t
    BY <1>1, <1>2
  <2>2. ~IsOp(u[i]) /\ u[i].for = o /\ u[i].encoding # program.layout[u[i].convert]
    BY <1>t
  <2>3. m + n + 1 \in i + 1..Len(u) /\ \A j \in i + 1..(m + n + 1) - 1 : j \in m + 1..m + n
    BY <1>1
  <2>4. \A j \in i + 1..(m + n + 1) - 1 : ~IsOp(u[j])
    BY <1>t, <2>3
  <2>5. \A j \in DOMAIN u \ {i} : u[j] # u[i]
    <3>1. \A j \in 1..m : ~IsOp(u[j]) => u[j].for # o
      BY <1>1
    <3>2. \A j \in m + 1..m + n : j # i => j - m # i - m
      BY <1>1
    <3>3. \A j \in m + 1..m + n : j # i => u[j] # u[i]
      <4> TAKE j \in m + 1..m + n
      <4>1. j - m \in DOMAIN t /\ u[j] = t[j - m]
        BY <1>1, <1>2
      <4> QED BY <2>1, <3>2, <4>1 DEF IsInjective
    <3> QED BY <1>1, <1>3, <2>2, <3>1, <3>3
  <2> QED BY <1>1, <2>2, <2>3, <2>4, <2>5
<1>6. Added(u)
  BY <1>1, <1>3, <1>4, <1>5 DEF Added
<1> QED BY <1>6 DEF u

\* The operations of a copy that grows.
LEMMA OperationsGrow ==
  ASSUME NEW T, NEW s \in Seq(T), NEW t \in Seq(T), NEW x \in T, IsOp(x),
         \A i \in DOMAIN t : ~IsOp(t[i])
  PROVE  Operations(s \o t \o <<x>>) = Append(Operations(s), x)
<1> DEFINE u == s \o t \o <<x>>
           S == {y \in Range(u) : IsOp(y)}
           R == {y \in Range(s) : IsOp(y)}
<1>1. /\ DOMAIN s = 1..Len(s) /\ DOMAIN t = 1..Len(t) /\ Len(s) \in Nat /\ Len(t) \in Nat
      /\ \A i \in 1..Len(s) : i \in DOMAIN u /\ u[i] = s[i]
      /\ Len(s) + Len(t) + 1 \in DOMAIN u /\ u[Len(s) + Len(t) + 1] = x
      /\ s \o t \in Seq(T)
  OBVIOUS
<1>2. x \in S /\ (\A i \in 1..Len(t) : t[i] \notin S)
      /\ \A i \in 1..Len(s) : s[i] \in R <=> s[i] \in S
  <2> HIDE DEF u
  <2> QED BY <1>1 DEF Range
<1> HIDE DEF S, R
<1>3. Selected((s \o t) \o <<x>>, S) = Step(S, Selected(s \o t, S), x)
  BY <1>1, SelectedLast
<1>4. Selected(s \o t, S) = Selected(s, S)
  BY <1>2, SelectedSkip
<1>5. Selected(s, R) = Selected(s, S)
  BY <1>2, SelectedAgree
<1>6. Operations(u) = Selected(u, S) /\ Operations(s) = Selected(s, R)
  BY DEF Operations, S, R
<1> QED BY <1>2, <1>3, <1>4, <1>5, <1>6 DEF Step

LEMMA OperationsFacts ==
  ASSUME NEW s, s \in Seq(Range(s))
  PROVE  /\ Operations(s) \in Seq(Range(s)) /\ Len(Operations(s)) \in Nat
         /\ Range(Operations(s)) = {x \in Range(s) : IsOp(x)}
         /\ s = <<>> => Operations(s) = <<>>
<1>1. Operations(s) \in Seq(Range(s)) /\ Range(Operations(s)) = {x \in Range(s) : IsOp(x)}
  BY SelectedMembers DEF Operations
<1>2. s = <<>> => Operations(s) = <<>>
  BY SelectedNone DEF Operations
<1> QED BY <1>1, <1>2

-----------------------------------------------------------------------------
(* Steps that build nothing.                                               *)

\* What depends on the copies only.
LEMMA SameCopy ==
  ASSUME UNCHANGED <<program, copy>>
  PROVE  /\ Blocks' = Blocks /\ Ops' = Ops /\ Regions' = Regions /\ FrameSet' = FrameSet
         /\ \A b : Count(b)' = Count(b)
         /\ \A r : Complete(r)' <=> Complete(r)
         /\ \A r : Untouched(r)' <=> Untouched(r)
         /\ \A o : WasRebuilt(o)' <=> WasRebuilt(o)
         /\ \A f : Worklist(f)' <=> Worklist(f)
         /\ CountInv' <=> CountInv
         /\ ItemsInv' <=> ItemsInv
<1>1. Blocks' = Blocks /\ Ops' = Ops /\ Regions' = Regions /\ FrameSet' = FrameSet
  BY DEF Blocks, Ops, Regions, FrameSet
<1>2. \A b : Kept(b)' = Kept(b)
  BY DEF Kept
<1>3. \A b : Count(b)' = Count(b)
  BY <1>2 DEF Count
<1>4. \A r : Complete(r)' <=> Complete(r)
  BY <1>3 DEF Complete
<1>5. \A r : Untouched(r)' <=> Untouched(r)
  BY DEF Untouched
<1>6. \A o : WasRebuilt(o)' <=> WasRebuilt(o)
  BY <1>1, <1>3 DEF WasRebuilt
<1>7. \A f : Worklist(f)' <=> Worklist(f)
  BY <1>3, <1>5 DEF Worklist
<1>8. CountInv' <=> CountInv
  BY <1>1, <1>2, <1>3 DEF CountInv
<1>9. ItemsInv' <=> ItemsInv
  <2>1. \A e : Converted(e)' <=> Converted(e)
    BY <1>1 DEF Converted
  <2>2. \A x : IsWanted(x)' <=> IsWanted(x)
    BY DEF IsWanted
  <2>3. \A s : Added(s)' <=> Added(s)
    BY DEF Added
  <2> QED BY <1>1, <1>6, <2>1, <2>2, <2>3 DEF ItemsInv
<1> QED BY <1>1, <1>3, <1>4, <1>5, <1>6, <1>7, <1>8, <1>9

\* One frame changes, but not its region.
Rewritten(fs, k, gs) ==
  /\ Len(gs) = Len(fs) /\ gs[k].region = fs[k].region
  /\ \A j \in 1..Len(fs) : j # k => gs[j] = fs[j]

LEMMA RewrittenFrames ==
  ASSUME RebuildShape, FrameInv, NEW k \in DOMAIN frames, Rewritten(frames, k, frames'),
         frames' \in Seq(FrameSet), UNCHANGED <<program, copy>>, Worklist(frames'[k])
  PROVE  FrameInv' /\ \A r : Framed(r)' <=> Framed(r)
<1>1. /\ DOMAIN frames' = DOMAIN frames
      /\ \A j \in DOMAIN frames : /\ frames'[j].region = frames[j].region
                                  /\ j # k => frames'[j] = frames[j]
  BY DEF Rewritten, RebuildShape
<1>2. \A j \in DOMAIN frames : Worklist(frames'[j])
  BY <1>1 DEF FrameInv
<1>3. ASSUME NEW j \in DOMAIN frames
      PROVE  Worklist(frames[j])'
  <2>1. PICK f : f = frames'[j]
    OBVIOUS
  <2>2. Worklist(f)'
    BY <1>2, <2>1, SameCopy
  <2> QED BY <2>1, <2>2 DEF Worklist
<1>4. FrameInv'
  BY <1>1, <1>3 DEF FrameInv
<1> QED BY <1>1, <1>4 DEF Framed

\* Where the regions are is the same if the frames have the same ones.
LEMMA SamePlaces ==
  ASSUME PlaceInv, UNCHANGED <<program, copy>>, phase = "rebuild", phase' # "prepare",
         \A r : Framed(r)' <=> Framed(r)
  PROVE  PlaceInv'
BY SameCopy DEF PlaceInv

LEMMA UnchangedStep ==
  ASSUME RebuildInv, UNCHANGED rebuildVars
  PROVE  RebuildInv'
<1> USE DEF rebuildVars
<1>1. RebuildShape'
  <2>1. Preparable' <=> Preparable
    BY DEF Preparable, Ops
  <2> QED BY <2>1, SameCopy DEF RebuildInv, RebuildShape
<1>2. FrameInv'
  <2>1. ASSUME NEW k \in DOMAIN frames
        PROVE  Worklist(frames[k])'
    <3>1. PICK f : f = frames'[k]
      OBVIOUS
    <3>2. Worklist(f)'
      BY <3>1, SameCopy DEF RebuildInv, FrameInv
    <3> QED BY <3>1, <3>2 DEF Worklist
  <2> QED BY <2>1 DEF RebuildInv, FrameInv
<1>3. PlaceInv'
  <2>1. \A r : Framed(r)' <=> Framed(r)
    BY DEF Framed
  <2> QED BY <2>1, SameCopy DEF RebuildInv, PlaceInv
<1>4. EndInv'
  BY SameCopy DEF RebuildInv, EndInv
<1> QED BY <1>1, <1>2, <1>3, <1>4, SameCopy DEF RebuildInv

LEMMA InitialRebuild ==
  ASSUME RebuildInit
  PROVE  RebuildInv
<1>1. \A b \in Blocks : copy[b] = <<>> /\ copy[b] \in Seq(Range(copy[b]))
  BY DEF RebuildInit
<1>2. \A b \in Blocks : Kept(b) = <<>> /\ Count(b) = 0
  BY <1>1, OperationsFacts DEF Kept, Count
<1>3. RebuildShape
  BY <1>1 DEF RebuildInit, RebuildShape, Phases
<1>4. \A r \in Regions : Untouched(r)
  <2>1. \A r \in Regions : Range(program.blocks[r]) \subseteq Blocks
    BY <1>3, ModuleFacts, RangeIsIn
  <2> QED BY <1>1, <2>1 DEF Untouched
<1>5. \A o : ~WasRebuilt(o)
  BY <1>2 DEF WasRebuilt
<1>6. \A r : ~Framed(r)
  BY DEF Framed, RebuildInit
<1>7. PlaceInv
  <2>1. \A o \in Ops : \A r \in Range(program.regions[o]) : r \in Regions
    BY <1>3, ModuleFacts DEF Range
  <2> QED BY <1>3, <1>4, <1>5, <1>6, <2>1, ModuleFacts DEF PlaceInv, RebuildInit
<1>8. CountInv
  BY <1>2, <1>3, ModuleFacts DEF CountInv
<1>9. ItemsInv
  <2>1. DOMAIN <<>> = {} /\ Range(<<>>) = {}
    BY DEF Range
  <2>2. Added(<<>>)
    BY <2>1 DEF Added
  <2> QED BY <1>1, <1>5, <2>1, <2>2 DEF ItemsInv
<1>10. FrameInv /\ EndInv
  BY DEF RebuildInit, FrameInv, EndInv
<1> QED BY <1>3, <1>7, <1>8, <1>9, <1>10 DEF RebuildInv

LEMMA PrepareStep ==
  ASSUME RebuildInv, Prepare
  PROVE  RebuildInv'
<1> USE DEF RebuildInv
<1>1. UNCHANGED <<program, copy>> /\ phase = "prepare" /\ body' = body /\ mapped' = mapped
      /\ frames = <<>>
  BY DEF Prepare, RebuildShape
<1>2. Preparable' <=> Preparable
  BY <1>1 DEF Preparable, Ops
<1>3. CountInv' /\ ItemsInv'
  BY <1>1, SameCopy
<1>4. EndInv'
  BY <1>1 DEF EndInv, Prepare
<1>5. Untouched(Top) /\ \A r : ~Framed(r)
  BY <1>1 DEF PlaceInv, Framed
<1>6. CASE Preparable
  <2>1. phase' = "rebuild" /\ frames' = <<Frame(Top)>>
    BY <1>6 DEF Prepare
  <2>2. Frame(Top) \in FrameSet
    BY ModuleFacts DEF Frame, FrameSet
  <2>3. /\ DOMAIN frames' = {1} /\ frames'[1] = Frame(Top) /\ frames' \in Seq(FrameSet)
    <3>1. DOMAIN frames' = 1..1 /\ 1..1 = {1}
      BY <2>1
    <3> QED BY <2>1, <2>2, <3>1
  <2>4. RebuildShape'
    BY <1>1, <1>2, <1>6, <2>1, <2>3, SameCopy DEF RebuildShape, Phases
  <2>5. Frame(Top).region = Top /\ Frame(Top).opened = FALSE
    BY DEF Frame
  <2>6. \A r : Framed(r)' <=> r = Top
    BY <2>3, <2>5 DEF Framed
  <2>7. PlaceInv'
    <3>1. \A o \in Ops : Top \notin Range(program.regions[o])
      BY ModuleFacts, RangeIsIn
    <3> QED BY <1>1, <1>5, <2>1, <2>6, <3>1, SameCopy DEF PlaceInv
  <2>8. FrameInv'
    <3>1. Worklist(Frame(Top))
      BY <1>5, <2>5 DEF Worklist
    <3>2. Worklist(frames'[1])
      BY <2>3, <3>1
    <3>3. Worklist(frames[1])'
      <4>1. PICK f : f = frames'[1]
        OBVIOUS
      <4>2. Worklist(f)'
        BY <1>1, <3>2, <4>1, SameCopy
      <4> QED BY <4>1, <4>2 DEF Worklist
    <3> QED BY <2>3, <3>3 DEF FrameInv
  <2> QED BY <1>3, <1>4, <2>4, <2>7, <2>8
<1>7. CASE ~Preparable
  <2>1. phase' = "refused" /\ frames' = <<>>
    BY <1>1, <1>7 DEF Prepare
  <2>2. RebuildShape'
    BY <1>1, <2>1, SameCopy DEF RebuildShape, Phases
  <2>3. FrameInv' /\ \A r : ~Framed(r)'
    BY <2>1 DEF FrameInv, Framed
  <2>4. PlaceInv'
    BY <1>1, <1>5, <2>1, <2>3, SameCopy DEF PlaceInv
  <2> QED BY <1>3, <1>4, <2>2, <2>3, <2>4
<1> QED BY <1>6, <1>7

\* What a step of the innermost worklist starts from.
LEMMA InnermostFacts ==
  ASSUME RebuildInv, Rebuilding
  PROVE  /\ Len(frames) \in Nat /\ Len(frames) \in DOMAIN frames /\ DOMAIN frames = 1..Len(frames)
         /\ InnerFrame \in FrameSet /\ Worklist(InnerFrame) /\ InnerFrame.region \in Regions
         /\ Range(program.blocks[InnerFrame.region]) \subseteq Blocks
<1>1. Len(frames) \in Nat /\ Len(frames) \in DOMAIN frames /\ DOMAIN frames = 1..Len(frames)
  BY DEF RebuildInv, RebuildShape, Rebuilding
<1>2. InnerFrame \in FrameSet /\ Worklist(InnerFrame) /\ InnerFrame.region \in Regions
  <2>1. InnerFrame \in FrameSet /\ Worklist(InnerFrame)
    <3> HIDE DEF FrameSet, Worklist
    <3> QED BY <1>1 DEF RebuildInv, RebuildShape, FrameInv, InnerFrame
  <2> QED BY <2>1 DEF FrameSet
<1> QED BY <1>1, <1>2, ModuleFacts, RangeIsIn DEF RebuildInv

\* Frames that only rewrite the innermost one.
LEMMA WorklistStep ==
  ASSUME RebuildInv, Rebuilding, UNCHANGED <<program, copy, body>>,
         frames' \in Seq(FrameSet), Rewritten(frames, Len(frames), frames'),
         Worklist(frames'[Len(frames)]), phase' \in {"rebuild", "stuck"},
         \A v \in DOMAIN mapped' : mapped'[v] = program.layout[v]
  PROVE  RebuildInv'
<1> USE DEF RebuildInv
<1>1. FrameInv' /\ \A r : Framed(r)' <=> Framed(r)
  BY InnermostFacts, RewrittenFrames
<1>2. PlaceInv'
  BY <1>1, SamePlaces DEF Rebuilding
<1>3. RebuildShape'
  <2>1. Preparable' <=> Preparable
    BY DEF Preparable, Ops
  <2>2. phase = "rebuild"
    BY DEF Rebuilding
  <2> QED BY <2>1, <2>2, SameCopy DEF RebuildShape, Phases
<1>4. EndInv'
  BY DEF EndInv, Rebuilding
<1> QED BY <1>1, <1>2, <1>3, <1>4, SameCopy

\* The innermost of the frames gs is in a pass over pending.
IsPass(gs, pending) ==
  /\ gs \in Seq(FrameSet) /\ Rewritten(frames, Len(frames), gs)
  /\ gs[Len(frames)].opened /\ gs[Len(frames)].pending = pending

LEMMA InnermostPass ==
  ASSUME RebuildInv, Rebuilding
  PROVE  \A pending \in Seq(Blocks \X (Nat \ {0})), at \in Nat \ {0}, progressed \in BOOLEAN :
           IsPass(Innermost(Pass(InnerFrame.region, pending, at, progressed)), pending)
<1> SUFFICES ASSUME NEW pending \in Seq(Blocks \X (Nat \ {0})), NEW at \in Nat \ {0},
                    NEW progressed \in BOOLEAN
             PROVE  IsPass(Innermost(Pass(InnerFrame.region, pending, at, progressed)), pending)
  OBVIOUS
<1>0. PICK n, fs, r, FS : n = Len(frames) /\ fs = frames /\ r = InnerFrame.region /\ FS = FrameSet
  OBVIOUS
<1>1. n \in DOMAIN fs /\ DOMAIN fs = 1..n /\ n \in Nat /\ fs[n].region = r /\ fs \in Seq(FS)
      /\ Len(fs) = n
  BY <1>0, InnermostFacts DEF InnerFrame, RebuildInv, RebuildShape
<1>2. PICK g : g = Pass(r, pending, at, progressed)
  OBVIOUS
<1>3. g \in FS /\ g.region = r /\ g.opened /\ g.pending = pending
  <2>1. r \in Regions
    BY <1>0, InnermostFacts
  <2> QED BY <1>0, <1>2, <2>1 DEF FrameSet, Pass
<1>4. PICK gs : gs = [fs EXCEPT ![n] = g]
  OBVIOUS
<1>5. gs \in Seq(FS) /\ gs[n] = g /\ Len(gs) = n /\ \A j \in 1..n : j # n => gs[j] = fs[j]
  BY <1>1, <1>3, <1>4
<1>6. gs = Innermost(Pass(InnerFrame.region, pending, at, progressed))
  BY <1>0, <1>2, <1>4 DEF Innermost
<1>7. IsPass(gs, pending)
  BY <1>0, <1>1, <1>3, <1>5 DEF IsPass, Rewritten
<1> QED BY <1>6, <1>7

LEMMA OpenStep ==
  ASSUME RebuildInv, Open
  PROVE  RebuildInv'
<1> DEFINE n == Len(frames)
           f == frames[n]
           blocks == program.blocks[f.region]
           pending == [i \in DOMAIN blocks |-> <<blocks[i], 1>>]
<1>1. /\ Rebuilding /\ ~f.opened /\ UNCHANGED <<program, copy, body>> /\ phase' = phase
      /\ frames' = Innermost(Pass(f.region, pending, 1, FALSE))
  BY DEF Open, InnerFrame
<1>2. n \in Nat /\ n \in DOMAIN frames /\ DOMAIN frames = 1..n /\ f \in FrameSet /\ Worklist(f)
      /\ f.region \in Regions /\ Range(blocks) \subseteq Blocks
  BY <1>1, InnermostFacts DEF InnerFrame
<1>3. blocks \in Seq(Blocks) /\ IsInjective(blocks)
  BY <1>2, ModuleFacts DEF RebuildInv
<1>4. pending \in Seq(Blocks \X (Nat \ {0})) /\ DOMAIN pending = DOMAIN blocks
      /\ \A i \in DOMAIN blocks : pending[i] = <<blocks[i], 1>>
  <2>1. DOMAIN blocks = 1..Len(blocks) /\ Len(blocks) \in Nat
        /\ \A i \in DOMAIN blocks : blocks[i] \in Blocks
    BY <1>3
  <2> HIDE DEF blocks
  <2> QED BY <2>1
<1> HIDE DEF pending
<1>5. frames' \in Seq(FrameSet) /\ Rewritten(frames, n, frames')
      /\ frames'[n].region = f.region /\ frames'[n].opened /\ frames'[n].pending = pending
  <2>1. IsPass(frames', pending)
    <3>1. 1 \in Nat \ {0} /\ FALSE \in BOOLEAN
      OBVIOUS
    <3>2. frames' = Innermost(Pass(InnerFrame.region, pending, 1, FALSE))
      BY <1>1 DEF InnerFrame
    <3> QED BY <1>1, <1>4, <3>1, <3>2, InnermostPass
  <2> QED BY <2>1 DEF IsPass, Rewritten
<1>6. Worklist(frames'[n])
  <2>1. Untouched(f.region)
    BY <1>1, <1>2 DEF Worklist
  <2>2. \A b \in Range(blocks) : Count(b) = 0
    <3>1. \A b \in Range(blocks) : copy[b] = <<>> /\ b \in Blocks
      BY <1>2, <2>1 DEF Untouched
    <3>2. \A b \in Range(blocks) : Operations(copy[b]) = <<>>
      BY <3>1, OperationsFacts DEF RebuildInv, RebuildShape
    <3> QED BY <3>2 DEF Count, Kept
  <2>3. PICK g : g = frames'[n]
    OBVIOUS
  <2>4. g.region = f.region /\ g.opened /\ g.pending = pending
    BY <1>5, <2>3
  <2>5. \A b \in Range(blocks) : \E i \in DOMAIN blocks : blocks[i] = b
    BY DEF Range
  <2>6. \A i \in DOMAIN blocks : blocks[i] \in Range(blocks)
    BY DEF Range
  <2>7. Worklist(g)
    <3>1. \A i, j \in DOMAIN pending : pending[i][1] = pending[j][1] => i = j
      BY <1>3, <1>4 DEF IsInjective
    <3>2. \A i \in DOMAIN pending :
            /\ pending[i][1] \in Range(blocks)
            /\ pending[i][2] = Count(pending[i][1]) + 1
      BY <1>4, <2>2, <2>6
    <3>3. \A b \in Range(blocks) : \E i \in DOMAIN pending : pending[i][1] = b
      BY <1>4, <2>5
    <3> QED BY <2>4, <3>1, <3>2, <3>3 DEF Worklist
  <2> QED BY <2>3, <2>7
<1>7. \A v \in DOMAIN mapped' : mapped'[v] = program.layout[v]
  BY DEF Open, RebuildInv, RebuildShape
<1> QED BY <1>1, <1>5, <1>6, <1>7, WorklistStep DEF Rebuilding

LEMMA LeaveBlockStep ==
  ASSUME RebuildInv, LeaveBlock
  PROVE  RebuildInv'
<1> DEFINE n == Len(frames)
           f == frames[n]
<1>1. /\ Rebuilding /\ f.opened /\ UNCHANGED <<program, phase, mapped, copy, body>>
      /\ frames' = Innermost(Pass(f.region, f.pending, f.at + 1, f.progressed))
  BY DEF LeaveBlock, InPass, InnerFrame
<1>2. f \in FrameSet /\ Worklist(f)
  BY <1>1, InnermostFacts DEF InnerFrame
<1>3. f.pending \in Seq(Blocks \X (Nat \ {0})) /\ f.at + 1 \in Nat \ {0} /\ f.progressed \in BOOLEAN
  BY <1>2 DEF FrameSet
<1>4. /\ frames' \in Seq(FrameSet) /\ Rewritten(frames, n, frames')
      /\ frames'[n].region = f.region /\ frames'[n].opened /\ frames'[n].pending = f.pending
  <2>1. IsPass(frames', f.pending)
    <3>1. frames' = Innermost(Pass(InnerFrame.region, f.pending, f.at + 1, f.progressed))
      BY <1>1 DEF InnerFrame
    <3> QED BY <1>1, <1>3, <3>1, InnermostPass
  <2> QED BY <2>1 DEF IsPass, Rewritten
<1>5. Worklist(frames'[n])
  <2>1. PICK g : g = frames'[n]
    OBVIOUS
  <2>3. PICK h : h = f
    OBVIOUS
  <2>4. g.region = h.region /\ g.opened /\ h.opened /\ g.pending = h.pending /\ Worklist(h)
    BY <1>1, <1>2, <1>4, <2>1, <2>3
  <2>2. Worklist(g)
    BY <2>4 DEF Worklist
  <2> QED BY <2>1, <2>2
<1>6. \A v \in DOMAIN mapped' : mapped'[v] = program.layout[v]
  BY <1>1 DEF RebuildInv, RebuildShape
<1> QED BY <1>1, <1>4, <1>5, <1>6, WorklistStep DEF Rebuilding

\* What a selection of the pending entries keeps is what is unfinished.
LEMMA EndPassStep ==
  ASSUME RebuildInv, EndPass
  PROVE  RebuildInv'
<1> USE DEF RebuildInv
<1> DEFINE n == Len(frames)
           f == frames[n]
           left == Selected(f.pending, Unfinished(f))
           E == Blocks \X (Nat \ {0})
<1>1. /\ Rebuilding /\ f.opened /\ UNCHANGED <<program, mapped, copy, body>> /\ InnerFrame = f
      /\ IF left = <<>> THEN frames' = Front(frames) /\ phase' = phase
         ELSE /\ frames' = Innermost(Pass(InnerFrame.region, left, 1, FALSE))
              /\ phase' \in {"rebuild", "stuck"}
  BY DEF EndPass, InnerFrame, Rebuilding
<1>2. /\ n \in Nat /\ n \in DOMAIN frames /\ DOMAIN frames = 1..n /\ f \in FrameSet /\ Worklist(f)
      /\ Range(program.blocks[f.region]) \subseteq Blocks
  BY <1>1, InnermostFacts
<1>3. f.pending \in Seq(E)
  BY <1>2 DEF FrameSet
<1>4. /\ \A i, j \in DOMAIN f.pending : f.pending[i][1] = f.pending[j][1] => i = j
      /\ \A i \in DOMAIN f.pending : /\ f.pending[i][1] \in Range(program.blocks[f.region])
                                     /\ f.pending[i][2] = Count(f.pending[i][1]) + 1
      /\ \A b \in Range(program.blocks[f.region]) :
           \/ Count(b) = Len(program.ops[b])
           \/ \E i \in DOMAIN f.pending : f.pending[i][1] = b
  <2> HIDE DEF f
  <2> QED BY <1>1, <1>2 DEF Worklist
<1>5. left \in Seq(E) /\ Range(left) = Range(f.pending) \cap Unfinished(f) /\ IsInjective(left)
  <2>1. IsInjective(f.pending)
    <3> HIDE DEF f
    <3> QED BY <1>4 DEF IsInjective
  <2> HIDE DEF f
  <2> QED BY <1>3, <2>1, SelectedMembers
<1>6. \A i \in DOMAIN f.pending :
        f.pending[i] \notin Range(left) =>
          Count(f.pending[i][1]) = Len(program.ops[f.pending[i][1]])
  <2> TAKE i \in DOMAIN f.pending
  <2> HAVE f.pending[i] \notin Range(left)
  <2>1. f.pending[i] \in Range(f.pending)
    <3> HIDE DEF f
    <3> QED BY DEF Range
  <2>2. ~(f.pending[i][2] <= Len(program.ops[f.pending[i][1]]))
    <3> HIDE DEF f, left
    <3> QED BY <1>5, <2>1 DEF Unfinished
  <2>3. f.pending[i][1] \in Blocks
    <3> HIDE DEF f
    <3> QED BY <1>2, <1>4
  <2>4. PICK b : b = f.pending[i][1]
    OBVIOUS
  <2>5. Count(b) \in Nat /\ Count(b) <= Len(program.ops[b]) /\ Len(program.ops[b]) \in Nat
    <3>1. copy[b] \in Seq(Range(copy[b])) /\ program.ops[b] \in Seq(Ops)
      BY <2>3, <2>4, ModuleFacts DEF RebuildShape
    <3> QED BY <2>3, <2>4, <3>1, OperationsFacts DEF CountInv, Count, Kept
  <2>6. f.pending[i][2] = Count(b) + 1
    <3> HIDE DEF f
    <3> QED BY <1>4, <2>4
  <2> QED
    <3> HIDE DEF f
    <3> QED BY <2>2, <2>4, <2>5, <2>6
<1> HIDE DEF left
<1>7. ASSUME NEW k \in DOMAIN left
      PROVE  \E i \in DOMAIN f.pending : left[k] = f.pending[i]
  <2>1. left[k] \in Range(left)
    BY DEF Range
  <2>2. left[k] \in Range(f.pending)
    <3> HIDE DEF f
    <3> QED BY <1>5, <2>1
  <2> HIDE DEF f
  <2> QED BY <2>2 DEF Range
<1>8. CASE left # <<>>
  <2>1. IsPass(frames', left)
    <3>1. 1 \in Nat \ {0} /\ FALSE \in BOOLEAN
      OBVIOUS
    <3> QED BY <1>1, <1>5, <1>8, <3>1, InnermostPass
  <2>2. frames' \in Seq(FrameSet) /\ Rewritten(frames, n, frames')
        /\ frames'[n].region = f.region /\ frames'[n].opened /\ frames'[n].pending = left
    BY <2>1 DEF IsPass, Rewritten
  <2>3. PICK g : g = frames'[n]
    OBVIOUS
  <2>4. Worklist(g)
    <3>1. g.region = f.region /\ g.opened /\ g.pending = left
      BY <2>2, <2>3
    <3> HIDE DEF f
    <3>2. \A i, j \in DOMAIN left : left[i][1] = left[j][1] => i = j
      BY <1>4, <1>5, <1>7 DEF IsInjective
    <3>3. \A i \in DOMAIN left : left[i][1] \in Range(program.blocks[f.region])
                                 /\ left[i][2] = Count(left[i][1]) + 1
      BY <1>4, <1>7
    <3>4. \A b \in Range(program.blocks[f.region]) :
            \/ Count(b) = Len(program.ops[b])
            \/ \E i \in DOMAIN left : left[i][1] = b
      BY <1>4, <1>6 DEF Range
    <3> QED BY <3>1, <3>2, <3>3, <3>4 DEF Worklist
  <2>5. \A v \in DOMAIN mapped' : mapped'[v] = program.layout[v]
    BY <1>1 DEF RebuildShape
  <2>6. UNCHANGED <<program, copy, body>> /\ phase' \in {"rebuild", "stuck"}
    BY <1>1, <1>8
  <2> QED BY <1>1, <2>2, <2>3, <2>4, <2>5, <2>6, WorklistStep
<1>9. CASE left = <<>>
  <2>1. frames' = Front(frames) /\ phase' = phase /\ UNCHANGED <<program, mapped, copy, body>>
    BY <1>1, <1>9
  <2>2. /\ frames' \in Seq(FrameSet) /\ Len(frames') = n - 1 /\ DOMAIN frames' = 1..(n - 1)
        /\ \A k \in 1..(n - 1) : frames'[k] = frames[k]
    <3>1. PICK FS, fs, gs, m : FS = FrameSet /\ fs = frames /\ gs = frames' /\ m = Len(frames)
      OBVIOUS
    <3>2. fs \in Seq(FS) /\ m = Len(fs) /\ m \in Nat /\ m >= 1 /\ gs = SubSeq(fs, 1, m - 1)
      BY <1>2, <2>1, <3>1 DEF RebuildShape, Front
    <3>3. gs \in Seq(FS) /\ Len(gs) = m - 1 /\ DOMAIN gs = 1..(m - 1)
          /\ \A k \in 1..(m - 1) : gs[k] = fs[k]
      BY <3>2
    <3> QED BY <3>1, <3>3
  <2>3. Complete(f.region)
    <3>1. Range(left) = {}
      BY <1>9 DEF Range
    <3> HIDE DEF f
    <3> QED BY <1>4, <1>6, <3>1 DEF Complete
  <2>4. RebuildShape'
    <3>1. Preparable' <=> Preparable
      BY <2>1 DEF Preparable, Ops
    <3> QED BY <2>1, <2>2, <3>1, <1>1, SameCopy DEF RebuildShape, Rebuilding
  <2>5. \A r : Framed(r) => Framed(r)' \/ r = f.region
    BY <1>2, <2>2 DEF Framed
  <2>6. \A r : Framed(r)' => Framed(r)
    <3>1. \A k \in 1..(n - 1) : k \in 1..n
      BY <1>2
    <3> QED BY <1>2, <2>2, <3>1 DEF Framed
  <2>7. FrameInv'
    <3>1. ASSUME NEW k \in DOMAIN frames'
          PROVE  Worklist(frames[k])' /\ k \in DOMAIN frames
      <4>1. k \in DOMAIN frames /\ frames'[k] = frames[k]
        BY <1>2, <2>2
      <4>2. PICK g : g = frames'[k]
        OBVIOUS
      <4>3. Worklist(g)'
        BY <2>1, <4>1, <4>2, SameCopy DEF FrameInv
      <4> QED BY <4>1, <4>2, <4>3 DEF Worklist
    <3> QED BY <2>2, <3>1 DEF FrameInv
  <2>8. PlaceInv'
    <3>1. phase = "rebuild"
      BY <1>1 DEF Rebuilding
    <3> HIDE DEF f
    <3> QED BY <2>1, <2>3, <2>5, <2>6, <3>1, SameCopy DEF PlaceInv
  <2>9. EndInv'
    BY <2>1, SameCopy DEF EndInv
  <2> QED BY <2>1, <2>4, <2>7, <2>8, <2>9, SameCopy
<1> QED BY <1>8, <1>9

\* When no region is left, every operation has been rebuilt: an operation that
\* is not, with the fewest around it, would be in the module's body or inside of
\* one that is.
LEMMA AllIsRebuilt ==
  ASSUME RebuildInv, phase = "rebuild", frames = <<>>
  PROVE  \A b \in Blocks : Count(b) = Len(program.ops[b])
<1> USE DEF RebuildInv
<1> DEFINE Missing == {x \in Ops : ~WasRebuilt(x)}
           Around == {program.ancestors[x] \cap Ops : x \in Missing}
<1>1. \A r : ~Framed(r)
  BY DEF Framed
<1>2. Complete(Top)
      /\ \A o \in Ops : WasRebuilt(o) => \A r \in Range(program.regions[o]) : Complete(r)
  BY <1>1 DEF PlaceInv
<1>3. ASSUME NEW r \in Regions, Complete(r), NEW b \in Range(program.blocks[r]),
             NEW x \in Range(program.ops[b])
      PROVE  WasRebuilt(x)
  <2>1. b \in Blocks
    BY ModuleFacts, RangeIsIn
  <2>2. program.ops[b] \in Seq(Ops)
    BY <2>1, ModuleFacts
  <2>3. PICK i \in 1..Len(program.ops[b]) : program.ops[b][i] = x
    BY <2>2 DEF Range
  <2> QED BY <1>3, <2>1, <2>3 DEF Complete, WasRebuilt
<1>4. Missing = {}
  <2> SUFFICES ASSUME Missing # {} PROVE FALSE
    OBVIOUS
  <2>1. Around \in SUBSET (SUBSET Ops) /\ Around # {} /\ IsFiniteSet(Ops)
    <3>1. IsFiniteSet(Ops)
      BY ModuleFacts
    <3>2. \A x \in Missing : program.ancestors[x] \cap Ops \in SUBSET Ops
      OBVIOUS
    <3> QED BY <3>1, <3>2
  <2>2. PICK s \in Around : \A t \in Around : t \subseteq s => t = s
    <3> HIDE DEF Around
    <3> QED BY <2>1, MinimalMember
  <2>3. PICK x \in Missing : s = program.ancestors[x] \cap Ops
    OBVIOUS
  <2>4. PICK b \in Blocks : x \in Range(program.ops[b])
    BY ProgramsAssumption DEF RebuildShape, IsTree, Placed, Ops, Blocks
  <2>5. PICK r \in Regions : b \in Range(program.blocks[r])
    BY ProgramsAssumption DEF RebuildShape, IsTree, Placed, Blocks, Regions
  <2>6. r # Top
    BY <1>2, <1>3, <2>3, <2>4, <2>5
  <2>7. PICK o \in Ops : r \in Range(program.regions[o])
    BY <2>6, ProgramsAssumption DEF RebuildShape, IsTree, Placed, Ops, Regions
  <2>8. program.ancestors[x] = program.ancestors[o] \cup {o} /\ o \notin program.ancestors[o]
    BY <2>3, <2>4, <2>5, <2>7, ProgramsAssumption DEF RebuildShape, IsTree, Ops, Blocks
  <2>9. ~WasRebuilt(o)
    BY <1>2, <1>3, <2>3, <2>4, <2>5, <2>7
  <2>10. program.ancestors[o] \cap Ops \in Around
    BY <2>7, <2>9
  <2>11. program.ancestors[o] \cap Ops \subseteq s /\ o \in s /\ o \notin program.ancestors[o]
    BY <2>3, <2>7, <2>8
  <2> HIDE DEF Around
  <2> QED BY <2>2, <2>10, <2>11
<1>5. ASSUME NEW b \in Blocks
      PROVE  Count(b) = Len(program.ops[b])
  <2>1. /\ program.ops[b] \in Seq(Ops) /\ IsInjective(program.ops[b])
        /\ \A c \in Blocks : c # b => Range(program.ops[b]) \cap Range(program.ops[c]) = {}
    BY ModuleFacts
  <2>2. PICK n : n = Len(program.ops[b])
    OBVIOUS
  <2>3. n \in Nat /\ DOMAIN program.ops[b] = 1..n
    BY <2>1, <2>2
  <2>4. \A c \in Blocks : Count(c) \in Nat /\ Count(c) <= Len(program.ops[c])
                          /\ Len(program.ops[c]) \in Nat
                          /\ DOMAIN program.ops[c] = 1..Len(program.ops[c])
    <3> TAKE c \in Blocks
    <3>1. copy[c] \in Seq(Range(copy[c])) /\ program.ops[c] \in Seq(Ops)
      BY ModuleFacts DEF RebuildShape
    <3> QED BY <3>1, OperationsFacts DEF CountInv, Count, Kept
  <2>5. CASE n = 0
    <3>1. PICK k, m : k = Count(b) /\ m = Len(program.ops[b])
      OBVIOUS
    <3>2. k \in Nat /\ k <= m /\ m = 0
      BY <2>2, <2>4, <2>5, <3>1
    <3> QED BY <3>1, <3>2
  <2>6. CASE n # 0
    <3>1. n \in DOMAIN program.ops[b] /\ program.ops[b][n] \in Ops /\ n \in 1..n
      BY <2>1, <2>3, <2>6
    <3>2. WasRebuilt(program.ops[b][n])
      BY <1>4, <3>1
    <3>c. PICK c \in Blocks : \E i \in 1..Count(c) : program.ops[c][i] = program.ops[b][n]
      BY <3>2 DEF WasRebuilt
    <3>3. PICK i \in 1..Count(c) : program.ops[c][i] = program.ops[b][n]
      BY <3>c
    <3>4. i \in DOMAIN program.ops[c]
      BY <2>4, <3>3
    <3>5. c = b
      BY <2>1, <3>1, <3>3, <3>4 DEF Range
    <3>6. i = n
      BY <2>1, <3>1, <3>3, <3>4, <3>5 DEF IsInjective
    <3> QED BY <2>2, <2>4, <3>3, <3>5, <3>6
  <2> QED BY <2>5, <2>6
<1> QED BY <1>5

LEMMA FinishStep ==
  ASSUME RebuildInv, Finish
  PROVE  RebuildInv'
<1> USE DEF RebuildInv
<1>1. /\ phase = "rebuild" /\ frames = <<>> /\ UNCHANGED <<program, frames, mapped, copy>>
      /\ phase' \in {"committed", "refused"}
      /\ (body' = body \/ phase' = "committed")
  BY DEF Finish
<1>2. \A b \in Blocks : Count(b) = Len(program.ops[b])
  BY <1>1, AllIsRebuilt
<1>3. RebuildShape'
  BY <1>1, SameCopy DEF RebuildShape, Phases
<1>4. FrameInv' /\ \A r : Framed(r)' <=> Framed(r)
  BY <1>1 DEF FrameInv, Framed
<1>5. PlaceInv'
  BY <1>1, <1>4, SamePlaces
<1>6. EndInv'
  BY <1>1, <1>2, SameCopy DEF EndInv
<1> QED BY <1>1, <1>3, <1>4, <1>5, <1>6, SameCopy

-----------------------------------------------------------------------------
(* The step that builds an operation.                                      *)

\* o is the next operation of b, and is copied.
Builds(b, o) ==
  /\ phase = "rebuild" /\ b \in Blocks /\ o \in Ops /\ Ready(o)
  /\ Count(b) + 1 \in DOMAIN program.ops[b] /\ program.ops[b][Count(b) + 1] = o
  /\ copy' = [copy EXCEPT ![b] = @ \o Conversions(o) \o <<Rebuilt(o)>>]
  /\ program' = program

\* What is copied of a block.
LEMMA CountFacts ==
  ASSUME RebuildInv, NEW b \in Blocks
  PROVE  /\ Count(b) \in Nat /\ Count(b) <= Len(program.ops[b]) /\ Len(program.ops[b]) \in Nat
         /\ DOMAIN program.ops[b] = 1..Len(program.ops[b]) /\ DOMAIN Kept(b) = 1..Count(b)
         /\ Kept(b) \in Seq(Range(copy[b])) /\ Range(Kept(b)) = {x \in Range(copy[b]) : IsOp(x)}
         /\ \A i \in 1..Count(b) : Kept(b)[i].op = program.ops[b][i]
<1>1. copy[b] \in Seq(Range(copy[b])) /\ program.ops[b] \in Seq(Ops)
  BY ModuleFacts DEF RebuildInv, RebuildShape
<1>2. Kept(b) \in Seq(Range(copy[b])) /\ Range(Kept(b)) = {x \in Range(copy[b]) : IsOp(x)}
  BY <1>1, OperationsFacts DEF Kept
<1>3. PICK k, T : k = Kept(b) /\ T = Range(copy[b])
  OBVIOUS
<1>4. Len(k) \in Nat /\ DOMAIN k = 1..Len(k)
  BY <1>2, <1>3
<1> QED BY <1>1, <1>2, <1>3, <1>4 DEF RebuildInv, CountInv, Count

\* Its block is copied further, the others are as they were.
LEMMA BuiltCopy ==
  ASSUME RebuildInv, NEW b, NEW o, Builds(b, o)
  PROVE  /\ DOMAIN copy' = Blocks /\ \A c \in Blocks : copy'[c] \in Seq(Range(copy'[c]))
         /\ copy'[b] = copy[b] \o Conversions(o) \o <<Rebuilt(o)>>
         /\ \A c \in Blocks :
              c # b => copy'[c] = copy[c] /\ Kept(c)' = Kept(c) /\ Count(c)' = Count(c)
         /\ Kept(b)' = Append(Kept(b), Rebuilt(o)) /\ Count(b)' = Count(b) + 1
         /\ Range(copy'[b]) = Range(copy[b]) \cup Range(Conversions(o)) \cup {Rebuilt(o)}
<1>1. b \in Blocks /\ o \in Ops /\ RebuildShape /\ Preparable /\ Ready(o)
  BY DEF Builds, RebuildInv, RebuildShape
<1>2. DOMAIN copy = Blocks /\ \A c \in Blocks : copy[c] \in Seq(Range(copy[c]))
  BY <1>1 DEF RebuildShape
<1>3. copy' = [copy EXCEPT ![b] = copy[b] \o Conversions(o) \o <<Rebuilt(o)>>]
  BY DEF Builds
<1>4. PICK s, t, x : s = copy[b] /\ t = Conversions(o) /\ x = Rebuilt(o)
  OBVIOUS
<1>5. s \in Seq(Range(s)) /\ t \in Seq(Range(t)) /\ IsOp(x) /\ \A i \in DOMAIN t : ~IsOp(t[i])
  BY <1>1, <1>2, <1>4, ConversionFacts, RebuiltFacts
<1>6. PICK T : T = Range(s) \cup Range(t) \cup {x}
  OBVIOUS
<1>7. s \in Seq(T) /\ t \in Seq(T) /\ x \in T
  <2>1. Range(s) \subseteq T /\ Range(t) \subseteq T /\ x \in T
    BY <1>6
  <2>2. \A i \in 1..Len(s) : s[i] \in T
    BY <1>5, <2>1
  <2>3. \A i \in 1..Len(t) : t[i] \in T
    BY <1>5, <2>1
  <2> QED BY <1>5, <2>1, <2>2, <2>3
<1>8. PICK u : u = s \o t \o <<x>>
  OBVIOUS
<1>9. u \in Seq(T) /\ Range(u) = T
  <2>1. /\ u \in Seq(T) /\ Len(u) = Len(s) + Len(t) + 1 /\ Len(s) \in Nat /\ Len(t) \in Nat
        /\ DOMAIN s = 1..Len(s) /\ DOMAIN t = 1..Len(t) /\ DOMAIN u = 1..(Len(s) + Len(t) + 1)
        /\ (\A i \in 1..Len(s) : u[i] = s[i])
        /\ (\A i \in 1..Len(t) : u[Len(s) + i] = t[i])
        /\ u[Len(s) + Len(t) + 1] = x
    BY <1>7, <1>8
  <2>2. Range(u) \subseteq T
    BY <2>1, RangeIsIn
  <2>3. \A i \in 1..Len(s) : i \in DOMAIN u
    BY <2>1
  <2>4. \A i \in 1..Len(t) : Len(s) + i \in DOMAIN u
    BY <2>1
  <2>5. Len(s) + Len(t) + 1 \in DOMAIN u
    BY <2>1
  <2>6. Range(s) \subseteq Range(u)
    BY <2>1, <2>3 DEF Range
  <2>7. Range(t) \subseteq Range(u)
    <3> SUFFICES ASSUME NEW i \in DOMAIN t PROVE t[i] \in Range(u)
      BY DEF Range
    <3>1. u[Len(s) + i] = t[i] /\ Len(s) + i \in DOMAIN u
      BY <2>1, <2>4
    <3> QED BY <3>1 DEF Range
  <2>8. x \in Range(u)
    BY <2>1, <2>5 DEF Range
  <2> QED BY <1>6, <2>1, <2>2, <2>6, <2>7, <2>8
<1>10. copy'[b] = u /\ DOMAIN copy' = Blocks /\ \A c \in Blocks : c # b => copy'[c] = copy[c]
  BY <1>1, <1>2, <1>3, <1>4, <1>8
<1>11. \A c \in Blocks : copy'[c] \in Seq(Range(copy'[c]))
  BY <1>2, <1>9, <1>10
<1>12. \A c \in Blocks : c # b => Kept(c)' = Kept(c) /\ Count(c)' = Count(c)
  BY <1>10 DEF Kept, Count
<1>13. Operations(u) = Append(Operations(s), x)
  BY <1>5, <1>7, <1>8, OperationsGrow
<1>14. Kept(b)' = Append(Kept(b), Rebuilt(o))
  BY <1>4, <1>10, <1>13 DEF Kept
<1>15. Count(b)' = Count(b) + 1
  <2>1. Kept(b) \in Seq(Range(copy[b]))
    BY <1>1, CountFacts
  <2>2. PICK k, V : k = Kept(b) /\ V = Range(copy[b])
    OBVIOUS
  <2>3. Len(Append(k, x)) = Len(k) + 1
    BY <2>1, <2>2
  <2> QED BY <1>4, <1>14, <2>2, <2>3 DEF Count
<1> QED BY <1>4, <1>6, <1>8, <1>9, <1>10, <1>11, <1>12, <1>14, <1>15

\* It was not there before, and is the one that is now.
LEMMA BuiltOperations ==
  ASSUME RebuildInv, NEW b, NEW o, Builds(b, o)
  PROVE  /\ ~WasRebuilt(o) /\ \A x : WasRebuilt(x)' <=> WasRebuilt(x) \/ x = o
         /\ CountInv' /\ Blocks' = Blocks /\ Ops' = Ops /\ Regions' = Regions
<1>1. b \in Blocks /\ o \in Ops /\ Count(b) + 1 \in DOMAIN program.ops[b]
      /\ program.ops[b][Count(b) + 1] = o /\ program' = program
  BY DEF Builds
<1>2. Blocks' = Blocks /\ Ops' = Ops /\ Regions' = Regions
  BY <1>1 DEF Blocks, Ops, Regions
<1>3. ASSUME WasRebuilt(o)
      PROVE  FALSE
  <2>1. PICK c \in Blocks : \E i \in 1..Count(c) : program.ops[c][i] = o
    BY <1>3 DEF WasRebuilt
  <2>2. PICK i \in 1..Count(c) : program.ops[c][i] = o
    BY <2>1
  <2>3. i \in DOMAIN program.ops[c]
    BY CountFacts
  <2>4. c = b
    <3>1. o \in Range(program.ops[c]) /\ o \in Range(program.ops[b])
      BY <1>1, <2>2, <2>3 DEF Range
    <3> QED BY <1>1, <3>1, ModuleFacts DEF RebuildInv
  <2>5. i = Count(b) + 1
    <3>1. IsInjective(program.ops[b])
      BY <1>1, ModuleFacts DEF RebuildInv
    <3> QED BY <1>1, <2>2, <2>3, <2>4, <3>1 DEF IsInjective
  <2>6. Count(b) \in Nat
    BY <1>1, CountFacts
  <2> QED BY <2>4, <2>5, <2>6
<1>4. \A c \in Blocks : Count(c)' = IF c = b THEN Count(b) + 1 ELSE Count(c)
  BY <1>1, BuiltCopy
<1>5. Count(b) \in Nat /\ 1..(Count(b) + 1) = (1..Count(b)) \cup {Count(b) + 1}
  <2>1. PICK n \in Nat : n = Count(b)
    BY <1>1, CountFacts
  <2>2. 1..(n + 1) = (1..n) \cup {n + 1}
    OBVIOUS
  <2> QED BY <2>1, <2>2
<1>6. ASSUME NEW x
      PROVE  WasRebuilt(x)' <=> WasRebuilt(x) \/ x = o
  <2>1. WasRebuilt(x)' <=> \E c \in Blocks :
           \E i \in 1..(IF c = b THEN Count(b) + 1 ELSE Count(c)) : program.ops[c][i] = x
    BY <1>1, <1>2, <1>4 DEF WasRebuilt
  <2>2. ASSUME WasRebuilt(x)
        PROVE  WasRebuilt(x)'
    <3>1. PICK c \in Blocks : \E i \in 1..Count(c) : program.ops[c][i] = x
      BY <2>2 DEF WasRebuilt
    <3> QED BY <1>5, <2>1, <3>1
  <2>3. ASSUME x = o
        PROVE  WasRebuilt(x)'
    <3>1. Count(b) + 1 \in 1..(Count(b) + 1)
      BY <1>5
    <3> QED BY <1>1, <2>1, <2>3, <3>1
  <2>4. ASSUME WasRebuilt(x)', x # o
        PROVE  WasRebuilt(x)
    <3>1. PICK c \in Blocks :
            \E i \in 1..(IF c = b THEN Count(b) + 1 ELSE Count(c)) : program.ops[c][i] = x
      BY <2>1, <2>4
    <3>2. \E i \in 1..Count(c) : program.ops[c][i] = x
      BY <1>1, <1>5, <2>4, <3>1
    <3> QED BY <3>2 DEF WasRebuilt
  <2> QED BY <2>2, <2>3, <2>4
<1>7. CountInv'
  <2> SUFFICES ASSUME NEW c \in Blocks
               PROVE  /\ Count(c)' <= Len(program.ops[c])
                      /\ \A i \in 1..Count(c)' : Kept(c)'[i].op = program.ops[c][i]
    BY <1>1, <1>2 DEF CountInv
  <2>1. CASE c # b
    <3>1. Count(c)' = Count(c) /\ Kept(c)' = Kept(c)
      BY <2>1, BuiltCopy
    <3>2. Count(c) <= Len(program.ops[c])
          /\ \A i \in 1..Count(c) : Kept(c)[i].op = program.ops[c][i]
      BY CountFacts
    <3> QED BY <3>1, <3>2
  <2>2. CASE c = b
    <3>1. Kept(b)' = Append(Kept(b), Rebuilt(o)) /\ Count(b)' = Count(b) + 1
      BY BuiltCopy
    <3>2. Rebuilt(o).op = o
      BY DEF Rebuilt
    <3>3. PICK k, T, n : k = Kept(b) /\ T = Range(copy[b]) /\ n = Count(b)
      OBVIOUS
    <3>4. k \in Seq(T) /\ n = Len(k) /\ n \in Nat /\ \A i \in 1..n : k[i].op = program.ops[b][i]
      BY <1>1, <3>3, CountFacts DEF Count
    <3>5. \A i \in 1..n : Append(k, Rebuilt(o))[i] = k[i]
      BY <3>4
    <3>6. Append(k, Rebuilt(o))[n + 1] = Rebuilt(o)
      BY <3>4
    <3>7. \A i \in 1..(n + 1) : i \in 1..n \/ i = n + 1
      BY <3>4
    <3>8. \A i \in 1..(n + 1) : Append(k, Rebuilt(o))[i].op = program.ops[b][i]
      BY <1>1, <3>2, <3>3, <3>4, <3>5, <3>6, <3>7
    <3>9. Count(b) + 1 <= Len(program.ops[b])
      BY <1>1, CountFacts
    <3> QED BY <2>2, <3>1, <3>3, <3>8, <3>9
  <2> QED BY <2>1, <2>2
<1> QED BY <1>2, <1>3, <1>6, <1>7

\* Its conversions come before it, and no others are for it.
LEMMA BuiltItems ==
  ASSUME RebuildInv, NEW b, NEW o, Builds(b, o)
  PROVE  ItemsInv'
<1>1. b \in Blocks /\ o \in Ops /\ RebuildShape /\ Preparable /\ Ready(o) /\ program' = program
      /\ Count(b) + 1 \in DOMAIN program.ops[b] /\ program.ops[b][Count(b) + 1] = o
  BY DEF Builds, RebuildInv, RebuildShape
<1>2. /\ \A c \in Blocks : c # b => copy'[c] = copy[c]
      /\ copy'[b] = copy[b] \o Conversions(o) \o <<Rebuilt(o)>>
      /\ Range(copy'[b]) = Range(copy[b]) \cup Range(Conversions(o)) \cup {Rebuilt(o)}
      /\ Blocks' = Blocks
  BY BuiltCopy, BuiltOperations
<1>3. /\ Conversions(o) \in Seq(Range(Conversions(o))) /\ IsInjective(Conversions(o))
      /\ \A i \in DOMAIN Conversions(o) :
           /\ ~IsOp(Conversions(o)[i]) /\ Conversions(o)[i].for = o
           /\ Conversions(o)[i].encoding # program.layout[Conversions(o)[i].convert]
      /\ \A e \in EdgesOf(o) : \E i \in DOMAIN Conversions(o) :
           Conversions(o)[i].operand = e.operand /\ Conversions(o)[i].encoding = e.target
  BY <1>1, ConversionFacts
<1>4. IsOp(Rebuilt(o)) /\ Rebuilt(o).op = o /\ IsWanted(Rebuilt(o))
  BY <1>1, RebuiltFacts
<1>5. \A c \in Range(Conversions(o)) : ~IsOp(c) /\ c.for = o
  BY <1>3 DEF Range
<1>6. ASSUME NEW c \in Blocks, NEW item \in Range(copy'[c]), IsOp(item)
      PROVE  IsWanted(item)'
  <2>1. IsWanted(item)
    BY <1>2, <1>4, <1>5, <1>6 DEF RebuildInv, ItemsInv
  <2> QED BY <1>1, <2>1 DEF IsWanted
<1>7. Added(copy'[b])
  <2>1. PICK s, t, x : s = copy[b] /\ t = Conversions(o) /\ x = Rebuilt(o)
    OBVIOUS
  <2>2. PICK T : T = Range(s) \cup Range(t) \cup {x}
    OBVIOUS
  <2>3. s \in Seq(Range(s)) /\ t \in Seq(Range(t)) /\ Added(s)
    BY <1>1, <1>3, <2>1 DEF RebuildInv, RebuildShape, ItemsInv
  <2>4. s \in Seq(T) /\ t \in Seq(T) /\ x \in T
    <3>1. Range(s) \subseteq T /\ Range(t) \subseteq T /\ x \in T
      BY <2>2
    <3>2. \A i \in 1..Len(s) : s[i] \in T
      BY <2>3, <3>1
    <3>3. \A i \in 1..Len(t) : t[i] \in T
      BY <2>3, <3>1
    <3> QED BY <2>3, <3>1, <3>2, <3>3
  <2>5. \A i \in DOMAIN s : ~IsOp(s[i]) => s[i].for # o
    <3> SUFFICES ASSUME NEW i \in DOMAIN s, ~IsOp(s[i]), s[i].for = o
                 PROVE  FALSE
      OBVIOUS
    <3>1. PICK k \in i + 1..Len(s) : IsOp(s[k]) /\ s[k].op = s[i].for
      BY <2>3 DEF Added
    <3>2. k \in DOMAIN s
      BY <2>3
    <3>3. s[k] \in Range(Kept(b))
      <4>1. s[k] \in Range(s)
        BY <3>2 DEF Range
      <4> QED BY <1>1, <2>1, <3>1, <4>1, CountFacts
    <3>4. PICK j \in 1..Count(b) : Kept(b)[j] = s[k]
      BY <1>1, <3>3, CountFacts DEF Range
    <3>5. program.ops[b][j] = o
      BY <1>1, <3>1, <3>4, CountFacts
    <3>6. WasRebuilt(o)
      BY <1>1, <3>5 DEF WasRebuilt
    <3> QED BY <3>6, BuiltOperations
  <2>6. IsOp(x) /\ x.op = o /\ IsInjective(t)
        /\ \A i \in DOMAIN t : ~IsOp(t[i]) /\ t[i].for = o
                               /\ t[i].encoding # program.layout[t[i].convert]
    BY <1>3, <1>4, <2>1
  <2>7. Added(s \o t \o <<x>>)
    BY <2>3, <2>4, <2>5, <2>6, AddedGrows
  <2> QED BY <1>2, <2>1, <2>7
<1>8. ASSUME NEW c \in Blocks
      PROVE  Added(copy[c])'
  <2>1. Added(copy'[c])
    BY <1>2, <1>7 DEF RebuildInv, ItemsInv
  <2>2. PICK s : s = copy'[c]
    OBVIOUS
  <2>3. Added(s)'
    BY <1>1, <2>1, <2>2 DEF Added
  <2> QED BY <2>2, <2>3 DEF Added
<1>9. ASSUME NEW e \in Range(program.edges), WasRebuilt(e.op)'
      PROVE  Converted(e)'
  <2>1. CASE e.op = o
    <3>1. e \in EdgesOf(o)
      BY <2>1 DEF EdgesOf
    <3>2. PICK i \in DOMAIN Conversions(o) :
            Conversions(o)[i].operand = e.operand /\ Conversions(o)[i].encoding = e.target
      BY <1>3, <3>1
    <3>3. Conversions(o)[i] \in Range(copy'[b])
      BY <1>2 DEF Range
    <3> QED BY <1>1, <1>2, <1>3, <2>1, <3>2, <3>3 DEF Converted
  <2>2. CASE e.op # o
    <3>1. WasRebuilt(e.op)
      BY <1>9, <2>2, BuiltOperations
    <3>2. Converted(e)
      BY <3>1 DEF RebuildInv, ItemsInv
    <3>3. \A c \in Blocks : Range(copy[c]) \subseteq Range(copy'[c])
      BY <1>2
    <3> QED BY <1>1, <1>2, <3>2, <3>3 DEF Converted
  <2> QED BY <2>1, <2>2
<1> QED BY <1>1, <1>2, <1>6, <1>8, <1>9 DEF ItemsInv

\* The regions a step does not build in are as they were.
LEMMA BuiltElsewhere ==
  ASSUME RebuildInv, NEW b, NEW o, Builds(b, o), NEW r \in Regions,
         b \notin Range(program.blocks[r])
  PROVE  /\ Complete(r)' <=> Complete(r)
         /\ Untouched(r)' <=> Untouched(r)
         /\ \A f : f.region = r => (Worklist(f)' <=> Worklist(f))
<1>1. program' = program
  BY DEF Builds
<1>2. \A c \in Range(program.blocks[r]) : Count(c)' = Count(c) /\ copy'[c] = copy[c]
  <2>1. \A c \in Range(program.blocks[r]) : c \in Blocks /\ c # b
    BY ModuleFacts, RangeIsIn DEF RebuildInv
  <2> QED BY <2>1, BuiltCopy
<1>3. Complete(r)' <=> Complete(r)
  BY <1>1, <1>2 DEF Complete
<1>4. Untouched(r)' <=> Untouched(r)
  BY <1>1, <1>2 DEF Untouched
<1>5. ASSUME NEW f, f.region = r
      PROVE  Worklist(f)' <=> Worklist(f)
  <2>1. CASE f.opened
    <3>1. \A c \in Range(program.blocks[f.region]) : Count(c)' = Count(c)
      BY <1>2, <1>5
    <3> QED BY <1>1, <2>1, <3>1 DEF Worklist
  <2>2. CASE ~f.opened
    BY <1>4, <1>5, <2>2 DEF Worklist
  <2> QED BY <2>1, <2>2
<1> QED BY <1>3, <1>4, <1>5

\* g is f, an operation further in block b.
Follows(f, g, b) ==
  /\ f.opened /\ g.opened /\ g.region = f.region /\ f.region \in Regions /\ Worklist(f)
  /\ f.pending \in Seq(Blocks \X (Nat \ {0}))
  /\ \E at \in DOMAIN f.pending :
       /\ f.pending[at][1] = b
       /\ g.pending = [f.pending EXCEPT ![at] = <<b, f.pending[at][2] + 1>>]

\* The frame in hand follows the operation it has built.
LEMMA BuiltWorklist ==
  ASSUME RebuildInv, NEW b, NEW o, Builds(b, o), NEW f, NEW g, Follows(f, g, b)
  PROVE  Worklist(g)'
<1> DEFINE blocks == Range(program.blocks[f.region])
<1>a. /\ f.opened /\ g.opened /\ g.region = f.region /\ f.region \in Regions /\ Worklist(f)
      /\ f.pending \in Seq(Blocks \X (Nat \ {0}))
  BY DEF Follows
<1>b. PICK at \in DOMAIN f.pending :
        /\ f.pending[at][1] = b
        /\ g.pending = [f.pending EXCEPT ![at] = <<b, f.pending[at][2] + 1>>]
  BY DEF Follows
<1>1. program' = program
  BY DEF Builds
<1>2. /\ \A i, j \in DOMAIN f.pending : f.pending[i][1] = f.pending[j][1] => i = j
      /\ \A i \in DOMAIN f.pending :
           f.pending[i][1] \in blocks /\ f.pending[i][2] = Count(f.pending[i][1]) + 1
      /\ \A c \in blocks : \/ Count(c) = Len(program.ops[c])
                           \/ \E i \in DOMAIN f.pending : f.pending[i][1] = c
  BY <1>a DEF Worklist
<1>3. blocks \subseteq Blocks /\ b \in Blocks
  BY <1>a, ModuleFacts, RangeIsIn DEF RebuildInv, Builds
<1>4. Count(b)' = Count(b) + 1 /\ \A c \in blocks : c # b => Count(c)' = Count(c)
  BY <1>3, BuiltCopy
<1>5. /\ DOMAIN g.pending = DOMAIN f.pending
      /\ g.pending[at] = <<b, f.pending[at][2] + 1>>
      /\ \A i \in DOMAIN f.pending : i # at => g.pending[i] = f.pending[i]
  <2>1. PICK p : p = f.pending
    OBVIOUS
  <2> QED BY <1>b, <2>1
<1>6. \A i \in DOMAIN f.pending : g.pending[i][1] = f.pending[i][1]
  BY <1>5, <1>b
<1>7. \A i \in DOMAIN f.pending : g.pending[i][2] = Count(f.pending[i][1])' + 1
  <2> TAKE i \in DOMAIN f.pending
  <2>1. CASE i = at
    BY <1>2, <1>4, <1>5, <1>b, <2>1
  <2>2. CASE i # at
    <3>1. f.pending[i][1] # b /\ f.pending[i][1] \in blocks
      BY <1>2, <1>b, <2>2
    <3>2. Count(f.pending[i][1])' = Count(f.pending[i][1])
      <4>1. PICK c : c = f.pending[i][1]
        OBVIOUS
      <4> QED BY <1>4, <3>1, <4>1
    <3> QED BY <1>2, <1>5, <2>2, <3>2
  <2> QED BY <2>1, <2>2
<1>8. \A c \in blocks : \/ Count(c)' = Len(program.ops[c])
                        \/ \E i \in DOMAIN f.pending : f.pending[i][1] = c
  BY <1>2, <1>4, <1>b
<1>9. Worklist(g)' <=>
        /\ \A i, j \in DOMAIN g.pending : g.pending[i][1] = g.pending[j][1] => i = j
        /\ \A i \in DOMAIN g.pending :
             /\ g.pending[i][1] \in blocks
             /\ g.pending[i][2] = Count(g.pending[i][1])' + 1
        /\ \A c \in blocks : \/ Count(c)' = Len(program.ops[c])
                             \/ \E i \in DOMAIN g.pending : g.pending[i][1] = c
  BY <1>1, <1>a DEF Worklist
<1>10. \A i \in DOMAIN g.pending :
             /\ g.pending[i][1] \in blocks
             /\ g.pending[i][2] = Count(g.pending[i][1])' + 1
  BY <1>2, <1>5, <1>6, <1>7
<1> HIDE DEF blocks
<1> QED BY <1>2, <1>5, <1>6, <1>8, <1>9, <1>10

\* Frames of a list of regions, the last region first.
InnerFrames(R) == Reverse([i \in DOMAIN R |-> Frame(R[i])])

LEMMA InnerFramesFacts ==
  ASSUME NEW R \in Seq(Regions)
  PROVE  /\ InnerFrames(R) \in Seq(FrameSet)
         /\ \A i \in DOMAIN InnerFrames(R) : InnerFrames(R)[i].opened = FALSE
         /\ {InnerFrames(R)[i].region : i \in DOMAIN InnerFrames(R)} = Range(R)
         /\ IsInjective(R) => \A i, j \in DOMAIN InnerFrames(R) :
                                InnerFrames(R)[i].region = InnerFrames(R)[j].region => i = j
<1> DEFINE m == Len(R)
           s == [i \in DOMAIN R |-> Frame(R[i])]
<1>1. m \in Nat /\ DOMAIN R = 1..m /\ \A i \in 1..m : R[i] \in Regions
  OBVIOUS
<1>2. \A r \in Regions : Frame(r) \in FrameSet /\ Frame(r).region = r /\ Frame(r).opened = FALSE
  BY DEF Frame, FrameSet
<1>3. s \in Seq(FrameSet) /\ Len(s) = m /\ \A i \in 1..m : s[i] = Frame(R[i])
  <2> HIDE DEF m
  <2>1. \A i \in 1..m : Frame(R[i]) \in FrameSet
    BY <1>1, <1>2
  <2>2. PICK FS : FS = FrameSet
    OBVIOUS
  <2> QED BY <1>1, <2>1, <2>2
<1> HIDE DEF m, s
<1>4. InnerFrames(R) = [i \in 1..m |-> s[(m - i) + 1]]
  BY <1>3 DEF InnerFrames, Reverse, s
<1>5. \A i \in 1..m : (m - i) + 1 \in 1..m
  BY <1>1
<1>6. DOMAIN InnerFrames(R) = 1..m /\ \A i \in 1..m : InnerFrames(R)[i] = Frame(R[(m - i) + 1])
  BY <1>3, <1>4, <1>5
<1>7. \A i \in 1..m : InnerFrames(R)[i] \in FrameSet /\ InnerFrames(R)[i].opened = FALSE
                      /\ InnerFrames(R)[i].region = R[(m - i) + 1]
  BY <1>1, <1>2, <1>5, <1>6
<1>8. InnerFrames(R) \in Seq(FrameSet)
  <2>1. PICK FS, t : FS = FrameSet /\ t = InnerFrames(R)
    OBVIOUS
  <2>2. t = [i \in 1..m |-> t[i]] /\ \A i \in 1..m : t[i] \in FS
    BY <1>4, <1>7, <2>1
  <2> QED BY <1>1, <2>1, <2>2
<1>9. {InnerFrames(R)[i].region : i \in DOMAIN InnerFrames(R)} = Range(R)
  <2>1. ASSUME NEW r \in Range(R)
        PROVE  \E i \in 1..m : InnerFrames(R)[i].region = r
    <3>1. PICK j \in 1..m : R[j] = r
      BY <1>1 DEF Range
    <3>2. (m - j) + 1 \in 1..m /\ (m - ((m - j) + 1)) + 1 = j
      BY <1>1
    <3>3. InnerFrames(R)[(m - j) + 1].region = R[(m - ((m - j) + 1)) + 1]
      BY <1>7, <3>2
    <3> QED BY <3>1, <3>2, <3>3
  <2>2. \A i \in 1..m : InnerFrames(R)[i].region \in Range(R)
    BY <1>1, <1>5, <1>7 DEF Range
  <2> QED BY <1>6, <2>1, <2>2
<1>10. ASSUME IsInjective(R), NEW i \in 1..m, NEW j \in 1..m,
              InnerFrames(R)[i].region = InnerFrames(R)[j].region
       PROVE  i = j
  <2>1. (m - i) + 1 = (m - j) + 1
    BY <1>1, <1>5, <1>7, <1>10 DEF IsInjective
  <2> QED BY <1>1, <2>1
<1> QED BY <1>6, <1>7, <1>8, <1>9, <1>10

\* What a step that builds an operation does.
LEMMA BuildingFacts ==
  ASSUME RebuildInv, RebuildOperation
  PROVE  LET n == Len(frames)
             f == frames[n]
             b == f.pending[f.at][1]
             o == program.ops[b][Count(b) + 1]
         IN  /\ f.at \in DOMAIN f.pending /\ f.opened /\ b \in Range(program.blocks[f.region])
             /\ Count(b) + 1 <= Len(program.ops[b])
             /\ Builds(b, o) /\ phase' = "rebuild" /\ body' = body /\ mapped' = MappedAfter(o)
             /\ frames' =
                  Innermost(Pass(f.region, [f.pending EXCEPT ![f.at] =
                                              <<b, f.pending[f.at][2] + 1>>], f.at, TRUE))
                    \o InnerFrames(program.regions[o])
<1> DEFINE n == Len(frames)
           f == frames[n]
           b == f.pending[f.at][1]
           o == program.ops[b][Count(b) + 1]
<1>1. Rebuilding /\ f.opened /\ f.at <= Len(f.pending) /\ InnerFrame = f
      /\ Entry = f.pending[f.at] /\ NextIsReady
  BY DEF RebuildOperation, InPass, InnerFrame, Entry
<1>2. f \in FrameSet /\ Worklist(f) /\ Range(program.blocks[f.region]) \subseteq Blocks
  BY <1>1, InnermostFacts
<1>3. f.at \in DOMAIN f.pending
  <2>1. f.pending \in Seq(Blocks \X (Nat \ {0})) /\ f.at \in Nat \ {0}
    <3> HIDE DEF f
    <3> QED BY <1>2 DEF FrameSet
  <2> QED BY <1>1, <2>1
<1>4. b \in Range(program.blocks[f.region]) /\ f.pending[f.at][2] = Count(b) + 1
  <2> HIDE DEF f
  <2> QED BY <1>1, <1>2, <1>3 DEF Worklist
<1>5. b \in Blocks /\ Count(b) \in Nat
  BY <1>2, <1>4, CountFacts
<1>6. Entry[1] = b /\ Entry[2] = Count(b) + 1 /\ program.ops[Entry[1]][Entry[2]] = o
  BY <1>1, <1>4
<1>7. Count(b) + 1 <= Len(program.ops[b]) /\ Ready(o)
  BY <1>1, <1>6 DEF NextIsReady
<1>8. Count(b) + 1 \in DOMAIN program.ops[b] /\ o \in Ops
  <2>1. PICK k, c : k = Count(b) /\ c = b
    OBVIOUS
  <2>2. k \in Nat /\ k + 1 <= Len(program.ops[c]) /\ c \in Blocks
    <3> HIDE DEF b
    <3> QED BY <1>5, <1>7, <2>1
  <2>3. program.ops[c] \in Seq(Ops)
    BY <2>2, ModuleFacts DEF RebuildInv
  <2>4. k + 1 \in DOMAIN program.ops[c] /\ program.ops[c][k + 1] \in Ops
    BY <2>2, <2>3
  <2> QED
    <3> HIDE DEF b
    <3> QED BY <2>1, <2>4
<1>9. ~Mismatched(o)
  <2>1. phase = "rebuild" /\ RebuildShape
    BY <1>1 DEF Rebuilding, RebuildInv
  <2> QED BY <1>7, <1>8, <2>1, RebuiltFacts DEF RebuildShape
<1> HIDE DEF o, b, f
<1>10. /\ program' = program /\ body' = body /\ phase' = phase
       /\ frames' = Innermost(Pass(f.region, [f.pending EXCEPT ![f.at] =
                                                <<b, Entry[2] + 1>>], f.at, TRUE))
                      \o InnerFrames(program.regions[o])
       /\ mapped' = MappedAfter(o)
       /\ copy' = [copy EXCEPT ![b] = @ \o Conversions(o) \o <<Rebuilt(o)>>]
  <2>1. program.ops[Entry[1]][Entry[2]] = o /\ Entry[1] = b
    BY <1>6
  <2> QED BY <1>1, <1>9, <2>1 DEF RebuildOperation, InnerFrames
<1>11. Builds(b, o)
  BY <1>1, <1>5, <1>7, <1>8, <1>10 DEF Builds, Rebuilding, o
<1> QED BY <1>1, <1>3, <1>4, <1>7, <1>10, <1>11 DEF Rebuilding, b, o, f

LEMMA ConcatenationFacts ==
  ASSUME NEW S, NEW s \in Seq(S), NEW t \in Seq(S)
  PROVE  /\ Len(s) \in Nat /\ Len(t) \in Nat /\ s \o t \in Seq(S)
         /\ DOMAIN s = 1..Len(s) /\ DOMAIN t = 1..Len(t) /\ DOMAIN (s \o t) = 1..(Len(s) + Len(t))
         /\ \A j \in 1..Len(s) : (s \o t)[j] = s[j]
         /\ \A j \in 1..Len(t) : (s \o t)[Len(s) + j] = t[j]
OBVIOUS

LEMMA UpdateFacts ==
  ASSUME NEW S, NEW s \in Seq(S), NEW e \in S, NEW i \in DOMAIN s
  PROVE  [s EXCEPT ![i] = e] \in Seq(S)
OBVIOUS

LEMMA RebuildOperationStep ==
  ASSUME RebuildInv, RebuildOperation
  PROVE  RebuildInv'
<1> USE DEF RebuildInv
<1> DEFINE E == Blocks \X (Nat \ {0})
<1>0. PICK n, f, b, o : /\ n = Len(frames) /\ f = frames[n] /\ b = f.pending[f.at][1]
                        /\ o = program.ops[b][Count(b) + 1]
  OBVIOUS
<1>1. PICK pending, R : pending = [f.pending EXCEPT ![f.at] = <<b, f.pending[f.at][2] + 1>>]
                        /\ R = program.regions[o]
  OBVIOUS
<1>2. /\ f.at \in DOMAIN f.pending /\ f.opened /\ b \in Range(program.blocks[f.region])
      /\ Count(b) + 1 <= Len(program.ops[b])
      /\ Builds(b, o) /\ phase' = "rebuild" /\ body' = body /\ mapped' = MappedAfter(o)
      /\ frames' = Innermost(Pass(f.region, pending, f.at, TRUE)) \o InnerFrames(R)
  BY <1>0, <1>1, BuildingFacts
<1>3. Rebuilding /\ InnerFrame = f
  BY <1>0 DEF RebuildOperation, InPass, InnerFrame
<1>4. /\ n \in Nat /\ n \in DOMAIN frames /\ DOMAIN frames = 1..n /\ f \in FrameSet /\ Worklist(f)
      /\ f.region \in Regions /\ frames \in Seq(FrameSet)
  BY <1>0, <1>3, InnermostFacts DEF RebuildShape
<1>5. b \in Blocks /\ o \in Ops /\ program' = program /\ phase = "rebuild"
  BY <1>2 DEF Builds
<1>6. f.pending \in Seq(E) /\ f.at \in Nat \ {0}
  BY <1>4 DEF FrameSet
<1>7. pending \in Seq(E)
  <2>1. f.pending[f.at] \in E /\ f.pending[f.at][2] + 1 \in Nat \ {0}
    BY <1>2, <1>6
  <2>2. PICK S, p, e : S = E /\ p = f.pending /\ e = <<b, f.pending[f.at][2] + 1>>
    OBVIOUS
  <2>3. e \in S
    BY <1>5, <2>1, <2>2
  <2>4. p \in Seq(S) /\ pending = [p EXCEPT ![f.at] = e] /\ f.at \in DOMAIN p
    BY <1>1, <1>2, <1>6, <2>2
  <2>5. pending \in Seq(S)
    BY <2>3, <2>4, UpdateFacts
  <2> QED BY <2>2, <2>5
<1>8. PICK moved : moved = Innermost(Pass(f.region, pending, f.at, TRUE))
  OBVIOUS
<1>9. IsPass(moved, pending)
  BY <1>3, <1>6, <1>7, <1>8, InnermostPass
<1>10. /\ moved \in Seq(FrameSet) /\ Len(moved) = n /\ moved[n].region = f.region
       /\ moved[n].opened /\ moved[n].pending = pending
       /\ \A j \in 1..n : j # n => moved[j] = frames[j]
  BY <1>0, <1>9 DEF IsPass, Rewritten
<1>11. R \in Seq(Regions) /\ IsInjective(R)
  <2>1. R \in Seq(Regions \ {Top}) /\ IsInjective(R)
    BY <1>1, <1>5, ModuleFacts
  <2>2. PICK S : S = Regions
    OBVIOUS
  <2>3. R \in Seq(S \ {Top})
    BY <2>1, <2>2
  <2>4. R \in Seq(S)
    BY <2>3
  <2> QED BY <2>1, <2>2, <2>4
<1>12. PICK nested, m : nested = InnerFrames(R) /\ m = Len(nested)
  OBVIOUS
<1>13. /\ nested \in Seq(FrameSet) /\ \A i \in DOMAIN nested : nested[i].opened = FALSE
       /\ {nested[i].region : i \in DOMAIN nested} = Range(R)
       /\ \A i, j \in DOMAIN nested : nested[i].region = nested[j].region => i = j
  BY <1>11, <1>12, InnerFramesFacts
<1>14. /\ m \in Nat /\ DOMAIN nested = 1..m /\ frames' \in Seq(FrameSet)
       /\ DOMAIN frames' = 1..(n + m)
       /\ \A j \in 1..n : frames'[j] = moved[j]
       /\ \A j \in 1..m : frames'[n + j] = nested[j]
  <2>1. PICK FS, gs : FS = FrameSet /\ gs = frames'
    OBVIOUS
  <2>2. gs = moved \o nested /\ moved \in Seq(FS) /\ nested \in Seq(FS) /\ Len(moved) = n
        /\ m = Len(nested)
    BY <1>2, <1>8, <1>10, <1>12, <1>13, <2>1
  <2>3. /\ Len(nested) \in Nat /\ DOMAIN nested = 1..Len(nested) /\ moved \o nested \in Seq(FS)
        /\ DOMAIN (moved \o nested) = 1..(Len(moved) + Len(nested))
        /\ \A i \in 1..Len(moved) : (moved \o nested)[i] = moved[i]
        /\ \A i \in 1..Len(nested) : (moved \o nested)[Len(moved) + i] = nested[i]
    <3>1. moved \in Seq(FS) /\ nested \in Seq(FS)
      BY <2>2
    <3> QED BY ONLY <3>1, ConcatenationFacts
  <2>4. /\ m \in Nat /\ DOMAIN nested = 1..m /\ gs \in Seq(FS) /\ DOMAIN gs = 1..(n + m)
        /\ \A i \in 1..n : gs[i] = moved[i]
        /\ \A i \in 1..m : gs[n + i] = nested[i]
    BY <2>2, <2>3
  <2> QED BY <2>1, <2>3, <2>4
<1>15. \A j \in 1..(n + m) : j \in 1..n \/ \E i \in 1..m : j = n + i
  <2> TAKE j \in 1..(n + m)
  <2>1. j \in 1..n \/ (j - n \in 1..m /\ j = n + (j - n))
    BY <1>4, <1>14
  <2> QED BY <2>1
<1>16. \A r \in Range(R) : r \in Regions /\ ~Framed(r) /\ Untouched(r) /\ r # f.region
  <2>1. ~WasRebuilt(o)
    BY <1>2, BuiltOperations
  <2>2. \A r \in Range(R) : ~Framed(r) /\ Untouched(r)
    BY <1>1, <1>5, <2>1 DEF PlaceInv
  <2>3. Framed(f.region)
    BY <1>0, <1>4 DEF Framed
  <2> QED BY <1>11, <2>2, <2>3, RangeIsIn
<1>17. \A r \in Regions : r # f.region => b \notin Range(program.blocks[r])
  BY <1>2, <1>4, ModuleFacts
<1>18. \A j \in 1..n : frames'[j].region = frames[j].region
  BY <1>0, <1>10, <1>14
<1>19. \A i \in 1..m : frames'[n + i].region \in Range(R)
  BY <1>13, <1>14
<1>20. \A r : Framed(r)' <=> Framed(r) \/ r \in Range(R)
  <2> TAKE r
  <2>1. ASSUME Framed(r)'
        PROVE  Framed(r) \/ r \in Range(R)
    <3>1. PICK j \in 1..(n + m) : frames'[j].region = r
      BY <1>14, <2>1 DEF Framed
    <3> QED BY <1>4, <1>15, <1>18, <1>19, <3>1 DEF Framed
  <2>2. ASSUME Framed(r)
        PROVE  Framed(r)'
    <3>1. PICK j \in 1..n : frames[j].region = r
      BY <1>4, <2>2 DEF Framed
    <3>2. j \in 1..(n + m)
      BY <1>4, <1>14
    <3> QED BY <1>14, <1>18, <3>1, <3>2 DEF Framed
  <2>3. ASSUME r \in Range(R)
        PROVE  Framed(r)'
    <3>1. PICK i \in 1..m : nested[i].region = r
      BY <1>13, <1>14, <2>3
    <3>2. n + i \in 1..(n + m)
      BY <1>4, <1>14
    <3> QED BY <1>14, <3>1, <3>2 DEF Framed
  <2> QED BY <2>1, <2>2, <2>3
<1>21. FrameInv'
  <2>1. ASSUME NEW j \in 1..(n + m), NEW k \in 1..(n + m), frames'[j].region = frames'[k].region
        PROVE  j = k
    <3>1. \A i \in 1..n : Framed(frames[i].region)
      BY <1>4 DEF Framed
    <3>2. CASE j \in 1..n /\ k \in 1..n
      BY <1>4, <1>18, <2>1, <3>2 DEF FrameInv
    <3>3. CASE \E i, l \in 1..m : j = n + i /\ k = n + l
      BY <1>13, <1>14, <2>1, <3>3
    <3>4. CASE j \in 1..n /\ \E i \in 1..m : k = n + i
      BY <1>16, <1>18, <1>19, <2>1, <3>1, <3>4
    <3>5. CASE k \in 1..n /\ \E i \in 1..m : j = n + i
      BY <1>16, <1>18, <1>19, <2>1, <3>1, <3>5
    <3> QED BY <1>15, <3>2, <3>3, <3>4, <3>5
  <2>2. ASSUME NEW j \in 1..(n + m)
        PROVE  Worklist(frames[j])'
    <3>1. PICK g : g = frames'[j]
      OBVIOUS
    <3>2. CASE j \in 1..n /\ j # n
      <4>1. g = frames[j] /\ g.region \in Regions /\ Worklist(g)
        <5>1. g = frames[j] /\ Worklist(g)
          BY <1>4, <1>10, <1>14, <3>1, <3>2 DEF FrameInv
        <5>2. g \in FrameSet
          BY <1>4, <3>2, <5>1
        <5> QED BY <5>1, <5>2 DEF FrameSet
      <4>2. g.region # f.region
        BY <1>0, <1>4, <3>2, <4>1 DEF FrameInv
      <4>3. Worklist(g)'
        BY <1>2, <1>17, <4>1, <4>2, BuiltElsewhere
      <4> QED BY <3>1, <4>3 DEF Worklist
    <3>3. CASE j = n
      <4>1. g.region = f.region /\ g.opened /\ g.pending = pending
        BY <1>4, <1>10, <1>14, <3>1, <3>3
      <4>3. Follows(f, g, b)
        <5>1. /\ f.pending[f.at][1] = b /\ f.at \in DOMAIN f.pending
              /\ g.pending = [f.pending EXCEPT ![f.at] = <<b, f.pending[f.at][2] + 1>>]
          BY <1>0, <1>1, <1>2, <4>1
        <5> QED BY <1>2, <1>4, <1>6, <4>1, <5>1 DEF Follows
      <4>2. Worklist(g)'
        BY <1>2, <4>3, BuiltWorklist
      <4> QED BY <3>1, <4>2 DEF Worklist
    <3>4. CASE \E i \in 1..m : j = n + i
      <4>1. g.region \in Range(R) /\ g.opened = FALSE
        BY <1>13, <1>14, <1>19, <3>1, <3>4
      <4>2. Worklist(g) /\ g.region \in Regions /\ g.region # f.region
        BY <1>16, <4>1 DEF Worklist
      <4>3. Worklist(g)'
        BY <1>2, <1>17, <4>2, BuiltElsewhere
      <4> QED BY <3>1, <4>3 DEF Worklist
    <3> QED BY <1>15, <3>2, <3>3, <3>4
  <2> QED BY <1>14, <2>1, <2>2 DEF FrameInv
<1>22. \A r \in Regions : Complete(r) => b \notin Range(program.blocks[r])
  <2>1. ~(Count(b) = Len(program.ops[b]))
    <3>1. PICK k, l : k = Count(b) /\ l = Len(program.ops[b])
      OBVIOUS
    <3>2. k \in Nat /\ l \in Nat /\ k + 1 <= l
      BY <1>2, <1>5, <3>1, CountFacts
    <3> QED BY <3>1, <3>2
  <2> QED BY <2>1 DEF Complete
<1>23. \A r \in Regions : Complete(r) => Complete(r)'
  BY <1>2, <1>22, BuiltElsewhere
<1>24. PlaceInv'
  <2>1. Framed(Top)' \/ Complete(Top)'
    BY <1>5, <1>20, <1>23, ModuleFacts DEF PlaceInv
  <2>2. ASSUME NEW x \in Ops, NEW r \in Range(program.regions[x])
        PROVE  IF WasRebuilt(x)' THEN Framed(r)' \/ Complete(r)' ELSE ~Framed(r)' /\ Untouched(r)'
    <3>1. r \in Regions
      BY ModuleFacts, RangeIsIn
    <3>2. WasRebuilt(x)' <=> WasRebuilt(x) \/ x = o
      BY <1>2, BuiltOperations
    <3>3. CASE x = o
      BY <1>1, <1>20, <3>2, <3>3
    <3>4. CASE WasRebuilt(x)
      BY <1>20, <1>23, <3>1, <3>2, <3>4 DEF PlaceInv
    <3>5. CASE x # o /\ ~WasRebuilt(x)
      <4>1. ~Framed(r) /\ Untouched(r)
        BY <3>5 DEF PlaceInv
      <4>2. r \notin Range(R)
        BY <1>1, <1>5, <3>5, ModuleFacts
      <4>3. r # f.region
        BY <1>0, <1>4, <4>1 DEF Framed
      <4>4. Untouched(r)'
        BY <1>2, <1>17, <3>1, <4>1, <4>3, BuiltElsewhere
      <4> QED BY <1>20, <3>2, <3>5, <4>1, <4>2, <4>4
    <3> QED BY <3>3, <3>4, <3>5
  <2>3. Ops' = Ops
    BY <1>2, BuiltOperations
  <2> QED BY <1>2, <1>5, <2>1, <2>2, <2>3 DEF PlaceInv
<1>25. RebuildShape'
  <2>1. Preparable' <=> Preparable
    BY <1>5 DEF Preparable, Ops
  <2>2. \A v \in DOMAIN mapped' : mapped'[v] = program.layout[v]
    BY <1>2 DEF MappedAfter, RebuildShape
  <2>3. FrameSet' = FrameSet /\ Blocks' = Blocks
    BY <1>5 DEF FrameSet, Regions, Blocks
  <2>4. DOMAIN copy' = Blocks /\ \A c \in Blocks : copy'[c] \in Seq(Range(copy'[c]))
    BY <1>2, BuiltCopy
  <2> QED BY <1>2, <1>5, <1>14, <2>1, <2>2, <2>3, <2>4 DEF RebuildShape, Phases
<1>26. CountInv' /\ ItemsInv'
  BY <1>2, BuiltOperations, BuiltItems
<1>27. EndInv'
  BY <1>2, <1>5 DEF EndInv
<1> QED BY <1>21, <1>24, <1>25, <1>26, <1>27

-----------------------------------------------------------------------------
(* The theorems.                                                           *)

\* Where every state of rebuilding a module is: the frames of the worklist, what
\* of each block is copied, and the conversions before it.
THEOREM RebuildInductive == RebuildSpec => []RebuildInv
<1>1. RebuildInit => RebuildInv
  BY InitialRebuild
<1>2. RebuildInv /\ [RebuildNext]_rebuildVars => RebuildInv'
  <2> SUFFICES ASSUME RebuildInv, [RebuildNext]_rebuildVars
               PROVE  RebuildInv'
    OBVIOUS
  <2>1. CASE Prepare
    BY <2>1, PrepareStep
  <2>2. CASE Open
    BY <2>2, OpenStep
  <2>3. CASE LeaveBlock
    BY <2>3, LeaveBlockStep
  <2>4. CASE RebuildOperation
    BY <2>4, RebuildOperationStep
  <2>5. CASE EndPass
    BY <2>5, EndPassStep
  <2>6. CASE Finish
    BY <2>6, FinishStep
  <2>7. CASE UNCHANGED rebuildVars
    BY <2>7, UnchangedStep
  <2> QED BY <2>1, <2>2, <2>3, <2>4, <2>5, <2>6, <2>7 DEF RebuildNext
<1> QED BY <1>1, <1>2, PTL DEF RebuildSpec

\* A solution that verifySolvedLayoutGraph has accepted is enough to rebuild any
\* module: no conversion meets an operand in another encoding than its edge
\* starts from, and what has been copied reads back as the solution.
THEOREM SolutionIsEnough == RebuildSpec => []SolutionSuffices
<1>1. RebuildInv => SolutionSuffices
  <2> SUFFICES ASSUME RebuildInv
               PROVE  SolutionSuffices
    OBVIOUS
  <2>1. phase # "mismatch"
    BY DEF RebuildInv, EndInv
  <2>2. ASSUME NEW b \in Blocks, NEW item \in Range(copy[b]), IsOp(item)
        PROVE  /\ \A i \in DOMAIN item.operands :
                    item.operands[i].encoding = program.wanted[item.op][i]
               /\ \A c \in {x \in program.bindings : x.op = item.op} :
                    DOMAIN c.attrs \subseteq DOMAIN item.attrs
    <3>1. IsWanted(item)
      BY <2>2 DEF RebuildInv, ItemsInv
    <3> QED BY <3>1 DEF IsWanted
  <2>3. ReadsBack
    BY <2>2 DEF ReadsBack
  <2> QED BY <2>1, <2>3 DEF SolutionSuffices
<1> QED BY <1>1, RebuildInductive, PTL

\* The module that replaces the original has its operations, in their order and
\* with their attributes, the bindings, and the selected conversions, each once
\* and before its one consumer: whatever the order the worklist found.
THEOREM RebuildIsFaithful == RebuildSpec => []CommitIsFaithful
<1>1. RebuildInv => CommitIsFaithful
  <2> SUFFICES ASSUME RebuildInv, body = "rebuilt"
               PROVE  CommitIsFaithful
    BY DEF CommitIsFaithful
  <2>1. phase = "committed" /\ RebuildShape /\ \A b \in Blocks : Count(b) = Len(program.ops[b])
    BY DEF RebuildInv, EndInv
  <2>2. ASSUME NEW b \in Blocks
        PROVE  [i \in DOMAIN Kept(b) |-> Kept(b)[i].op] = program.ops[b]
    <3>1. DOMAIN Kept(b) = DOMAIN program.ops[b]
          /\ \A i \in DOMAIN Kept(b) : Kept(b)[i].op = program.ops[b][i]
      BY <2>1, CountFacts
    <3>2. program.ops[b] = [i \in DOMAIN program.ops[b] |-> program.ops[b][i]]
      <4>1. program.ops[b] \in Seq(Ops)
        BY <2>1, ModuleFacts
      <4> QED BY <4>1
    <3> QED BY <3>1, <3>2
  <2>3. ASSUME NEW b \in Blocks, NEW item \in Range(Kept(b))
        PROVE  /\ \A a \in DOMAIN program.attrs[item.op] :
                    item.attrs[a] = program.attrs[item.op][a]
               /\ \A c \in program.bindings :
                    c.op = item.op => \A a \in DOMAIN c.attrs : item.attrs[a] = c.attrs[a]
    <3>1. item \in Range(copy[b]) /\ IsOp(item)
      BY CountFacts
    <3>2. IsWanted(item)
      BY <3>1 DEF RebuildInv, ItemsInv
    <3> QED BY <3>2 DEF IsWanted
  <2>4. \A b \in Blocks : Added(copy[b])
    BY DEF RebuildInv, ItemsInv
  <2>5. ASSUME NEW e \in Range(program.edges)
        PROVE  \E b \in Blocks : \E item \in Range(copy[b]) :
                 /\ ~IsOp(item) /\ item.for = e.op /\ item.operand = e.operand
                 /\ item.encoding = program.wanted[e.op][e.operand]
    <3>1. e.op \in Ops /\ e \in EdgesOf(e.op)
      BY <2>1, ProgramsAssumption DEF RebuildShape, IsSolved, Ops, EdgesOf
    <3>2. e.target = program.wanted[e.op][e.operand]
      BY <2>1, <3>1, EdgeFacts
    <3>3. WasRebuilt(e.op)
      <4>1. PICK b \in Blocks : e.op \in Range(program.ops[b])
        BY <2>1, <3>1, ProgramsAssumption DEF RebuildShape, IsTree, Placed, Ops, Blocks
      <4>2. PICK i \in DOMAIN program.ops[b] : program.ops[b][i] = e.op
        BY <4>1 DEF Range
      <4>3. i \in 1..Count(b)
        BY <2>1, <4>2, CountFacts
      <4> QED BY <4>2, <4>3 DEF WasRebuilt
    <3>4. Converted(e)
      BY <3>3 DEF RebuildInv, ItemsInv
    <3> QED BY <3>2, <3>4 DEF Converted
  <2>6. ASSUME NEW b \in Blocks, NEW i \in {j \in DOMAIN copy[b] : ~IsOp(copy[b][j])}
        PROVE  LET c == copy[b][i]
               IN  /\ \E k \in i + 1..Len(copy[b]) :
                        /\ IsOp(copy[b][k]) /\ copy[b][k].op = c.for
                        /\ \A j \in i + 1..k - 1 : ~IsOp(copy[b][j])
                   /\ c.encoding # program.layout[c.convert]
                   /\ \A j \in DOMAIN copy[b] \ {i} : copy[b][j] # c
    BY <2>4 DEF Added
  <2> QED BY <2>1, <2>2, <2>3, <2>5, <2>6 DEF CommitIsFaithful
<1> QED BY <1>1, RebuildInductive, PTL

-----------------------------------------------------------------------------
(* Materialization: what a worklist is stuck on.                           *)

\* The arguments of the blocks of an open region are mapped, and of an operation
\* that is rebuilt its results and what it captures.
ValuesInv ==
  /\ \A k \in DOMAIN frames : frames[k].opened =>
       \A b \in Range(program.blocks[frames[k].region]) : program.args[b] \subseteq DOMAIN mapped
  /\ \A o \in Ops : WasRebuilt(o) =>
       program.results[o] \subseteq DOMAIN mapped /\ Captures(program, o) \subseteq DOMAIN mapped

\* The next operation of an entry of the worklist, if there is one, is not ready.
Ended(e) == ~(e[2] <= Len(program.ops[e[1]]))
Waits(e) == ~Ready(program.ops[e[1]][e[2]])

\* While a pass has rebuilt nothing, nothing is mapped, and the blocks it has been
\* at are at their end or still wait.
PassInv ==
  /\ \A k \in DOMAIN frames : frames[k].opened /\ ~frames[k].progressed =>
       /\ k = Len(frames)
       /\ \A i \in DOMAIN frames[k].pending :
            i < frames[k].at => Ended(frames[k].pending[i]) \/ Waits(frames[k].pending[i])
  /\ phase = "stuck" =>
       /\ frames # <<>> /\ InnerFrame.opened
       /\ \A i \in DOMAIN InnerFrame.pending :
            ~Ended(InnerFrame.pending[i]) /\ Waits(InnerFrame.pending[i])

StuckInv == RebuildInv /\ ValuesInv /\ PassInv

\* Reachability.
LEMMA ReachFacts ==
  ASSUME NEW p, NEW r, NEW A
  PROVE  /\ Reach(p, r, A) \subseteq Range(p.blocks[r]) \ A
         /\ \A b \in Range(p.blocks[r]) \ A :
              b = p.blocks[r][1] \/ (\E a \in Reach(p, r, A) : b \in p.succ[a])
                => b \in Reach(p, r, A)
         /\ \A B : A \subseteq B => Reach(p, r, B) \subseteq Reach(p, r, A)
         /\ \A R : (\A b \in Range(p.blocks[r]) \ A :
                      b = p.blocks[r][1] \/ (\E a \in R : b \in p.succ[a]) => b \in R)
                     => Reach(p, r, A) \subseteq R
<1> DEFINE all == Range(p.blocks[r])
           Includes(R, S) == \A b \in S :
                               b = p.blocks[r][1] \/ (\E a \in R : b \in p.succ[a]) => b \in R
<1>1. \A B : Reach(p, r, B) =
               {b \in all \ B : \A R \in SUBSET (all \ B) : Includes(R, all \ B) => b \in R}
  BY DEF Reach
<1> HIDE DEF all
<1>2. ASSUME NEW b \in all \ A, b = p.blocks[r][1] \/ (\E a \in Reach(p, r, A) : b \in p.succ[a])
      PROVE  b \in Reach(p, r, A)
  BY <1>1, <1>2
<1>3. ASSUME NEW R, Includes(R, all \ A)
      PROVE  Reach(p, r, A) \subseteq R
  <2>1. R \cap (all \ A) \in SUBSET (all \ A) /\ Includes(R \cap (all \ A), all \ A)
    BY <1>3
  <2> HIDE DEF Includes
  <2>2. Reach(p, r, A) = {b \in all \ A : \A Q \in SUBSET (all \ A) : Includes(Q, all \ A) => b \in Q}
    BY <1>1
  <2>3. \A b \in Reach(p, r, A) : b \in R \cap (all \ A)
    BY <2>1, <2>2
  <2> QED BY <2>3
<1>4. ASSUME NEW B, A \subseteq B
      PROVE  Reach(p, r, B) \subseteq Reach(p, r, A)
  <2>1. ASSUME NEW R \in SUBSET (all \ A), Includes(R, all \ A)
        PROVE  Reach(p, r, B) \subseteq R
    <3>1. PICK Q : Q = R \cap (all \ B)
      OBVIOUS
    <3>2. Q \in SUBSET (all \ B) /\ Includes(Q, all \ B) /\ Q \subseteq R
      BY <1>4, <2>1, <3>1
    <3>3. Reach(p, r, B) \subseteq Q
      <4> HIDE DEF Includes
      <4> QED BY <1>1, <3>2
    <3> QED BY <3>2, <3>3
  <2>2. Reach(p, r, B) \subseteq all \ A
    BY <1>1, <1>4
  <2> HIDE DEF Includes
  <2> QED BY <1>1, <2>1, <2>2
<1>5. Reach(p, r, A) \subseteq all \ A
  BY <1>1
<1> QED BY <1>2, <1>3, <1>4, <1>5 DEF all

\* An operation inside of another is inside of all that the other is inside of:
\* one for which this fails, with the fewest around it, would be at the top or
\* directly inside of one for which it fails.
LEMMA InsideIsTransitive ==
  ASSUME program \in Programs, NEW x \in Ops, NEW y \in Ops \cap program.ancestors[x]
  PROVE  program.ancestors[y] \subseteq program.ancestors[x]
<1> DEFINE Failing == {z \in Ops : \E w \in Ops \cap program.ancestors[z] :
                                     ~(program.ancestors[w] \subseteq program.ancestors[z])}
           Around == {program.ancestors[z] \cap Ops : z \in Failing}
<1>1. Failing = {}
  <2> SUFFICES ASSUME Failing # {} PROVE FALSE
    OBVIOUS
  <2>1. Around \in SUBSET (SUBSET Ops) /\ Around # {} /\ IsFiniteSet(Ops)
    <3>1. IsFiniteSet(Ops)
      BY ProgramsAssumption DEF IsTree, Ops
    <3> QED BY <3>1
  <2>2. PICK s \in Around : \A t \in Around : t \subseteq s => t = s
    <3> HIDE DEF Around
    <3> QED BY <2>1, MinimalMember
  <2>3. PICK z \in Failing : s = program.ancestors[z] \cap Ops
    OBVIOUS
  <2>4. PICK w \in Ops \cap program.ancestors[z] :
          ~(program.ancestors[w] \subseteq program.ancestors[z])
    BY <2>3
  <2>5. PICK b \in Blocks : z \in Range(program.ops[b])
    BY <2>3, ProgramsAssumption DEF IsTree, Placed, Ops, Blocks
  <2>6. PICK r \in Regions : b \in Range(program.blocks[r])
    BY ProgramsAssumption DEF IsTree, Placed, Blocks, Regions
  <2>7. r # Top
    BY <2>4, <2>5, <2>6, ProgramsAssumption DEF IsTree
  <2>8. PICK o \in Ops : r \in Range(program.regions[o])
    BY <2>6, <2>7, ProgramsAssumption DEF IsTree, Placed, Ops, Regions
  <2>9. program.ancestors[z] = program.ancestors[o] \cup {o} /\ o \notin program.ancestors[o]
    BY <2>3, <2>5, <2>6, <2>8, ProgramsAssumption DEF IsTree, Ops, Blocks
  <2>10. o \in Failing
    BY <2>4, <2>8, <2>9
  <2>11. program.ancestors[o] \cap Ops \in Around /\ program.ancestors[o] \cap Ops \subseteq s
         /\ o \in s /\ o \notin program.ancestors[o]
    BY <2>3, <2>8, <2>9, <2>10
  <2> HIDE DEF Around
  <2> QED BY <2>2, <2>11
<1> QED BY <1>1

\* What an operation in a region of o reads from outside of o is a capture of o.
LEMMA CheckedIsCaptured ==
  ASSUME RebuildShape, NEW o \in Ops, NEW r \in Range(program.regions[o]),
         NEW b \in Range(program.blocks[r]), NEW y \in Range(program.ops[b]),
         NEW v \in Checked(program, y), v \notin DefinedInside(program, o)
  PROVE  v \in Captures(program, o)
<1>0. program \in Programs
  BY DEF RebuildShape
<1>1. r \in Regions /\ b \in Blocks /\ y \in Ops
  <2>1. r \in Regions
    BY ModuleFacts, RangeIsIn
  <2>2. b \in Blocks
    BY <2>1, ModuleFacts, RangeIsIn
  <2> QED BY <2>1, <2>2, ModuleFacts, RangeIsIn
<1>2. o \in program.ancestors[y]
  <2>1. IsTree(program)
    BY <1>0, ProgramsAssumption
  <2>2. program.ancestors[y] = program.ancestors[o] \cup {o}
    BY <1>1, <2>1 DEF IsTree, Ops, Blocks
  <2> QED BY <2>2
<1>3. PICK x \in Ops : v \in Range(program.operands[x]) /\ (x = y \/ y \in program.ancestors[x])
  BY <1>1 DEF Checked, ReadAbove, Inside, Ops
<1>4. o \in program.ancestors[x]
  BY <1>0, <1>1, <1>2, <1>3, InsideIsTransitive
<1>5. x \in Inside(program, o) \cap DOMAIN program.operands
  BY <1>3, <1>4 DEF Inside, Ops
<1> QED BY <1>3, <1>5 DEF Captures, ReadAbove

\* A value that a stuck worklist misses, and an operation in a live block has to
\* be dominated by, is not there because a block that dominates it is stuck too.
LEMMA MissingDominator ==
  ASSUME StuckInv, phase = "stuck", NEW i \in DOMAIN InnerFrame.pending,
         InnerFrame.pending[i][1] \in Live(program, InnerFrame.region),
         NEW v \in Checked(program, program.ops[InnerFrame.pending[i][1]][InnerFrame.pending[i][2]]),
         v \notin DOMAIN mapped
  PROVE  \E j \in DOMAIN InnerFrame.pending :
           /\ InnerFrame.pending[j][1] # InnerFrame.pending[i][1]
           /\ Dominates(program, InnerFrame.region, InnerFrame.pending[j][1], InnerFrame.pending[i][1])
<1> USE DEF StuckInv, RebuildInv
<1>0. PICK f, r, b, n : f = InnerFrame /\ r = f.region /\ b = f.pending[i][1] /\ n = f.pending[i][2]
  OBVIOUS
<1>1. /\ program \in Programs /\ f.opened /\ Worklist(f) /\ f = frames[Len(frames)]
      /\ Len(frames) \in DOMAIN frames /\ f \in FrameSet
  <2>1. Len(frames) \in DOMAIN frames
    BY DEF PassInv, RebuildShape
  <2>2. f \in FrameSet /\ Worklist(f)
    <3> HIDE DEF FrameSet, Worklist
    <3> QED BY <1>0, <2>1 DEF RebuildShape, FrameInv, InnerFrame
  <2> QED BY <1>0, <2>1, <2>2 DEF PassInv, RebuildShape, InnerFrame
<1>2. r \in Regions /\ f.pending \in Seq(Blocks \X (Nat \ {0})) /\ Framed(r)
  BY <1>0, <1>1 DEF FrameSet, Framed
<1>3. /\ b \in Range(program.blocks[r]) /\ n = Count(b) + 1
      /\ \A c \in Range(program.blocks[r]) :
           Count(c) = Len(program.ops[c]) \/ \E j \in DOMAIN f.pending : f.pending[j][1] = c
  BY <1>0, <1>1 DEF Worklist
<1>4. Range(program.blocks[r]) \subseteq Blocks
  BY <1>2, ModuleFacts, RangeIsIn
<1>5. n \in DOMAIN program.ops[b]
  <2>1. ~Ended(f.pending[i])
    BY <1>0 DEF PassInv
  <2>2. n <= Len(program.ops[b])
    BY <1>0, <2>1 DEF Ended
  <2>3. PICK k, l : k = Count(b) /\ l = Len(program.ops[b])
    OBVIOUS
  <2>4. k \in Nat /\ l \in Nat /\ DOMAIN program.ops[b] = 1..l
    BY <1>3, <1>4, <2>3, CountFacts
  <2> QED BY <1>3, <2>2, <2>3, <2>4
<1>6. \/ \E c \in Range(program.blocks[r]) :
           /\ Dominates(program, r, c, b)
           /\ \/ v \in program.args[c]
              \/ \E m \in DOMAIN program.ops[c] :
                   v \in program.results[program.ops[c][m]] /\ (c = b => m < n)
      \/ /\ r # Top
         /\ \A o \in DOMAIN program.operands :
              r \in Range(program.regions[o]) => v \notin DefinedInside(program, o)
  <2>1. IsSSA(program)
    BY <1>1, ProgramsAssumption
  <2>2. r \in DOMAIN program.blocks /\ b \in Live(program, r)
        /\ v \in Checked(program, program.ops[b][n])
    BY <1>0, <1>2 DEF Regions
  <2> QED BY <1>5, <2>1, <2>2 DEF IsSSA
<1>7. ASSUME NEW c \in Range(program.blocks[r]), NEW m \in DOMAIN program.ops[c],
             v \in program.results[program.ops[c][m]]
      PROVE  ~(m <= Count(c))
  <2>1. SUFFICES ASSUME m <= Count(c) PROVE FALSE
    OBVIOUS
  <2>2. m \in 1..Count(c) /\ program.ops[c][m] \in Ops
    <3>1. c \in Blocks /\ DOMAIN program.ops[c] = 1..Len(program.ops[c])
          /\ Len(program.ops[c]) \in Nat /\ Count(c) \in Nat
      BY <1>4, CountFacts
    <3>2. program.ops[c] \in Seq(Ops)
      BY <3>1, ModuleFacts
    <3> QED BY <2>1, <3>1, <3>2
  <2>3. WasRebuilt(program.ops[c][m])
    BY <1>4, <2>2 DEF WasRebuilt
  <2> QED BY <1>7, <2>2, <2>3 DEF ValuesInv
<1>8. CASE r # Top /\ \A o \in DOMAIN program.operands :
             r \in Range(program.regions[o]) => v \notin DefinedInside(program, o)
  <2>1. PICK o \in Ops : r \in Range(program.regions[o])
    BY <1>1, <1>2, <1>8, ProgramsAssumption DEF IsTree, Placed, Ops, Regions
  <2>2. WasRebuilt(o)
    BY <1>2, <2>1 DEF PlaceInv
  <2>3. v \in Captures(program, o)
    <3>1. program.ops[b][n] \in Range(program.ops[b])
      BY <1>5 DEF Range
    <3>2. v \in Checked(program, program.ops[b][n]) /\ v \notin DefinedInside(program, o)
      BY <1>0, <1>8, <2>1 DEF Ops
    <3> QED BY <1>3, <2>1, <3>1, <3>2, CheckedIsCaptured
  <2> QED BY <2>1, <2>2, <2>3 DEF ValuesInv
<1>9. ASSUME NEW c \in Range(program.blocks[r]), Dominates(program, r, c, b),
             \/ v \in program.args[c]
             \/ \E m \in DOMAIN program.ops[c] :
                  v \in program.results[program.ops[c][m]] /\ (c = b => m < n)
      PROVE  c # b /\ \E j \in DOMAIN f.pending : f.pending[j][1] = c
  <2>1. v \notin program.args[c]
    BY <1>0, <1>1 DEF ValuesInv
  <2>2. PICK m \in DOMAIN program.ops[c] :
          v \in program.results[program.ops[c][m]] /\ (c = b => m < n)
    BY <1>9, <2>1
  <2>3. ~(m <= Count(c))
    BY <1>7, <2>2
  <2>4. PICK k, l : k = Count(c) /\ l = Len(program.ops[c])
    OBVIOUS
  <2>5. k \in Nat /\ l \in Nat /\ m \in 1..l
    BY <1>4, <2>4, CountFacts
  <2>6. c # b
    BY <1>3, <2>2, <2>3, <2>4, <2>5
  <2>7. Count(c) # Len(program.ops[c])
    BY <2>3, <2>4, <2>5
  <2> QED BY <1>3, <2>6, <2>7
<1> QED BY <1>0, <1>6, <1>8, <1>9

\* What a worklist that is stuck leaves.
LEMMA StuckIsDead ==
  ASSUME StuckInv
  PROVE  OnlyDeadCodeIsStuck
<1> SUFFICES ASSUME phase = "stuck" PROVE OnlyDeadCodeIsStuck
  BY DEF OnlyDeadCodeIsStuck
<1> DEFINE r == InnerFrame.region
           pending == InnerFrame.pending
           stuck == {pending[i][1] : i \in DOMAIN pending}
           reached == Reach(program, r, stuck)
           blocks == Range(program.blocks[r])
           Waiting(e) == ~(Checked(program, program.ops[e[1]][e[2]]) \subseteq DOMAIN mapped)
<1> SUFFICES ASSUME \A e \in Range(pending) : e[1] \in Live(program, r) => Waiting(e)
             PROVE  \A i \in DOMAIN pending : pending[i][1] \notin Live(program, r)
  BY DEF OnlyDeadCodeIsStuck, Range
<1>1. \A i \in DOMAIN pending : pending[i][1] \in Live(program, r) => Waiting(pending[i])
  BY DEF Range
<1>2. ASSUME NEW b \in stuck, b \in Live(program, r)
      PROVE  \E c \in stuck : c # b /\ Dominates(program, r, c, b)
  <2>1. PICK i \in DOMAIN pending : pending[i][1] = b
    OBVIOUS
  <2>2. PICK v \in Checked(program, program.ops[pending[i][1]][pending[i][2]]) : v \notin DOMAIN mapped
    BY <1>1, <1>2, <2>1
  <2>3. \E j \in DOMAIN pending :
           /\ pending[j][1] # pending[i][1]
           /\ Dominates(program, r, pending[j][1], pending[i][1])
    BY <1>2, <2>1, <2>2, MissingDominator
  <2> QED BY <2>1, <2>3
<1> HIDE DEF stuck, reached, r
<1>3. reached \subseteq Live(program, r) /\ reached \subseteq blocks \ stuck
  BY ReachFacts DEF Live, reached
<1>4. ASSUME NEW b \in blocks,
             b = program.blocks[r][1] \/ \E a \in reached : b \in program.succ[a]
      PROVE  b \in reached
  <2>1. CASE b \notin stuck
    BY <1>4, <2>1, ReachFacts DEF reached
  <2>2. CASE b \in stuck
    <3>1. b \in Live(program, r)
      BY <1>3, <1>4, ReachFacts DEF Live
    <3>2. PICK c \in stuck : c # b /\ Dominates(program, r, c, b)
      BY <1>2, <2>2, <3>1
    <3>3. reached \subseteq Reach(program, r, {c})
      BY <3>2, ReachFacts DEF reached
    <3>4. b \in Reach(program, r, {c})
      BY <1>4, <3>2, <3>3, ReachFacts
    <3> QED BY <3>2, <3>4 DEF Dominates
  <2> QED BY <2>1, <2>2
<1>5. Live(program, r) \subseteq reached
  <2>1. \A b \in blocks \ {} :
          b = program.blocks[r][1] \/ (\E a \in reached : b \in program.succ[a]) => b \in reached
    BY <1>4
  <2> HIDE DEF blocks
  <2> QED BY <2>1, ReachFacts DEF Live, blocks
<1>6. \A b \in stuck : b \notin Live(program, r)
  BY <1>3, <1>5
<1> QED BY <1>6 DEF stuck

\* What is known of values stays known.
LEMMA KnownValues ==
  ASSUME ValuesInv, UNCHANGED <<program, copy>>, DOMAIN mapped \subseteq DOMAIN mapped',
         \A k \in DOMAIN frames' :
           \/ ~frames'[k].opened
           \/ k \in DOMAIN frames /\ frames'[k].region = frames[k].region /\ frames[k].opened
           \/ \A b \in Range(program.blocks[frames'[k].region]) :
                program.args[b] \subseteq DOMAIN mapped'
  PROVE  ValuesInv'
<1>1. ASSUME NEW o \in Ops, WasRebuilt(o)'
      PROVE  program.results[o] \subseteq DOMAIN mapped' /\ Captures(program, o) \subseteq DOMAIN mapped'
  BY <1>1, SameCopy DEF ValuesInv
<1>2. Ops' = Ops
  BY DEF Ops
<1>3. ASSUME NEW k \in DOMAIN frames', frames'[k].opened, NEW b \in Range(program.blocks[frames'[k].region])
      PROVE  program.args[b] \subseteq DOMAIN mapped'
  BY <1>3 DEF ValuesInv
<1> QED BY <1>1, <1>2, <1>3 DEF ValuesInv

LEMMA StuckStarts ==
  ASSUME RebuildInit
  PROVE  StuckInv
<1>1. RebuildInv
  BY InitialRebuild
<1>2. frames = <<>> /\ DOMAIN frames = {} /\ phase # "stuck"
  BY DEF RebuildInit
<1>3. \A o : ~WasRebuilt(o)
  <2>1. \A b \in Blocks : Count(b) = 0
    <3>1. \A b \in Blocks : copy[b] = <<>> /\ copy[b] \in Seq(Range(copy[b]))
      BY DEF RebuildInit
    <3> QED BY <3>1, OperationsFacts DEF Kept, Count
  <2> QED BY <2>1 DEF WasRebuilt
<1> QED BY <1>1, <1>2, <1>3 DEF StuckInv, ValuesInv, PassInv

LEMMA StuckStutters ==
  ASSUME StuckInv, UNCHANGED rebuildVars
  PROVE  StuckInv'
<1> USE DEF rebuildVars
<1>1. RebuildInv'
  BY UnchangedStep DEF StuckInv
<1>2. ValuesInv'
  BY KnownValues DEF StuckInv
<1>3. PassInv'
  BY DEF StuckInv, PassInv, Ended, Waits, Ready, InnerFrame
<1> QED BY <1>1, <1>2, <1>3 DEF StuckInv

LEMMA StuckPrepares ==
  ASSUME StuckInv, Prepare
  PROVE  StuckInv'
<1>1. RebuildInv'
  BY PrepareStep DEF StuckInv
<1>2. UNCHANGED <<program, copy, mapped>> /\ phase' # "stuck" /\ frames = <<>>
      /\ (frames' = <<>> \/ frames' = <<Frame(Top)>>)
  BY DEF Prepare, StuckInv, RebuildInv, RebuildShape
<1>3. \A k \in DOMAIN frames' : frames'[k].opened = FALSE
  <2>1. Frame(Top).opened = FALSE
    BY DEF Frame
  <2>2. PICK F : F = Frame(Top)
    OBVIOUS
  <2>3. \A k \in DOMAIN <<F>> : <<F>>[k] = F
    OBVIOUS
  <2> QED BY <1>2, <2>1, <2>2, <2>3
<1>4. ValuesInv'
  BY <1>2, <1>3, KnownValues DEF StuckInv
<1>5. PassInv'
  BY <1>2, <1>3 DEF PassInv
<1> QED BY <1>1, <1>4, <1>5 DEF StuckInv

LEMMA StuckFinishes ==
  ASSUME StuckInv, Finish
  PROVE  StuckInv'
<1>1. RebuildInv'
  BY FinishStep DEF StuckInv
<1>2. UNCHANGED <<program, copy, mapped, frames>> /\ phase' # "stuck"
  BY DEF Finish
<1>3. ValuesInv'
  BY <1>2, KnownValues DEF StuckInv
<1>4. PassInv'
  BY <1>2 DEF StuckInv, PassInv, Ended, Waits, Ready
<1> QED BY <1>1, <1>3, <1>4 DEF StuckInv

\* Frames that are under another one have rebuilt something.
LEMMA OuterProgressed ==
  ASSUME StuckInv, NEW k \in DOMAIN frames, k # Len(frames)
  PROVE  frames[k].opened => frames[k].progressed
BY DEF StuckInv, PassInv

LEMMA StuckOpens ==
  ASSUME StuckInv, Open
  PROVE  StuckInv'
<1>1. RebuildInv'
  BY OpenStep DEF StuckInv
<1>0. PICK n, f, pending : /\ n = Len(frames) /\ f = frames[n]
                           /\ pending = [i \in DOMAIN program.blocks[f.region] |->
                                           <<program.blocks[f.region][i], 1>>]
  OBVIOUS
<1>2. /\ Rebuilding /\ UNCHANGED <<program, copy>> /\ phase' = phase
      /\ frames' = Innermost(Pass(f.region, pending, 1, FALSE))
      /\ mapped' = [v \in DOMAIN mapped \cup UNION {program.args[b] : b \in Range(program.blocks[f.region])} |->
                      IF v \in UNION {program.args[b] : b \in Range(program.blocks[f.region])}
                        THEN program.layout[v] ELSE mapped[v]]
  BY <1>0 DEF Open, InnerFrame
<1>3. n \in Nat /\ n \in DOMAIN frames /\ DOMAIN frames = 1..n
  BY <1>0, <1>2, InnermostFacts DEF StuckInv
<1>4. /\ DOMAIN frames' = 1..n /\ Len(frames') = n
      /\ frames'[n] = Pass(f.region, pending, 1, FALSE)
      /\ \A k \in 1..n : k # n => frames'[k] = frames[k]
  <2>1. PICK g, fs, FS : g = Pass(f.region, pending, 1, FALSE) /\ fs = frames /\ FS = FrameSet
    OBVIOUS
  <2>2. frames' = [fs EXCEPT ![n] = g] /\ fs \in Seq(FS) /\ Len(fs) = n
    BY <1>0, <1>2, <2>1 DEF Innermost, StuckInv, RebuildInv, RebuildShape
  <2>3. DOMAIN frames' = 1..n /\ frames'[n] = g /\ \A k \in 1..n : k # n => frames'[k] = fs[k]
    BY <1>3, <2>1, <2>2
  <2>5. Len(frames') = n
    BY <1>1, <1>3, <2>3 DEF RebuildInv, RebuildShape
  <2> QED BY <2>1, <2>3, <2>5
<1>5. Pass(f.region, pending, 1, FALSE).region = f.region /\ Pass(f.region, pending, 1, FALSE).opened
      /\ Pass(f.region, pending, 1, FALSE).at = 1
      /\ Pass(f.region, pending, 1, FALSE).pending = pending
  BY DEF Pass
<1>6. ValuesInv'
  <2>1. DOMAIN mapped \subseteq DOMAIN mapped'
        /\ \A b \in Range(program.blocks[f.region]) : program.args[b] \subseteq DOMAIN mapped'
    BY <1>2
  <2>2. \A k \in DOMAIN frames' :
           \/ ~frames'[k].opened
           \/ k \in DOMAIN frames /\ frames'[k].region = frames[k].region /\ frames[k].opened
           \/ \A b \in Range(program.blocks[frames'[k].region]) :
                program.args[b] \subseteq DOMAIN mapped'
    BY <1>3, <1>4, <1>5, <2>1
  <2> QED BY <1>2, <2>1, <2>2, KnownValues DEF StuckInv
<1>7. PassInv'
  <2>1. phase' # "stuck"
    BY <1>2 DEF Rebuilding
  <2>2. ASSUME NEW k \in DOMAIN frames', frames'[k].opened, ~frames'[k].progressed
        PROVE  k = n
    BY <1>0, <1>3, <1>4, <2>2, OuterProgressed
  <2>3. \A i \in DOMAIN pending : ~(i < 1)
    <3>1. program.blocks[f.region] \in Seq(Blocks)
      BY <1>0, <1>2, InnermostFacts, ModuleFacts DEF StuckInv, RebuildInv, InnerFrame
    <3> QED BY <1>0, <3>1
  <2> QED BY <1>4, <1>5, <2>1, <2>2, <2>3 DEF PassInv
<1> QED BY <1>1, <1>6, <1>7 DEF StuckInv

LEMMA StuckLeaves ==
  ASSUME StuckInv, LeaveBlock
  PROVE  StuckInv'
<1>1. RebuildInv'
  BY LeaveBlockStep DEF StuckInv
<1>0. PICK n, f : n = Len(frames) /\ f = frames[n]
  OBVIOUS
<1>2. /\ Rebuilding /\ UNCHANGED <<program, phase, copy, mapped>> /\ ~NextIsReady /\ f.opened
      /\ frames' = Innermost(Pass(f.region, f.pending, f.at + 1, f.progressed))
      /\ Entry = f.pending[f.at] /\ InnerFrame = f
  BY <1>0 DEF LeaveBlock, InPass, Entry, InnerFrame
<1>3. n \in Nat /\ n \in DOMAIN frames /\ DOMAIN frames = 1..n /\ f \in FrameSet
  BY <1>0, <1>2, InnermostFacts DEF StuckInv
<1>4. /\ DOMAIN frames' = 1..n /\ Len(frames') = n
      /\ frames'[n] = Pass(f.region, f.pending, f.at + 1, f.progressed)
      /\ \A k \in 1..n : k # n => frames'[k] = frames[k]
  <2>1. PICK g, fs, FS : g = Pass(f.region, f.pending, f.at + 1, f.progressed) /\ fs = frames /\ FS = FrameSet
    OBVIOUS
  <2>2. frames' = [fs EXCEPT ![n] = g] /\ fs \in Seq(FS) /\ Len(fs) = n
    BY <1>0, <1>2, <2>1 DEF Innermost, StuckInv, RebuildInv, RebuildShape
  <2>3. DOMAIN frames' = 1..n /\ frames'[n] = g /\ \A k \in 1..n : k # n => frames'[k] = fs[k]
    BY <1>3, <2>1, <2>2
  <2>5. Len(frames') = n
    BY <1>1, <1>3, <2>3 DEF RebuildInv, RebuildShape
  <2> QED BY <2>1, <2>3, <2>5
<1>5. PICK g : g = frames'[n]
  OBVIOUS
<1>6. g.region = f.region /\ g.opened /\ g.at = f.at + 1 /\ g.pending = f.pending
      /\ g.progressed = f.progressed
  BY <1>4, <1>5 DEF Pass
<1>7. ValuesInv'
  <2>1. \A k \in DOMAIN frames' :
           \/ ~frames'[k].opened
           \/ k \in DOMAIN frames /\ frames'[k].region = frames[k].region /\ frames[k].opened
    BY <1>0, <1>2, <1>3, <1>4, <1>5, <1>6
  <2> QED BY <1>2, <2>1, KnownValues DEF StuckInv
<1>8. PassInv'
  <2>1. phase' # "stuck"
    BY <1>2 DEF Rebuilding
  <2>2. ASSUME NEW k \in DOMAIN frames', frames'[k].opened, ~frames'[k].progressed
        PROVE  k = n
    BY <1>0, <1>3, <1>4, <2>2, OuterProgressed
  <2>3. ASSUME NEW i \in DOMAIN f.pending, i < f.at + 1, ~f.progressed
        PROVE  Ended(f.pending[i]) \/ Waits(f.pending[i])
    <3>1. i \in Nat /\ f.at \in Nat
      BY <1>3 DEF FrameSet
    <3>2. CASE i < f.at
      BY <1>0, <1>2, <1>3, <2>3, <3>2 DEF StuckInv, PassInv
    <3>3. CASE i = f.at
      BY <1>2, <3>3 DEF NextIsReady, Ended, Waits
    <3> QED BY <2>3, <3>1, <3>2, <3>3
  <2>4. \A e : Ended(e)' = Ended(e) /\ Waits(e)' = Waits(e)
    BY <1>2 DEF Ended, Waits, Ready
  <2>5. ASSUME NEW k \in DOMAIN frames', frames'[k].opened, ~frames'[k].progressed,
               NEW i \in DOMAIN frames'[k].pending, i < frames'[k].at
        PROVE  Ended(frames'[k].pending[i]) \/ Waits(frames'[k].pending[i])
    BY <1>5, <1>6, <2>2, <2>3, <2>5
  <2>6. ASSUME NEW k \in DOMAIN frames', frames'[k].opened, ~frames'[k].progressed,
               NEW i \in DOMAIN frames'[k].pending, i < frames'[k].at
        PROVE  (Ended(frames[k].pending[i]) \/ Waits(frames[k].pending[i]))'
    <3>1. PICK e : e = frames'[k].pending[i]
      OBVIOUS
    <3>2. Ended(e)' \/ Waits(e)'
      BY <2>4, <2>5, <2>6, <3>1
    <3> QED BY <3>1, <3>2 DEF Ended, Waits
  <2> QED BY <1>4, <2>1, <2>2, <2>6 DEF PassInv
<1> QED BY <1>1, <1>7, <1>8 DEF StuckInv

LEMMA StuckEndsPass ==
  ASSUME StuckInv, EndPass
  PROVE  StuckInv'
<1>1. RebuildInv'
  BY EndPassStep DEF StuckInv
<1>0. PICK n, f, left : n = Len(frames) /\ f = frames[n] /\ left = Selected(f.pending, Unfinished(f))
  OBVIOUS
<1>2. /\ Rebuilding /\ UNCHANGED <<program, copy, mapped>> /\ f.opened /\ InnerFrame = f
      /\ f.at > Len(f.pending)
      /\ IF left = <<>> THEN frames' = Front(frames) /\ UNCHANGED phase
         ELSE /\ frames' = Innermost(Pass(f.region, left, 1, FALSE))
              /\ phase' = IF f.progressed THEN phase ELSE "stuck"
  BY <1>0 DEF EndPass, InnerFrame, AnotherPass
<1>3. n \in Nat /\ n \in DOMAIN frames /\ DOMAIN frames = 1..n /\ f \in FrameSet /\ Worklist(f)
  BY <1>0, <1>2, InnermostFacts DEF StuckInv
<1>4. f.pending \in Seq(Blocks \X (Nat \ {0})) /\ f.at \in Nat
      /\ \A i \in DOMAIN f.pending : i < f.at
  <2>1. f.pending \in Seq(Blocks \X (Nat \ {0})) /\ f.at \in Nat
    BY <1>3 DEF FrameSet
  <2> QED BY <1>2, <2>1
<1>5. CASE left = <<>>
  <2>1. DOMAIN frames' = 1..(n - 1) /\ Len(frames') = n - 1
        /\ \A k \in 1..(n - 1) : frames'[k] = frames[k]
    <3>1. PICK FS, fs : FS = FrameSet /\ fs = frames
      OBVIOUS
    <3>2. fs \in Seq(FS) /\ n = Len(fs) /\ n \in Nat /\ n >= 1 /\ frames' = SubSeq(fs, 1, n - 1)
      BY <1>0, <1>2, <1>3, <1>5, <3>1 DEF StuckInv, RebuildInv, RebuildShape, Front
    <3> QED BY <3>1, <3>2
  <2>2. \A k \in 1..(n - 1) : k \in DOMAIN frames /\ k # n
    BY <1>3
  <2>3. ValuesInv'
    BY <1>2, <2>1, <2>2, KnownValues DEF StuckInv
  <2>4. phase' # "stuck" /\ \A k \in DOMAIN frames' : frames'[k].opened => frames'[k].progressed
    BY <1>0, <1>2, <1>5, <2>1, <2>2, OuterProgressed DEF Rebuilding
  <2>5. PassInv'
    BY <2>4 DEF PassInv
  <2> QED BY <1>1, <2>3, <2>5 DEF StuckInv
<1>6. CASE left # <<>>
  <2>1. /\ DOMAIN frames' = 1..n /\ Len(frames') = n
        /\ frames'[n] = Pass(f.region, left, 1, FALSE)
        /\ \A k \in 1..n : k # n => frames'[k] = frames[k]
    <3>1. PICK g, fs, FS : g = Pass(f.region, left, 1, FALSE) /\ fs = frames /\ FS = FrameSet
      OBVIOUS
    <3>2. frames' = [fs EXCEPT ![n] = g] /\ fs \in Seq(FS) /\ Len(fs) = n
      BY <1>0, <1>2, <1>6, <3>1 DEF Innermost, StuckInv, RebuildInv, RebuildShape
    <3>3. DOMAIN frames' = 1..n /\ frames'[n] = g /\ \A k \in 1..n : k # n => frames'[k] = fs[k]
      BY <1>3, <3>1, <3>2
    <3>4. Len(frames') = n
      BY <1>1, <1>3, <3>3 DEF RebuildInv, RebuildShape
    <3> QED BY <3>1, <3>3, <3>4
  <2>2. PICK g : g = frames'[n]
    OBVIOUS
  <2>3. g.region = f.region /\ g.opened /\ g.at = 1 /\ g.pending = left
    BY <2>1, <2>2 DEF Pass
  <2>4. ValuesInv'
    <3>1. \A k \in DOMAIN frames' :
             \/ ~frames'[k].opened
             \/ k \in DOMAIN frames /\ frames'[k].region = frames[k].region /\ frames[k].opened
      BY <1>0, <1>2, <1>3, <2>1, <2>2, <2>3
    <3> QED BY <1>2, <3>1, KnownValues DEF StuckInv
  <2>5. left \in Seq(Blocks \X (Nat \ {0})) /\ Range(left) = Range(f.pending) \cap Unfinished(f)
    <3>1. IsInjective(f.pending)
      BY <1>2, <1>3 DEF Worklist, IsInjective
    <3> QED BY <1>0, <1>4, <3>1, SelectedMembers
  <2>6. \A k \in DOMAIN frames' : frames'[k].opened /\ ~frames'[k].progressed => k = n
    BY <1>0, <1>3, <2>1, OuterProgressed
  <2>7. \A i \in DOMAIN left : ~(i < 1)
    BY <2>5
  <2>8. ASSUME phase' = "stuck", NEW i \in DOMAIN left
        PROVE  ~Ended(left[i]) /\ Waits(left[i])
    <3>1. ~f.progressed
      BY <1>2, <1>6, <2>8 DEF Rebuilding
    <3>2. left[i] \in Unfinished(f) /\ left[i] \in Range(f.pending)
      BY <2>5 DEF Range
    <3>3. PICK j \in DOMAIN f.pending : f.pending[j] = left[i]
      BY <3>2 DEF Range
    <3>4. ~Ended(left[i])
      BY <3>2 DEF Ended, Unfinished
    <3>5. Ended(f.pending[j]) \/ Waits(f.pending[j])
      BY <1>0, <1>2, <1>3, <1>4, <3>1 DEF StuckInv, PassInv
    <3> QED BY <3>3, <3>4, <3>5
  <2>9. \A e : Ended(e)' = Ended(e) /\ Waits(e)' = Waits(e)
    BY <1>2 DEF Ended, Waits, Ready
  <2>10. PassInv'
    <3>1. InnerFrame' = g
      BY <2>1, <2>2 DEF InnerFrame
    <3>2. ASSUME phase' = "stuck", NEW i \in DOMAIN g.pending
          PROVE  (~Ended(g.pending[i]) /\ Waits(g.pending[i]))'
      <4>1. PICK e : e = g.pending[i]
        OBVIOUS
      <4>2. ~Ended(e)' /\ Waits(e)'
        BY <2>3, <2>8, <2>9, <3>2, <4>1
      <4> QED BY <4>1, <4>2 DEF Ended, Waits
    <3>3. phase' = "stuck" =>
           /\ frames' # <<>> /\ InnerFrame'.opened
           /\ \A i \in DOMAIN InnerFrame'.pending :
                (~Ended(InnerFrame.pending[i]) /\ Waits(InnerFrame.pending[i]))'
      <4>1. frames' # <<>>
        BY <1>3, <2>1
      <4> QED BY <2>3, <3>1, <3>2, <4>1 DEF Ended, Waits
    <3>4. \A k \in DOMAIN frames' : frames'[k].opened /\ ~frames'[k].progressed =>
            k = Len(frames') /\ \A i \in DOMAIN frames'[k].pending : ~(i < frames'[k].at)
      BY <2>1, <2>2, <2>3, <2>6, <2>7
    <3> QED BY <3>3, <3>4 DEF PassInv
  <2> QED BY <1>1, <2>4, <2>10 DEF StuckInv
<1> QED BY <1>5, <1>6

LEMMA StuckRebuilds ==
  ASSUME StuckInv, RebuildOperation
  PROVE  StuckInv'
<1>1. RebuildInv /\ RebuildInv'
  BY RebuildOperationStep DEF StuckInv
<1>0. PICK n, f, b, o, pending :
        /\ n = Len(frames) /\ f = frames[n] /\ b = f.pending[f.at][1]
        /\ o = program.ops[b][Count(b) + 1]
        /\ pending = [f.pending EXCEPT ![f.at] = <<b, f.pending[f.at][2] + 1>>]
  OBVIOUS
<1>2. /\ f.opened /\ Builds(b, o) /\ phase' = "rebuild" /\ mapped' = MappedAfter(o)
      /\ frames' = Innermost(Pass(f.region, pending, f.at, TRUE)) \o InnerFrames(program.regions[o])
  BY <1>0, <1>1, BuildingFacts
<1>3. /\ n \in Nat /\ n \in DOMAIN frames /\ DOMAIN frames = 1..n /\ frames \in Seq(FrameSet)
      /\ program' = program /\ o \in Ops /\ Ready(o)
  BY <1>0, <1>1, <1>2, InnermostFacts DEF RebuildOperation, InPass, RebuildInv, RebuildShape, Builds
<1>4. PICK nested : nested = InnerFrames(program.regions[o])
  OBVIOUS
<1>5. nested \in Seq(FrameSet) /\ \A i \in DOMAIN nested : nested[i].opened = FALSE
  <2>1. program.regions[o] \in Seq(Regions)
    <3>1. PICK S, R : S = Regions /\ R = program.regions[o]
      OBVIOUS
    <3>2. R \in Seq(S \ {Top})
      BY <1>1, <1>3, <3>1, ModuleFacts DEF RebuildInv
    <3>3. R \in Seq(S)
      BY <3>2
    <3> QED BY <3>1, <3>3
  <2> QED BY <1>4, <2>1, InnerFramesFacts
<1>6. PICK moved, g : g = Pass(f.region, pending, f.at, TRUE) /\ moved = Innermost(g)
  OBVIOUS
<1>7. g.region = f.region /\ g.opened /\ g.progressed
  BY <1>6 DEF Pass
<1>8. /\ DOMAIN moved = 1..n /\ moved[n] = g /\ \A k \in 1..n : k # n => moved[k] = frames[k]
      /\ moved = [k \in 1..n |-> moved[k]]
  <2>1. PICK fs : fs = frames
    OBVIOUS
  <2>2. moved = [fs EXCEPT ![n] = g] /\ DOMAIN fs = 1..n
    BY <1>0, <1>3, <1>6, <2>1 DEF Innermost
  <2> QED BY <1>3, <2>1, <2>2
<1>9. \A k \in DOMAIN frames' :
        \/ k \in 1..n /\ frames'[k] = moved[k]
        \/ frames'[k].opened = FALSE
  <2>1. PICK FS, m : FS = FrameSet \cup {g} /\ m = Len(nested)
    OBVIOUS
  <2>2. moved \in Seq(FS) /\ Len(moved) = n
    <3>1. \A k \in 1..n : frames[k] \in FrameSet
      BY <1>3
    <3>2. \A k \in 1..n : moved[k] \in FS
      BY <1>8, <2>1, <3>1
    <3> QED BY <1>3, <1>8, <3>2
  <2>3. nested \in Seq(FS)
    BY <1>5, <2>1
  <2>4. /\ m \in Nat /\ DOMAIN (moved \o nested) = 1..(n + m)
        /\ DOMAIN nested = 1..m
        /\ \A j \in 1..n : (moved \o nested)[j] = moved[j]
        /\ \A j \in 1..m : (moved \o nested)[n + j] = nested[j]
    <3>1. /\ Len(nested) \in Nat /\ DOMAIN nested = 1..Len(nested)
          /\ DOMAIN (moved \o nested) = 1..(Len(moved) + Len(nested))
          /\ \A j \in 1..Len(moved) : (moved \o nested)[j] = moved[j]
          /\ \A j \in 1..Len(nested) : (moved \o nested)[Len(moved) + j] = nested[j]
      <4>1. moved \in Seq(FS) /\ nested \in Seq(FS)
        BY <2>2, <2>3
      <4> QED BY ONLY <4>1, ConcatenationFacts
    <3> QED BY <2>1, <2>2, <3>1
  <2>5. ASSUME NEW k \in 1..(n + m)
        PROVE  k \in 1..n \/ (k - n \in 1..m /\ k = n + (k - n))
    BY <1>3, <2>4
  <2>6. frames' = moved \o nested
    BY <1>2, <1>4, <1>6
  <2>7. PICK gs : gs = moved \o nested
    OBVIOUS
  <2>8. ASSUME NEW k \in DOMAIN gs
        PROVE  (k \in 1..n /\ gs[k] = moved[k]) \/ gs[k].opened = FALSE
    <3>1. k \in 1..(n + m)
      BY <2>4, <2>7, <2>8
    <3>2. CASE k \in 1..n
      BY <2>4, <2>7, <3>2
    <3>3. CASE k - n \in 1..m /\ k = n + (k - n)
      <4>1. gs[k] = nested[k - n]
        BY <2>4, <2>7, <3>3
      <4>2. k - n \in DOMAIN nested
        BY <2>4, <3>3
      <4> QED BY <1>5, <4>1, <4>2
    <3> QED BY <2>5, <3>1, <3>2, <3>3
  <2> QED BY <2>6, <2>7, <2>8
<1>10. DOMAIN mapped \subseteq DOMAIN mapped' /\ program.results[o] \subseteq DOMAIN mapped'
       /\ Captures(program, o) \subseteq DOMAIN mapped
  BY <1>2, <1>3 DEF MappedAfter, Ready
<1>11. ValuesInv'
  <2>1. ASSUME NEW x \in Ops, WasRebuilt(x)'
        PROVE  program.results[x] \subseteq DOMAIN mapped' /\ Captures(program, x) \subseteq DOMAIN mapped'
    <3>1. WasRebuilt(x) \/ x = o
      BY <1>1, <1>2, <2>1, BuiltOperations
    <3> QED BY <1>10, <3>1 DEF StuckInv, ValuesInv
  <2>2. Ops' = Ops
    BY <1>3 DEF Ops
  <2>3. ASSUME NEW k \in DOMAIN frames', frames'[k].opened,
               NEW c \in Range(program.blocks[frames'[k].region])
        PROVE  program.args[c] \subseteq DOMAIN mapped'
    <3>1. k \in DOMAIN frames /\ frames[k].opened /\ frames'[k].region = frames[k].region
      <4>1. k \in 1..n /\ frames'[k] = moved[k]
        BY <1>9, <2>3
      <4>2. CASE k = n
        <5>1. frames'[k] = g
          BY <1>8, <4>1, <4>2
        <5> QED BY <1>0, <1>2, <1>3, <1>7, <4>2, <5>1
      <4>3. CASE k # n
        BY <1>3, <1>8, <2>3, <4>1, <4>3
      <4> QED BY <4>2, <4>3
    <3> QED BY <1>10, <2>3, <3>1 DEF StuckInv, ValuesInv
  <2> QED BY <1>3, <2>1, <2>2, <2>3 DEF ValuesInv
<1>12. PassInv'
  <2>1. \A k \in DOMAIN frames' : frames'[k].opened => frames'[k].progressed
    BY <1>0, <1>3, <1>7, <1>8, <1>9, OuterProgressed
  <2> QED BY <1>2, <2>1 DEF PassInv
<1> QED BY <1>1, <1>11, <1>12 DEF StuckInv

\* Rebuilding a valid module gives up on dead code only, or on what dead code
\* inside of an operation reads: the property the run checks, for every module,
\* control flow and order of its blocks.
THEOREM DeadCodeOnly == RebuildSpec => []OnlyDeadCodeIsStuck
<1>1. RebuildInit => StuckInv
  BY StuckStarts
<1>2. StuckInv /\ [RebuildNext]_rebuildVars => StuckInv'
  <2> SUFFICES ASSUME StuckInv, [RebuildNext]_rebuildVars
               PROVE  StuckInv'
    OBVIOUS
  <2>1. CASE Prepare
    BY <2>1, StuckPrepares
  <2>2. CASE Open
    BY <2>2, StuckOpens
  <2>3. CASE LeaveBlock
    BY <2>3, StuckLeaves
  <2>4. CASE RebuildOperation
    BY <2>4, StuckRebuilds
  <2>5. CASE EndPass
    BY <2>5, StuckEndsPass
  <2>6. CASE Finish
    BY <2>6, StuckFinishes
  <2>7. CASE UNCHANGED rebuildVars
    BY <2>7, StuckStutters
  <2> QED BY <2>1, <2>2, <2>3, <2>4, <2>5, <2>6, <2>7 DEF RebuildNext
<1>3. StuckInv => OnlyDeadCodeIsStuck
  BY StuckIsDead
<1> QED BY <1>1, <1>2, <1>3, PTL DEF RebuildSpec
==============================================================================
