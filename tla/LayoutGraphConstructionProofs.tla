-------------------- MODULE LayoutGraphConstructionProofs --------------------
(***************************************************************************)
(* The solutions of a finalized graph are the typings of the program, for  *)
(* every program and every order of the names.  In three parts:            *)
(*                                                                         *)
(* finalize() changes IDs and nothing else.  The comparison of constraints *)
(* is a strict total order, so counting predecessors is a permutation, and *)
(* an ID is looked up through the inverse of the permutation that made it. *)
(*                                                                         *)
(* The walk.  Read by names, the graph says exactly what the calls made so *)
(* far say (WalkInv), so that the invariant survives finalize() as well.   *)
(* The calls of an operation are taken one kind of operation at a time.    *)
(*                                                                         *)
(* Solutions.  A solution observes what the calls relate, and an operand   *)
(* arrives with the layout of the one end its use is converted to, so each *)
(* operation accepts it.  Conversely a typing extends to uses, results of  *)
(* functions and storage, one at a time, and becomes a solution.           *)
(***************************************************************************)
EXTENDS LayoutGraphConstruction, FiniteInduction, FiniteSetTheorems, TLAPS

\* The static types of LayoutConstraintGraph.
Constraint == [id : Nat, kind : Range(KindOrder), vars : Seq(Nat), use : Nat \X Nat,
               existing : BOOLEAN, enc : Encodings \cup {NoLayout}]
EdgeKinds == {"none", "ForResult", "ForInit", "ForBackedge", "WhileResult", "WhileInit",
              "WhileBackedge", "WhileCondition", "IfYield"}
RegionEdge == [kind : EdgeKinds, owner : Nat, slot : Nat, source : Nat, target : Nat,
               constraint : Nat, use : Nat \X Nat]
Entity     == ({"value", "storage"} \X Nat) \cup ({"use", "result"} \X Nat \X Nat)
Graph      == [vars : Seq(Entity), cons : Seq(Constraint), edges : SUBSET RegionEdge]

------------------------------------------------------------------------------
StrictTotal(R, S) ==
  /\ \A x \in S : <<x, x>> \notin R
  /\ \A x, y, z \in S : <<x, y>> \in R /\ <<y, z>> \in R => <<x, z>> \in R
  /\ \A x, y \in S : x = y \/ <<x, y>> \in R \/ <<y, x>> \in R
Ranks(R, S) == [x \in S |-> Cardinality({y \in S : <<y, x>> \in R})]

\* Counting predecessors in a strict total order of a finite set numbers it.
LEMMA Ranked ==
  ASSUME NEW S, IsFiniteSet(S), NEW R, StrictTotal(R, S)
  PROVE  Ranks(R, S) \in Bijection(S, 0..(Cardinality(S) - 1))
<1> DEFINE Below(x) == {y \in S : <<y, x>> \in R}
           N == Cardinality(S)
           f == Ranks(R, S)
<1>a. /\ \A x \in S : <<x, x>> \notin R
      /\ \A x, y, z \in S : <<x, y>> \in R /\ <<y, z>> \in R => <<x, z>> \in R
      /\ \A x, y \in S : x = y \/ <<x, y>> \in R \/ <<y, x>> \in R
  BY DEF StrictTotal
<1>b. f = [x \in S |-> Cardinality(Below(x))]
  BY DEF Ranks
<1>. HIDE DEF f
<1>0. N \in Nat
  BY FS_CardinalityType
<1>1. \A x \in S : /\ IsFiniteSet(Below(x)) /\ Cardinality(Below(x)) \in Nat
                   /\ Cardinality(Below(x)) < N
  <2>1. SUFFICES ASSUME NEW x \in S
        PROVE  /\ IsFiniteSet(Below(x)) /\ Cardinality(Below(x)) \in Nat
               /\ Cardinality(Below(x)) < N
    OBVIOUS
  <2>2. Below(x) \in SUBSET S /\ x \notin Below(x)
    BY <1>a
  <2>3. IsFiniteSet(Below(x)) /\ Cardinality(Below(x)) <= N /\ Cardinality(Below(x)) # N
    BY <2>2, FS_Subset
  <2>4. Cardinality(Below(x)) \in Nat
    BY <2>3, FS_CardinalityType
  <2>. HIDE DEF Below, N
  <2>. QED BY <2>3, <2>4, <1>0
<1>2. \A x, y \in S : <<x, y>> \in R => Cardinality(Below(x)) # Cardinality(Below(y))
  <2>1. SUFFICES ASSUME NEW x \in S, NEW y \in S, <<x, y>> \in R
        PROVE  Cardinality(Below(x)) # Cardinality(Below(y))
    OBVIOUS
  <2>2. Below(x) \in SUBSET Below(y)
    BY <1>a, <2>1
  <2>3. x \in Below(y) /\ x \notin Below(x)
    BY <1>a, <2>1
  <2>4. IsFiniteSet(Below(y))
    BY <1>1
  <2>. HIDE DEF Below
  <2>. QED BY <2>2, <2>3, <2>4, FS_Subset
<1>3. f \in [S -> 0..(N - 1)]
  <2>1. \A x \in S : Cardinality(Below(x)) \in 0..(N - 1)
    <3>. HIDE DEF Below, N
    <3>. QED BY <1>0, <1>1
  <2>. HIDE DEF Below, N
  <2>. QED BY <2>1, <1>b
<1>4. \A x, y \in S : f[x] = f[y] => x = y
  <2>1. SUFFICES ASSUME NEW x \in S, NEW y \in S, x # y PROVE f[x] # f[y]
    OBVIOUS
  <2>2. f[x] = Cardinality(Below(x)) /\ f[y] = Cardinality(Below(y))
    BY <1>b
  <2>3. <<x, y>> \in R \/ <<y, x>> \in R
    BY <1>a, <2>1
  <2>. HIDE DEF Below
  <2>. QED BY <2>2, <2>3, <1>2
<1>5. f \in Injection(S, 0..(N - 1))
  BY <1>3, <1>4 DEF Injection, IsInjective
<1>6. IsFiniteSet(0..(N - 1)) /\ Cardinality(0..(N - 1)) = N
  <2>. HIDE DEF N
  <2>. QED BY <1>0, FS_Interval
<1>7. f \in Surjection(S, 0..(N - 1))
  BY <1>5, <1>6, FS_Injection
<1>. QED BY <1>5, <1>7 DEF Bijection, f

\* A nonempty set of numbers up to n has a least element.
LEMMA Least ==
  ASSUME NEW n \in Nat, NEW S \in SUBSET (1..n), S # {}
  PROVE  \E m \in S : \A k \in S : m <= k
<1> DEFINE R == {p \in S \X S : p[1] < p[2]}
           f == Ranks(R, S)
<1>1. IsFiniteSet(S) /\ Cardinality(S) # 0
  <2>1. IsFiniteSet(1..n)
    BY FS_Interval
  <2>2. IsFiniteSet(S)
    BY <2>1, FS_Subset
  <2>. QED BY <2>2, FS_EmptySet
<1>2. \A x, y \in S : <<x, y>> \in R <=> x < y
  OBVIOUS
<1>3. \A x \in S : x \in Nat
  OBVIOUS
<1>4. f \in Bijection(S, 0..(Cardinality(S) - 1))
  <2>. HIDE DEF R
  <2>1. \A x \in S : <<x, x>> \notin R
    BY <1>2, <1>3
  <2>2. \A x, y, z \in S : <<x, y>> \in R /\ <<y, z>> \in R => <<x, z>> \in R
    BY <1>2, <1>3
  <2>3. \A x, y \in S : x = y \/ <<x, y>> \in R \/ <<y, x>> \in R
    <3>1. \A x, y \in S : x = y \/ x < y \/ y < x
      BY <1>3
    <3>. QED BY <1>2, <3>1
  <2>4. StrictTotal(R, S)
    BY <2>1, <2>2, <2>3 DEF StrictTotal
  <2>. QED BY <2>4, <1>1, Ranked
<1>5. 0 \in 0..(Cardinality(S) - 1)
  BY <1>1, FS_CardinalityType
<1>6. PICK m \in S : f[m] = 0
  <2>. HIDE DEF f
  <2>. QED BY <1>4, <1>5 DEF Bijection, Surjection
<1>7. {y \in S : <<y, m>> \in R} = {}
  <2>1. IsFiniteSet({y \in S : <<y, m>> \in R})
    <3>1. {y \in S : <<y, m>> \in R} \in SUBSET S
      OBVIOUS
    <3>. HIDE DEF R
    <3>. QED BY <3>1, <1>1, FS_Subset
  <2>2. Cardinality({y \in S : <<y, m>> \in R}) = 0
    BY <1>6 DEF Ranks
  <2>. HIDE DEF R
  <2>. QED BY <2>1, <2>2, FS_EmptySet
<1>8. \A k \in S : ~ (k < m)
  <2>. HIDE DEF R
  <2>. QED BY <1>2, <1>7
<1>. QED BY <1>3, <1>8
------------------------------------------------------------------------------
\* The lexicographic order of endpoint lists is a strict total order.
LEMMA LexicographicTotal ==
  ASSUME NEW s \in Seq(Nat), NEW t \in Seq(Nat)
  PROVE  s = t \/ Lexicographic(s, t) \/ Lexicographic(t, s)
<1>1. SUFFICES ASSUME s # t PROVE Lexicographic(s, t) \/ Lexicographic(t, s)
  OBVIOUS
<1> DEFINE top == IF Len(s) < Len(t) THEN Len(t) ELSE Len(s)
           agree(k) == k \in 1..Len(s) /\ k \in 1..Len(t) /\ s[k] = t[k]
           D == {k \in 1..top : ~ agree(k)}
<1>2. /\ Len(s) \in Nat /\ DOMAIN s = 1..Len(s) /\ \A k \in 1..Len(s) : s[k] \in Nat
      /\ Len(t) \in Nat /\ DOMAIN t = 1..Len(t) /\ \A k \in 1..Len(t) : t[k] \in Nat
      /\ top \in Nat
  OBVIOUS
<1>3. D # {}
  <2>1. SUFFICES ASSUME \A k \in 1..top : agree(k) PROVE FALSE
    OBVIOUS
  <2>2. Len(s) = Len(t)
    <3>1. CASE Len(s) < Len(t)
      <4>1. Len(t) \in 1..top /\ ~ (Len(t) \in 1..Len(s))
        BY <3>1, <1>2
      <4>. QED BY <4>1, <2>1
    <3>2. CASE Len(t) < Len(s)
      <4>1. Len(s) \in 1..top /\ ~ (Len(s) \in 1..Len(t))
        BY <3>2, <1>2
      <4>. QED BY <4>1, <2>1
    <3>3. Len(s) \in Nat /\ Len(t) \in Nat
      BY <1>2
    <3>. QED BY <3>1, <3>2, <3>3
  <2>3. \A k \in 1..Len(s) : s[k] = t[k]
    BY <2>1, <2>2
  <2>. QED BY <2>2, <2>3, <1>1, <1>2
<1>4. PICK n \in D : \A k \in D : n <= k
  <2>. HIDE DEF agree, top
  <2>. QED BY <1>2, <1>3, Least
<1>5. n \in 1..top /\ ~ agree(n) /\ \A k \in 1..(n - 1) : agree(k)
  <2>1. n \in 1..top /\ ~ agree(n)
    OBVIOUS
  <2>2. ASSUME NEW k \in 1..(n - 1) PROVE agree(k)
    <3>1. k \in 1..top /\ ~ (n <= k)
      BY <2>1, <1>2
    <3>. HIDE DEF agree, top
    <3>. QED BY <3>1, <1>4
  <2>. QED BY <2>1, <2>2
<1>6. CASE n \in 1..Len(s) /\ n \in 1..Len(t)
  <2>1. s[n] < t[n] \/ t[n] < s[n]
    BY <1>2, <1>5, <1>6
  <2>. QED BY <2>1, <1>2, <1>5, <1>6 DEF Lexicographic
<1>7. CASE n \notin 1..Len(s)
  <2>1. n \in 1..Len(t)
    BY <1>2, <1>5, <1>7
  <2>. QED BY <2>1, <1>2, <1>5, <1>7 DEF Lexicographic
<1>8. CASE n \notin 1..Len(t)
  <2>1. n \in 1..Len(s)
    BY <1>2, <1>5, <1>8
  <2>. QED BY <2>1, <1>2, <1>5, <1>8 DEF Lexicographic
<1>. QED BY <1>6, <1>7, <1>8

LEMMA LexicographicIrreflexive ==
  ASSUME NEW s \in Seq(Nat)
  PROVE  ~ Lexicographic(s, s)
<1>1. Len(s) \in Nat /\ DOMAIN s = 1..Len(s) /\ \A k \in 1..Len(s) : s[k] \in Nat
  OBVIOUS
<1>. QED BY <1>1 DEF Lexicographic

LEMMA LexicographicTransitive ==
  ASSUME NEW s \in Seq(Nat), NEW t \in Seq(Nat), NEW u \in Seq(Nat),
         Lexicographic(s, t), Lexicographic(t, u)
  PROVE  Lexicographic(s, u)
<1>1. /\ Len(s) \in Nat /\ DOMAIN s = 1..Len(s) /\ \A k \in 1..Len(s) : s[k] \in Nat
      /\ Len(t) \in Nat /\ DOMAIN t = 1..Len(t) /\ \A k \in 1..Len(t) : t[k] \in Nat
      /\ Len(u) \in Nat /\ DOMAIN u = 1..Len(u) /\ \A k \in 1..Len(u) : u[k] \in Nat
  OBVIOUS
<1>2. PICK n \in 1..Len(t) :
        /\ \A k \in 1..(n - 1) : k \in DOMAIN s /\ s[k] = t[k]
        /\ IF n \in DOMAIN s THEN s[n] < t[n] ELSE TRUE
  BY DEF Lexicographic
<1>3. PICK m \in 1..Len(u) :
        /\ \A k \in 1..(m - 1) : k \in DOMAIN t /\ t[k] = u[k]
        /\ IF m \in DOMAIN t THEN t[m] < u[m] ELSE TRUE
  BY DEF Lexicographic
<1>4. CASE n < m
  <2>1. n \in 1..(m - 1) /\ n \in 1..Len(u) /\ \A k \in 1..(n - 1) : k \in 1..(m - 1)
    BY <1>1, <1>4
  <2>2. t[n] = u[n]
    BY <2>1, <1>3
  <2>3. \A k \in 1..(n - 1) : k \in DOMAIN s /\ s[k] = u[k]
    BY <2>1, <1>2, <1>3
  <2>4. IF n \in DOMAIN s THEN s[n] < u[n] ELSE TRUE
    BY <2>2, <1>2
  <2>. QED BY <2>1, <2>3, <2>4 DEF Lexicographic
<1>5. CASE m < n
  <2>1. m \in 1..(n - 1) /\ m \in 1..Len(t) /\ \A k \in 1..(m - 1) : k \in 1..(n - 1)
    BY <1>1, <1>5
  <2>2. m \in DOMAIN s /\ s[m] = t[m] /\ t[m] < u[m]
    BY <2>1, <1>1, <1>2, <1>3
  <2>3. \A k \in 1..(m - 1) : k \in DOMAIN s /\ s[k] = u[k]
    BY <2>1, <1>2, <1>3
  <2>. QED BY <2>2, <2>3 DEF Lexicographic
<1>6. CASE n = m
  <2>1. n \in 1..Len(u) /\ t[n] < u[n]
    BY <1>1, <1>3, <1>6
  <2>2. \A k \in 1..(n - 1) : k \in DOMAIN s /\ s[k] = u[k]
    BY <1>2, <1>3, <1>6
  <2>3. n \in DOMAIN s => s[n] < u[n]
    <3>1. SUFFICES ASSUME n \in DOMAIN s PROVE s[n] < u[n]
      OBVIOUS
    <3>2. s[n] < t[n] /\ s[n] \in Nat /\ t[n] \in Nat /\ u[n] \in Nat
      BY <3>1, <2>1, <1>1, <1>2
    <3>. QED BY <3>2, <2>1
  <2>. QED BY <2>1, <2>2, <2>3 DEF Lexicographic
<1>7. n \in Nat /\ m \in Nat
  BY <1>1
<1>. QED BY <1>4, <1>5, <1>6, <1>7

\* The enumeration gives every kind a place of its own.
LEMMA KindRanks ==
  /\ \A k \in Range(KindOrder) : KindRank(k) \in Nat
  /\ \A k, l \in Range(KindOrder) : KindRank(k) = KindRank(l) => k = l
<1>1. DOMAIN KindOrder \subseteq Nat
  BY DEF KindOrder
<1>2. ASSUME NEW k \in Range(KindOrder)
      PROVE  KindRank(k) \in DOMAIN KindOrder /\ KindOrder[KindRank(k)] = k
  <2>1. \E n \in DOMAIN KindOrder : KindOrder[n] = k
    BY DEF Range
  <2>. QED BY <2>1 DEF KindRank
<1>. QED BY <1>1, <1>2

\* The comparison of finalize() is a strict total order of constraints.
LEMMA PrecedesIrreflexive ==
  ASSUME NEW c \in Constraint
  PROVE  ~ Precedes(c, c)
<1>1. c.kind \in Range(KindOrder) /\ c.vars \in Seq(Nat) /\ c.id \in Nat
  BY DEF Constraint
<1>. QED BY <1>1, KindRanks, LexicographicIrreflexive DEF Precedes

LEMMA PrecedesTotal ==
  ASSUME NEW c \in Constraint, NEW d \in Constraint, c.id # d.id
  PROVE  Precedes(c, d) \/ Precedes(d, c)
<1>1. c.kind \in Range(KindOrder) /\ c.vars \in Seq(Nat) /\ c.id \in Nat
  BY DEF Constraint
<1>2. d.kind \in Range(KindOrder) /\ d.vars \in Seq(Nat) /\ d.id \in Nat
  BY DEF Constraint
<1>3. CASE c.kind # d.kind
  <2>1. KindRank(c.kind) < KindRank(d.kind) \/ KindRank(d.kind) < KindRank(c.kind)
    BY <1>1, <1>2, <1>3, KindRanks
  <2>. QED BY <2>1 DEF Precedes
<1>4. CASE c.kind = d.kind
  <2>1. CASE c.vars = d.vars
    <3>1. c.id < d.id \/ d.id < c.id
      BY <1>1, <1>2
    <3>. QED BY <1>4, <2>1, <3>1 DEF Precedes
  <2>2. CASE c.vars # d.vars
    <3>1. Lexicographic(c.vars, d.vars) \/ Lexicographic(d.vars, c.vars)
      BY <1>1, <1>2, <2>2, LexicographicTotal
    <3>. QED BY <1>4, <3>1 DEF Precedes
  <2>. QED BY <2>1, <2>2
<1>. QED BY <1>3, <1>4

LEMMA PrecedesTransitive ==
  ASSUME NEW c \in Constraint, NEW d \in Constraint, NEW e \in Constraint,
         Precedes(c, d), Precedes(d, e)
  PROVE  Precedes(c, e)
<1>1. c.kind \in Range(KindOrder) /\ c.vars \in Seq(Nat) /\ c.id \in Nat
  BY DEF Constraint
<1>2. d.kind \in Range(KindOrder) /\ d.vars \in Seq(Nat) /\ d.id \in Nat
  BY DEF Constraint
<1>3. e.kind \in Range(KindOrder) /\ e.vars \in Seq(Nat) /\ e.id \in Nat
  BY DEF Constraint
<1>4. /\ KindRank(c.kind) \in Nat /\ KindRank(d.kind) \in Nat /\ KindRank(e.kind) \in Nat
  BY <1>1, <1>2, <1>3, KindRanks
<1>5. CASE KindRank(c.kind) < KindRank(d.kind)
  <2>1. KindRank(d.kind) <= KindRank(e.kind)
    BY <1>4 DEF Precedes
  <2>2. KindRank(c.kind) < KindRank(e.kind)
    BY <2>1, <1>4, <1>5
  <2>. QED BY <2>2 DEF Precedes
<1>6. CASE KindRank(d.kind) < KindRank(e.kind)
  <2>1. KindRank(c.kind) <= KindRank(d.kind)
    BY <1>4 DEF Precedes
  <2>2. KindRank(c.kind) < KindRank(e.kind)
    BY <2>1, <1>4, <1>6
  <2>. QED BY <2>2 DEF Precedes
<1>7. CASE /\ ~ (KindRank(c.kind) < KindRank(d.kind))
           /\ ~ (KindRank(d.kind) < KindRank(e.kind))
  <2>1. /\ c.kind = d.kind
        /\ Lexicographic(c.vars, d.vars) \/ (c.vars = d.vars /\ c.id < d.id)
    BY <1>7 DEF Precedes
  <2>2. /\ d.kind = e.kind
        /\ Lexicographic(d.vars, e.vars) \/ (d.vars = e.vars /\ d.id < e.id)
    BY <1>7 DEF Precedes
  <2>3. CASE c.vars = d.vars /\ d.vars = e.vars
    <3>1. (c.id < d.id /\ d.id < e.id) \/ Lexicographic(c.vars, e.vars)
      BY <2>1, <2>2, <2>3
    <3>2. c.id < e.id \/ Lexicographic(c.vars, e.vars)
      BY <3>1, <1>1, <1>2, <1>3
    <3>. QED BY <2>1, <2>2, <2>3, <3>2 DEF Precedes
  <2>4. CASE c.vars # d.vars \/ d.vars # e.vars
    <3>1. Lexicographic(c.vars, e.vars)
      BY <2>1, <2>2, <2>4, <1>1, <1>2, <1>3, LexicographicTransitive
    <3>. QED BY <2>1, <2>2, <3>1 DEF Precedes
  <2>. QED BY <2>3, <2>4
<1>. QED BY <1>5, <1>6, <1>7
------------------------------------------------------------------------------
\* Sorting the constraints permutes their IDs.
LEMMA PlacesPermute ==
  ASSUME NEW N \in Nat, NEW cons, DOMAIN cons = 1..N,
         \A n \in 1..N : cons[n] \in Constraint /\ cons[n].id = n
  PROVE  Places(cons) \in Bijection(1..N, 1..N)
<1> DEFINE R == {p \in (1..N) \X (1..N) : Precedes(cons[p[1]], cons[p[2]])}
           f == Ranks(R, 1..N)
           place == Places(cons)
<1>1. \A x, y \in 1..N : <<x, y>> \in R <=> Precedes(cons[x], cons[y])
  OBVIOUS
<1>2. StrictTotal(R, 1..N)
  <2>. HIDE DEF R
  <2>1. \A x \in 1..N : <<x, x>> \notin R
    BY <1>1, PrecedesIrreflexive
  <2>2. \A x, y, z \in 1..N : <<x, y>> \in R /\ <<y, z>> \in R => <<x, z>> \in R
    BY <1>1, PrecedesTransitive
  <2>3. \A x, y \in 1..N : x = y \/ <<x, y>> \in R \/ <<y, x>> \in R
    <3>1. SUFFICES ASSUME NEW x \in 1..N, NEW y \in 1..N, x # y
          PROVE  <<x, y>> \in R \/ <<y, x>> \in R
      OBVIOUS
    <3>2. cons[x].id # cons[y].id
      BY <3>1
    <3>. QED BY <3>2, <1>1, PrecedesTotal
  <2>. QED BY <2>1, <2>2, <2>3 DEF StrictTotal
<1>3. IsFiniteSet(1..N) /\ Cardinality(1..N) = N
  BY FS_Interval
<1>4. f \in Bijection(1..N, 0..(N - 1))
  <2>. HIDE DEF R
  <2>. QED BY <1>2, <1>3, Ranked
<1>5. \A n \in 1..N : place[n] = 1 + f[n]
  <2>1. SUFFICES ASSUME NEW n \in 1..N PROVE place[n] = 1 + f[n]
    OBVIOUS
  <2>2. {m \in 1..N : Precedes(cons[m], cons[n])} = {m \in 1..N : <<m, n>> \in R}
    <3>. HIDE DEF R
    <3>. QED BY <1>1
  <2>3. f[n] = Cardinality({m \in 1..N : <<m, n>> \in R})
    BY DEF Ranks
  <2>4. place[n] = 1 + Cardinality({m \in 1..N : Precedes(cons[m], cons[n])})
    BY DEF Places
  <2>. HIDE DEF f, place, R
  <2>. QED BY <2>2, <2>3, <2>4
<1>6. DOMAIN place = 1..N /\ place = [n \in 1..N |-> place[n]]
  BY DEF Places
<1>7. /\ f \in [1..N -> 0..(N - 1)]
      /\ \A x, y \in 1..N : f[x] = f[y] => x = y
      /\ \A k \in 0..(N - 1) : \E n \in 1..N : f[n] = k
  <2>. HIDE DEF f
  <2>. QED BY <1>4 DEF Bijection, Injection, Surjection, IsInjective
<1>. HIDE DEF f, place
<1>8. ASSUME NEW n \in 1..N PROVE f[n] \in 0..(N - 1) /\ place[n] \in 1..N
  <2>1. f[n] \in 0..(N - 1)
    BY <1>7
  <2>2. place[n] = 1 + f[n]
    BY <1>5
  <2>. HIDE DEF R
  <2>. QED BY <2>1, <2>2
<1>9. \A x, y \in 1..N : place[x] = place[y] => x = y
  <2>1. SUFFICES ASSUME NEW x \in 1..N, NEW y \in 1..N, place[x] = place[y] PROVE x = y
    OBVIOUS
  <2>2. 1 + f[x] = 1 + f[y] /\ f[x] \in Int /\ f[y] \in Int
    BY <2>1, <1>5, <1>8
  <2>3. f[x] = f[y]
    BY <2>2
  <2>. QED BY <2>3, <1>7
<1>10. ASSUME NEW k \in 1..N PROVE \E n \in 1..N : place[n] = k
  <2>1. k - 1 \in 0..(N - 1)
    OBVIOUS
  <2>2. PICK n \in 1..N : f[n] = k - 1
    BY <2>1, <1>7
  <2>3. place[n] = k
    BY <2>2, <1>5
  <2>. QED BY <2>3
<1>11. place \in [1..N -> 1..N]
  BY <1>6, <1>8
<1>. QED BY <1>9, <1>10, <1>11 DEF Bijection, Injection, Surjection, IsInjective, place

\* Looking up the old ID undoes a renumbering.
LEMMA OldIDs ==
  ASSUME NEW S, NEW f \in Bijection(S, S)
  PROVE  /\ f \in [S -> S]
         /\ \A n \in S : OldID(f, n) \in S /\ f[OldID(f, n)] = n
         /\ \A n \in S : f[n] \in S /\ OldID(f, f[n]) = n
         /\ \A n \in S : \E m \in S : f[m] = n
<1>1. /\ f \in [S -> S]
      /\ \A x, y \in S : f[x] = f[y] => x = y
      /\ \A n \in S : \E m \in S : f[m] = n
  BY DEF Bijection, Injection, Surjection, IsInjective
<1>2. \A n \in S : OldID(f, n) \in S /\ f[OldID(f, n)] = n
  BY <1>1 DEF OldID
<1>3. ASSUME NEW n \in S PROVE f[n] \in S /\ OldID(f, f[n]) = n
  <2>1. f[n] \in S
    BY <1>1
  <2>2. OldID(f, f[n]) \in S /\ f[OldID(f, f[n])] = f[n]
    BY <1>2, <2>1
  <2>. QED BY <1>1, <2>1, <2>2
<1>. QED BY <1>1, <1>2, <1>3

\* What verifyInvariants says of one constraint.
LEMMA VerifiedConstraint ==
  ASSUME NEW g \in Graph, Verified(g), NEW n \in DOMAIN g.cons
  PROVE  /\ g.cons[n] \in Constraint /\ g.cons[n].id = n
         /\ \A k \in DOMAIN g.cons[n].vars : g.cons[n].vars[k] \in DOMAIN g.vars
         /\ Commutative(g.cons[n]) => Len(g.cons[n].vars) = 2
<1>1. g.cons \in Seq(Constraint)
  BY DEF Graph
<1>2. g.cons[n] \in Constraint
  BY <1>1
<1>3. /\ g.cons[n].id = n /\ Range(g.cons[n].vars) \subseteq DOMAIN g.vars
      /\ Commutative(g.cons[n]) => Len(g.cons[n].vars) = 2
  BY DEF Verified
<1>4. \A k \in DOMAIN g.cons[n].vars : g.cons[n].vars[k] \in Range(g.cons[n].vars)
  BY DEF Range
<1>. QED BY <1>2, <1>3, <1>4

\* Renaming the endpoints of a constraint keeps its type and everything else.
LEMMA RenamedType ==
  ASSUME NEW g \in Graph, Verified(g), NEW n \in DOMAIN g.cons,
         NEW remap \in Bijection(DOMAIN g.vars, DOMAIN g.vars)
  PROVE  LET c == g.cons[n]
             d == Renamed(c, remap)
         IN  /\ d \in Constraint /\ d.id = n
             /\ d.kind = c.kind /\ d.use = c.use /\ d.existing = c.existing /\ d.enc = c.enc
             /\ d.vars = IF Commutative(c) THEN Sorted(Ends(c, remap)) ELSE Ends(c, remap)
             /\ Ends(c, remap) \in Seq(Nat) /\ Len(Ends(c, remap)) = Len(c.vars)
<1> DEFINE c == g.cons[n]
           d == Renamed(c, remap)
           ends == Ends(c, remap)
           new == IF Commutative(c) THEN Sorted(ends) ELSE ends
<1>1. /\ c \in Constraint /\ c.id = n
      /\ \A k \in DOMAIN c.vars : c.vars[k] \in DOMAIN g.vars
      /\ Commutative(c) => Len(c.vars) = 2
  BY VerifiedConstraint
<1>2. c.vars \in Seq(Nat) /\ Len(c.vars) \in Nat /\ DOMAIN c.vars = 1..Len(c.vars)
  BY <1>1 DEF Constraint
<1>3. \A v \in DOMAIN g.vars : remap[v] \in Nat
  <2>1. DOMAIN g.vars \subseteq Nat
    BY DEF Graph
  <2>. QED BY <2>1, OldIDs
<1>4. ends \in Seq(Nat) /\ Len(ends) = Len(c.vars)
  <2>1. ends = [k \in 1..Len(c.vars) |-> remap[c.vars[k]]]
    BY <1>2 DEF Ends
  <2>2. \A k \in 1..Len(c.vars) : remap[c.vars[k]] \in Nat
    BY <1>1, <1>2, <1>3
  <2>. HIDE DEF c, ends
  <2>. QED BY <2>1, <2>2, <1>2
<1>5. new \in Seq(Nat)
  <2>1. Commutative(c) => Sorted(ends) \in Seq(Nat)
    <3>. HIDE DEF c, ends
    <3>. QED BY <1>1, <1>4 DEF Sorted
  <2>. HIDE DEF c, ends
  <2>. QED BY <2>1, <1>4
<1>6. d = [c EXCEPT !.vars = new]
  BY DEF Renamed
<1>. HIDE DEF c, d, ends, new
<1>7. /\ d \in Constraint /\ d.id = c.id /\ d.vars = new
      /\ d.kind = c.kind /\ d.use = c.use /\ d.existing = c.existing /\ d.enc = c.enc
  BY <1>1, <1>5, <1>6 DEF Constraint
<1>. QED BY <1>1, <1>4, <1>7 DEF c, d, ends, new

\* The renumbered graph h of g, spelled out.
RenamedConstraints(g, remap) == [n \in DOMAIN g.cons |-> Renamed(g.cons[n], remap)]
Parts(g, remap, cons, place, h) ==
  /\ place \in Bijection(DOMAIN g.cons, DOMAIN g.cons)
  /\ DOMAIN h.vars = DOMAIN g.vars /\ DOMAIN h.cons = DOMAIN g.cons
  /\ \A v \in DOMAIN g.vars : h.vars[remap[v]] = g.vars[v]
  /\ \A n \in DOMAIN g.cons : h.cons[place[n]] = [cons[n] EXCEPT !.id = place[n]]
  /\ h.edges = {RenamedEdge(e, remap, place) : e \in g.edges}

LEMMA RenumberedParts ==
  ASSUME NEW g \in Graph, Verified(g),
         NEW remap \in Bijection(DOMAIN g.vars, DOMAIN g.vars)
  PROVE  Parts(g, remap, RenamedConstraints(g, remap), Places(RenamedConstraints(g, remap)),
               Renumbered(g, remap))
<1> DEFINE cons == RenamedConstraints(g, remap)
           place == Places(cons)
           h == Renumbered(g, remap)
<1>0. cons = [n \in DOMAIN g.cons |-> Renamed(g.cons[n], remap)]
  BY DEF RenamedConstraints
<1>1. Len(g.cons) \in Nat /\ DOMAIN g.cons = 1..Len(g.cons)
  BY DEF Graph
<1>2. DOMAIN cons = 1..Len(g.cons)
  BY <1>0, <1>1
<1>3. ASSUME NEW n \in 1..Len(g.cons)
      PROVE  cons[n] \in Constraint /\ cons[n].id = n
  <2>1. n \in DOMAIN g.cons
    BY <1>1
  <2>2. Renamed(g.cons[n], remap) \in Constraint /\ Renamed(g.cons[n], remap).id = n
    BY <2>1, RenamedType
  <2>3. cons[n] = Renamed(g.cons[n], remap)
    BY <2>1, <1>0
  <2>. HIDE DEF cons
  <2>. QED BY <2>2, <2>3
<1>4. place \in Bijection(DOMAIN g.cons, DOMAIN g.cons)
  <2>. HIDE DEF cons
  <2>. QED BY <1>1, <1>2, <1>3, PlacesPermute
<1>5. /\ h.vars = [n \in DOMAIN g.vars |-> g.vars[OldID(remap, n)]]
      /\ h.cons = [n \in DOMAIN cons |-> [cons[OldID(place, n)] EXCEPT !.id = n]]
      /\ h.edges = {RenamedEdge(e, remap, place) : e \in g.edges}
  BY DEF Renumbered, RenamedConstraints
<1>. HIDE DEF cons, place, h
<1>6. ASSUME NEW v \in DOMAIN g.vars PROVE h.vars[remap[v]] = g.vars[v]
  <2>1. remap[v] \in DOMAIN g.vars /\ OldID(remap, remap[v]) = v
    BY OldIDs
  <2>. QED BY <1>5, <2>1
<1>7. ASSUME NEW n \in DOMAIN g.cons PROVE h.cons[place[n]] = [cons[n] EXCEPT !.id = place[n]]
  <2>1. place[n] \in DOMAIN g.cons /\ OldID(place, place[n]) = n
    BY <1>4, OldIDs
  <2>2. place[n] \in DOMAIN cons
    BY <1>1, <1>2, <2>1
  <2>3. h.cons[place[n]] = [cons[OldID(place, place[n])] EXCEPT !.id = place[n]]
    BY <1>5, <2>2
  <2>. QED BY <2>1, <2>3
<1>8. DOMAIN h.vars = DOMAIN g.vars /\ DOMAIN h.cons = DOMAIN g.cons
  BY <1>1, <1>2, <1>5
<1>9. Parts(g, remap, cons, place, h)
  BY <1>4, <1>5, <1>6, <1>7, <1>8 DEF Parts
<1>. QED BY <1>9 DEF cons, place, h

\* A relation moved to its new place means what it meant.
LEMMA RelationKept ==
  ASSUME NEW g \in Graph, Verified(g), NEW n \in DOMAIN g.cons,
         NEW remap \in Bijection(DOMAIN g.vars, DOMAIN g.vars),
         NEW h, \A v \in DOMAIN g.vars : h.vars[remap[v]] = g.vars[v],
         NEW p \in Nat
  PROVE  NamedRelation(h, [Renamed(g.cons[n], remap) EXCEPT !.id = p])
           = NamedRelation(g, g.cons[n])
<1> DEFINE c == g.cons[n]
           d == Renamed(c, remap)
           e == [d EXCEPT !.id = p]
           old == [k \in DOMAIN c.vars |-> g.vars[c.vars[k]]]
           new == [k \in DOMAIN e.vars |-> h.vars[e.vars[k]]]
<1>. SUFFICES NamedRelation(h, e) = NamedRelation(g, c)
  OBVIOUS
<1>1. /\ d \in Constraint
      /\ d.kind = c.kind /\ d.use = c.use /\ d.existing = c.existing /\ d.enc = c.enc
      /\ d.vars = IF Commutative(c) THEN Sorted(Ends(c, remap)) ELSE Ends(c, remap)
  BY RenamedType
<1>2. /\ e.kind = c.kind /\ e.use = c.use /\ e.existing = c.existing /\ e.enc = c.enc
      /\ e.vars = d.vars
  <2>. HIDE DEF d, c
  <2>. QED BY <1>1 DEF Constraint
<1>3. /\ c.vars \in Seq(Nat)
      /\ \A k \in DOMAIN c.vars : c.vars[k] \in DOMAIN g.vars
      /\ Commutative(c) => Len(c.vars) = 2
  BY VerifiedConstraint DEF Constraint
<1>4. Ends(c, remap) = [k \in DOMAIN c.vars |-> remap[c.vars[k]]]
  BY DEF Ends
<1>5. Commutative(c) <=> Commutative(e)
  BY <1>2 DEF Commutative
<1>6. CASE ~ Commutative(c)
  <2>1. e.vars = Ends(c, remap)
    BY <1>1, <1>2, <1>6
  <2>2. DOMAIN e.vars = DOMAIN c.vars /\ \A k \in DOMAIN c.vars : e.vars[k] = remap[c.vars[k]]
    <3>. HIDE DEF c, e
    <3>. QED BY <2>1, <1>4
  <2>3. new = old
    <3>. HIDE DEF c, e
    <3>. QED BY <2>2, <1>3
  <2>. HIDE DEF c, e
  <2>. QED BY <1>2, <1>5, <1>6, <2>3 DEF NamedRelation
<1>7. CASE Commutative(c)
  <2> DEFINE a == c.vars[1]
             b == c.vars[2]
  <2>1. DOMAIN c.vars = {1, 2} /\ a \in DOMAIN g.vars /\ b \in DOMAIN g.vars
    BY <1>3, <1>7
  <2>2. e.vars = <<remap[a], remap[b]>> \/ e.vars = <<remap[b], remap[a]>>
    <3>1. Ends(c, remap)[1] = remap[a] /\ Ends(c, remap)[2] = remap[b]
      BY <2>1, <1>4
    <3>2. Len(Ends(c, remap)) = 2 /\ Ends(c, remap) \in Seq(Nat)
      BY <1>3, <1>7, RenamedType
    <3>3. e.vars = Sorted(Ends(c, remap))
      BY <1>1, <1>2, <1>7
    <3>. HIDE DEF c, e, a, b
    <3>. QED BY <3>1, <3>2, <3>3 DEF Sorted
  <2>3. Range(old) = {g.vars[a], g.vars[b]}
    BY <2>1 DEF Range
  <2>4. Range(new) = {g.vars[a], g.vars[b]}
    <3>1. h.vars[remap[a]] = g.vars[a] /\ h.vars[remap[b]] = g.vars[b]
      BY <2>1
    <3>2. DOMAIN e.vars = {1, 2}
      <4>. HIDE DEF c, e, a, b
      <4>. QED BY <2>2
    <3>3. Range(new) = {h.vars[e.vars[1]], h.vars[e.vars[2]]}
      <4>. HIDE DEF c, e, a, b
      <4>. QED BY <3>2 DEF Range
    <3>. HIDE DEF c, e, a, b, new
    <3>. QED BY <2>2, <3>1, <3>3
  <2>5. NamedRelation(h, e).ends = Range(new) /\ NamedRelation(g, c).ends = Range(old)
    <3>. HIDE DEF c, e
    <3>. QED BY <1>5, <1>7 DEF NamedRelation
  <2>. HIDE DEF c, e, old, new, a, b
  <2>. QED BY <1>2, <2>3, <2>4, <2>5 DEF NamedRelation
<1>. QED BY <1>6, <1>7

\* Read by names, the renumbered graph is the graph.
LEMMA RenumberedIsNamedAlike ==
  ASSUME NEW g \in Graph, Verified(g),
         NEW remap \in Bijection(DOMAIN g.vars, DOMAIN g.vars)
  PROVE  Named(Renumbered(g, remap)) = Named(g)
<1> DEFINE cons == RenamedConstraints(g, remap)
           place == Places(cons)
           h == Renumbered(g, remap)
<1>0. Parts(g, remap, cons, place, h)
  BY RenumberedParts
<1>1. /\ place \in Bijection(DOMAIN g.cons, DOMAIN g.cons)
      /\ DOMAIN h.vars = DOMAIN g.vars /\ DOMAIN h.cons = DOMAIN g.cons
      /\ \A v \in DOMAIN g.vars : h.vars[remap[v]] = g.vars[v]
      /\ \A n \in DOMAIN g.cons : h.cons[place[n]] = [cons[n] EXCEPT !.id = place[n]]
      /\ h.edges = {RenamedEdge(e, remap, place) : e \in g.edges}
  BY <1>0 DEF Parts
<1>2. \A n \in DOMAIN g.cons : cons[n] = Renamed(g.cons[n], remap)
  BY DEF RenamedConstraints
<1>. HIDE DEF cons, place, h
<1>3. /\ \A v \in DOMAIN g.vars : remap[v] \in DOMAIN g.vars
      /\ \A v \in DOMAIN g.vars : \E w \in DOMAIN g.vars : remap[w] = v
  <2> DEFINE S == DOMAIN g.vars
  <2>. HIDE DEF S
  <2>1. remap \in Bijection(S, S)
    BY DEF S
  <2>2. /\ \A v \in S : remap[v] \in S
        /\ \A v \in S : \E w \in S : remap[w] = v
    BY <2>1, OldIDs
  <2>. QED BY <2>2 DEF S
<1>4. /\ \A n \in DOMAIN g.cons : place[n] \in DOMAIN g.cons
      /\ \A n \in DOMAIN g.cons : \E m \in DOMAIN g.cons : place[m] = n
  <2> DEFINE S == DOMAIN g.cons
  <2>. HIDE DEF S
  <2>1. place \in Bijection(S, S)
    BY <1>1 DEF S
  <2>2. /\ \A n \in S : place[n] \in S
        /\ \A n \in S : \E m \in S : place[m] = n
    BY <2>1, OldIDs
  <2>. QED BY <2>2 DEF S
<1>5. DOMAIN g.cons \subseteq Nat
  BY DEF Graph
<1>6. ASSUME NEW n \in DOMAIN g.cons
      PROVE  NamedRelation(h, h.cons[place[n]]) = NamedRelation(g, g.cons[n])
  <2>1. place[n] \in Nat
    BY <1>4, <1>5
  <2>2. NamedRelation(h, [Renamed(g.cons[n], remap) EXCEPT !.id = place[n]])
          = NamedRelation(g, g.cons[n])
    BY <2>1, <1>1, RelationKept
  <2>3. h.cons[place[n]] = [Renamed(g.cons[n], remap) EXCEPT !.id = place[n]]
    BY <1>1, <1>2
  <2>. QED BY <2>2, <2>3
<1>7. Range(h.vars) = Range(g.vars)
  <2>1. ASSUME NEW v \in DOMAIN g.vars PROVE g.vars[v] \in Range(h.vars)
    BY <1>1, <1>3 DEF Range
  <2>2. ASSUME NEW v \in DOMAIN h.vars PROVE h.vars[v] \in Range(g.vars)
    <3>1. PICK w \in DOMAIN g.vars : remap[w] = v
      BY <1>1, <1>3
    <3>. QED BY <3>1, <1>1 DEF Range
  <2>. QED BY <2>1, <2>2 DEF Range
<1>8. {NamedRelation(h, h.cons[n]) : n \in DOMAIN h.cons}
        = {NamedRelation(g, g.cons[n]) : n \in DOMAIN g.cons}
  <2>1. ASSUME NEW n \in DOMAIN g.cons
        PROVE  \E m \in DOMAIN h.cons : NamedRelation(h, h.cons[m]) = NamedRelation(g, g.cons[n])
    BY <1>1, <1>4, <1>6
  <2>2. ASSUME NEW m \in DOMAIN h.cons
        PROVE  \E n \in DOMAIN g.cons : NamedRelation(h, h.cons[m]) = NamedRelation(g, g.cons[n])
    <3>1. PICK n \in DOMAIN g.cons : place[n] = m
      BY <1>1, <1>4
    <3>. QED BY <3>1, <1>6
  <2>. QED BY <2>1, <2>2
<1>9. ASSUME NEW e \in g.edges
      PROVE  NamedEdge(h, RenamedEdge(e, remap, place)) = NamedEdge(g, e)
  <2> DEFINE f == RenamedEdge(e, remap, place)
  <2>1. e \in RegionEdge
    BY DEF Graph
  <2>2. e.source \in DOMAIN g.vars /\ e.target \in DOMAIN g.vars /\ e.constraint \in DOMAIN g.cons
    BY DEF Verified, EdgeIsGenuine
  <2>3. /\ f.kind = e.kind /\ f.owner = e.owner /\ f.slot = e.slot /\ f.use = e.use
        /\ f.source = remap[e.source] /\ f.target = remap[e.target]
        /\ f.constraint = place[e.constraint]
    BY <2>1 DEF RenamedEdge, RegionEdge
  <2>4. /\ h.vars[f.source] = g.vars[e.source] /\ h.vars[f.target] = g.vars[e.target]
        /\ NamedRelation(h, h.cons[f.constraint]) = NamedRelation(g, g.cons[e.constraint])
    BY <2>2, <2>3, <1>1, <1>6
  <2>. HIDE DEF f
  <2>5. NamedEdge(h, f) = NamedEdge(g, e)
    BY <2>3, <2>4 DEF NamedEdge
  <2>. QED BY <2>5 DEF f
<1>10. {NamedEdge(h, f) : f \in h.edges} = {NamedEdge(g, e) : e \in g.edges}
  <2>1. ASSUME NEW e \in g.edges
        PROVE  \E f \in h.edges : NamedEdge(h, f) = NamedEdge(g, e)
    <3>1. RenamedEdge(e, remap, place) \in h.edges
      BY <1>1
    <3>. QED BY <3>1, <1>9
  <2>2. ASSUME NEW f \in h.edges
        PROVE  \E e \in g.edges : NamedEdge(h, f) = NamedEdge(g, e)
    <3>1. PICK e \in g.edges : f = RenamedEdge(e, remap, place)
      BY <1>1
    <3>. QED BY <3>1, <1>9
  <2>. QED BY <2>1, <2>2
<1>11. Named(h) = Named(g)
  BY <1>7, <1>8, <1>10 DEF Named
<1>. QED BY <1>11 DEF h
------------------------------------------------------------------------------
(* Sequences put behind one another.                                       *)

LEMMA ConcatRange ==
  ASSUME NEW T, NEW s \in Seq(T), NEW t \in Seq(T)
  PROVE  s \o t \in Seq(T) /\ Range(s \o t) = Range(s) \cup Range(t)
<1>1. /\ s \o t \in Seq(T) /\ Len(s \o t) = Len(s) + Len(t)
      /\ \A i \in 1..Len(s) : (s \o t)[i] = s[i]
      /\ \A i \in 1..Len(t) : (s \o t)[Len(s) + i] = t[i]
  OBVIOUS
<1>2. Range(s \o t) \subseteq Range(s) \cup Range(t)
  <2>1. ASSUME NEW i \in 1..Len(s \o t) PROVE (s \o t)[i] \in Range(s) \cup Range(t)
    <3>1. CASE i <= Len(s)
      <4>1. i \in 1..Len(s) /\ i \in DOMAIN s
        BY <3>1
      <4>. QED BY <1>1, <4>1 DEF Range
    <3>2. CASE i > Len(s)
      <4>1. /\ i - Len(s) \in 1..Len(t) /\ i = Len(s) + (i - Len(s))
            /\ i - Len(s) \in DOMAIN t
        BY <1>1, <3>2
      <4>. QED BY <1>1, <4>1 DEF Range
    <3>. QED BY <3>1, <3>2
  <2>. QED BY <1>1, <2>1 DEF Range
<1>3. Range(s) \subseteq Range(s \o t)
  <2>1. \A i \in 1..Len(s) : i \in 1..Len(s \o t)
    BY <1>1
  <2>. QED BY <1>1, <2>1 DEF Range
<1>4. Range(t) \subseteq Range(s \o t)
  <2>1. ASSUME NEW i \in 1..Len(t) PROVE t[i] \in Range(s \o t)
    <3>1. Len(s) + i \in 1..Len(s \o t)
      BY <1>1
    <3>. QED BY <1>1, <3>1 DEF Range
  <2>. QED BY <2>1 DEF Range
<1>. QED BY <1>1, <1>2, <1>3, <1>4

\* The recursion of FlattenSeq is defined.
Flattenings(T, n, ss) ==
  {f \in [1..n -> Seq(T)] : f = [i \in 1..n |-> IF i = 1 THEN ss[i] ELSE f[i - 1] \o ss[i]]}

LEMMA FlatteningDefined ==
  ASSUME NEW T, NEW n \in Nat, NEW ss \in [1..n -> Seq(T)]
  PROVE  Flattenings(T, n, ss) # {}
<1> DEFINE V == Seq(T)
           h == [p \in (1..n) \X V |-> p[2] \o ss[p[1]]]
<1>1. \A i \in 1..n, v \in V : h[<<i, v>>] = v \o ss[i] /\ h[<<i, v>>] \in V
  <2>1. \A i \in 1..n, v \in V : v \o ss[i] \in V
    OBVIOUS
  <2>. HIDE DEF V
  <2>. QED BY <2>1
<1>2. <<>> \in V
  OBVIOUS
<1>c. \A v \in V : <<>> \o v = v
  OBVIOUS
<1>d. \A i \in 1..n : ss[i] \in V
  OBVIOUS
<1>. HIDE DEF h, V
<1>3. PICK g \in PrefixRecursions(n, V, <<>>, h) : TRUE
  <2>1. StepsIn(n, V, h)
    BY <1>1 DEF StepsIn
  <2>. QED BY <1>2, <2>1, PrefixRecursion
<1>4. /\ g \in [SUBSET (1..n) -> V]
      /\ \A U \in SUBSET (1..n) : g[U] = IF U = {} THEN <<>> ELSE h[<<Max(U), g[U \ {Max(U)}]>>]
  BY <1>3 DEF PrefixRecursions
<1>5. ASSUME NEW i \in 1..n
      PROVE  g[1..i] = g[1..(i - 1)] \o ss[i] /\ g[1..i] \in V
  <2>1. /\ 1..i \in SUBSET (1..n) /\ 1..i # {}
        /\ Max(1..i) = i /\ (1..i) \ {Max(1..i)} = 1..(i - 1)
    BY LastPosition
  <2>2. g[1..i] = h[<<i, g[1..(i - 1)]>>]
    BY <1>4, <2>1
  <2>3. 1..(i - 1) \in SUBSET (1..n)
    OBVIOUS
  <2>4. g[1..(i - 1)] \in V /\ g[1..i] \in V
    BY <1>4, <2>1, <2>3
  <2>. QED BY <1>1, <2>2, <2>4
<1> DEFINE f == [i \in 1..n |-> g[1..i]]
<1>6. f \in [1..n -> V]
  BY <1>5
<1>7. ASSUME NEW i \in 1..n
      PROVE  f[i] = IF i = 1 THEN ss[i] ELSE f[i - 1] \o ss[i]
  <2>1. CASE i = 1
    <3>1. 1..(i - 1) = {} /\ {} \in SUBSET (1..n)
      BY <2>1
    <3>2. g[1..(i - 1)] = <<>>
      BY <1>4, <3>1
    <3>. QED BY <1>5, <1>c, <1>d, <2>1, <3>2
  <2>2. CASE i # 1
    <3>1. i - 1 \in 1..n
      BY <2>2
    <3>. QED BY <1>5, <2>2, <3>1
  <2>. QED BY <2>1, <2>2
<1>8. f = [i \in 1..n |-> IF i = 1 THEN ss[i] ELSE f[i - 1] \o ss[i]]
  <2>1. f = [i \in 1..n |-> f[i]]
    OBVIOUS
  <2>. HIDE DEF f
  <2>. QED BY <1>7, <2>1
<1>. QED
  <2>. HIDE DEF f
  <2>. QED BY <1>6, <1>8 DEF V, Flattenings

\* Flattening keeps every element and adds none.
LEMMA FlattenedRange ==
  ASSUME NEW T, NEW ss \in Seq(Seq(T))
  PROVE  /\ FlattenSeq(ss) \in Seq(T)
         /\ Range(FlattenSeq(ss)) = UNION {Range(ss[i]) : i \in DOMAIN ss}
<1> DEFINE n == Len(ss)
           f == CHOOSE f : f = [i \in 1..n |-> IF i = 1 THEN ss[i] ELSE f[i - 1] \o ss[i]]
<1>1. n \in Nat /\ DOMAIN ss = 1..n /\ ss \in [1..n -> Seq(T)]
  OBVIOUS
<1>2. CASE n = 0
  <2>1. FlattenSeq(ss) = ss /\ ss = <<>>
    BY <1>2 DEF FlattenSeq
  <2>2. <<>> \in Seq(T) /\ Range(<<>>) = {} /\ DOMAIN ss = {}
    BY <1>1, <1>2 DEF Range
  <2>. QED BY <2>1, <2>2
<1>3. CASE n # 0
  <2>1. FlattenSeq(ss) = f[n]
    BY <1>3 DEF FlattenSeq
  <2>2. f = [i \in 1..n |-> IF i = 1 THEN ss[i] ELSE f[i - 1] \o ss[i]]
    <3>. HIDE DEF n
    <3>1. Flattenings(T, n, ss) # {}
      BY <1>1, FlatteningDefined
    <3>. QED BY <3>1 DEF Flattenings
  <2>. HIDE DEF f, n
  <2> DEFINE Upto(i) == UNION {Range(ss[j]) : j \in 1..i}
             P == {i \in Nat : i \in 1..n => f[i] \in Seq(T) /\ Range(f[i]) = Upto(i)}
  <2>3. 0 \in P
    OBVIOUS
  <2>4. ASSUME NEW i \in Nat, i \in P PROVE i + 1 \in P
    <3>. SUFFICES ASSUME i + 1 \in 1..n
                  PROVE  f[i + 1] \in Seq(T) /\ Range(f[i + 1]) = Upto(i + 1)
      OBVIOUS
    <3>1. Upto(i + 1) = Upto(i) \cup Range(ss[i + 1])
      <4>1. 1..(i + 1) = (1..i) \cup {i + 1}
        OBVIOUS
      <4>. QED BY <4>1
    <3>2. CASE i = 0
      <4>1. f[i + 1] = ss[i + 1] /\ Upto(i) = {}
        BY <2>2, <3>2
      <4>. QED BY <1>1, <3>1, <4>1
    <3>3. CASE i # 0
      <4>1. i \in 1..n /\ (i + 1) - 1 = i /\ i + 1 # 1
        BY <1>1, <3>3
      <4>2. f[i + 1] = f[i] \o ss[i + 1]
        BY <2>2, <4>1
      <4>3. f[i] \in Seq(T) /\ Range(f[i]) = Upto(i) /\ ss[i + 1] \in Seq(T)
        BY <1>1, <2>4, <4>1
      <4>4. f[i + 1] \in Seq(T) /\ Range(f[i + 1]) = Range(f[i]) \cup Range(ss[i + 1])
        BY <4>2, <4>3, ConcatRange
      <4>. HIDE DEF Upto
      <4>. QED BY <3>1, <4>3, <4>4
    <3>. QED BY <3>2, <3>3
  <2>5. n \in P
    <3>. HIDE DEF P
    <3>. QED BY <1>1, <2>3, <2>4, NaturalInduction
  <2>6. f[n] \in Seq(T) /\ Range(f[n]) = Upto(n)
    BY <1>1, <1>3, <2>5
  <2>. QED BY <1>1, <2>1, <2>6
<1>. QED BY <1>2, <1>3

\* The calls for the tensor slots of a sequence, in any order.
LEMMA SlotCalls ==
  ASSUME NEW T, NEW S, NEW s \in Seq(S), NEW calls,
         \A i \in TensorSlots(s) : calls[i] \in Seq(T)
  PROVE  /\ PerSlot(s, calls) \in Seq(T)
         /\ Range(PerSlot(s, calls)) = UNION {Range(calls[i]) : i \in TensorSlots(s)}
<1> DEFINE slots == TensorSlots(s)
           ss == [i \in DOMAIN s |-> IF i \in slots THEN calls[i] ELSE <<>>]
<1>1. PerSlot(s, calls) = FlattenSeq(ss)
  BY DEF PerSlot
<1>2. slots \subseteq DOMAIN s /\ DOMAIN s = 1..Len(s) /\ Len(s) \in Nat
  BY DEF TensorSlots, SlotsIn
<1>. HIDE DEF slots
<1>3. ss \in Seq(Seq(T))
  <2>1. \A i \in 1..Len(s) : ss[i] \in Seq(T)
    BY <1>2 DEF slots
  <2>2. ss = [i \in 1..Len(s) |-> ss[i]]
    BY <1>2
  <2>. HIDE DEF ss
  <2>. QED BY <1>2, <2>1, <2>2
<1>4. UNION {Range(ss[i]) : i \in DOMAIN ss} = UNION {Range(calls[i]) : i \in slots}
  <2>1. DOMAIN ss = DOMAIN s /\ \A i \in slots : ss[i] = calls[i]
    BY <1>2
  <2>2. \A i \in DOMAIN s \ slots : Range(ss[i]) = {}
    BY DEF Range
  <2>. HIDE DEF ss
  <2>. QED BY <1>2, <2>1, <2>2
<1>. HIDE DEF ss
<1>. QED BY <1>1, <1>3, <1>4, FlattenedRange DEF slots

------------------------------------------------------------------------------
(* One call of the builder.                                                *)

\* Names are looked up or appended.
Extends(s, r) == Len(s) <= Len(r) /\ \A i \in 1..Len(s) : r[i] = s[i]
NamedAfter(s, E, r) ==
  /\ r \in Seq(Entity) /\ IsInjective(r) /\ Extends(s, r)
  /\ Range(r) = Range(s) \cup E
  /\ E \subseteq Range(s) => r = s

LEMMA NamingStep ==
  ASSUME NEW s \in Seq(Entity), NEW E, NEW r, NamedAfter(s, E, r), NEW e \in Entity
  PROVE  NamedAfter(s, E \cup {e}, Naming(r, e))
<1>1. /\ r \in Seq(Entity) /\ IsInjective(r) /\ Extends(s, r)
      /\ Range(r) = Range(s) \cup E
      /\ E \subseteq Range(s) => r = s
  BY DEF NamedAfter
<1>2. CASE e \in Range(r)
  <2>1. Naming(r, e) = r
    BY <1>2 DEF Naming
  <2>. QED BY <1>1, <1>2, <2>1 DEF NamedAfter
<1>3. CASE e \notin Range(r)
  <2> DEFINE q == Append(r, e)
  <2>1. /\ Naming(r, e) = q /\ q \in Seq(Entity) /\ Len(q) = Len(r) + 1 /\ DOMAIN q = 1..(Len(r) + 1)
        /\ q[Len(r) + 1] = e /\ \A i \in 1..Len(r) : q[i] = r[i]
        /\ DOMAIN r = 1..Len(r) /\ Len(r) \in Nat /\ Len(s) \in Nat
    BY <1>1, <1>3 DEF Naming
  <2>. HIDE DEF q
  <2>2. \A i \in 1..Len(r) : r[i] # e
    BY <1>3, <2>1 DEF Range
  <2>3. IsInjective(q)
    <3>1. \A i, j \in 1..(Len(r) + 1) : q[i] = q[j] => i = j
      <4>1. \A i, j \in 1..Len(r) : q[i] = q[j] => i = j
        BY <1>1, <2>1 DEF IsInjective
      <4>2. \A i \in 1..(Len(r) + 1) : i \in 1..Len(r) \/ i = Len(r) + 1
        BY <2>1
      <4>. QED BY <2>1, <2>2, <4>1, <4>2
    <3>. QED BY <2>1, <3>1 DEF IsInjective
  <2>4. Range(q) = Range(r) \cup {e}
    <3>1. \A i \in 1..(Len(r) + 1) : i \in 1..Len(r) \/ i = Len(r) + 1
      BY <2>1
    <3>2. \A i \in 1..Len(r) : i \in 1..(Len(r) + 1)
      BY <2>1
    <3>. QED BY <2>1, <3>1, <3>2 DEF Range
  <2>5. Extends(s, q)
    BY <1>1, <2>1 DEF Extends
  <2>6. ~ (E \cup {e} \subseteq Range(s))
    BY <1>1, <1>3
  <2>. QED BY <1>1, <2>1, <2>3, <2>4, <2>5, <2>6 DEF NamedAfter
<1>. QED BY <1>2, <1>3

\* Naming goes through the ends in order.
LEMMA NamingFold ==
  ASSUME NEW s \in Seq(Entity), NEW b \in Seq(Entity)
  PROVE  \E q \in [0..Len(s) -> Seq(Entity)] :
           /\ q[0] = b /\ q[Len(s)] = FoldLeft(Naming, b, s)
           /\ \A i \in 1..Len(s) : q[i] = Naming(q[i - 1], s[i])
<1> DEFINE n == Len(s)
           V == Seq(Entity)
           h == [p \in (1..n) \X V |-> Naming(p[2], s[p[1]])]
           It == CHOOSE g : g = [T \in SUBSET (1..n) |->
                   IF T = {} THEN b ELSE Naming(g[T \ {Max(T)}], s[Max(T)])]
<1>1. n \in Nat /\ DOMAIN s = 1..n /\ \A i \in 1..n : s[i] \in Entity
  OBVIOUS
<1>2. b \in V /\ \A x \in Entity, v \in V : Naming(v, x) \in V
  BY DEF Naming
<1>. HIDE DEF V
<1>3. \A i \in 1..n, v \in V : h[<<i, v>>] = Naming(v, s[i]) /\ h[<<i, v>>] \in V
  BY <1>1, <1>2
<1>4. PICK g \in [SUBSET (1..n) -> V] : \A T \in SUBSET (1..n) :
        g[T] = IF T = {} THEN b ELSE h[<<Max(T), g[T \ {Max(T)}]>>]
  <2>1. StepsIn(n, V, h)
    <3>. HIDE DEF h, n
    <3>. QED BY <1>3 DEF StepsIn
  <2>. HIDE DEF h, n
  <2>2. PrefixRecursions(n, V, b, h) # {}
    BY <1>1, <1>2, <2>1, PrefixRecursion
  <2>. QED BY <2>2 DEF PrefixRecursions
<1>5. g = [T \in SUBSET (1..n) |->
             IF T = {} THEN b ELSE Naming(g[T \ {Max(T)}], s[Max(T)])]
  <2>1. ASSUME NEW T \in SUBSET (1..n), T # {}
        PROVE  g[T] = Naming(g[T \ {Max(T)}], s[Max(T)])
    <3>1. Max(T) \in 1..n
      BY <1>1, <2>1, LastPosition
    <3>2. T \ {Max(T)} \in SUBSET (1..n)
      OBVIOUS
    <3>. HIDE DEF h, n
    <3>. QED BY <1>3, <1>4, <2>1, <3>1, <3>2
  <2>. HIDE DEF h, n
  <2>. QED BY <1>4, <2>1
<1>6. It = [T \in SUBSET (1..n) |->
              IF T = {} THEN b ELSE Naming(It[T \ {Max(T)}], s[Max(T)])]
  <2>. HIDE DEF h, n
  <2>. QED BY <1>5
<1>7. It[1..0] = b /\ \A i \in 1..n : It[1..i] = Naming(It[1..(i - 1)], s[i])
  <2>1. 1..0 = {} /\ 1..0 \in SUBSET (1..n)
    BY <1>1
  <2>2. \A i \in 1..n : 1..i \in SUBSET (1..n) /\ 1..i # {}
    BY <1>1, LastPosition
  <2>. HIDE DEF It, n
  <2>. QED BY <1>1, <1>6, <2>1, <2>2, LastPosition
<1>8. FoldLeft(Naming, b, s) = It[1..n]
  BY <1>1 DEF FoldLeft, MapThenFoldSet
<1>9. PICK q \in [0..n -> V] :
        q[0] = It[1..0] /\ q[n] = It[1..n] /\ \A i \in 1..n : q[i] = h[<<i, q[i - 1]>>]
  <2>1. It[1..0] \in V
    <3>. HIDE DEF It
    <3>. QED BY <1>2, <1>7
  <2>2. \A i \in 1..n : It[1..(i - 1)] \in V => It[1..i] = h[<<i, It[1..(i - 1)]>>]
    <3>. HIDE DEF It, h, n
    <3>. QED BY <1>3, <1>7
  <2>. HIDE DEF It, h, n
  <2>3. StepsIn(n, V, h) /\ Recursive(n, V, h, It)
    BY <1>3, <2>1, <2>2 DEF StepsIn, Recursive
  <2>4. ValuesOf(n, V, h, It) # {}
    BY <1>1, <2>3, PrefixValues
  <2>. QED BY <2>4 DEF ValuesOf
<1>10. \A i \in 1..n : q[i] = Naming(q[i - 1], s[i])
  <2>1. \A i \in 1..n : i - 1 \in 0..n
    BY <1>1
  <2>. HIDE DEF It, h, n
  <2>. QED BY <1>3, <1>9, <2>1
<1>. QED
  <2>. HIDE DEF It, h
  <2>. QED BY <1>7, <1>8, <1>9, <1>10 DEF V

LEMMA NamesAdded ==
  ASSUME NEW s \in Seq(Entity), NEW b \in Seq(Entity), IsInjective(b)
  PROVE  NamedAfter(b, Range(s), FoldLeft(Naming, b, s))
<1>1. PICK q \in [0..Len(s) -> Seq(Entity)] :
        /\ q[0] = b /\ q[Len(s)] = FoldLeft(Naming, b, s)
        /\ \A i \in 1..Len(s) : q[i] = Naming(q[i - 1], s[i])
  BY NamingFold
<1> DEFINE n == Len(s)
           E(i) == {s[j] : j \in 1..i}
           P == {i \in Nat : i <= n => NamedAfter(b, E(i), q[i])}
<1>2. n \in Nat /\ DOMAIN s = 1..n /\ \A i \in 1..n : s[i] \in Entity
  OBVIOUS
<1>3. 0 \in P
  <2>1. E(0) = {}
    OBVIOUS
  <2>2. NamedAfter(b, {}, b)
    BY DEF NamedAfter, Extends
  <2>. QED BY <1>1, <2>1, <2>2
<1>4. ASSUME NEW i \in Nat, i \in P PROVE i + 1 \in P
  <2>. SUFFICES ASSUME i + 1 <= n PROVE NamedAfter(b, E(i + 1), q[i + 1])
    OBVIOUS
  <2>1. i + 1 \in 1..n /\ (i + 1) - 1 = i /\ i <= n
    BY <1>2
  <2>2. NamedAfter(b, E(i), q[i]) /\ q[i + 1] = Naming(q[i], s[i + 1]) /\ s[i + 1] \in Entity
    BY <1>1, <1>2, <1>4, <2>1
  <2>3. E(i + 1) = E(i) \cup {s[i + 1]}
    <3>1. 1..(i + 1) = (1..i) \cup {i + 1}
      OBVIOUS
    <3>. QED BY <3>1
  <2>. HIDE DEF E, n
  <2>. QED BY <2>2, <2>3, NamingStep
<1>5. n \in P
  <2>. HIDE DEF P
  <2>. QED BY <1>2, <1>3, <1>4, NaturalInduction
<1>6. NamedAfter(b, E(n), q[n]) /\ E(n) = Range(s)
  BY <1>2, <1>5 DEF Range
<1>. QED BY <1>1, <1>6

\* What the walk calls, and the graphs it calls it on.
RegionKey == [kind : EdgeKinds, owner : Nat, slot : Nat]
Relating  == [kind : Range(KindOrder) \ {"RequireEncoding"}, ends : Entity \X Entity,
              use : Nat \X Nat, existing : BOOLEAN, edge : RegionKey]
Calling   == {Bind(e) : e \in Entity} \cup Relating
Injective == {g \in Graph : IsInjective(g.vars)}

\* Whether the call adds a constraint, and the constraint.
Requires(g, call) == call.ends[1] \in DOMAIN program.pinned /\ call.ends[1] \notin Range(g.vars)
Adds(g, call) == call.kind = "bind" => Requires(g, call)
Added(r, call, c) ==
  /\ c \in Constraint
  /\ c.kind = IF call.kind = "bind" THEN "RequireEncoding" ELSE call.kind
  /\ c.use = call.use /\ c.existing = call.existing
  /\ c.enc = IF call.kind = "bind" THEN program.pinned[call.ends[1]] ELSE NoLayout
  /\ DOMAIN c.vars = DOMAIN call.ends
  /\ \A k \in DOMAIN call.ends : c.vars[k] \in DOMAIN r.vars /\ r.vars[c.vars[k]] = call.ends[k]
Performed(g, call, r) ==
  /\ r \in Injective /\ NamedAfter(g.vars, Range(call.ends), r.vars)
  /\ IF Adds(g, call) THEN \E c : r.cons = Append(g.cons, c) /\ Added(r, call, c)
                      ELSE r.cons = g.cons

LEMMA Callings ==
  ASSUME NEW call \in Calling
  PROVE  /\ call.ends \in Seq(Entity) /\ call.use \in Nat \X Nat /\ call.existing \in BOOLEAN
         /\ call.edge \in RegionKey /\ DOMAIN call.ends \in {{1}, {1, 2}}
         /\ IF call.kind = "bind"
            THEN /\ DOMAIN call.ends = {1} /\ call.edge = NoEdge
                 /\ call.use = NoUse /\ call.existing = FALSE
                 /\ call.ends = <<call.ends[1]>>
            ELSE /\ DOMAIN call.ends = {1, 2} /\ call.kind \in Range(KindOrder)
                 /\ call.kind # "RequireEncoding"
<1>1. CASE call \in Relating
  <2>1. call.kind # "bind"
    BY <1>1 DEF Relating, KindOrder, Range
  <2>2. call.ends \in Seq(Entity) /\ DOMAIN call.ends = {1, 2}
    <3>1. call.ends \in Entity \X Entity
      BY <1>1 DEF Relating
    <3>2. PICK e \in Entity, f \in Entity : call.ends = <<e, f>>
      BY <3>1
    <3>. QED BY <3>2
  <2>. QED BY <1>1, <2>1, <2>2 DEF Relating
<1>2. CASE call \notin Relating
  <2>1. PICK e \in Entity : call = Bind(e)
    BY <1>2 DEF Calling
  <2>2. /\ call.kind = "bind" /\ call.ends = <<e>> /\ call.use = <<0, 0>>
        /\ call.existing = FALSE /\ call.edge = [kind |-> "none", owner |-> 0, slot |-> 0]
    BY <2>1 DEF Bind, Call, NoUse, NoEdge
  <2>3. call.ends \in Seq(Entity) /\ DOMAIN call.ends = {1}
    BY <2>1, <2>2
  <2>4. call.use \in Nat \X Nat
    BY <2>2
  <2>5. call.edge \in RegionKey
    <3>1. [kind |-> "none", owner |-> 0, slot |-> 0] \in RegionKey
      BY DEF RegionKey, EdgeKinds
    <3>. QED BY <2>2, <3>1
  <2>6. call.ends = <<call.ends[1]>>
    BY <2>2
  <2>. QED BY <2>2, <2>3, <2>4, <2>5, <2>6 DEF NoUse, NoEdge
<1>. QED BY <1>1, <1>2

PinnedTyped == \A e \in DOMAIN program.pinned : program.pinned[e] \in Encodings

\* A call adds its ends, a constraint on them, and a region edge.
LEMMA PerformFacts ==
  ASSUME PinnedTyped, NEW g \in Injective, NEW call \in Calling
  PROVE  Performed(g, call, Perform(g, call))
<1> DEFINE names == FoldLeft(Naming, g.vars, call.ends)
           ID(e) == CHOOSE n \in DOMAIN names : names[n] = e
           ids == [k \in DOMAIN call.ends |-> ID(call.ends[k])]
           named == [g EXCEPT !.vars = names]
           kind == IF call.kind = "bind" THEN "RequireEncoding" ELSE call.kind
           enc == IF call.kind = "bind" THEN program.pinned[call.ends[1]] ELSE NoLayout
           c == [id |-> Len(g.cons) + 1, kind |-> kind, vars |-> ids,
                 use |-> call.use, existing |-> call.existing, enc |-> enc]
           r == Perform(g, call)
<1>1. /\ g.vars \in Seq(Entity) /\ g.cons \in Seq(Constraint) /\ g.edges \in SUBSET RegionEdge
      /\ g = [vars |-> g.vars, cons |-> g.cons, edges |-> g.edges] /\ IsInjective(g.vars)
  BY DEF Injective, Graph
<1>2. /\ call.ends \in Seq(Entity) /\ call.use \in Nat \X Nat /\ call.existing \in BOOLEAN
      /\ call.edge \in RegionKey /\ DOMAIN call.ends \in {{1}, {1, 2}}
      /\ IF call.kind = "bind"
         THEN /\ DOMAIN call.ends = {1} /\ call.edge = NoEdge
              /\ call.use = NoUse /\ call.existing = FALSE
         ELSE /\ DOMAIN call.ends = {1, 2} /\ call.kind \in Range(KindOrder)
              /\ call.kind # "RequireEncoding"
  BY Callings
<1>3. NamedAfter(g.vars, Range(call.ends), names)
  BY <1>1, <1>2, NamesAdded
<1>4. names \in Seq(Entity) /\ IsInjective(names) /\ Range(call.ends) \subseteq Range(names)
  BY <1>3 DEF NamedAfter
<1>5. \A k \in DOMAIN call.ends : ids[k] \in DOMAIN names /\ names[ids[k]] = call.ends[k]
  <2>. HIDE DEF names
  <2>. QED BY <1>4 DEF Range
<1>6. ids \in Seq(Nat) /\ DOMAIN ids = DOMAIN call.ends /\ \A k \in DOMAIN ids : ids[k] \in Nat
  <2>1. DOMAIN ids = DOMAIN call.ends /\ DOMAIN names \subseteq Nat
    BY <1>4
  <2>2. \A k \in DOMAIN ids : ids[k] \in Nat
    <3>. HIDE DEF names, ids
    <3>. QED BY <1>5, <2>1
  <2>3. ids = [k \in DOMAIN ids |-> ids[k]] /\ DOMAIN ids \in {1..1, 1..2}
    BY <1>2
  <2>. HIDE DEF ids
  <2>. QED BY <2>1, <2>2, <2>3
<1>. HIDE DEF ids, names
<1>7. Adds(g, call) => c \in Constraint
  <2>. SUFFICES ASSUME Adds(g, call) PROVE c \in Constraint
    OBVIOUS
  <2>1. enc \in Encodings \cup {NoLayout}
    BY <1>2 DEF Adds, Requires, PinnedTyped
  <2>2. kind \in Range(KindOrder)
    BY <1>2 DEF KindOrder, Range
  <2>3. Len(g.cons) + 1 \in Nat
    BY <1>1
  <2>. HIDE DEF kind, enc
  <2>. QED BY <1>2, <1>6, <2>1, <2>2, <2>3 DEF Constraint
<1>8. Adds(g, call) => r.vars = names /\ r.cons = Append(g.cons, c) /\ r \in Graph
  <2>. SUFFICES ASSUME Adds(g, call)
                PROVE  r.vars = names /\ r.cons = Append(g.cons, c) /\ r \in Graph
    OBVIOUS
  <2> DEFINE added == [vars |-> names, cons |-> Append(g.cons, c), edges |-> g.edges]
  <2>1. added \in Graph
    <3>. HIDE DEF c
    <3>. QED BY <1>1, <1>4, <1>7 DEF Graph
  <2>2. AddConstraint(named, kind, ids, call) = added
    <3>1. named = [vars |-> names, cons |-> g.cons, edges |-> g.edges]
      BY <1>1
    <3>2. c.enc = IF kind = "RequireEncoding" THEN program.pinned[call.ends[1]] ELSE NoLayout
      BY <1>2
    <3>3. /\ c.id = Len(g.cons) + 1 /\ c.kind = kind /\ c.vars = ids
          /\ c.use = call.use /\ c.existing = call.existing
          /\ c = [id |-> c.id, kind |-> c.kind, vars |-> c.vars,
                  use |-> c.use, existing |-> c.existing, enc |-> c.enc]
      OBVIOUS
    <3>4. /\ named.cons = g.cons
          /\ [named EXCEPT !.cons = Append(@, c)] = added
      <4>. HIDE DEF c, named
      <4>. QED BY <3>1
    <3>5. c = [id |-> Len(named.cons) + 1, kind |-> kind, vars |-> ids,
               use |-> call.use, existing |-> call.existing,
               enc |-> IF kind = "RequireEncoding"
                         THEN program.pinned[call.ends[1]] ELSE NoLayout]
      <4>. HIDE DEF c, named, kind
      <4>. QED BY <3>2, <3>3, <3>4
    <3>6. AddConstraint(named, kind, ids, call) = [named EXCEPT !.cons = Append(@, c)]
      <4>. HIDE DEF c, named, kind
      <4>. QED BY <3>5 DEF AddConstraint
    <3>. QED BY <3>4, <3>6
  <2>3. CASE call.kind = "bind"
    <3>1. names # g.vars
      <4>1. call.ends[1] \in Range(call.ends) /\ call.ends[1] \notin Range(g.vars)
        BY <1>2, <2>3 DEF Adds, Requires, Range
      <4>. QED BY <1>4, <4>1
    <3>2. r = AddConstraint(named, kind, ids, call)
      BY <2>3, <3>1 DEF Perform, Adds, Requires, names, ids
    <3>. QED BY <2>1, <2>2, <3>2
  <2>4. CASE call.kind # "bind"
    <3>1. r = RecordRegion(AddConstraint(named, kind, ids, call), ids, call)
      BY <2>4 DEF Perform, names, ids
    <3>2. r = RecordRegion(added, ids, call)
      BY <2>2, <3>1
    <3> DEFINE edge == [kind |-> call.edge.kind, owner |-> call.edge.owner,
                        slot |-> call.edge.slot, source |-> ids[1], target |-> ids[2],
                        constraint |-> Len(added.cons), use |-> call.use]
    <3>3. edge \in RegionEdge
      <4>1. Len(added.cons) \in Nat
        <5>. HIDE DEF c
        <5>. QED BY <1>1, <1>7
      <4>2. ids[1] \in Nat /\ ids[2] \in Nat
        BY <1>2, <1>6, <2>4
      <4>. HIDE DEF added
      <4>. QED BY <1>2, <4>1, <4>2 DEF RegionEdge, RegionKey
    <3>4. CASE call.edge = NoEdge
      BY <2>1, <3>2, <3>4 DEF RecordRegion
    <3>5. CASE call.edge # NoEdge
      <4>1. r = [added EXCEPT !.edges = @ \cup {edge}]
        BY <3>2, <3>5 DEF RecordRegion
      <4>2. r = [vars |-> names, cons |-> Append(g.cons, c), edges |-> g.edges \cup {edge}]
        <5>. HIDE DEF edge, c
        <5>. QED BY <4>1
      <4>3. Append(g.cons, c) \in Seq(Constraint)
        BY <2>1 DEF Graph
      <4>. HIDE DEF edge, c, r
      <4>. QED BY <1>1, <1>4, <3>3, <4>2, <4>3 DEF Graph
    <3>. QED BY <3>4, <3>5
  <2>. QED BY <2>3, <2>4
<1>9. ~Adds(g, call) => r.vars = names /\ r.cons = g.cons /\ r \in Graph
  <2>. SUFFICES ASSUME ~Adds(g, call)
                PROVE  r.vars = names /\ r.cons = g.cons /\ r \in Graph
    OBVIOUS
  <2>1. call.kind = "bind"
    BY DEF Adds
  <2>2. r = named
    <3>1. CASE call.ends[1] \notin DOMAIN program.pinned
      BY <2>1, <3>1 DEF Perform, names, ids
    <3>2. CASE call.ends[1] \in Range(g.vars)
      <4>1. Range(call.ends) \subseteq Range(g.vars)
        BY <1>2, <2>1, <3>2 DEF Range
      <4>2. names = g.vars
        BY <1>3, <4>1 DEF NamedAfter
      <4>. QED BY <2>1, <4>2 DEF Perform, names, ids
    <3>. QED BY <3>1, <3>2 DEF Adds, Requires
  <2>3. named = [vars |-> names, cons |-> g.cons, edges |-> g.edges]
    BY <1>1
  <2>. HIDE DEF r, named
  <2>. QED BY <1>1, <1>4, <2>2, <2>3 DEF Graph
<1>10. Adds(g, call) => Added(r, call, c)
  <2>1. Adds(g, call) => r.vars = names
    BY <1>8
  <2>2. DOMAIN c.vars = DOMAIN call.ends
    BY <1>6
  <2>3. \A k \in DOMAIN call.ends : c.vars[k] \in DOMAIN names /\ names[c.vars[k]] = call.ends[k]
    BY <1>5
  <2>. HIDE DEF r
  <2>. QED BY <1>7, <2>1, <2>2, <2>3 DEF Added
<1>11. r \in Injective /\ NamedAfter(g.vars, Range(call.ends), r.vars)
  <2>1. r \in Graph /\ r.vars = names
    BY <1>8, <1>9
  <2>. HIDE DEF r
  <2>. QED BY <1>3, <1>4, <2>1 DEF Injective
<1>. HIDE DEF r, c
<1>12. Performed(g, call, r)
  BY <1>8, <1>9, <1>10, <1>11 DEF Performed
<1>. QED BY <1>12 DEF r

LEMMA PerformTyped ==
  ASSUME PinnedTyped, NEW g \in Injective, NEW call \in Calling
  PROVE  Perform(g, call) \in Injective
BY PerformFacts DEF Performed

\* The calls of an operation are performed in order.
LEMMA PerformFold ==
  ASSUME PinnedTyped, NEW s \in Seq(Calling), NEW b \in Injective
  PROVE  \E q \in [0..Len(s) -> Injective] :
           /\ q[0] = b /\ q[Len(s)] = FoldLeft(Perform, b, s)
           /\ \A i \in 1..Len(s) : q[i] = Perform(q[i - 1], s[i])
<1> DEFINE n == Len(s)
           V == Injective
           h == [p \in (1..n) \X V |-> Perform(p[2], s[p[1]])]
           It == CHOOSE g : g = [T \in SUBSET (1..n) |->
                   IF T = {} THEN b ELSE Perform(g[T \ {Max(T)}], s[Max(T)])]
<1>1. n \in Nat /\ DOMAIN s = 1..n /\ \A i \in 1..n : s[i] \in Calling
  OBVIOUS
<1>2. b \in V /\ \A x \in Calling, v \in V : Perform(v, x) \in V
  BY PerformTyped
<1>. HIDE DEF V
<1>3. \A i \in 1..n, v \in V : h[<<i, v>>] = Perform(v, s[i]) /\ h[<<i, v>>] \in V
  BY <1>1, <1>2
<1>4. PICK g \in [SUBSET (1..n) -> V] : \A T \in SUBSET (1..n) :
        g[T] = IF T = {} THEN b ELSE h[<<Max(T), g[T \ {Max(T)}]>>]
  <2>1. StepsIn(n, V, h)
    <3>. HIDE DEF h, n
    <3>. QED BY <1>3 DEF StepsIn
  <2>. HIDE DEF h, n
  <2>2. PrefixRecursions(n, V, b, h) # {}
    BY <1>1, <1>2, <2>1, PrefixRecursion
  <2>. QED BY <2>2 DEF PrefixRecursions
<1>5. g = [T \in SUBSET (1..n) |->
             IF T = {} THEN b ELSE Perform(g[T \ {Max(T)}], s[Max(T)])]
  <2>1. ASSUME NEW T \in SUBSET (1..n), T # {}
        PROVE  g[T] = Perform(g[T \ {Max(T)}], s[Max(T)])
    <3>1. Max(T) \in 1..n
      BY <1>1, <2>1, LastPosition
    <3>2. T \ {Max(T)} \in SUBSET (1..n)
      OBVIOUS
    <3>. HIDE DEF h, n
    <3>. QED BY <1>3, <1>4, <2>1, <3>1, <3>2
  <2>. HIDE DEF h, n
  <2>. QED BY <1>4, <2>1
<1>6. It = [T \in SUBSET (1..n) |->
              IF T = {} THEN b ELSE Perform(It[T \ {Max(T)}], s[Max(T)])]
  <2>. HIDE DEF h, n
  <2>. QED BY <1>5
<1>7. It[1..0] = b /\ \A i \in 1..n : It[1..i] = Perform(It[1..(i - 1)], s[i])
  <2>1. 1..0 = {} /\ 1..0 \in SUBSET (1..n)
    BY <1>1
  <2>2. \A i \in 1..n : 1..i \in SUBSET (1..n) /\ 1..i # {}
    BY <1>1, LastPosition
  <2>. HIDE DEF It, n
  <2>. QED BY <1>1, <1>6, <2>1, <2>2, LastPosition
<1>8. FoldLeft(Perform, b, s) = It[1..n]
  BY <1>1 DEF FoldLeft, MapThenFoldSet
<1>9. PICK q \in [0..n -> V] :
        q[0] = It[1..0] /\ q[n] = It[1..n] /\ \A i \in 1..n : q[i] = h[<<i, q[i - 1]>>]
  <2>1. It[1..0] \in V
    <3>. HIDE DEF It
    <3>. QED BY <1>2, <1>7
  <2>2. \A i \in 1..n : It[1..(i - 1)] \in V => It[1..i] = h[<<i, It[1..(i - 1)]>>]
    <3>. HIDE DEF It, h, n
    <3>. QED BY <1>3, <1>7
  <2>. HIDE DEF It, h, n
  <2>3. StepsIn(n, V, h) /\ Recursive(n, V, h, It)
    BY <1>3, <2>1, <2>2 DEF StepsIn, Recursive
  <2>4. ValuesOf(n, V, h, It) # {}
    BY <1>1, <2>3, PrefixValues
  <2>. QED BY <2>4 DEF ValuesOf
<1>10. \A i \in 1..n : q[i] = Perform(q[i - 1], s[i])
  <2>1. \A i \in 1..n : i - 1 \in 0..n
    BY <1>1
  <2>. HIDE DEF It, h, n
  <2>. QED BY <1>3, <1>9, <2>1
<1>. QED
  <2>. HIDE DEF It, h
  <2>. QED BY <1>7, <1>8, <1>9, <1>10 DEF V

------------------------------------------------------------------------------
(* What the graph says after some calls, read by names.                    *)

EndsOf(C)  == UNION {Range(c.ends) : c \in C}
BoundBy(C) == {c.ends[1] : c \in {d \in C : d.kind = "bind"}}

Relation(c) ==
  [kind |-> c.kind, use |-> c.use, existing |-> c.existing, enc |-> NoLayout,
   ends |-> IF c.kind = "SameLayout" THEN Range(c.ends) ELSE c.ends]
Requirement(e) ==
  [kind |-> "RequireEncoding", use |-> NoUse, existing |-> FALSE,
   enc |-> program.pinned[e], ends |-> <<e>>]
RelationsFrom(C) ==
  {Relation(c) : c \in {d \in C : d.kind # "bind"}}
    \cup {Requirement(e) : e \in BoundBy(C) \cap DOMAIN program.pinned}

\* What has an encoding in its type is bound before it is used.
Declared(C) == EndsOf(C) \cap DOMAIN program.pinned \subseteq BoundBy(C)

WithinVars(g) ==
  \A n \in DOMAIN g.cons : \A k \in DOMAIN g.cons[n].vars : g.cons[n].vars[k] \in DOMAIN g.vars
RelationsOf(g) == {NamedRelation(g, g.cons[n]) : n \in DOMAIN g.cons}

Reads(g, C) == /\ g \in Injective /\ WithinVars(g)
               /\ Range(g.vars) = EndsOf(C) /\ RelationsOf(g) = RelationsFrom(C)

InOrder(C, call) ==
  call.kind # "bind" => Range(call.ends) \cap DOMAIN program.pinned \subseteq BoundBy(C)

LEMMA EndsAdded ==
  ASSUME NEW C, NEW call
  PROVE  /\ EndsOf(C \cup {call}) = EndsOf(C) \cup Range(call.ends)
         /\ BoundBy(C \cup {call})
              = BoundBy(C) \cup (IF call.kind = "bind" THEN {call.ends[1]} ELSE {})
<1>1. EndsOf(C \cup {call}) = EndsOf(C) \cup Range(call.ends)
  BY DEF EndsOf
<1>2. BoundBy(C \cup {call})
        = BoundBy(C) \cup (IF call.kind = "bind" THEN {call.ends[1]} ELSE {})
  BY DEF BoundBy
<1>. QED BY <1>1, <1>2

LEMMA RelationsAdded ==
  ASSUME NEW C, NEW call
  PROVE  RelationsFrom(C \cup {call}) = RelationsFrom(C) \cup
           (IF call.kind # "bind" THEN {Relation(call)}
            ELSE {Requirement(e) : e \in {call.ends[1]} \cap DOMAIN program.pinned})
<1> DEFINE R(D) == {Relation(c) : c \in {d \in D : d.kind # "bind"}}
           Q(D) == {Requirement(e) : e \in BoundBy(D) \cap DOMAIN program.pinned}
<1>1. R(C \cup {call}) = R(C) \cup (IF call.kind # "bind" THEN {Relation(call)} ELSE {})
  OBVIOUS
<1>2. Q(C \cup {call}) = Q(C) \cup
        (IF call.kind # "bind" THEN {}
         ELSE {Requirement(e) : e \in {call.ends[1]} \cap DOMAIN program.pinned})
  <2>1. BoundBy(C \cup {call})
          = BoundBy(C) \cup (IF call.kind = "bind" THEN {call.ends[1]} ELSE {})
    BY EndsAdded
  <2>2. CASE call.kind = "bind"
    BY <2>1, <2>2
  <2>3. CASE call.kind # "bind"
    BY <2>1, <2>3
  <2>. QED BY <2>2, <2>3
<1>3. RelationsFrom(C) = R(C) \cup Q(C) /\ RelationsFrom(C \cup {call}) = R(C \cup {call}) \cup Q(C \cup {call})
  BY DEF RelationsFrom
<1>. HIDE DEF R, Q
<1>. QED BY <1>1, <1>2, <1>3

\* Naming more variables changes no relation there is.
LEMMA OldRelations ==
  ASSUME NEW g \in Injective, WithinVars(g), NEW r, Extends(g.vars, r.vars),
         NEW n \in DOMAIN g.cons
  PROVE  NamedRelation(r, g.cons[n]) = NamedRelation(g, g.cons[n])
<1> DEFINE c == g.cons[n]
<1>1. \A k \in DOMAIN c.vars : c.vars[k] \in 1..Len(g.vars)
  BY DEF WithinVars, Injective, Graph
<1>2. \A k \in DOMAIN c.vars : r.vars[c.vars[k]] = g.vars[c.vars[k]]
  BY <1>1 DEF Extends
<1>3. [k \in DOMAIN c.vars |-> r.vars[c.vars[k]]] = [k \in DOMAIN c.vars |-> g.vars[c.vars[k]]]
  <2>. HIDE DEF c
  <2>. QED BY <1>2
<1>. HIDE DEF c
<1>4. NamedRelation(r, c) = NamedRelation(g, c)
  BY <1>3 DEF NamedRelation
<1>. QED BY <1>4 DEF c

\* The constraint a call adds says what the call says.
LEMMA NewRelation ==
  ASSUME NEW call \in Calling, NEW r, NEW c, Added(r, call, c)
  PROVE  NamedRelation(r, c) = IF call.kind = "bind" THEN Requirement(call.ends[1])
                                                     ELSE Relation(call)
<1>1. /\ c.kind = IF call.kind = "bind" THEN "RequireEncoding" ELSE call.kind
      /\ c.use = call.use /\ c.existing = call.existing
      /\ c.enc = IF call.kind = "bind" THEN program.pinned[call.ends[1]] ELSE NoLayout
      /\ DOMAIN c.vars = DOMAIN call.ends
      /\ \A k \in DOMAIN call.ends : r.vars[c.vars[k]] = call.ends[k]
  BY DEF Added
<1>2. /\ call.ends \in Seq(Entity) /\ DOMAIN call.ends \in {{1}, {1, 2}}
      /\ call.kind = "bind" => /\ DOMAIN call.ends = {1}
                               /\ call.use = NoUse /\ call.existing = FALSE
                               /\ call.ends = <<call.ends[1]>>
  BY Callings
<1>3. [k \in DOMAIN c.vars |-> r.vars[c.vars[k]]] = call.ends
  <2>1. call.ends = [k \in DOMAIN call.ends |-> call.ends[k]]
    BY <1>2
  <2>. QED BY <1>1, <2>1
<1>4. CASE call.kind = "bind"
  <2>1. call.ends = <<call.ends[1]>>
    BY <1>2, <1>4
  <2>2. ~Commutative(c)
    BY <1>1, <1>4 DEF Commutative
  <2>. QED BY <1>1, <1>2, <1>3, <1>4, <2>1, <2>2 DEF NamedRelation, Requirement
<1>5. CASE call.kind # "bind"
  <2>1. Commutative(c) <=> call.kind = "SameLayout"
    BY <1>1, <1>5 DEF Commutative
  <2>. QED BY <1>1, <1>3, <1>5, <2>1 DEF NamedRelation, Relation
<1>. QED BY <1>4, <1>5

\* One more call is one more relation.
LEMMA ReadsOneMore ==
  ASSUME PinnedTyped, NEW C \in SUBSET Calling, NEW g, Reads(g, C), Declared(C),
         NEW call \in Calling, InOrder(C, call)
  PROVE  Reads(Perform(g, call), C \cup {call}) /\ Declared(C \cup {call})
<1> DEFINE r == Perform(g, call)
<1>1. /\ g \in Injective /\ WithinVars(g)
      /\ Range(g.vars) = EndsOf(C) /\ RelationsOf(g) = RelationsFrom(C)
  BY DEF Reads
<1>2. Performed(g, call, r)
  BY <1>1, PerformFacts
<1>. HIDE DEF r
<1>3. /\ r \in Injective /\ Extends(g.vars, r.vars)
      /\ Range(r.vars) = Range(g.vars) \cup Range(call.ends)
  BY <1>2 DEF Performed, NamedAfter
<1>4. /\ DOMAIN call.ends \in {{1}, {1, 2}}
      /\ call.kind = "bind" => DOMAIN call.ends = {1}
  BY Callings
<1>5. Declared(C \cup {call})
  <2>1. CASE call.kind = "bind"
    <3>1. Range(call.ends) = {call.ends[1]}
      BY <1>4, <2>1 DEF Range
    <3>2. /\ EndsOf(C \cup {call}) = EndsOf(C) \cup {call.ends[1]}
          /\ BoundBy(C \cup {call}) = BoundBy(C) \cup {call.ends[1]}
      BY <2>1, <3>1, EndsAdded
    <3>. QED BY <3>2 DEF Declared
  <2>2. CASE call.kind # "bind"
    BY <2>2, EndsAdded DEF Declared, InOrder
  <2>. QED BY <2>1, <2>2
<1>6. \A n \in DOMAIN g.cons : NamedRelation(r, g.cons[n]) = NamedRelation(g, g.cons[n])
  BY <1>1, <1>3, OldRelations
<1>7. DOMAIN g.vars \subseteq DOMAIN r.vars
  BY <1>1, <1>3 DEF Extends, Injective, Graph
<1>8. CASE Adds(g, call)
  <2>1. PICK c : r.cons = Append(g.cons, c) /\ Added(r, call, c)
    BY <1>2, <1>8 DEF Performed
  <2>2. /\ g.cons \in Seq(Constraint) /\ c \in Constraint
        /\ \A k \in DOMAIN c.vars : c.vars[k] \in DOMAIN r.vars
    BY <1>1, <2>1 DEF Injective, Graph, Added
  <2>3. /\ DOMAIN r.cons = DOMAIN g.cons \cup {Len(g.cons) + 1}
        /\ r.cons[Len(g.cons) + 1] = c /\ \A n \in DOMAIN g.cons : r.cons[n] = g.cons[n]
    BY <2>1, <2>2
  <2>4. WithinVars(r)
    BY <1>1, <1>7, <2>2, <2>3 DEF WithinVars
  <2>5. RelationsOf(r) = RelationsOf(g) \cup {NamedRelation(r, c)}
    BY <1>6, <2>3 DEF RelationsOf
  <2>6. RelationsFrom(C \cup {call}) = RelationsFrom(C) \cup {NamedRelation(r, c)}
    <3>1. CASE call.kind = "bind"
      <4>1. call.ends[1] \in DOMAIN program.pinned
        BY <1>8, <3>1 DEF Adds, Requires
      <4>2. NamedRelation(r, c) = Requirement(call.ends[1])
        BY <2>1, <3>1, NewRelation
      <4>3. {Requirement(e) : e \in {call.ends[1]} \cap DOMAIN program.pinned}
              = {Requirement(call.ends[1])}
        BY <4>1
      <4>. QED BY <3>1, <4>2, <4>3, RelationsAdded
    <3>2. CASE call.kind # "bind"
      <4>1. NamedRelation(r, c) = Relation(call)
        BY <2>1, <3>2, NewRelation
      <4>. QED BY <3>2, <4>1, RelationsAdded
    <3>. QED BY <3>1, <3>2
  <2>7. Range(r.vars) = EndsOf(C \cup {call})
    BY <1>1, <1>3, EndsAdded
  <2>8. Reads(r, C \cup {call})
    BY <1>1, <1>3, <2>4, <2>5, <2>6, <2>7 DEF Reads
  <2>. QED BY <1>5, <2>8 DEF r
<1>9. CASE ~Adds(g, call)
  <2>1. r.cons = g.cons
    BY <1>2, <1>9 DEF Performed
  <2>2. call.kind = "bind" /\ ~Requires(g, call)
    BY <1>9 DEF Adds
  <2>3. WithinVars(r)
    BY <1>1, <1>7, <2>1 DEF WithinVars
  <2>4. RelationsOf(r) = RelationsOf(g)
    BY <1>6, <2>1 DEF RelationsOf
  <2>5. RelationsFrom(C \cup {call}) = RelationsFrom(C)
    <3>1. \A e \in {call.ends[1]} \cap DOMAIN program.pinned : e \in BoundBy(C)
      BY <1>1, <2>2 DEF Requires, Declared
    <3>2. \A e \in {call.ends[1]} \cap DOMAIN program.pinned : Requirement(e) \in RelationsFrom(C)
      BY <3>1 DEF RelationsFrom
    <3>3. {Requirement(e) : e \in {call.ends[1]} \cap DOMAIN program.pinned}
            \subseteq RelationsFrom(C)
      BY <3>2
    <3>4. RelationsFrom(C \cup {call}) = RelationsFrom(C) \cup
            {Requirement(e) : e \in {call.ends[1]} \cap DOMAIN program.pinned}
      BY <2>2, RelationsAdded
    <3>. QED BY <3>3, <3>4
  <2>6. Range(r.vars) = EndsOf(C \cup {call})
    BY <1>1, <1>3, EndsAdded
  <2>7. Reads(r, C \cup {call})
    BY <1>1, <1>3, <2>3, <2>4, <2>5, <2>6 DEF Reads
  <2>. QED BY <1>5, <2>7 DEF r
<1>. QED BY <1>8, <1>9

\* All calls of an operation.
LEMMA ReadsAll ==
  ASSUME PinnedTyped, NEW C \in SUBSET Calling, NEW g, Reads(g, C), Declared(C),
         NEW s \in Seq(Calling),
         \A i \in DOMAIN s : InOrder(C \cup {s[j] : j \in 1..(i - 1)}, s[i])
  PROVE  Reads(FoldLeft(Perform, g, s), C \cup Range(s)) /\ Declared(C \cup Range(s))
<1>0. g \in Injective
  BY DEF Reads
<1>1. PICK q \in [0..Len(s) -> Injective] :
        /\ q[0] = g /\ q[Len(s)] = FoldLeft(Perform, g, s)
        /\ \A i \in 1..Len(s) : q[i] = Perform(q[i - 1], s[i])
  BY <1>0, PerformFold
<1> DEFINE n == Len(s)
           D(i) == C \cup {s[j] : j \in 1..i}
           P == {i \in Nat : i <= n => Reads(q[i], D(i)) /\ Declared(D(i))}
<1>2. n \in Nat /\ DOMAIN s = 1..n /\ \A i \in 1..n : s[i] \in Calling
  OBVIOUS
<1>3. 0 \in P
  <2>1. D(0) = C
    OBVIOUS
  <2>. QED BY <1>1, <2>1
<1>4. ASSUME NEW i \in Nat, i \in P PROVE i + 1 \in P
  <2>. SUFFICES ASSUME i + 1 <= n PROVE Reads(q[i + 1], D(i + 1)) /\ Declared(D(i + 1))
    OBVIOUS
  <2>1. i + 1 \in 1..n /\ (i + 1) - 1 = i /\ i <= n
    BY <1>2
  <2>2. Reads(q[i], D(i)) /\ Declared(D(i))
    BY <1>4, <2>1
  <2>3. /\ q[i + 1] = Perform(q[i], s[i + 1]) /\ s[i + 1] \in Calling
        /\ InOrder(D(i), s[i + 1])
    BY <1>1, <1>2, <2>1
  <2>4. D(i + 1) = D(i) \cup {s[i + 1]}
    <3>1. 1..(i + 1) = (1..i) \cup {i + 1}
      OBVIOUS
    <3>. QED BY <3>1
  <2>5. D(i) \in SUBSET Calling
    BY <1>2, <2>1
  <2>. HIDE DEF D, n
  <2>. QED BY <2>2, <2>3, <2>4, <2>5, ReadsOneMore
<1>5. n \in P
  <2>. HIDE DEF P
  <2>. QED BY <1>2, <1>3, <1>4, NaturalInduction
<1>6. Reads(q[n], D(n)) /\ Declared(D(n)) /\ D(n) = C \cup Range(s)
  BY <1>2, <1>5 DEF Range
<1>. QED BY <1>1, <1>6

------------------------------------------------------------------------------
(* The calls for an operation.                                             *)

Ops == DOMAIN program.ops

\* What matching slots mean to each kind of operation.
Matched(o) ==
  LET op    == Op(o)
      outer == Op(op.parent)
      slots(s) == TensorSlots(s)
  IN  /\ op.kind = "for" => slots(op.args) = slots(op.operands) /\ slots(op.args) = slots(op.results)
      /\ op.kind = "while" =>
           slots(op.args) = slots(op.operands) /\ slots(op.after) = slots(op.results)
      /\ op.kind = "condition" =>
           /\ op.parent # 0 /\ outer.kind = "while"
           /\ \A i \in slots(op.operands) \ {1} : i - 1 \in slots(outer.results)
      /\ op.kind = "yield" =>
           /\ op.parent # 0
           /\ outer.kind \in {"if", "for"} => slots(op.operands) \subseteq slots(outer.results)
           /\ outer.kind = "while" => slots(op.operands) \subseteq slots(outer.args)
      /\ op.kind = "return" =>
           op.parent # 0 /\ outer.kind = "func" /\ slots(op.operands) \subseteq slots(outer.outs)
      /\ op.kind = "elementwise" =>
           (slots(op.operands) \cup slots(op.results) # {} => 1 \in slots(op.results))
      /\ op.kind = "transpose" => {1, 2} \subseteq slots(op.operands) /\ 1 \in slots(op.results)
      /\ op.kind = "load" => 1 \in DOMAIN op.operands /\ 1 \in slots(op.results)
      /\ op.kind = "store" => 1 \in slots(op.operands) /\ 2 \in DOMAIN op.operands
      /\ op.kind = "convert" => 1 \in slots(op.operands) /\ 1 \in slots(op.results)

LEMMA OpFacts ==
  ASSUME program \in Programs, NEW o \in Ops
  PROVE  /\ o \in Nat \ {0} /\ Op(o) \in OpType
         /\ Op(o).parent \in Nat /\ Op(o).parent < o
         /\ Op(o).parent # 0 => Op(o).parent \in Ops
         /\ Matched(o) /\ DOMAIN program.ops = 1..Len(program.ops) /\ Len(program.ops) \in Nat
<1>1. WellFormed(program)
  BY ProgramsAssumption
<1>2. /\ program.ops \in Seq(OpType)
      /\ Op(o).parent < o /\ SlotsMatch(program, o)
  BY <1>1 DEF WellFormed, Ops, Op
<1>3. /\ o \in Nat \ {0} /\ Op(o) \in OpType
      /\ DOMAIN program.ops = 1..Len(program.ops) /\ Len(program.ops) \in Nat
  BY <1>2 DEF Ops, Op
<1>4. Op(o).parent \in Nat
  BY <1>3 DEF OpType
<1>5. Op(o).parent # 0 => Op(o).parent \in Ops
  BY <1>2, <1>3, <1>4 DEF Ops
<1>6. Matched(o)
  BY <1>2 DEF SlotsMatch, Matched, TensorSlots, Op
<1>. QED BY <1>2, <1>3, <1>4, <1>5, <1>6

LEMMA PinnedFacts ==
  ASSUME program \in Programs
  PROVE  PinnedTyped /\ \A e \in DOMAIN program.pinned : Appears(program, e)
BY ProgramsAssumption DEF WellFormed, PinnedTyped

Tuples(o) == {Op(o).operands, Op(o).results, Op(o).args, Op(o).after}
Shown(o) ==
  {e \in Entity :
     \/ \E s \in Tuples(o) : \E i \in TensorSlots(s) : e = Value(s[i])
     \/ Op(o).kind = "func" /\ \E i \in TensorSlots(Op(o).outs) : e = Result(o, i)}
Known(o) == Shown(o) \cup (IF Op(o).parent = 0 THEN {} ELSE Shown(Op(o).parent))

\* An entity that has no type of its own, or that is bound by now.
Usable(o, e) == e \in Entity /\ (e \in Known(o) \/ e[1] \in {"use", "storage"})
Fine(o) ==
  {c \in Calling : c.kind # "bind" => /\ c.use = NoUse \/ c.use[1] = o
                                      /\ \A e \in Range(c.ends) : Usable(o, e)}

LEMMA TupleRanges ==
  ASSUME NEW a, NEW b
  PROVE  Range(<<>>) = {} /\ Range(<<a>>) = {a} /\ Range(<<a, b>>) = {a, b}
<1>1. DOMAIN <<>> = {} /\ DOMAIN <<a>> = {1} /\ DOMAIN <<a, b>> = {1, 2}
  OBVIOUS
<1>2. <<a>>[1] = a /\ <<a, b>>[1] = a /\ <<a, b>>[2] = b
  OBVIOUS
<1>. QED BY <1>1, <1>2 DEF Range

LEMMA OpTyped ==
  ASSUME program \in Programs, NEW o \in Ops, NEW s \in Tuples(o) \cup {Op(o).outs}
  PROVE  /\ s \in Seq(Nat) /\ TensorSlots(s) \subseteq DOMAIN s /\ TensorSlots(s) \subseteq Nat
         /\ \A i \in DOMAIN s : s[i] \in Nat /\ i \in Nat
<1>1. Op(o) \in OpType
  BY OpFacts
<1>2. s \in Seq(Nat)
  BY <1>1 DEF OpType, Tuples
<1>3. TensorSlots(s) \subseteq DOMAIN s
  BY DEF TensorSlots, SlotsIn
<1>. QED BY <1>2, <1>3

\* Values, results, uses and storage are entities.
LEMMA Entities ==
  /\ \A v \in Nat : Value(v) \in Entity /\ Storage(v) \in Entity /\ Storage(v)[1] = "storage"
  /\ \A o, i \in Nat : Use(o, i) \in Entity /\ Result(o, i) \in Entity /\ Use(o, i)[1] = "use"
<1>1. ASSUME NEW v \in Nat PROVE Value(v) \in Entity /\ Storage(v) \in Entity /\ Storage(v)[1] = "storage"
  BY DEF Value, Storage, Entity
<1>2. ASSUME NEW o \in Nat, NEW i \in Nat
      PROVE Use(o, i) \in Entity /\ Result(o, i) \in Entity /\ Use(o, i)[1] = "use"
  BY DEF Use, Result, Entity
<1>. QED BY <1>1, <1>2

\* What an operation shows is an entity, and lets the walk look at it.
LEMMA ShownFacts ==
  ASSUME program \in Programs, NEW o \in Ops, NEW e \in Shown(o)
  PROVE  e \in Entity /\ TensorBearing(o)
<1>1. CASE \E s \in Tuples(o) : \E i \in TensorSlots(s) : e = Value(s[i])
  <2>1. PICK s \in Tuples(o) : \E i \in TensorSlots(s) : e = Value(s[i])
    BY <1>1
  <2>2. PICK i \in TensorSlots(s) : e = Value(s[i])
    BY <2>1
  <2>3. s[i] \in Nat
    BY <2>1, OpTyped
  <2>. QED BY <2>2, <2>3, Entities DEF TensorBearing, Tuples
<1>2. CASE \E i \in TensorSlots(Op(o).outs) : e = Result(o, i)
  <2>1. PICK i \in TensorSlots(Op(o).outs) : e = Result(o, i)
    BY <1>2
  <2>2. i \in Nat /\ o \in Nat
    <3>1. TensorSlots(Op(o).outs) \subseteq Nat
      BY OpTyped
    <3>. QED BY <3>1, OpFacts
  <2>. QED BY <2>1, <2>2, Entities DEF TensorBearing
<1>. QED BY <1>1, <1>2 DEF Shown

\* A relation between entities that are usable.
LEMMA FineCall ==
  ASSUME program \in Programs, NEW o \in Ops, NEW a, Usable(o, a), NEW b, Usable(o, b),
         NEW kind \in Range(KindOrder) \ {"RequireEncoding"},
         NEW use \in Nat \X Nat, use = NoUse \/ use[1] = o, NEW edge \in RegionKey
  PROVE  /\ Call(kind, <<a, b>>, use, edge) \in Fine(o)
         /\ [kind |-> kind, ends |-> <<a, b>>, use |-> use, existing |-> TRUE, edge |-> edge]
              \in Fine(o)
<1>1. a \in Entity /\ b \in Entity
  BY DEF Usable
<1> DEFINE c(x) == [kind |-> kind, ends |-> <<a, b>>, use |-> use, existing |-> x, edge |-> edge]
<1>2. ASSUME NEW x \in BOOLEAN PROVE c(x) \in Fine(o)
  <2>1. c(x) \in Relating
    BY <1>1 DEF Relating
  <2>2. c(x) \in Calling
    <3>. HIDE DEF c
    <3>. QED BY <2>1 DEF Calling
  <2>3. /\ c(x).use = NoUse \/ c(x).use[1] = o
        /\ \A e \in Range(c(x).ends) : Usable(o, e)
    <3>1. c(x).use = use /\ c(x).ends = <<a, b>>
      OBVIOUS
    <3>2. Range(c(x).ends) = {a, b}
      BY <3>1, TupleRanges
    <3>. HIDE DEF c
    <3>. QED BY <3>1, <3>2
  <2>. HIDE DEF c
  <2>. QED BY <2>2, <2>3 DEF Fine
<1>3. Call(kind, <<a, b>>, use, edge) = c(FALSE)
  BY DEF Call
<1>4. c(FALSE) \in Fine(o) /\ c(TRUE) \in Fine(o)
  <2>. HIDE DEF c
  <2>. QED BY <1>2
<1>. QED BY <1>3, <1>4

LEMMA Kinds ==
  /\ {"SameLayout", "Convertible", "TransformLayout", "StorageAccess", "Preference"}
       \subseteq Range(KindOrder) \ {"RequireEncoding"}
  /\ NoUse \in Nat \X Nat /\ NoEdge \in RegionKey
  /\ \A k \in EdgeKinds, o, i \in Nat : Edge(k, o, i) \in RegionKey
<1>1. {"SameLayout", "Convertible", "TransformLayout", "StorageAccess", "Preference"}
        \subseteq Range(KindOrder) \ {"RequireEncoding"}
  <2>1. /\ KindOrder[1] = "SameLayout" /\ KindOrder[2] = "Convertible"
        /\ KindOrder[3] = "TransformLayout" /\ KindOrder[5] = "StorageAccess"
        /\ KindOrder[6] = "Preference" /\ DOMAIN KindOrder = 1..6
    BY DEF KindOrder
  <2>2. {1, 2, 3, 5, 6} \subseteq 1..6
    OBVIOUS
  <2>. HIDE DEF KindOrder
  <2>. QED BY <2>1, <2>2 DEF Range
<1>2. NoUse \in Nat \X Nat /\ NoEdge \in RegionKey
  BY DEF NoUse, NoEdge, RegionKey, EdgeKinds
<1>3. \A k \in EdgeKinds, o, i \in Nat : Edge(k, o, i) \in RegionKey
  BY DEF Edge, RegionKey
<1>. QED BY <1>1, <1>2, <1>3

\* The values of an operation's tuples are known, and so are its uses.
LEMMA KnownValues ==
  ASSUME program \in Programs, NEW o \in Ops
  PROVE  /\ \A s \in Tuples(o) : \A i \in TensorSlots(s) : Usable(o, Value(s[i]))
         /\ \A i \in Nat : Usable(o, Use(o, i))
         /\ \A v \in Nat : Usable(o, Storage(v))
<1>1. o \in Nat
  BY OpFacts
<1>2. ASSUME NEW s \in Tuples(o), NEW i \in TensorSlots(s) PROVE Usable(o, Value(s[i]))
  <2>1. Value(s[i]) \in Shown(o)
    <3>1. Value(s[i]) \in Entity
      BY OpTyped, Entities
    <3>. QED BY <3>1 DEF Shown
  <2>. QED BY <2>1, ShownFacts DEF Usable, Known
<1>3. ASSUME NEW i \in Nat PROVE Usable(o, Use(o, i))
  BY <1>1, Entities DEF Usable
<1>4. ASSUME NEW v \in Nat PROVE Usable(o, Storage(v))
  BY Entities DEF Usable
<1>. QED BY <1>2, <1>3, <1>4

\* So are the values of the operation around it.
LEMMA OuterValues ==
  ASSUME program \in Programs, NEW o \in Ops, Op(o).parent # 0
  PROVE  LET p == Op(o).parent
         IN  /\ \A s \in Tuples(p) : \A i \in TensorSlots(s) : Usable(o, Value(s[i]))
             /\ Op(p).kind = "func" => \A i \in TensorSlots(Op(p).outs) : Usable(o, Result(p, i))
<1> DEFINE p == Op(o).parent
<1>1. p \in Ops
  BY OpFacts
<1>2. \A e \in Shown(p) : Usable(o, e)
  BY <1>1, ShownFacts DEF Usable, Known
<1>3. \A s \in Tuples(p) : \A i \in TensorSlots(s) : Value(s[i]) \in Shown(p)
  <2>1. ASSUME NEW s \in Tuples(p), NEW i \in TensorSlots(s) PROVE Value(s[i]) \in Shown(p)
    <3>1. s[i] \in Nat
      BY <1>1, OpTyped
    <3>. QED BY <3>1, Entities DEF Shown
  <2>. QED BY <2>1
<1>4. Op(p).kind = "func" => \A i \in TensorSlots(Op(p).outs) : Result(p, i) \in Shown(p)
  <2>1. ASSUME Op(p).kind = "func", NEW i \in TensorSlots(Op(p).outs)
        PROVE  Result(p, i) \in Shown(p)
    <3>1. TensorSlots(Op(p).outs) \subseteq Nat /\ p \in Nat
      BY <1>1, OpTyped, OpFacts
    <3>. QED BY <2>1, <3>1, Entities DEF Shown
  <2>. QED BY <2>1
<1>. HIDE DEF p
<1>. QED BY <1>2, <1>3, <1>4 DEF p


\* Short sequences.
LEMMA Singles ==
  ASSUME NEW T, NEW x \in T
  PROVE  <<x>> \in Seq(T) /\ Range(<<x>>) = {x}
<1>1. <<x>> \in Seq(T)
  OBVIOUS
<1>. QED BY <1>1, TupleRanges

LEMMA Pairs ==
  ASSUME NEW T, NEW x \in T, NEW y \in T
  PROVE  <<x, y>> \in Seq(T) /\ Range(<<x, y>>) = {x, y}
<1>1. <<x, y>> \in Seq(T)
  OBVIOUS
<1>. QED BY <1>1, TupleRanges

\* One call, or two, for each tensor slot.
Chosen(c, S) == {c[i] : i \in S}
OneEach(S, T, calls, c)    == \A i \in S : c[i] \in T /\ calls[i] = <<c[i]>>
TwoEach(S, T, calls, c, d) == \A i \in S : c[i] \in T /\ d[i] \in T /\ calls[i] = <<c[i], d[i]>>

LEMMA SlotSingles ==
  ASSUME NEW T, NEW s \in Seq(Nat), NEW calls, NEW c,
         OneEach(TensorSlots(s), T, calls, c)
  PROVE  /\ PerSlot(s, calls) \in Seq(T)
         /\ Range(PerSlot(s, calls)) = Chosen(c, TensorSlots(s))
<1>1. ASSUME NEW i \in TensorSlots(s) PROVE calls[i] \in Seq(T) /\ Range(calls[i]) = {c[i]}
  BY <1>1, Singles DEF OneEach
<1>2. /\ PerSlot(s, calls) \in Seq(T)
      /\ Range(PerSlot(s, calls)) = UNION {Range(calls[i]) : i \in TensorSlots(s)}
  BY <1>1, SlotCalls
<1>3. UNION {Range(calls[i]) : i \in TensorSlots(s)} = {c[i] : i \in TensorSlots(s)}
  <2> DEFINE N == TensorSlots(s)
             R(i) == Range(calls[i])
  <2>1. \A i \in N : R(i) = {c[i]}
    BY <1>1
  <2>. HIDE DEF N, R
  <2>2. UNION {R(i) : i \in N} = {c[i] : i \in N}
    BY <2>1
  <2>. QED BY <2>2 DEF N, R
<1>. QED BY <1>2, <1>3 DEF Chosen

LEMMA SlotPairs ==
  ASSUME NEW T, NEW s \in Seq(Nat), NEW calls, NEW c, NEW d,
         TwoEach(TensorSlots(s), T, calls, c, d)
  PROVE  /\ PerSlot(s, calls) \in Seq(T)
         /\ Range(PerSlot(s, calls)) =
              Chosen(c, TensorSlots(s)) \cup Chosen(d, TensorSlots(s))
<1>1. ASSUME NEW i \in TensorSlots(s) PROVE calls[i] \in Seq(T) /\ Range(calls[i]) = {c[i], d[i]}
  <2>1. c[i] \in T /\ d[i] \in T /\ calls[i] = <<c[i], d[i]>>
    BY DEF TwoEach
  <2>2. <<c[i], d[i]>> \in Seq(T) /\ Range(<<c[i], d[i]>>) = {c[i], d[i]}
    BY <2>1, Pairs
  <2>. QED BY <2>1, <2>2
<1>2. /\ PerSlot(s, calls) \in Seq(T)
      /\ Range(PerSlot(s, calls)) = UNION {Range(calls[i]) : i \in TensorSlots(s)}
  BY <1>1, SlotCalls
<1>3. UNION {Range(calls[i]) : i \in TensorSlots(s)}
        = {c[i] : i \in TensorSlots(s)} \cup {d[i] : i \in TensorSlots(s)}
  <2> DEFINE N == TensorSlots(s)
             R(i) == Range(calls[i])
  <2>1. \A i \in N : R(i) = {c[i], d[i]}
    BY <1>1
  <2>. HIDE DEF N, R
  <2>2. UNION {R(i) : i \in N} = {c[i] : i \in N} \cup {d[i] : i \in N}
    BY <2>1
  <2>. QED BY <2>2 DEF N, R
<1>. QED BY <1>2, <1>3 DEF Chosen

\* The values of an operation are bound.
LEMMA BoundCalls ==
  ASSUME program \in Programs, NEW o \in Ops, NEW s \in Tuples(o)
  PROVE  /\ Bound(s) \in Seq(Fine(o))
         /\ Range(Bound(s)) = {Bind(Value(s[i])) : i \in TensorSlots(s)}
<1> DEFINE slots == TensorSlots(s)
           c == [i \in slots |-> Bind(Value(s[i]))]
           calls == [i \in slots |-> <<Bind(Value(s[i]))>>]
<1>0. s \in Seq(Nat)
  BY OpTyped
<1>1. ASSUME NEW i \in slots PROVE c[i] \in Fine(o) /\ calls[i] = <<c[i]>>
  <2>1. s[i] \in Nat
    BY OpTyped
  <2>2. Bind(Value(s[i])) \in Calling
    BY <2>1, Entities DEF Calling
  <2>3. Bind(Value(s[i])).kind = "bind"
    BY DEF Bind, Call
  <2>. QED BY <2>2, <2>3 DEF Fine
<1>2. Bound(s) = PerSlot(s, calls)
  BY DEF Bound
<1>3. Chosen(c, slots) = {Bind(Value(s[i])) : i \in slots}
  BY DEF Chosen
<1>. HIDE DEF calls, c
<1>4. PerSlot(s, calls) \in Seq(Fine(o)) /\ Range(PerSlot(s, calls)) = Chosen(c, slots)
  <2>1. OneEach(slots, Fine(o), calls, c)
    BY <1>1 DEF OneEach
  <2>. QED BY <1>0, <2>1, SlotSingles
<1>. QED BY <1>2, <1>3, <1>4

LEMMA FunctionMembers ==
  ASSUME program \in Programs, NEW o \in Ops
  PROVE  /\ FunctionCalls(o) \in Seq(Fine(o))
         /\ Range(FunctionCalls(o)) = {Bind(Result(o, i)) : i \in TensorSlots(Op(o).outs)}
<1>0. PICK s : s = Op(o).outs
  OBVIOUS
<1> DEFINE slots == TensorSlots(s)
           c == [i \in slots |-> Bind(Result(o, i))]
           calls == [i \in slots |-> <<Bind(Result(o, i))>>]
<1>a. s \in Seq(Nat) /\ slots \subseteq Nat /\ o \in Nat
  BY <1>0, OpTyped, OpFacts
<1>b. s \in Seq(Nat)
  BY <1>a
<1>1. ASSUME NEW i \in slots PROVE c[i] \in Fine(o) /\ calls[i] = <<c[i]>>
  <2>1. i \in Nat
    BY <1>a
  <2>2. Bind(Result(o, i)) \in Calling
    BY <1>a, <2>1, Entities DEF Calling
  <2>3. Bind(Result(o, i)).kind = "bind"
    BY DEF Bind, Call
  <2>. QED BY <2>2, <2>3 DEF Fine
<1>2. FunctionCalls(o) = PerSlot(s, calls)
  BY <1>0 DEF FunctionCalls
<1>3. Chosen(c, slots) = {Bind(Result(o, i)) : i \in slots}
  BY DEF Chosen
<1>. HIDE DEF calls, c
<1>4. PerSlot(s, calls) \in Seq(Fine(o)) /\ Range(PerSlot(s, calls)) = Chosen(c, slots)
  <2>1. OneEach(slots, Fine(o), calls, c)
    BY <1>1 DEF OneEach
  <2>. QED BY <1>b, <2>1, SlotSingles
<1>. QED BY <1>0, <1>2, <1>3, <1>4

\* A use is converted to what the operation expects there.
LEMMA ConnectFine ==
  ASSUME program \in Programs, NEW o \in Ops, NEW i \in TensorSlots(Op(o).operands),
         NEW e, Usable(o, e), NEW edge \in RegionKey
  PROVE  Connect(o, i, e, edge) \in Fine(o)
<1>1. Usable(o, Value(Op(o).operands[i]))
  BY KnownValues DEF Tuples
<1>2. <<o, i>> \in Nat \X Nat /\ <<o, i>>[1] = o
  <2>1. i \in Nat
    BY OpTyped DEF Tuples
  <2>. QED BY <2>1, OpFacts
<1>3. "Convertible" \in Range(KindOrder) \ {"RequireEncoding"}
  BY Kinds
<1>. QED BY <1>1, <1>2, <1>3, FineCall DEF Connect

LEMMA OwnUseFine ==
  ASSUME program \in Programs, NEW o \in Ops, NEW i \in TensorSlots(Op(o).operands)
  PROVE  OwnUse(o, i) \in Fine(o) /\ Usable(o, Use(o, i))
<1>1. Usable(o, Use(o, i))
  <2>1. i \in Nat
    BY OpTyped DEF Tuples
  <2>. QED BY <2>1, KnownValues
<1>2. OwnUse(o, i) = Connect(o, i, Use(o, i), NoEdge)
  BY DEF OwnUse, Connect
<1>3. NoEdge \in RegionKey
  BY Kinds
<1>. QED BY <1>1, <1>2, <1>3, ConnectFine

\* Values that share a layout.
LEMMA SameFine ==
  ASSUME program \in Programs, NEW o \in Ops, NEW v, NEW w, Usable(o, Value(v)),
         Usable(o, Value(w)), NEW edge \in RegionKey
  PROVE  Same(v, w, edge) \in Fine(o)
<1>1. "SameLayout" \in Range(KindOrder) \ {"RequireEncoding"} /\ NoUse \in Nat \X Nat
  BY Kinds
<1>. QED BY <1>1, FineCall DEF Same

\* A return is converted to the results of its function.
LEMMA ReturnMembers ==
  ASSUME program \in Programs, NEW o \in Ops, Op(o).kind = "return"
  PROVE  /\ ReturnCalls(o) \in Seq(Fine(o))
         /\ Range(ReturnCalls(o)) = {Connect(o, i, Result(Op(o).parent, i), NoEdge) : i \in TensorSlots(Op(o).operands)}
<1>0. PICK s : s = Op(o).operands
  OBVIOUS
<1> DEFINE slots == TensorSlots(s)
           c == [i \in slots |-> Connect(o, i, Result(Op(o).parent, i), NoEdge)]
           calls == [i \in slots |-> <<Connect(o, i, Result(Op(o).parent, i), NoEdge)>>]
<1>a. s \in Seq(Nat)
  BY <1>0, OpTyped DEF Tuples
<1>1. ASSUME NEW i \in slots PROVE c[i] \in Fine(o) /\ calls[i] = <<c[i]>>
  <2>1. i \in TensorSlots(Op(o).operands) /\ Usable(o, Result(Op(o).parent, i))
    BY <1>0, OpFacts, OuterValues DEF Matched
  <2>. QED BY <2>1, Kinds, ConnectFine
<1>2. ReturnCalls(o) = PerSlot(s, calls)
  BY <1>0 DEF ReturnCalls
<1>3. Chosen(c, slots) = {Connect(o, i, Result(Op(o).parent, i), NoEdge) : i \in slots}
  BY DEF Chosen
<1>. HIDE DEF calls, c
<1>4. PerSlot(s, calls) \in Seq(Fine(o)) /\ Range(PerSlot(s, calls)) = Chosen(c, slots)
  <2>1. OneEach(slots, Fine(o), calls, c)
    BY <1>1 DEF OneEach
  <2>. QED BY <1>a, <2>1, SlotSingles
<1>. QED BY <1>0, <1>2, <1>3, <1>4

\* A loop relates its arguments to its results and to the initial values.
LEMMA ForMembers ==
  ASSUME program \in Programs, NEW o \in Ops, Op(o).kind = "for"
  PROVE  LET slots == TensorSlots(Op(o).args)
         IN  /\ ForCalls(o) \in Seq(Fine(o))
             /\ Range(ForCalls(o)) =
                  {Same(Op(o).args[i], Op(o).results[i], Edge("ForResult", o, i)) : i \in slots}
                  \cup {Connect(o, i, Value(Op(o).args[i]), Edge("ForInit", o, i)) : i \in slots}
<1>0. PICK s, r : s = Op(o).args /\ r = Op(o).results
  OBVIOUS
<1> DEFINE slots == TensorSlots(s)
           c == [i \in slots |-> Same(s[i], r[i], Edge("ForResult", o, i))]
           d == [i \in slots |-> Connect(o, i, Value(s[i]), Edge("ForInit", o, i))]
           calls == [i \in slots |-> <<Same(s[i], r[i], Edge("ForResult", o, i)),
                                        Connect(o, i, Value(s[i]), Edge("ForInit", o, i))>>]
<1>a. s \in Seq(Nat)
  BY <1>0, OpTyped DEF Tuples
<1>1. ASSUME NEW i \in slots
      PROVE  c[i] \in Fine(o) /\ d[i] \in Fine(o) /\ calls[i] = <<c[i], d[i]>>
  <2>1. i \in TensorSlots(Op(o).operands) /\ i \in TensorSlots(r)
    BY <1>0, OpFacts DEF Matched
  <2>2. Usable(o, Value(s[i])) /\ Usable(o, Value(r[i]))
    BY <1>0, <2>1, KnownValues DEF Tuples
  <2>3. Edge("ForResult", o, i) \in RegionKey /\ Edge("ForInit", o, i) \in RegionKey
    <3>1. i \in Nat /\ o \in Nat
      BY <1>0, OpTyped, OpFacts DEF Tuples
    <3>. QED BY <3>1, Kinds DEF EdgeKinds
  <2>4. Same(s[i], r[i], Edge("ForResult", o, i)) \in Fine(o)
    BY <2>2, <2>3, SameFine
  <2>5. Connect(o, i, Value(s[i]), Edge("ForInit", o, i)) \in Fine(o)
    BY <2>1, <2>2, <2>3, ConnectFine
  <2>. QED BY <2>4, <2>5
<1>2. ForCalls(o) = PerSlot(s, calls)
  BY <1>0 DEF ForCalls
<1>3. /\ Chosen(c, slots) = {Same(s[i], r[i], Edge("ForResult", o, i)) : i \in slots}
      /\ Chosen(d, slots) = {Connect(o, i, Value(s[i]), Edge("ForInit", o, i)) : i \in slots}
  BY DEF Chosen
<1>. HIDE DEF calls, c, d
<1>4. /\ PerSlot(s, calls) \in Seq(Fine(o))
      /\ Range(PerSlot(s, calls)) = Chosen(c, slots) \cup Chosen(d, slots)
  <2>1. TwoEach(slots, Fine(o), calls, c, d)
    BY <1>1 DEF TwoEach
  <2>. QED BY <1>a, <2>1, SlotPairs
<1>. QED BY <1>0, <1>2, <1>3, <1>4

\* A while relates each of its tuples on its own.
LEMMA WhileMembers ==
  ASSUME program \in Programs, NEW o \in Ops, Op(o).kind = "while"
  PROVE  /\ WhileCalls(o) \in Seq(Fine(o))
         /\ Range(WhileCalls(o)) =
              {Connect(o, i, Value(Op(o).args[i]), Edge("WhileInit", o, i)) :
                 i \in TensorSlots(Op(o).args)}
              \cup {Same(Op(o).after[i], Op(o).results[i], Edge("WhileResult", o, i)) :
                      i \in TensorSlots(Op(o).after)}
<1>0. PICK s, t, r : s = Op(o).args /\ t = Op(o).after /\ r = Op(o).results
  OBVIOUS
<1> DEFINE slots == TensorSlots(s)
           rest == TensorSlots(t)
           c == [i \in slots |-> Connect(o, i, Value(s[i]), Edge("WhileInit", o, i))]
           d == [i \in rest |-> Same(t[i], r[i], Edge("WhileResult", o, i))]
           inits == [i \in slots |-> <<Connect(o, i, Value(s[i]), Edge("WhileInit", o, i))>>]
           finals == [i \in rest |-> <<Same(t[i], r[i], Edge("WhileResult", o, i))>>]
<1>a. s \in Seq(Nat)
  BY <1>0, OpTyped DEF Tuples
<1>b. t \in Seq(Nat)
  BY <1>0, OpTyped DEF Tuples
<1>1. ASSUME NEW i \in slots PROVE c[i] \in Fine(o) /\ inits[i] = <<c[i]>>
  <2>1. i \in TensorSlots(Op(o).operands) /\ Usable(o, Value(s[i]))
    BY <1>0, OpFacts, KnownValues DEF Matched, Tuples
  <2>2. Edge("WhileInit", o, i) \in RegionKey
    <3>1. i \in Nat /\ o \in Nat
      BY <1>0, OpTyped, OpFacts DEF Tuples
    <3>. QED BY <3>1, Kinds DEF EdgeKinds
  <2>3. Connect(o, i, Value(s[i]), Edge("WhileInit", o, i)) \in Fine(o)
    BY <2>1, <2>2, ConnectFine
  <2>. QED BY <2>3
<1>2. ASSUME NEW i \in rest PROVE d[i] \in Fine(o) /\ finals[i] = <<d[i]>>
  <2>1. i \in TensorSlots(r)
    BY <1>0, OpFacts DEF Matched
  <2>2. Usable(o, Value(t[i])) /\ Usable(o, Value(r[i]))
    BY <1>0, <2>1, KnownValues DEF Tuples
  <2>3. Edge("WhileResult", o, i) \in RegionKey
    <3>1. i \in Nat /\ o \in Nat
      BY <1>0, OpTyped, OpFacts DEF Tuples
    <3>. QED BY <3>1, Kinds DEF EdgeKinds
  <2>4. Same(t[i], r[i], Edge("WhileResult", o, i)) \in Fine(o)
    BY <2>2, <2>3, SameFine
  <2>. QED BY <2>4
<1>3. WhileCalls(o) = PerSlot(s, inits) \o PerSlot(t, finals)
  BY <1>0 DEF WhileCalls
<1>4. /\ Chosen(c, slots) = {Connect(o, i, Value(s[i]), Edge("WhileInit", o, i)) : i \in slots}
      /\ Chosen(d, rest) = {Same(t[i], r[i], Edge("WhileResult", o, i)) : i \in rest}
  BY DEF Chosen
<1>. HIDE DEF inits, finals, c, d
<1>5. PerSlot(s, inits) \in Seq(Fine(o)) /\ Range(PerSlot(s, inits)) = Chosen(c, slots)
  <2>1. OneEach(slots, Fine(o), inits, c)
    BY <1>1 DEF OneEach
  <2>. QED BY <1>a, <2>1, SlotSingles
<1>6. PerSlot(t, finals) \in Seq(Fine(o)) /\ Range(PerSlot(t, finals)) = Chosen(d, rest)
  <2>1. OneEach(rest, Fine(o), finals, d)
    BY <1>2 DEF OneEach
  <2>. QED BY <1>b, <2>1, SlotSingles
<1>7. /\ WhileCalls(o) \in Seq(Fine(o))
      /\ Range(WhileCalls(o)) = Range(PerSlot(s, inits)) \cup Range(PerSlot(t, finals))
  BY <1>3, <1>5, <1>6, ConcatRange
<1>. QED BY <1>0, <1>4, <1>5, <1>6, <1>7

\* A yield is converted to what its loop or branch carries.
LEMMA YieldMembers ==
  ASSUME program \in Programs, NEW o \in Ops, Op(o).kind = "yield",
         Op(Op(o).parent).kind \in {"if", "for", "while"}
  PROVE  /\ YieldCalls(o) \in Seq(Fine(o))
         /\ Range(YieldCalls(o)) = {Connect(o, i, Value(Expected(o, i)), Edge(YieldEdge[Op(Op(o).parent).kind], Op(o).parent, i)) : i \in TensorSlots(Op(o).operands)}
<1>0. PICK s : s = Op(o).operands
  OBVIOUS
<1> DEFINE slots == TensorSlots(s)
           c == [i \in slots |-> Connect(o, i, Value(Expected(o, i)), Edge(YieldEdge[Op(Op(o).parent).kind], Op(o).parent, i))]
           calls == [i \in slots |-> <<Connect(o, i, Value(Expected(o, i)), Edge(YieldEdge[Op(Op(o).parent).kind], Op(o).parent, i))>>]
<1>a. s \in Seq(Nat)
  BY <1>0, OpTyped DEF Tuples
<1>1. ASSUME NEW i \in slots PROVE c[i] \in Fine(o) /\ calls[i] = <<c[i]>>
  <2>1. i \in TensorSlots(Op(o).operands)
    BY <1>0
  <2>2. Usable(o, Value(Expected(o, i)))
    <3>1. CASE Op(Op(o).parent).kind = "while"
      BY <2>1, <3>1, OpFacts, OuterValues DEF Matched, Expected, Tuples
    <3>2. CASE Op(Op(o).parent).kind # "while"
      BY <2>1, <3>2, OpFacts, OuterValues DEF Matched, Expected, Tuples
    <3>. QED BY <3>1, <3>2
  <2>3. Edge(YieldEdge[Op(Op(o).parent).kind], Op(o).parent, i) \in RegionKey
    <3>1. i \in Nat /\ Op(o).parent \in Nat
      BY <1>0, OpTyped, OpFacts DEF Tuples
    <3>2. YieldEdge[Op(Op(o).parent).kind] \in EdgeKinds
      BY DEF YieldEdge, EdgeKinds
    <3>. QED BY <3>1, <3>2, Kinds
  <2>. QED BY <2>1, <2>2, <2>3, ConnectFine
<1>2. YieldCalls(o) = PerSlot(s, calls)
  BY <1>0 DEF YieldCalls
<1>3. Chosen(c, slots) = {Connect(o, i, Value(Expected(o, i)), Edge(YieldEdge[Op(Op(o).parent).kind], Op(o).parent, i)) : i \in slots}
  BY DEF Chosen
<1>. HIDE DEF calls, c
<1>4. PerSlot(s, calls) \in Seq(Fine(o)) /\ Range(PerSlot(s, calls)) = Chosen(c, slots)
  <2>1. OneEach(slots, Fine(o), calls, c)
    BY <1>1 DEF OneEach
  <2>. QED BY <1>a, <2>1, SlotSingles
<1>. QED BY <1>0, <1>2, <1>3, <1>4

\* Any number of calls for each slot.
UnionOf(R, S) == UNION {R[i] : i \in S}
SomeEach(S, T, calls, R) == \A i \in S : calls[i] \in Seq(T) /\ Range(calls[i]) = R[i]

LEMMA SlotSets ==
  ASSUME NEW T, NEW s \in Seq(Nat), NEW calls, NEW R, SomeEach(TensorSlots(s), T, calls, R)
  PROVE  PerSlot(s, calls) \in Seq(T) /\ Range(PerSlot(s, calls)) = UnionOf(R, TensorSlots(s))
<1>1. \A i \in TensorSlots(s) : calls[i] \in Seq(T)
  BY DEF SomeEach
<1>2. /\ PerSlot(s, calls) \in Seq(T)
      /\ Range(PerSlot(s, calls)) = UNION {Range(calls[i]) : i \in TensorSlots(s)}
  BY <1>1, SlotCalls
<1>3. UNION {Range(calls[i]) : i \in TensorSlots(s)} = UnionOf(R, TensorSlots(s))
  BY DEF UnionOf, SomeEach
<1>. QED BY <1>2, <1>3

\* The tensors of a condition are converted to the results of its while.
ConditionCall(o, i) ==
  Connect(o, i, Value(Op(Op(o).parent).results[i - 1]), Edge("WhileCondition", Op(o).parent, i - 1))
LEMMA ConditionMembers ==
  ASSUME program \in Programs, NEW o \in Ops, Op(o).kind = "condition"
  PROVE  /\ ConditionCalls(o) \in Seq(Fine(o))
         /\ Range(ConditionCalls(o)) =
              UNION {IF i = 1 THEN {} ELSE {ConditionCall(o, i)} : i \in TensorSlots(Op(o).operands)}
<1>0. PICK s : s = Op(o).operands
  OBVIOUS
<1> DEFINE slots == TensorSlots(s)
           R == [i \in slots |-> IF i = 1 THEN {} ELSE {ConditionCall(o, i)}]
           calls == [i \in slots |-> IF i = 1 THEN <<>> ELSE <<ConditionCall(o, i)>>]
<1>a. s \in Seq(Nat)
  BY <1>0, OpTyped DEF Tuples
<1>1. ASSUME NEW i \in slots PROVE calls[i] \in Seq(Fine(o)) /\ Range(calls[i]) = R[i]
  <2>1. CASE i = 1
    <3>1. calls[i] = <<>> /\ R[i] = {}
      BY <2>1
    <3>2. <<>> \in Seq(Fine(o))
      OBVIOUS
    <3>. QED BY <3>1, <3>2, TupleRanges
  <2>2. CASE i # 1
    <3>1. ConditionCall(o, i) \in Fine(o)
      <4>1. i \in TensorSlots(Op(o).operands)
        BY <1>0
      <4>2. /\ Op(o).parent # 0
            /\ i - 1 \in TensorSlots(Op(Op(o).parent).results)
        BY <2>2, <4>1, OpFacts DEF Matched
      <4>3. Usable(o, Value(Op(Op(o).parent).results[i - 1]))
        BY <4>2, OuterValues DEF Tuples
      <4>4. Edge("WhileCondition", Op(o).parent, i - 1) \in RegionKey
        <5>1. Op(o).parent \in Ops
          BY <4>2, OpFacts
        <5>2. i - 1 \in Nat /\ Op(o).parent \in Nat
          BY <4>2, <5>1, OpTyped, OpFacts DEF Tuples
        <5>. QED BY <5>2, Kinds DEF EdgeKinds
      <4>. QED BY <4>1, <4>3, <4>4, ConnectFine DEF ConditionCall
    <3>2. calls[i] = <<ConditionCall(o, i)>> /\ R[i] = {ConditionCall(o, i)}
      BY <2>2
    <3>. QED BY <3>1, <3>2, Singles
  <2>. QED BY <2>1, <2>2
<1>2. ConditionCalls(o) = PerSlot(s, calls)
  BY <1>0 DEF ConditionCalls, ConditionCall
<1>3. UnionOf(R, slots) = UNION {IF i = 1 THEN {} ELSE {ConditionCall(o, i)} : i \in slots}
  BY DEF UnionOf
<1>. HIDE DEF calls, R
<1>4. PerSlot(s, calls) \in Seq(Fine(o)) /\ Range(PerSlot(s, calls)) = UnionOf(R, slots)
  <2>1. SomeEach(slots, Fine(o), calls, R)
    BY <1>1 DEF SomeEach
  <2>. QED BY <1>a, <2>1, SlotSets
<1>. QED BY <1>0, <1>2, <1>3, <1>4

\* Results of an elementwise operation agree; operands are converted, or agree.
MixedCall(o, i) == Call("SameLayout", <<Use(o, i), Value(Op(o).results[1])>>, NoUse, NoEdge)
ResultSames(o, i) == IF i = 1 THEN {} ELSE {Same(Op(o).results[1], Op(o).results[i], NoEdge)}
OperandCalls(o, i) == IF i \in Op(o).mixed THEN {OwnUse(o, i), MixedCall(o, i)}
                                           ELSE {Connect(o, i, Value(Op(o).results[1]), NoEdge)}
AllSames(o) == UNION {ResultSames(o, i) : i \in TensorSlots(Op(o).results)}
AllUses(o)  == UNION {OperandCalls(o, i) : i \in TensorSlots(Op(o).operands)}
LEMMA ElementwiseMembers ==
  ASSUME program \in Programs, NEW o \in Ops, Op(o).kind = "elementwise"
  PROVE  /\ ElementwiseCalls(o) \in Seq(Fine(o))
         /\ Range(ElementwiseCalls(o)) = AllSames(o) \cup AllUses(o)
<1>0. PICK r, s : r = Op(o).results /\ s = Op(o).operands
  OBVIOUS
<1> DEFINE slots == TensorSlots(r)
           rest == TensorSlots(s)
           R == [i \in slots |-> ResultSames(o, i)]
           Q == [i \in rest |-> OperandCalls(o, i)]
           sames == [i \in slots |-> IF i = 1 THEN <<>> ELSE <<Same(r[1], r[i], NoEdge)>>]
           uses == [i \in rest |-> IF i \in Op(o).mixed
                                   THEN <<OwnUse(o, i), Call("SameLayout", <<Use(o, i), Value(r[1])>>, NoUse, NoEdge)>>
                                   ELSE <<Connect(o, i, Value(r[1]), NoEdge)>>]
<1>a. r \in Seq(Nat)
  BY <1>0, OpTyped DEF Tuples
<1>b. s \in Seq(Nat)
  BY <1>0, OpTyped DEF Tuples
<1>c. (slots # {} \/ rest # {}) => Usable(o, Value(r[1]))
  <2>1. (slots # {} \/ rest # {}) => 1 \in TensorSlots(r)
    BY <1>0, OpFacts DEF Matched
  <2>2. 1 \in TensorSlots(r) => Usable(o, Value(r[1]))
    BY <1>0, KnownValues DEF Tuples
  <2>. QED BY <2>1, <2>2
<1>1. ASSUME NEW i \in slots PROVE sames[i] \in Seq(Fine(o)) /\ Range(sames[i]) = R[i]
  <2>1. CASE i = 1
    <3>1. sames[i] = <<>> /\ R[i] = {}
      BY <2>1 DEF ResultSames
    <3>2. <<>> \in Seq(Fine(o))
      OBVIOUS
    <3>. QED BY <3>1, <3>2, TupleRanges
  <2>2. CASE i # 1
    <3>1. Usable(o, Value(r[1])) /\ Usable(o, Value(r[i]))
      BY <1>0, <1>c, KnownValues DEF Tuples
    <3>2. Same(r[1], r[i], NoEdge) \in Fine(o)
      BY <3>1, SameFine, Kinds
    <3>3. sames[i] = <<Same(r[1], r[i], NoEdge)>> /\ R[i] = {Same(r[1], r[i], NoEdge)}
      BY <1>0, <2>2 DEF ResultSames
    <3>. QED BY <3>2, <3>3, Singles
  <2>. QED BY <2>1, <2>2
<1>2. ASSUME NEW i \in rest PROVE uses[i] \in Seq(Fine(o)) /\ Range(uses[i]) = Q[i]
  <2>1. i \in TensorSlots(Op(o).operands) /\ Usable(o, Value(r[1])) /\ r[1] = Op(o).results[1]
    BY <1>0, <1>c
  <2>2. OwnUse(o, i) \in Fine(o) /\ Usable(o, Use(o, i))
    BY <2>1, OwnUseFine
  <2>3. MixedCall(o, i) \in Fine(o)
    BY <2>1, <2>2, FineCall, Kinds DEF MixedCall
  <2>4. Connect(o, i, Value(r[1]), NoEdge) \in Fine(o)
    BY <2>1, ConnectFine, Kinds
  <2>5. CASE i \in Op(o).mixed
    <3>1. uses[i] = <<OwnUse(o, i), MixedCall(o, i)>> /\ Q[i] = {OwnUse(o, i), MixedCall(o, i)}
      BY <2>1, <2>5 DEF OperandCalls, MixedCall
    <3>. QED BY <2>2, <2>3, <3>1, Pairs
  <2>6. CASE i \notin Op(o).mixed
    <3>1. /\ uses[i] = <<Connect(o, i, Value(r[1]), NoEdge)>>
          /\ Q[i] = {Connect(o, i, Value(r[1]), NoEdge)}
      BY <2>1, <2>6 DEF OperandCalls
    <3>. QED BY <2>4, <3>1, Singles
  <2>. QED BY <2>5, <2>6
<1>3. ElementwiseCalls(o) = PerSlot(r, sames) \o PerSlot(s, uses)
  BY <1>0 DEF ElementwiseCalls
<1>4. UnionOf(R, slots) = AllSames(o) /\ UnionOf(Q, rest) = AllUses(o)
  BY <1>0 DEF UnionOf, AllSames, AllUses
<1>. HIDE DEF sames, uses, R, Q
<1>5. PerSlot(r, sames) \in Seq(Fine(o)) /\ Range(PerSlot(r, sames)) = UnionOf(R, slots)
  <2>1. SomeEach(slots, Fine(o), sames, R)
    BY <1>1 DEF SomeEach
  <2>. QED BY <1>a, <2>1, SlotSets
<1>6. PerSlot(s, uses) \in Seq(Fine(o)) /\ Range(PerSlot(s, uses)) = UnionOf(Q, rest)
  <2>1. SomeEach(rest, Fine(o), uses, Q)
    BY <1>2 DEF SomeEach
  <2>. QED BY <1>b, <2>1, SlotSets
<1>7. /\ ElementwiseCalls(o) \in Seq(Fine(o))
      /\ Range(ElementwiseCalls(o)) = Range(PerSlot(r, sames)) \cup Range(PerSlot(s, uses))
  BY <1>3, <1>5, <1>6, ConcatRange
<1>8. Range(ElementwiseCalls(o)) = AllSames(o) \cup AllUses(o)
  BY <1>4, <1>5, <1>6, <1>7
<1>. QED BY <1>7, <1>8

\* An access relates the accessed layout to the storage of the view.
LEMMA AccessFine ==
  ASSUME program \in Programs, NEW o \in Ops, NEW a, Usable(o, a), NEW v \in Nat
  PROVE  /\ Access(a, Storage(v)) \in Seq(Fine(o))
         /\ \A c \in Range(Access(a, Storage(v))) : c.kind # "bind" /\ c.use = NoUse
                                                     /\ c.kind \in {"StorageAccess", "Preference"}
<1> DEFINE x == Call("StorageAccess", <<a, Storage(v)>>, NoUse, NoEdge)
           y == Call("Preference", <<a, Storage(v)>>, NoUse, NoEdge)
<1>1. Usable(o, Storage(v))
  BY KnownValues
<1>2. x \in Fine(o) /\ y \in Fine(o)
  BY <1>1, FineCall, Kinds
<1>3. /\ x.kind = "StorageAccess" /\ x.use = NoUse
      /\ y.kind = "Preference" /\ y.use = NoUse
  BY DEF Call
<1>4. Access(a, Storage(v)) = <<x, y>>
  BY DEF Access
<1>. HIDE DEF x, y
<1>5. <<x, y>> \in Seq(Fine(o)) /\ Range(<<x, y>>) = {x, y}
  BY <1>2, Pairs
<1>. QED BY <1>3, <1>4, <1>5

\* Loads and stores.
LEMMA LoadMembers ==
  ASSUME program \in Programs, NEW o \in Ops, Op(o).kind = "load"
  PROVE  LET calls == Access(Value(Op(o).results[1]), Storage(Op(o).operands[1]))
         IN  /\ calls \in Seq(Fine(o))
             /\ \A c \in Range(calls) : c.kind \in {"StorageAccess", "Preference"} /\ c.use = NoUse
<1>1. Usable(o, Value(Op(o).results[1])) /\ Op(o).operands[1] \in Nat
  BY OpFacts, KnownValues, OpTyped DEF Matched, Tuples
<1>. QED BY <1>1, AccessFine

StoreCalls(o) == <<OwnUse(o, 1)>> \o Access(Use(o, 1), Storage(Op(o).operands[2]))
LEMMA StoreMembers ==
  ASSUME program \in Programs, NEW o \in Ops, Op(o).kind = "store"
  PROVE  /\ StoreCalls(o) \in Seq(Fine(o))
         /\ \A c \in Range(StoreCalls(o)) :
              c = OwnUse(o, 1) \/ (c.kind \in {"StorageAccess", "Preference"} /\ c.use = NoUse)
<1> DEFINE x == OwnUse(o, 1)
           rest == Access(Use(o, 1), Storage(Op(o).operands[2]))
<1>1. 1 \in TensorSlots(Op(o).operands) /\ Op(o).operands[2] \in Nat
  BY OpFacts, OpTyped DEF Matched, Tuples
<1>2. x \in Fine(o) /\ Usable(o, Use(o, 1))
  BY <1>1, OwnUseFine
<1>3. /\ rest \in Seq(Fine(o))
      /\ \A c \in Range(rest) : c.kind \in {"StorageAccess", "Preference"} /\ c.use = NoUse
  BY <1>1, <1>2, AccessFine
<1>4. StoreCalls(o) = <<x>> \o rest
  BY DEF StoreCalls
<1>. HIDE DEF x, rest
<1>5. <<x>> \in Seq(Fine(o)) /\ Range(<<x>>) = {x}
  BY <1>2, Singles
<1>6. <<x>> \o rest \in Seq(Fine(o)) /\ Range(<<x>> \o rest) = Range(<<x>>) \cup Range(rest)
  BY <1>3, <1>5, ConcatRange
<1>7. \A c \in Range(<<x>> \o rest) :
        c = x \/ (c.kind \in {"StorageAccess", "Preference"} /\ c.use = NoUse)
  BY <1>3, <1>5, <1>6
<1>. QED BY <1>4, <1>6, <1>7 DEF x

\* A conversion there is already relates its operand and its result.
LEMMA ConvertMembers ==
  ASSUME program \in Programs, NEW o \in Ops, Op(o).kind = "convert"
  PROVE  /\ ConvertCalls(o) \in Seq(Fine(o))
         /\ \A c \in Range(ConvertCalls(o)) : c.kind = "Convertible" /\ c.existing
<1> DEFINE a == Value(Op(o).operands[1])
           b == Value(Op(o).results[1])
           c == [kind |-> "Convertible", ends |-> <<a, b>>,
                 use |-> <<o, 1>>, existing |-> TRUE, edge |-> NoEdge]
<1>1. Usable(o, a) /\ Usable(o, b)
  BY OpFacts, KnownValues DEF Matched, Tuples
<1>2. <<o, 1>> \in Nat \X Nat /\ <<o, 1>>[1] = o
  BY OpFacts
<1>3. c \in Fine(o)
  <2>. HIDE DEF a, b
  <2>. QED BY <1>1, <1>2, FineCall, Kinds
<1>4. c.kind = "Convertible" /\ c.existing
  OBVIOUS
<1>5. ConvertCalls(o) = <<c>>
  BY DEF ConvertCalls
<1>. HIDE DEF c
<1>6. <<c>> \in Seq(Fine(o)) /\ Range(<<c>>) = {c}
  BY <1>3, Singles
<1>. QED BY <1>4, <1>5, <1>6

\* A transpose permutes what arrives at its source, and takes its destination
\* in the layout of the result.
TransformCall(o) == Call("TransformLayout", <<Use(o, 1), Value(Op(o).results[1])>>, NoUse, NoEdge)
LEMMA TransposeMembers ==
  ASSUME program \in Programs, NEW o \in Ops, Op(o).kind = "transpose"
  PROVE  /\ TransposeCalls(o) \in Seq(Fine(o))
         /\ Range(TransposeCalls(o)) =
              {OwnUse(o, 1), TransformCall(o), Connect(o, 2, Value(Op(o).results[1]), NoEdge)}
<1> DEFINE x == OwnUse(o, 1)
           y == TransformCall(o)
           z == Connect(o, 2, Value(Op(o).results[1]), NoEdge)
<1>1. /\ 1 \in TensorSlots(Op(o).operands) /\ 2 \in TensorSlots(Op(o).operands)
      /\ Usable(o, Value(Op(o).results[1]))
  BY OpFacts, KnownValues DEF Matched, Tuples
<1>2. x \in Fine(o) /\ Usable(o, Use(o, 1))
  BY <1>1, OwnUseFine
<1>3. y \in Fine(o)
  BY <1>1, <1>2, FineCall, Kinds DEF TransformCall
<1>4. z \in Fine(o)
  BY <1>1, ConnectFine, Kinds
<1>5. TransposeCalls(o) = <<x, y, z>>
  BY DEF TransposeCalls, TransformCall
<1>. HIDE DEF x, y, z
<1>6. <<x, y, z>> = <<x>> \o <<y, z>>
  OBVIOUS
<1>7. /\ <<x>> \in Seq(Fine(o)) /\ Range(<<x>>) = {x}
      /\ <<y, z>> \in Seq(Fine(o)) /\ Range(<<y, z>>) = {y, z}
  BY <1>2, <1>3, <1>4, Singles, Pairs
<1>8. /\ TransposeCalls(o) \in Seq(Fine(o))
      /\ Range(TransposeCalls(o)) = {x} \cup {y, z}
  <2>1. PICK p, q : p = <<x>> /\ q = <<y, z>>
    OBVIOUS
  <2>2. /\ p \in Seq(Fine(o)) /\ Range(p) = {x}
        /\ q \in Seq(Fine(o)) /\ Range(q) = {y, z}
    BY <1>7, <2>1
  <2>3. p \o q \in Seq(Fine(o)) /\ Range(p \o q) = Range(p) \cup Range(q)
    BY <2>2, ConcatRange
  <2>4. TransposeCalls(o) = p \o q
    BY <1>5, <1>6, <2>1
  <2>. QED BY <2>2, <2>3, <2>4
<1>9. Range(TransposeCalls(o)) = {x, y, z}
  BY <1>8
<1>. QED BY <1>8, <1>9 DEF x, y, z

\* First of all the values of the operation are bound.
LEMMA BindMembers ==
  ASSUME program \in Programs, NEW o \in Ops
  PROVE  /\ Binds(o) \in Seq(Fine(o))
         /\ \A c \in Range(Binds(o)) : c.kind = "bind"
         /\ \A s \in Tuples(o) : \A i \in TensorSlots(s) : Bind(Value(s[i])) \in Range(Binds(o))
<1>0. PICK p, r, a, t : p = Op(o).operands /\ r = Op(o).results /\ a = Op(o).args /\ t = Op(o).after
  OBVIOUS
<1>1. Tuples(o) = {p, r, a, t}
  BY <1>0 DEF Tuples
<1>2. \A s \in {p, r, a, t} :
        /\ Bound(s) \in Seq(Fine(o))
        /\ Range(Bound(s)) = {Bind(Value(s[i])) : i \in TensorSlots(s)}
  BY <1>1, BoundCalls
<1>3. PICK bp, br, ba, bt : bp = Bound(p) /\ br = Bound(r) /\ ba = Bound(a) /\ bt = Bound(t)
  OBVIOUS
<1>4. bp \in Seq(Fine(o)) /\ br \in Seq(Fine(o)) /\ ba \in Seq(Fine(o)) /\ bt \in Seq(Fine(o))
  BY <1>2, <1>3
<1>5. PICK x : x = bp \o br
  OBVIOUS
<1>6. x \in Seq(Fine(o)) /\ Range(x) = Range(bp) \cup Range(br)
  BY <1>4, <1>5, ConcatRange
<1>7. PICK y : y = x \o ba
  OBVIOUS
<1>8. y \in Seq(Fine(o)) /\ Range(y) = Range(x) \cup Range(ba)
  BY <1>4, <1>6, <1>7, ConcatRange
<1>a. /\ Binds(o) = y \o bt /\ Binds(o) \in Seq(Fine(o))
      /\ Range(Binds(o)) = Range(y) \cup Range(bt)
  <2>1. Binds(o) = y \o bt
    BY <1>0, <1>3, <1>5, <1>7 DEF Binds
  <2>2. y \o bt \in Seq(Fine(o)) /\ Range(y \o bt) = Range(y) \cup Range(bt)
    BY <1>4, <1>8, ConcatRange
  <2>. QED BY <2>1, <2>2
<1>9. Range(Binds(o)) = Range(bp) \cup Range(br) \cup Range(ba) \cup Range(bt)
  BY <1>6, <1>8, <1>a
<1>10. \A s \in {p, r, a, t} : Range(Bound(s)) \subseteq Range(Binds(o))
  BY <1>3, <1>9
<1>11. \A c \in Range(Binds(o)) : \E s \in {p, r, a, t} : c \in Range(Bound(s))
  BY <1>3, <1>9
<1>12. ASSUME NEW c \in Range(Binds(o)) PROVE c.kind = "bind"
  <2>1. PICK s \in {p, r, a, t} : c \in {Bind(Value(s[i])) : i \in TensorSlots(s)}
    BY <1>2, <1>11
  <2>2. PICK i \in TensorSlots(s) : c = Bind(Value(s[i]))
    BY <2>1
  <2>. QED BY <2>2 DEF Bind, Call
<1>13. ASSUME NEW s \in {p, r, a, t}, NEW i \in TensorSlots(s)
       PROVE  Bind(Value(s[i])) \in Range(Binds(o))
  BY <1>2, <1>10
<1>14. Binds(o) \in Seq(Fine(o))
  BY <1>a
<1>. QED BY <1>1, <1>12, <1>13, <1>14

Models == {"func", "return", "for", "while", "yield", "condition", "load", "store", "convert",
           "transpose", "elementwise"}

\* Then its relations, of an operation that is not refused.
LEMMA RelationMembers ==
  ASSUME program \in Programs, NEW o \in Ops, TensorBearing(o), ~ Unsupported(o)
  PROVE  Relations(o) \in Seq(Fine(o))
<1>1. CASE Op(o).kind = "func"
  <2>1. Relations(o) = FunctionCalls(o)
    BY <1>1 DEF Relations
  <2>. QED BY <2>1, FunctionMembers
<1>2. CASE Op(o).kind = "return"
  <2>1. Relations(o) = ReturnCalls(o)
    BY <1>2 DEF Relations
  <2>. QED BY <1>2, <2>1, ReturnMembers
<1>3. CASE Op(o).kind = "for"
  <2>1. Relations(o) = ForCalls(o)
    BY <1>3 DEF Relations
  <2>. QED BY <1>3, <2>1, ForMembers
<1>4. CASE Op(o).kind = "while"
  <2>1. Relations(o) = WhileCalls(o)
    BY <1>4 DEF Relations
  <2>. QED BY <1>4, <2>1, WhileMembers
<1>5. CASE Op(o).kind = "yield"
  <2>1. Relations(o) = YieldCalls(o)
    BY <1>5 DEF Relations
  <2>2. Op(Op(o).parent).kind \in {"if", "for", "while"}
    BY <1>5 DEF Unsupported
  <2>. QED BY <1>5, <2>1, <2>2, YieldMembers
<1>6. CASE Op(o).kind = "condition"
  <2>1. Relations(o) = ConditionCalls(o)
    BY <1>6 DEF Relations
  <2>. QED BY <1>6, <2>1, ConditionMembers
<1>7. CASE Op(o).kind = "load"
  <2>1. Relations(o) = Access(Value(Op(o).results[1]), Storage(Op(o).operands[1]))
    BY <1>7 DEF Relations
  <2>. QED BY <1>7, <2>1, LoadMembers
<1>8. CASE Op(o).kind = "store"
  <2>1. Relations(o) = StoreCalls(o)
    BY <1>8 DEF Relations, StoreCalls
  <2>. QED BY <1>8, <2>1, StoreMembers
<1>9. CASE Op(o).kind = "convert"
  <2>1. Relations(o) = ConvertCalls(o)
    BY <1>9 DEF Relations
  <2>. QED BY <1>9, <2>1, ConvertMembers
<1>10. CASE Op(o).kind = "transpose"
  <2>1. Relations(o) = TransposeCalls(o)
    BY <1>10 DEF Relations
  <2>. QED BY <1>10, <2>1, TransposeMembers
<1>11. CASE Op(o).kind = "elementwise"
  <2>1. Relations(o) = ElementwiseCalls(o)
    BY <1>11 DEF Relations
  <2>. QED BY <1>11, <2>1, ElementwiseMembers
<1>12. CASE Op(o).kind \notin Models
  <2>1. Relations(o) = <<>>
    BY <1>12 DEF Relations, Models
  <2>. QED BY <2>1
<1>. QED BY <1>1, <1>2, <1>3, <1>4, <1>5, <1>6, <1>7, <1>8, <1>9, <1>10, <1>11, <1>12 DEF Models

LEMMA CallMembers ==
  ASSUME program \in Programs, NEW o \in Ops, TensorBearing(o), ~ Unsupported(o)
  PROVE  /\ Calls(o) \in Seq(Fine(o))
         /\ Range(Calls(o)) = Range(Binds(o)) \cup Range(Relations(o))
         /\ Calls(o) = Binds(o) \o Relations(o)
<1>1. Binds(o) \in Seq(Fine(o))
  BY BindMembers
<1>2. Relations(o) \in Seq(Fine(o))
  BY RelationMembers
<1>3. Calls(o) = Binds(o) \o Relations(o)
  BY DEF Calls
<1>. QED BY <1>1, <1>2, <1>3, ConcatRange

\* What an operation shows is bound by its calls.
LEMMA ShownIsBound ==
  ASSUME program \in Programs, NEW o \in Ops, TensorBearing(o), ~ Unsupported(o), NEW e \in Shown(o)
  PROVE  /\ Bind(e) \in Range(Calls(o))
         /\ Op(o).kind # "func" => Bind(e) \in Range(Binds(o))
<1>1. CASE \E s \in Tuples(o) : \E i \in TensorSlots(s) : e = Value(s[i])
  BY <1>1, BindMembers, CallMembers
<1>2. CASE Op(o).kind = "func" /\ \E i \in TensorSlots(Op(o).outs) : e = Result(o, i)
  <2>1. Relations(o) = FunctionCalls(o)
    BY <1>2 DEF Relations
  <2>2. Bind(e) \in Range(FunctionCalls(o))
    BY <1>2, FunctionMembers
  <2>. QED BY <1>2, <2>1, <2>2, CallMembers
<1>. QED BY <1>1, <1>2 DEF Shown

LEMMA BoundByBind ==
  ASSUME NEW C, NEW e, Bind(e) \in C
  PROVE  e \in BoundBy(C)
<1>1. Bind(e).kind = "bind" /\ Bind(e).ends[1] = e
  BY DEF Bind, Call
<1>2. Bind(e) \in {d \in C : d.kind = "bind"}
  BY <1>1
<1>. QED BY <1>1, <1>2 DEF BoundBy

\* The calls of an operation come in order: what has an encoding in its type has
\* been bound by the operation around it, or by this one.
LEMMA CallsInOrder ==
  ASSUME program \in Programs, NEW o \in Ops, TensorBearing(o), ~ Unsupported(o),
         NEW C \in SUBSET Calling,
         Op(o).parent # 0 => Shown(Op(o).parent) \subseteq BoundBy(C),
         NEW i \in DOMAIN Calls(o)
  PROVE  InOrder(C \cup {Calls(o)[j] : j \in 1..(i - 1)}, Calls(o)[i])
<1> DEFINE c == Calls(o)[i]
           B == BoundBy(C \cup {Calls(o)[j] : j \in 1..(i - 1)})
<1>1. SUFFICES ASSUME c.kind # "bind", NEW e \in Range(c.ends), e \in DOMAIN program.pinned
      PROVE  e \in B
  BY DEF InOrder
<1>2. Calls(o) \in Seq(Fine(o)) /\ Calls(o) = Binds(o) \o Relations(o)
  BY CallMembers
<1>3. c \in Fine(o)
  BY <1>2
<1>4. Usable(o, e)
  BY <1>1, <1>3 DEF Fine
<1>5. e[1] \notin {"use", "storage"}
  <2>1. Appears(program, e)
    BY <1>1, PinnedFacts
  <2>2. (\E v : e = Value(v)) \/ (\E q, k : e = Result(q, k))
    BY <2>1 DEF Appears
  <2>. QED BY <2>2 DEF Value, Result
<1>6. e \in Shown(o) \/ (Op(o).parent # 0 /\ e \in Shown(Op(o).parent))
  BY <1>4, <1>5 DEF Usable, Known
<1>7. CASE Op(o).parent # 0 /\ e \in Shown(Op(o).parent)
  <2>1. e \in BoundBy(C)
    BY <1>7
  <2>. QED BY <2>1 DEF BoundBy
<1>8. CASE e \in Shown(o)
  <2>1. Binds(o) \in Seq(Fine(o)) /\ Relations(o) \in Seq(Fine(o))
    BY BindMembers, RelationMembers
  <2>2. PICK b, r : b = Binds(o) /\ r = Relations(o)
    OBVIOUS
  <2>3. /\ b \in Seq(Fine(o)) /\ r \in Seq(Fine(o)) /\ Calls(o) = b \o r
        /\ \A d \in Range(b) : d.kind = "bind"
    BY <1>2, <2>1, <2>2, BindMembers
  <2>4. i \in 1..(Len(b) + Len(r)) /\ \A j \in 1..Len(b) : (b \o r)[j] = b[j] /\ b[j] \in Range(b)
    BY <2>3 DEF Range
  <2>5. i > Len(b)
    <3>1. SUFFICES ASSUME i <= Len(b) PROVE FALSE
      BY <2>3, <2>4
    <3>2. i \in 1..Len(b)
      BY <2>3, <2>4, <3>1
    <3>3. c \in Range(b)
      BY <2>3, <2>4, <3>2
    <3>. QED BY <1>1, <2>3, <3>3
  <2>6. Op(o).kind # "func"
    <3>1. SUFFICES ASSUME Op(o).kind = "func" PROVE FALSE
      OBVIOUS
    <3>2. Relations(o) = FunctionCalls(o)
      BY <3>1 DEF Relations
    <3>3. Range(r) = {Bind(Result(o, k)) : k \in TensorSlots(Op(o).outs)}
      BY <2>2, <3>2, FunctionMembers
    <3>4. c \in Range(r) \cup Range(b)
      BY <1>2, <2>2, CallMembers DEF Range
    <3>5. \A d \in Range(r) : d.kind = "bind"
      BY <3>3 DEF Bind, Call
    <3>. QED BY <1>1, <2>3, <3>4, <3>5
  <2>7. Bind(e) \in Range(b)
    BY <1>8, <2>2, <2>6, ShownIsBound
  <2>8. PICK j \in 1..Len(b) : Bind(e) = b[j]
    <3>1. DOMAIN b = 1..Len(b)
      BY <2>3
    <3>. QED BY <2>7, <3>1 DEF Range
  <2>9. j \in 1..(i - 1) /\ Calls(o)[j] = Bind(e)
    BY <2>3, <2>4, <2>5, <2>8
  <2>10. Bind(e) \in C \cup {Calls(o)[k] : k \in 1..(i - 1)}
    BY <2>9
  <2>. QED BY <2>10, BoundByBind
<1>. QED BY <1>6, <1>7, <1>8
------------------------------------------------------------------------------
(* The walk.                                                               *)

\* The operations the walk has looked at, and their calls.
Seen == {o \in Ops : o < at /\ TensorBearing(o)}
Made(S) == UNION {Range(Calls(o)) : o \in S}

WalkInv ==
  /\ program \in Programs /\ at \in Nat \ {0}
  /\ at <= Len(program.ops) + 1
  /\ phase = "collect" => Reads(graph, Made(Seen)) /\ Declared(Made(Seen))
  /\ phase = "finalized" => Reads(graph, Made(Seen)) /\ at > Len(program.ops)
  /\ \A o \in Seen : ~ Unsupported(o)

LEMMA MadeTyped ==
  ASSUME program \in Programs, \A o \in Seen : ~ Unsupported(o)
  PROVE  Made(Seen) \in SUBSET Calling
<1>1. ASSUME NEW o \in Seen PROVE Range(Calls(o)) \subseteq Calling
  <2>1. Calls(o) \in Seq(Fine(o))
    BY <1>1, CallMembers DEF Seen
  <2>2. Range(Calls(o)) \subseteq Fine(o)
    BY <2>1 DEF Range
  <2>. QED BY <2>2 DEF Fine
<1>. QED BY <1>1 DEF Made

LEMMA WalkStarts == Init => WalkInv
<1>1. SUFFICES ASSUME Init PROVE WalkInv
  OBVIOUS
<1>2. /\ program \in Programs /\ at = 1 /\ phase = "collect"
      /\ graph = [vars |-> <<>>, cons |-> <<>>, edges |-> {}]
  BY <1>1 DEF Init
<1>3. Seen = {}
  <2>1. \A o \in Ops : o \in Nat \ {0}
    BY <1>2, OpFacts
  <2>. QED BY <1>2, <2>1 DEF Seen
<1>4. Made({}) = {}
  BY DEF Made
<1>5. Declared({})
  BY DEF Declared, EndsOf, BoundBy
<1>6. Reads(graph, {})
  <2>1. graph \in Injective
    <3>1. <<>> \in Seq(Entity) /\ <<>> \in Seq(Constraint) /\ {} \in SUBSET RegionEdge
      OBVIOUS
    <3>2. graph \in Graph /\ graph.vars = <<>>
      BY <1>2, <3>1 DEF Graph
    <3>3. IsInjective(graph.vars)
      BY <3>2 DEF IsInjective
    <3>. QED BY <3>2, <3>3 DEF Injective
  <2>2. graph.vars = <<>> /\ graph.cons = <<>> /\ DOMAIN <<>> = {}
    BY <1>2
  <2>3. WithinVars(graph) /\ RelationsOf(graph) = {} /\ Range(graph.vars) = {}
    BY <2>2 DEF WithinVars, RelationsOf, Range
  <2>4. EndsOf({}) = {} /\ RelationsFrom({}) = {}
    BY DEF EndsOf, RelationsFrom, BoundBy
  <2>. QED BY <2>1, <2>3, <2>4 DEF Reads
<1>7. Len(program.ops) \in Nat
  <2>1. program.ops \in Seq(OpType)
    BY <1>2, ProgramsAssumption DEF WellFormed
  <2>. QED BY <2>1
<1>8. Reads(graph, Made(Seen)) /\ Declared(Made(Seen))
  BY <1>3, <1>4, <1>5, <1>6
<1>9. at \in Nat \ {0} /\ at <= Len(program.ops) + 1 /\ phase # "finalized"
  BY <1>2, <1>7
<1>. QED BY <1>2, <1>3, <1>8, <1>9 DEF WalkInv

\* The calls depend on the program only.
LEMMA CallsKept ==
  ASSUME program' = program, NEW o
  PROVE  Calls(o)' = Calls(o) /\ Unsupported(o)' = Unsupported(o)
<1>1. \A q : Op(q)' = Op(q)
  BY DEF Op
<1>2. \A s : TensorSlots(s)' = TensorSlots(s)
  BY DEF TensorSlots, SlotsIn
<1>3. \A s, c : PerSlot(s, c)' = PerSlot(s, c)
  BY <1>2 DEF PerSlot
<1>4. Unsupported(o)' = Unsupported(o)
  BY <1>1 DEF Unsupported
<1>5. \A s : Bound(s)' = Bound(s)
  BY <1>2, <1>3 DEF Bound
<1>6. Binds(o)' = Binds(o)
  BY <1>1, <1>5 DEF Binds
<1>7. FunctionCalls(o)' = FunctionCalls(o)
  BY <1>1, <1>2, <1>3 DEF FunctionCalls
<1>8. \A i, e, k : Connect(o, i, e, k)' = Connect(o, i, e, k)
  BY <1>1 DEF Connect
<1>9. ReturnCalls(o)' = ReturnCalls(o)
  BY <1>1, <1>2, <1>3, <1>8 DEF ReturnCalls
<1>10. ForCalls(o)' = ForCalls(o)
  BY <1>1, <1>2, <1>3, <1>8 DEF ForCalls
<1>11. WhileCalls(o)' = WhileCalls(o)
  BY <1>1, <1>2, <1>3, <1>8 DEF WhileCalls
<1>12. \A i : Expected(o, i)' = Expected(o, i)
  BY <1>1 DEF Expected
<1>13. YieldCalls(o)' = YieldCalls(o)
  BY <1>1, <1>2, <1>3, <1>8, <1>12 DEF YieldCalls
<1>14. ConditionCalls(o)' = ConditionCalls(o)
  BY <1>1, <1>2, <1>3, <1>8 DEF ConditionCalls
<1>15. \A i : OwnUse(o, i)' = OwnUse(o, i)
  BY <1>1 DEF OwnUse
<1>16. ElementwiseCalls(o)' = ElementwiseCalls(o)
  BY <1>1, <1>2, <1>3, <1>8, <1>15 DEF ElementwiseCalls
<1>17. TransposeCalls(o)' = TransposeCalls(o)
  BY <1>1, <1>8, <1>15 DEF TransposeCalls
<1>18. ConvertCalls(o)' = ConvertCalls(o)
  BY <1>1 DEF ConvertCalls
<1>19. Relations(o)' = Relations(o)
  BY <1>1, <1>7, <1>9, <1>10, <1>11, <1>13, <1>14, <1>15, <1>16, <1>17, <1>18 DEF Relations
<1>20. Calls(o)' = Calls(o)
  BY <1>6, <1>19 DEF Calls
<1>. QED BY <1>4, <1>20

LEMMA ReadsKept ==
  ASSUME program' = program, NEW g, NEW C
  PROVE  Reads(g, C)' = Reads(g, C) /\ Declared(C)' = Declared(C)
<1>1. Declared(C)' = Declared(C)
  BY DEF Declared
<1>2. \A e : Requirement(e)' = Requirement(e)
  BY DEF Requirement
<1>3. RelationsFrom(C)' = RelationsFrom(C)
  BY <1>2 DEF RelationsFrom
<1>4. Reads(g, C)' = Reads(g, C)
  BY <1>3 DEF Reads
<1>. QED BY <1>1, <1>4

\* A visit performs the calls of one more operation.
LEMMA WalkVisits == WalkInv /\ Visit => WalkInv'
<1>1. SUFFICES ASSUME WalkInv, Visit PROVE WalkInv'
  OBVIOUS
<1>2. /\ program \in Programs /\ at \in Nat \ {0} /\ \A o \in Seen : ~ Unsupported(o)
      /\ Reads(graph, Made(Seen)) /\ Declared(Made(Seen))
  BY <1>1 DEF WalkInv, Visit
<1>3. /\ phase = "collect" /\ at <= Len(program.ops) /\ TensorBearing(at) /\ ~ Unsupported(at)
      /\ graph' = FoldLeft(Perform, graph, Calls(at)) /\ at' = at + 1
      /\ program' = program /\ phase' = phase
  BY <1>1 DEF Visit
<1>4. at \in Ops /\ Len(program.ops) \in Nat
  <2>1. program.ops \in Seq(OpType)
    BY <1>2, ProgramsAssumption DEF WellFormed
  <2>. QED BY <1>2, <1>3, <2>1 DEF Ops
<1>5. Seen' = Seen \cup {at}
  <2>1. Ops' = Ops /\ \A o \in Ops : TensorBearing(o)' = TensorBearing(o)
    BY <1>3 DEF Ops, TensorBearing, TensorSlots, SlotsIn, Op
  <2>2. \A o \in Ops : o \in Nat
    BY <1>2, OpFacts
  <2>3. \A o \in Ops : o < at + 1 <=> (o < at \/ o = at)
    BY <1>2, <2>2
  <2>. QED BY <1>3, <1>4, <2>1, <2>3 DEF Seen
<1>6. \A o \in Ops : Calls(o)' = Calls(o) /\ Unsupported(o)' = Unsupported(o)
  BY <1>3, CallsKept
<1>7. Seen \subseteq Ops
  BY DEF Seen
<1>8. Made(Seen)' = Made(Seen) \cup Range(Calls(at))
  BY <1>4, <1>5, <1>6, <1>7 DEF Made
<1>9. Reads(graph', Made(Seen) \cup Range(Calls(at))) /\ Declared(Made(Seen) \cup Range(Calls(at)))
  <2> DEFINE C == Made(Seen)
             s == Calls(at)
  <2>1. C \in SUBSET Calling
    BY <1>2, MadeTyped
  <2>2. s \in Seq(Calling)
    <3>1. s \in Seq(Fine(at))
      BY <1>2, <1>3, <1>4, CallMembers
    <3>2. Fine(at) \subseteq Calling
      BY DEF Fine
    <3>. QED BY <3>1, <3>2
  <2>3. Op(at).parent # 0 => Shown(Op(at).parent) \subseteq BoundBy(C)
    <3>1. SUFFICES ASSUME Op(at).parent # 0, NEW e \in Shown(Op(at).parent) PROVE e \in BoundBy(C)
      OBVIOUS
    <3>2. Op(at).parent \in Ops /\ Op(at).parent < at
      BY <1>2, <1>4, <3>1, OpFacts
    <3>3. TensorBearing(Op(at).parent)
      BY <1>2, <3>1, <3>2, ShownFacts
    <3>4. Op(at).parent \in Seen
      BY <3>2, <3>3 DEF Seen
    <3>5. Bind(e) \in Range(Calls(Op(at).parent))
      BY <1>2, <3>1, <3>2, <3>3, <3>4, ShownIsBound
    <3>6. Bind(e) \in C
      BY <3>4, <3>5 DEF Made
    <3>. QED BY <3>6, BoundByBind
  <2>4. \A i \in DOMAIN s : InOrder(C \cup {s[j] : j \in 1..(i - 1)}, s[i])
    BY <1>2, <1>3, <1>4, <2>1, <2>3, CallsInOrder
  <2>5. PinnedTyped
    BY <1>2, PinnedFacts
  <2>. HIDE DEF C, s
  <2>6. /\ Reads(FoldLeft(Perform, graph, s), C \cup Range(s)) /\ Declared(C \cup Range(s))
    BY <1>2, <2>1, <2>2, <2>4, <2>5, ReadsAll DEF C
  <2>. QED BY <1>3, <2>6 DEF C, s
<1>10. Reads(graph, Made(Seen))' /\ Declared(Made(Seen))'
  <2>1. PICK g, C : g = graph' /\ C = Made(Seen)'
    OBVIOUS
  <2>2. Reads(g, C) /\ Declared(C)
    BY <1>8, <1>9, <2>1
  <2>3. Reads(g, C)' /\ Declared(C)'
    BY <1>3, <2>2, ReadsKept
  <2>. QED BY <2>1, <2>3 DEF Reads, Declared
<1>11. (\A o \in Seen : ~ Unsupported(o))'
  BY <1>2, <1>3, <1>4, <1>5, <1>6, <1>7
<1>12. at + 1 \in Nat \ {0} /\ at + 1 <= Len(program.ops) + 1
  BY <1>2, <1>3, <1>4
<1>. QED BY <1>2, <1>3, <1>4, <1>10, <1>11, <1>12 DEF WalkInv

LEMMA SeenBefore ==
  ASSUME program \in Programs, at \in Nat
  PROVE  \A o \in Ops : o \in Nat /\ (o < at + 1 <=> (o < at \/ o = at))
BY OpFacts

\* Skipping an operation performs nothing.
LEMMA WalkSkips == WalkInv /\ Skip => WalkInv'
<1>1. SUFFICES ASSUME WalkInv, Skip PROVE WalkInv'
  OBVIOUS
<1>2. /\ program \in Programs /\ at \in Nat \ {0} /\ \A o \in Seen : ~ Unsupported(o)
      /\ Reads(graph, Made(Seen)) /\ Declared(Made(Seen))
  BY <1>1 DEF WalkInv, Skip
<1>3. /\ phase = "collect" /\ at <= Len(program.ops) /\ ~ TensorBearing(at) /\ at' = at + 1
      /\ program' = program /\ phase' = phase /\ graph' = graph
  BY <1>1 DEF Skip
<1>4. Len(program.ops) \in Nat
  <2>1. program.ops \in Seq(OpType)
    BY <1>2, ProgramsAssumption DEF WellFormed
  <2>. QED BY <2>1
<1>5. Seen' = Seen
  <2>1. Ops' = Ops /\ \A o \in Ops : TensorBearing(o)' = TensorBearing(o)
    BY <1>3 DEF Ops, TensorBearing, TensorSlots, SlotsIn, Op
  <2>2. \A o \in Ops : o < at + 1 <=> (o < at \/ o = at)
    BY <1>2, SeenBefore
  <2>. QED BY <1>3, <2>1, <2>2 DEF Seen
<1>6. \A o : Calls(o)' = Calls(o) /\ Unsupported(o)' = Unsupported(o)
  BY <1>3, CallsKept
<1>7. Made(Seen)' = Made(Seen)
  BY <1>5, <1>6 DEF Made
<1>8. Reads(graph, Made(Seen))' /\ Declared(Made(Seen))'
  <2>1. PICK g, C : g = graph' /\ C = Made(Seen)'
    OBVIOUS
  <2>2. Reads(g, C) /\ Declared(C)
    BY <1>2, <1>3, <1>7, <2>1
  <2>3. Reads(g, C)' /\ Declared(C)'
    BY <1>3, <2>2, ReadsKept
  <2>. QED BY <2>1, <2>3 DEF Reads, Declared
<1>9. (\A o \in Seen : ~ Unsupported(o))'
  BY <1>2, <1>5, <1>6
<1>10. at + 1 \in Nat \ {0} /\ at + 1 <= Len(program.ops) + 1
  BY <1>2, <1>3, <1>4
<1>. QED BY <1>2, <1>3, <1>8, <1>9, <1>10 DEF WalkInv

\* Renumbering keeps the types.
LEMMA RenumberedTyped ==
  ASSUME NEW g \in Graph, Verified(g),
         NEW remap \in Bijection(DOMAIN g.vars, DOMAIN g.vars)
  PROVE  Renumbered(g, remap) \in Graph
<1> DEFINE cons == RenamedConstraints(g, remap)
           place == Places(cons)
           h == Renumbered(g, remap)
<1>0. Parts(g, remap, cons, place, h)
  BY RenumberedParts
<1>1. place \in Bijection(DOMAIN g.cons, DOMAIN g.cons)
  BY <1>0 DEF Parts
<1>2. h = [vars  |-> [n \in DOMAIN g.vars |-> g.vars[OldID(remap, n)]],
           cons  |-> [n \in DOMAIN cons |-> [cons[OldID(place, n)] EXCEPT !.id = n]],
           edges |-> {RenamedEdge(e, remap, place) : e \in g.edges}]
  BY DEF Renumbered, RenamedConstraints
<1>3. DOMAIN cons = DOMAIN g.cons /\ \A n \in DOMAIN g.cons : cons[n] = Renamed(g.cons[n], remap)
  BY DEF RenamedConstraints
<1>4. /\ g.vars \in Seq(Entity) /\ DOMAIN g.vars = 1..Len(g.vars) /\ Len(g.vars) \in Nat
      /\ g.cons \in Seq(Constraint) /\ DOMAIN g.cons = 1..Len(g.cons) /\ Len(g.cons) \in Nat
      /\ g.edges \in SUBSET RegionEdge
  BY DEF Graph
<1>. HIDE DEF cons, place, h
<1>5. [n \in DOMAIN g.vars |-> g.vars[OldID(remap, n)]] \in Seq(Entity)
  <2>1. \A n \in DOMAIN g.vars : OldID(remap, n) \in DOMAIN g.vars
    BY OldIDs
  <2>2. \A n \in 1..Len(g.vars) : g.vars[OldID(remap, n)] \in Entity
    BY <1>4, <2>1
  <2>. QED BY <1>4, <2>2
<1>6. [n \in DOMAIN cons |-> [cons[OldID(place, n)] EXCEPT !.id = n]] \in Seq(Constraint)
  <2>1. \A n \in DOMAIN g.cons : OldID(place, n) \in DOMAIN g.cons
    BY <1>1, OldIDs
  <2>2. \A n \in DOMAIN g.cons : cons[n] \in Constraint
    <3>1. ASSUME NEW n \in DOMAIN g.cons PROVE cons[n] \in Constraint
      <4>1. Renamed(g.cons[n], remap) \in Constraint
        BY RenamedType
      <4>. QED BY <1>3, <4>1
    <3>. QED BY <3>1
  <2>3. ASSUME NEW c \in Constraint, NEW n \in Nat PROVE [c EXCEPT !.id = n] \in Constraint
    BY DEF Constraint
  <2>4. \A n \in 1..Len(g.cons) : [cons[OldID(place, n)] EXCEPT !.id = n] \in Constraint
    BY <1>4, <2>1, <2>2, <2>3
  <2>. QED BY <1>3, <1>4, <2>4
<1>7. ASSUME NEW e \in g.edges PROVE RenamedEdge(e, remap, place) \in RegionEdge
  <2>1. e \in RegionEdge
    BY <1>4
  <2>2. e.source \in DOMAIN g.vars /\ e.target \in DOMAIN g.vars /\ e.constraint \in DOMAIN g.cons
    BY DEF Verified, EdgeIsGenuine
  <2>3. remap[e.source] \in DOMAIN g.vars /\ remap[e.target] \in DOMAIN g.vars
    BY <2>2, OldIDs
  <2>4. place[e.constraint] \in DOMAIN g.cons
    BY <1>1, <2>2, OldIDs
  <2>5. remap[e.source] \in Nat /\ remap[e.target] \in Nat /\ place[e.constraint] \in Nat
    BY <1>4, <2>3, <2>4
  <2>. QED BY <2>1, <2>5 DEF RenamedEdge, RegionEdge
<1>8. {RenamedEdge(e, remap, place) : e \in g.edges} \in SUBSET RegionEdge
  BY <1>7
<1>9. h \in Graph
  BY <1>2, <1>5, <1>6, <1>8 DEF Graph
<1>. QED BY <1>9 DEF h

\* finalize() changes IDs only, so the graph says what it said.
LEMMA WalkFinishes == WalkInv /\ Finalize => WalkInv'
<1>1. SUFFICES ASSUME WalkInv, Finalize PROVE WalkInv'
  OBVIOUS
<1>2. /\ program \in Programs /\ at \in Nat \ {0} /\ \A o \in Seen : ~ Unsupported(o)
      /\ Reads(graph, Made(Seen)) /\ at <= Len(program.ops) + 1
  BY <1>1 DEF WalkInv, Finalize
<1>3. /\ phase = "collect" /\ at > Len(program.ops)
      /\ program' = program /\ at' = at
  BY <1>1 DEF Finalize
<1>4. Seen' = Seen
  <2>1. Ops' = Ops /\ \A o \in Ops : TensorBearing(o)' = TensorBearing(o)
    BY <1>3 DEF Ops, TensorBearing, TensorSlots, SlotsIn, Op
  <2>. QED BY <1>3, <2>1 DEF Seen
<1>5. \A o : Calls(o)' = Calls(o) /\ Unsupported(o)' = Unsupported(o)
  BY <1>3, CallsKept
<1>6. Made(Seen)' = Made(Seen)
  BY <1>4, <1>5 DEF Made
<1>7. (\A o \in Seen : ~ Unsupported(o))'
  BY <1>2, <1>4, <1>5
<1>8. phase' = "finalized" => Reads(graph', Made(Seen))
  <2>1. SUFFICES ASSUME phase' = "finalized" PROVE Reads(graph', Made(Seen))
    OBVIOUS
  <2>2. PICK remap \in Bijection(DOMAIN graph.vars, DOMAIN graph.vars) :
          graph' = Renumbered(graph, remap) /\ Verified(graph) /\ Verified(Renumbered(graph, remap))
    BY <1>1, <2>1 DEF Finalize
  <2>3. PICK h : h = Renumbered(graph, remap)
    OBVIOUS
  <2>4. /\ graph \in Graph /\ Range(graph.vars) = EndsOf(Made(Seen))
        /\ RelationsOf(graph) = RelationsFrom(Made(Seen))
    BY <1>2 DEF Reads, Injective
  <2>5. h \in Graph /\ Named(h) = Named(graph) /\ Verified(h)
    BY <2>2, <2>3, <2>4, RenumberedTyped, RenumberedIsNamedAlike
  <2>6. Range(h.vars) = Range(graph.vars) /\ RelationsOf(h) = RelationsOf(graph)
    BY <2>5 DEF Named, RelationsOf
  <2>7. h \in Injective
    BY <2>5 DEF Verified, Injective
  <2>8. WithinVars(h)
    BY <2>5, VerifiedConstraint DEF WithinVars
  <2>9. Reads(h, Made(Seen))
    BY <2>4, <2>6, <2>7, <2>8 DEF Reads
  <2>. QED BY <2>2, <2>3, <2>9
<1>9. phase' = "finalized" => Reads(graph, Made(Seen))'
  <2>1. PICK g, C : g = graph' /\ C = Made(Seen)'
    OBVIOUS
  <2>2. phase' = "finalized" => Reads(g, C)
    BY <1>6, <1>8, <2>1
  <2>3. Reads(g, C)' = Reads(g, C)
    BY <1>3, ReadsKept
  <2>. QED BY <2>1, <2>2, <2>3 DEF Reads
<1>10. phase' # "collect"
  BY <1>1 DEF Finalize
<1>. QED BY <1>2, <1>3, <1>7, <1>9, <1>10 DEF WalkInv

\* Refusing keeps everything but the phase.
LEMMA WalkRefuses == WalkInv /\ (Refuse \/ UNCHANGED vars) => WalkInv'
<1>1. SUFFICES ASSUME WalkInv, Refuse \/ UNCHANGED vars PROVE WalkInv'
  OBVIOUS
<1>2. program' = program /\ at' = at /\ graph' = graph /\ (phase' = phase \/ phase' = "refused")
  BY <1>1 DEF Refuse, vars
<1>3. Seen' = Seen
  <2>1. Ops' = Ops /\ \A o \in Ops : TensorBearing(o)' = TensorBearing(o)
    BY <1>2 DEF Ops, TensorBearing, TensorSlots, SlotsIn, Op
  <2>. QED BY <1>2, <2>1 DEF Seen
<1>4. \A o : Calls(o)' = Calls(o) /\ Unsupported(o)' = Unsupported(o)
  BY <1>2, CallsKept
<1>5. Made(Seen)' = Made(Seen)
  BY <1>3, <1>4 DEF Made
<1>6. (\A o \in Seen : ~ Unsupported(o))'
  BY <1>1, <1>3, <1>4 DEF WalkInv
<1>7. /\ Reads(graph, Made(Seen))' = Reads(graph, Made(Seen))
      /\ Declared(Made(Seen))' = Declared(Made(Seen))
  <2>1. PICK g, C : g = graph' /\ C = Made(Seen)'
    OBVIOUS
  <2>2. Reads(g, C)' = Reads(g, C) /\ Declared(C)' = Declared(C)
    BY <1>2, ReadsKept
  <2>3. g = graph /\ C = Made(Seen)
    BY <1>2, <1>5, <2>1
  <2>. QED BY <2>1, <2>2, <2>3 DEF Reads, Declared
<1>. QED BY <1>1, <1>2, <1>6, <1>7 DEF WalkInv

\* The walk's invariant: the graph says exactly what the calls made say.
THEOREM WalkInductive == Spec => []WalkInv
<1>1. WalkInv /\ [Next]_vars => WalkInv'
  BY WalkVisits, WalkSkips, WalkFinishes, WalkRefuses DEF Next
<1>. QED BY <1>1, WalkStarts, PTL DEF Spec
------------------------------------------------------------------------------
(* What a solution of the finalized graph says, by names.                  *)

Finalized == WalkInv /\ phase = "finalized"

LEMMA FinalizedFacts ==
  ASSUME Finalized
  PROVE  /\ program \in Programs /\ graph \in Injective /\ WithinVars(graph)
         /\ Range(graph.vars) = EndsOf(Made(Seen)) /\ RelationsOf(graph) = RelationsFrom(Made(Seen))
         /\ \A o \in Ops : TensorBearing(o) => o \in Seen
         /\ \A o \in Seen : o \in Ops /\ TensorBearing(o) /\ ~ Unsupported(o)
         /\ Made(Seen) \in SUBSET Calling
<1>1. /\ program \in Programs /\ Reads(graph, Made(Seen)) /\ at > Len(program.ops) /\ at \in Nat
      /\ \A o \in Seen : ~ Unsupported(o)
  BY DEF Finalized, WalkInv
<1>2. /\ graph \in Injective /\ WithinVars(graph)
      /\ Range(graph.vars) = EndsOf(Made(Seen)) /\ RelationsOf(graph) = RelationsFrom(Made(Seen))
  BY <1>1 DEF Reads
<1>3. \A o \in Ops : o < at
  <2>1. ASSUME NEW o \in Ops PROVE o < at
    <3>1. o \in 1..Len(program.ops) /\ Len(program.ops) \in Nat
      BY <1>1, OpFacts DEF Ops
    <3>. QED BY <1>1, <3>1
  <2>. QED BY <2>1
<1>4. /\ \A o \in Ops : TensorBearing(o) => o \in Seen
      /\ \A o \in Seen : o \in Ops /\ TensorBearing(o)
  BY <1>3 DEF Seen
<1>. QED BY <1>1, <1>2, <1>4, MadeTyped

\* A variable is found by what it stands for.
LEMMA Variables ==
  ASSUME graph \in Injective
  PROVE  /\ \A e \in Range(graph.vars) : VarOf(e) \in DOMAIN graph.vars /\ graph.vars[VarOf(e)] = e
         /\ \A n \in DOMAIN graph.vars : VarOf(graph.vars[n]) = n /\ graph.vars[n] \in Range(graph.vars)
<1>1. \A m, n \in DOMAIN graph.vars : graph.vars[m] = graph.vars[n] => m = n
  BY DEF Injective, IsInjective
<1>2. ASSUME NEW e \in Range(graph.vars)
      PROVE  VarOf(e) \in DOMAIN graph.vars /\ graph.vars[VarOf(e)] = e
  <2>1. \E n \in DOMAIN graph.vars : graph.vars[n] = e
    BY DEF Range
  <2>. QED BY <2>1 DEF VarOf
<1>3. ASSUME NEW n \in DOMAIN graph.vars
      PROVE  VarOf(graph.vars[n]) = n /\ graph.vars[n] \in Range(graph.vars)
  <2>1. graph.vars[n] \in Range(graph.vars)
    BY DEF Range
  <2>. QED BY <1>1, <1>2, <2>1
<1>. QED BY <1>2, <1>3

\* A constraint that reads as a relation between x and y, in this order or not.
LEMMA ReadPair ==
  ASSUME Finalized, NEW n \in DOMAIN graph.cons, NEW d \in Relating,
         NamedRelation(graph, graph.cons[n]) = Relation(d)
  PROVE  LET c == graph.cons[n]
         IN  /\ c.kind = d.kind /\ c.use = d.use /\ c.existing = d.existing
             /\ c \in Range(graph.cons)
             /\ d.kind = "SameLayout" =>
                  {VarOf(d.ends[1]), VarOf(d.ends[2])} \subseteq Range(c.vars)
             /\ d.kind # "SameLayout" =>
                  VarOf(d.ends[1]) = c.vars[1] /\ VarOf(d.ends[2]) = c.vars[2]
<1> DEFINE c == graph.cons[n]
           ends == [k \in DOMAIN c.vars |-> graph.vars[c.vars[k]]]
<1>1. graph \in Injective /\ \A k \in DOMAIN c.vars : c.vars[k] \in DOMAIN graph.vars
  BY FinalizedFacts DEF WithinVars
<1>2. \A k \in DOMAIN c.vars : VarOf(ends[k]) = c.vars[k]
  BY <1>1, Variables
<1>3. /\ c.kind = d.kind /\ c.use = d.use /\ c.existing = d.existing
      /\ (IF c.kind = "SameLayout" THEN Range(ends) ELSE ends)
           = (IF d.kind = "SameLayout" THEN Range(d.ends) ELSE d.ends)
  BY DEF NamedRelation, Relation, Commutative
<1>4. d.ends \in Entity \X Entity /\ DOMAIN d.ends = {1, 2}
  <2>1. d.ends \in Entity \X Entity
    BY DEF Relating
  <2>. QED BY <2>1
<1>5. c \in Range(graph.cons)
  BY DEF Range
<1>6. DOMAIN ends = DOMAIN c.vars
  OBVIOUS
<1>. HIDE DEF c, ends
<1>7. CASE d.kind = "SameLayout"
  <2>1. Range(ends) = Range(d.ends)
    BY <1>3, <1>7
  <2>2. d.ends[1] \in Range(d.ends) /\ d.ends[2] \in Range(d.ends)
    BY <1>4 DEF Range
  <2>3. ASSUME NEW e \in Range(d.ends) PROVE VarOf(e) \in Range(c.vars)
    <3>1. PICK k \in DOMAIN ends : ends[k] = e
      BY <2>1 DEF Range
    <3>2. c.vars[k] \in Range(c.vars)
      BY <1>6, <3>1 DEF Range
    <3>. QED BY <1>2, <1>6, <3>1, <3>2
  <2>. QED BY <1>3, <1>5, <1>7, <2>2, <2>3 DEF c
<1>8. CASE d.kind # "SameLayout"
  <2>1. ends = d.ends
    BY <1>3, <1>8
  <2>2. 1 \in DOMAIN c.vars /\ 2 \in DOMAIN c.vars
    BY <1>4, <1>6, <2>1
  <2>. QED BY <1>2, <1>3, <1>5, <1>8, <2>1, <2>2 DEF c
<1>. QED BY <1>7, <1>8

\* What the calls relate, a solution observes.
LEMMA SolutionObserves ==
  ASSUME Finalized, NEW a \in Solutions, NEW d \in Made(Seen), d.kind # "bind"
  PROVE  /\ d.kind = "SameLayout" => a[VarOf(d.ends[1])] = a[VarOf(d.ends[2])]
         /\ d.kind = "TransformLayout" => a[VarOf(d.ends[2])] = Transposed[a[VarOf(d.ends[1])]]
<1>1. Relation(d) \in RelationsOf(graph)
  <2>1. Relation(d) \in RelationsFrom(Made(Seen))
    BY DEF RelationsFrom
  <2>. QED BY <2>1, FinalizedFacts
<1>2. PICK n \in DOMAIN graph.cons : NamedRelation(graph, graph.cons[n]) = Relation(d)
  BY <1>1 DEF RelationsOf
<1>3. d \in Relating
  <2>1. d \in Calling
    BY FinalizedFacts
  <2>2. \A e \in Entity : Bind(e).kind = "bind"
    BY DEF Bind, Call
  <2>. QED BY <2>1, <2>2 DEF Calling
<1>4. PICK c : c = graph.cons[n]
  OBVIOUS
<1>5. /\ c.kind = d.kind /\ c \in Range(graph.cons)
      /\ d.kind = "SameLayout" =>
           {VarOf(d.ends[1]), VarOf(d.ends[2])} \subseteq Range(c.vars)
      /\ d.kind # "SameLayout" =>
           VarOf(d.ends[1]) = c.vars[1] /\ VarOf(d.ends[2]) = c.vars[2]
  BY <1>2, <1>3, <1>4, ReadPair
<1>6. Holds(c, a)
  BY <1>5 DEF Solutions
<1>7. CASE d.kind = "SameLayout"
  <2>1. \A v, w \in Range(c.vars) : a[v] = a[w]
    BY <1>5, <1>6, <1>7 DEF Holds
  <2>. QED BY <1>5, <1>7, <2>1
<1>8. CASE d.kind = "TransformLayout"
  <2>1. a[c.vars[2]] = Transposed[a[c.vars[1]]]
    BY <1>5, <1>6, <1>8 DEF Holds
  <2>. QED BY <1>5, <1>8, <2>1
<1>. QED BY <1>7, <1>8

\* The encodings in types are required.
LEMMA PinnedIsBound ==
  ASSUME Finalized, NEW e \in DOMAIN program.pinned
  PROVE  e \in BoundBy(Made(Seen))
<1>1. Appears(program, e) /\ program \in Programs
  BY FinalizedFacts, PinnedFacts
<1>2. PICK o \in Ops : e \in Shown(o)
  <2>1. PICK o \in DOMAIN program.ops :
          LET op == program.ops[o]
          IN  \/ \E s \in {op.operands, op.results, op.args, op.after} :
                   \E i \in SlotsIn(s, program.tensors) : e = Value(s[i])
              \/ op.kind = "func" /\ \E i \in SlotsIn(op.outs, program.tensors) : e = Result(o, i)
    BY <1>1 DEF Appears
  <2>2. o \in Ops /\ Op(o) = program.ops[o]
    BY DEF Ops, Op
  <2>3. \/ \E s \in Tuples(o) : \E i \in TensorSlots(s) : e = Value(s[i])
        \/ Op(o).kind = "func" /\ \E i \in TensorSlots(Op(o).outs) : e = Result(o, i)
    BY <2>1, <2>2 DEF Tuples, TensorSlots
  <2>4. e \in Entity
    <3>1. CASE \E s \in Tuples(o) : \E i \in TensorSlots(s) : e = Value(s[i])
      BY <1>1, <2>2, <3>1, OpTyped, Entities
    <3>2. CASE \E i \in TensorSlots(Op(o).outs) : e = Result(o, i)
      <4>1. o \in Nat /\ TensorSlots(Op(o).outs) \subseteq Nat
        BY <1>1, <2>2, OpTyped, OpFacts
      <4>. QED BY <3>2, <4>1, Entities
    <3>. QED BY <2>3, <3>1, <3>2
  <2>. QED BY <2>2, <2>3, <2>4 DEF Shown
<1>3. TensorBearing(o) /\ o \in Seen /\ ~ Unsupported(o)
  BY <1>1, <1>2, ShownFacts, FinalizedFacts
<1>4. Bind(e) \in Range(Calls(o))
  BY <1>1, <1>2, <1>3, ShownIsBound
<1>5. Bind(e) \in Made(Seen)
  BY <1>3, <1>4 DEF Made
<1>. QED BY <1>5, BoundByBind

LEMMA PinnedIsObserved ==
  ASSUME Finalized, NEW a \in Solutions, NEW e \in DOMAIN program.pinned
  PROVE  a[VarOf(e)] = program.pinned[e]
<1>1. Requirement(e) \in RelationsOf(graph)
  <2>1. Requirement(e) \in RelationsFrom(Made(Seen))
    BY PinnedIsBound DEF RelationsFrom
  <2>. QED BY <2>1, FinalizedFacts
<1>2. PICK n \in DOMAIN graph.cons : NamedRelation(graph, graph.cons[n]) = Requirement(e)
  BY <1>1 DEF RelationsOf
<1>3. PICK c : c = graph.cons[n]
  OBVIOUS
<1>4. c \in Range(graph.cons) /\ \A k \in DOMAIN c.vars : c.vars[k] \in DOMAIN graph.vars
  BY <1>3, FinalizedFacts DEF Range, WithinVars
<1>5. /\ c.kind = "RequireEncoding" /\ c.enc = program.pinned[e]
      /\ [k \in DOMAIN c.vars |-> graph.vars[c.vars[k]]] = <<e>>
  BY <1>2, <1>3 DEF NamedRelation, Requirement, Commutative
<1>6. 1 \in DOMAIN c.vars /\ graph.vars[c.vars[1]] = e
  <2> DEFINE ends == [k \in DOMAIN c.vars |-> graph.vars[c.vars[k]]]
  <2>1. DOMAIN ends = DOMAIN c.vars /\ \A k \in DOMAIN c.vars : ends[k] = graph.vars[c.vars[k]]
    OBVIOUS
  <2>2. ends = <<e>>
    BY <1>5
  <2>3. DOMAIN <<e>> = {1} /\ <<e>>[1] = e
    OBVIOUS
  <2>. HIDE DEF ends
  <2>. QED BY <2>1, <2>2, <2>3
<1>7. VarOf(e) = c.vars[1]
  BY <1>4, <1>6, FinalizedFacts, Variables
<1>8. Holds(c, a)
  BY <1>4 DEF Solutions
<1>9. a[c.vars[1]] = c.enc
  BY <1>5, <1>8 DEF Holds
<1>. QED BY <1>5, <1>7, <1>9

\* Operand i of o is converted to e, and to nothing else.
Converts(o, i, d) == d.use = <<o, i>> /\ ~ d.existing
Expects(o, i, e) ==
  /\ \E d \in Range(Relations(o)) : Converts(o, i, d)
  /\ \A d \in Range(Relations(o)) : Converts(o, i, d) => d.kind = "Convertible" /\ d.ends[2] = e

LEMMA UsesOf ==
  ASSUME Finalized, NEW o \in Ops, NEW i, NEW d \in Made(Seen), d.use = <<o, i>>
  PROVE  o \in Seen /\ d \in Range(Relations(o)) /\ d \in Relating /\ d.kind # "bind"
<1>1. program \in Programs
  BY FinalizedFacts
<1>2. PICK q \in Seen : d \in Range(Calls(q))
  BY DEF Made
<1>3. q \in Ops /\ TensorBearing(q) /\ ~ Unsupported(q)
  BY FinalizedFacts
<1>4. Calls(q) \in Seq(Fine(q)) /\ Range(Calls(q)) = Range(Binds(q)) \cup Range(Relations(q))
  BY <1>1, <1>3, CallMembers
<1>5. d \in Fine(q)
  BY <1>2, <1>4 DEF Range
<1>6. o # 0
  BY <1>1, OpFacts
<1>7. d.use # NoUse
  BY <1>6 DEF NoUse
<1>8. d.kind # "bind" /\ d \in Relating
  <2>1. \A e \in Entity : Bind(e).use = NoUse
    BY DEF Bind, Call
  <2>2. d \in Calling
    BY <1>5 DEF Fine
  <2>3. d \in Relating
    BY <1>7, <2>1, <2>2 DEF Calling
  <2>4. d.kind # "bind"
    <3>1. "bind" \notin Range(KindOrder)
      BY DEF Range, KindOrder
    <3>. QED BY <2>3, <3>1 DEF Relating
  <2>. QED BY <2>3, <2>4
<1>9. q = o
  <2>1. d.use[1] = q
    BY <1>5, <1>7, <1>8 DEF Fine
  <2>. QED BY <2>1
<1>10. d \notin Range(Binds(q))
  BY <1>1, <1>3, <1>8, BindMembers
<1>. QED BY <1>2, <1>4, <1>8, <1>9, <1>10

\* So it arrives with the layout of e.
LEMMA Arrival ==
  ASSUME Finalized, NEW a \in Solutions, NEW o \in Seen, NEW i, NEW e, Expects(o, i, e)
  PROVE  Arrives(a, o, i) = {a[VarOf(e)]}
<1> DEFINE cs == {c \in Range(graph.cons) : c.use = <<o, i>> /\ ~ c.existing}
<1>1. /\ program \in Programs /\ o \in Ops /\ o # 0
      /\ RelationsOf(graph) = RelationsFrom(Made(Seen))
      /\ TensorBearing(o) /\ ~ Unsupported(o)
  BY FinalizedFacts, OpFacts
<1>2. ASSUME NEW c \in cs PROVE a[c.vars[2]] = a[VarOf(e)]
  <2>1. PICK n \in DOMAIN graph.cons : c = graph.cons[n]
    BY DEF Range
  <2>2. NamedRelation(graph, graph.cons[n]) \in RelationsFrom(Made(Seen))
    BY <1>1 DEF RelationsOf
  <2>3. NamedRelation(graph, graph.cons[n]).use = <<o, i>> /\ ~ NamedRelation(graph, graph.cons[n]).existing
    BY <2>1 DEF NamedRelation
  <2>4. <<o, i>> # NoUse
    BY <1>1 DEF NoUse
  <2>5. PICK d \in Made(Seen) : d.kind # "bind" /\ NamedRelation(graph, graph.cons[n]) = Relation(d)
    <3>1. \A f : Requirement(f).use = NoUse
      BY DEF Requirement
    <3>. QED BY <2>2, <2>3, <2>4, <3>1 DEF RelationsFrom
  <2>6. Converts(o, i, d)
    BY <2>3, <2>5 DEF Relation, Converts
  <2>7. d \in Range(Relations(o)) /\ d \in Relating
    BY <1>1, <2>6, UsesOf DEF Converts
  <2>8. d.kind = "Convertible" /\ d.ends[2] = e
    BY <2>6, <2>7 DEF Expects
  <2>9. VarOf(d.ends[2]) = graph.cons[n].vars[2]
    BY <2>5, <2>7, <2>8, ReadPair
  <2>. QED BY <2>1, <2>8, <2>9
<1>3. cs # {}
  <2>1. PICK d \in Range(Relations(o)) : Converts(o, i, d)
    BY DEF Expects
  <2>2. d \in Made(Seen)
    BY <1>1, <2>1, CallMembers DEF Made
  <2>3. d \in Relating /\ d.kind # "bind"
    BY <1>1, <2>1, <2>2, UsesOf DEF Converts
  <2>4. Relation(d) \in RelationsOf(graph)
    BY <1>1, <2>2, <2>3 DEF RelationsFrom
  <2>5. PICK n \in DOMAIN graph.cons : NamedRelation(graph, graph.cons[n]) = Relation(d)
    BY <2>4 DEF RelationsOf
  <2>6. graph.cons[n] \in cs
    BY <2>1, <2>3, <2>5, ReadPair DEF Converts
  <2>. QED BY <2>6
<1>4. Arrives(a, o, i) = IF cs = {} THEN {Layout(a, Op(o).operands[i])} ELSE {a[c.vars[2]] : c \in cs}
  BY DEF Arrives
<1>. HIDE DEF cs
<1>5. {a[c.vars[2]] : c \in cs} = {a[VarOf(e)]}
  BY <1>2, <1>3
<1>. QED BY <1>3, <1>4, <1>5

\* What the calls say.
LEMMA CallFields ==
  /\ \A o, i, e, k : LET d == Connect(o, i, e, k)
                     IN  /\ d.kind = "Convertible" /\ d.use = <<o, i>> /\ ~ d.existing
                         /\ d.ends[1] = Value(Op(o).operands[i]) /\ d.ends[2] = e
  /\ \A o, i : LET d == OwnUse(o, i)
               IN  /\ d.kind = "Convertible" /\ d.use = <<o, i>> /\ ~ d.existing
                   /\ d.ends[1] = Value(Op(o).operands[i]) /\ d.ends[2] = Use(o, i)
  /\ \A v, w, k : LET d == Same(v, w, k)
                  IN  /\ d.kind = "SameLayout" /\ d.use = NoUse
                      /\ d.ends[1] = Value(v) /\ d.ends[2] = Value(w)
  /\ \A o, i : LET d == MixedCall(o, i)
               IN  /\ d.kind = "SameLayout" /\ d.use = NoUse
                   /\ d.ends[1] = Use(o, i) /\ d.ends[2] = Value(Op(o).results[1])
  /\ \A o : LET d == TransformCall(o)
            IN  /\ d.kind = "TransformLayout" /\ d.use = NoUse
                /\ d.ends[1] = Use(o, 1) /\ d.ends[2] = Value(Op(o).results[1])
BY DEF Connect, OwnUse, Same, MixedCall, TransformCall, Call

\* Conversions of an operation that connects some of its slots.
LEMMA ConnectsOnly ==
  ASSUME NEW o \in Ops, program \in Programs, NEW S, NEW R, NEW e, NEW k,
         Range(Relations(o)) = {Connect(o, i, e[i], k[i]) : i \in S} \cup R,
         \A d \in R : d.use = NoUse
  PROVE  \A i \in S : Expects(o, i, e[i])
<1>1. ASSUME NEW i \in S PROVE Expects(o, i, e[i])
  <2>1. Connect(o, i, e[i], k[i]) \in Range(Relations(o)) /\ Converts(o, i, Connect(o, i, e[i], k[i]))
    BY CallFields DEF Converts
  <2>2. ASSUME NEW d \in Range(Relations(o)), Converts(o, i, d)
        PROVE  d.kind = "Convertible" /\ d.ends[2] = e[i]
    <3>1. <<o, i>> # NoUse
      BY OpFacts DEF NoUse
    <3>2. d \notin R
      BY <2>2, <3>1 DEF Converts
    <3>3. PICK j \in S : d = Connect(o, j, e[j], k[j])
      BY <3>2
    <3>4. j = i
      <4>1. d.use = <<o, j>>
        BY <3>3, CallFields
      <4>. QED BY <2>2, <4>1 DEF Converts
    <3>. QED BY <3>3, <3>4, CallFields
  <2>. QED BY <2>1, <2>2 DEF Expects
<1>. QED BY <1>1

LEMMA ForExpects ==
  ASSUME program \in Programs, NEW o \in Ops, Op(o).kind = "for"
  PROVE  \A i \in TensorSlots(Op(o).args) : Expects(o, i, Value(Op(o).args[i]))
<1> DEFINE S == TensorSlots(Op(o).args)
           e == [i \in S |-> Value(Op(o).args[i])]
           k == [i \in S |-> Edge("ForInit", o, i)]
           R == {Same(Op(o).args[i], Op(o).results[i], Edge("ForResult", o, i)) : i \in S}
<1>1. Relations(o) = ForCalls(o)
  BY DEF Relations
<1>2. Range(Relations(o)) = {Connect(o, i, e[i], k[i]) : i \in S} \cup R
  <2>1. Range(ForCalls(o)) = R \cup {Connect(o, i, Value(Op(o).args[i]), Edge("ForInit", o, i)) : i \in S}
    BY ForMembers
  <2>2. {Connect(o, i, Value(Op(o).args[i]), Edge("ForInit", o, i)) : i \in S}
          = {Connect(o, i, e[i], k[i]) : i \in S}
    OBVIOUS
  <2>. HIDE DEF R, e, k, S
  <2>. QED BY <1>1, <2>1, <2>2
<1>3. \A d \in R : d.use = NoUse
  BY CallFields
<1>4. \A i \in S : e[i] = Value(Op(o).args[i])
  OBVIOUS
<1>5. \A i \in S : Expects(o, i, e[i])
  <2>. HIDE DEF R, e, k, S
  <2>. QED BY <1>2, <1>3, ConnectsOnly
<1>. QED BY <1>4, <1>5

LEMMA WhileExpects ==
  ASSUME program \in Programs, NEW o \in Ops, Op(o).kind = "while"
  PROVE  \A i \in TensorSlots(Op(o).args) : Expects(o, i, Value(Op(o).args[i]))
<1> DEFINE S == TensorSlots(Op(o).args)
           e == [i \in S |-> Value(Op(o).args[i])]
           k == [i \in S |-> Edge("WhileInit", o, i)]
           R == {Same(Op(o).after[i], Op(o).results[i], Edge("WhileResult", o, i)) :
                   i \in TensorSlots(Op(o).after)}
<1>1. Relations(o) = WhileCalls(o)
  BY DEF Relations
<1>2. Range(Relations(o)) = {Connect(o, i, e[i], k[i]) : i \in S} \cup R
  <2>1. Range(WhileCalls(o)) =
          {Connect(o, i, Value(Op(o).args[i]), Edge("WhileInit", o, i)) : i \in S} \cup R
    BY WhileMembers
  <2>2. {Connect(o, i, Value(Op(o).args[i]), Edge("WhileInit", o, i)) : i \in S}
          = {Connect(o, i, e[i], k[i]) : i \in S}
    OBVIOUS
  <2>. HIDE DEF R, e, k, S
  <2>. QED BY <1>1, <2>1, <2>2
<1>3. \A d \in R : d.use = NoUse
  BY CallFields
<1>4. \A i \in S : e[i] = Value(Op(o).args[i])
  OBVIOUS
<1>5. \A i \in S : Expects(o, i, e[i])
  <2>. HIDE DEF R, e, k, S
  <2>. QED BY <1>2, <1>3, ConnectsOnly
<1>. QED BY <1>4, <1>5

LEMMA YieldExpects ==
  ASSUME program \in Programs, NEW o \in Ops, Op(o).kind = "yield",
         Op(Op(o).parent).kind \in {"if", "for", "while"}
  PROVE  \A i \in TensorSlots(Op(o).operands) : Expects(o, i, Value(Expected(o, i)))
<1> DEFINE S == TensorSlots(Op(o).operands)
           e == [i \in S |-> Value(Expected(o, i))]
           k == [i \in S |-> Edge(YieldEdge[Op(Op(o).parent).kind], Op(o).parent, i)]
           R == {}
<1>1. Relations(o) = YieldCalls(o)
  BY DEF Relations
<1>2. Range(Relations(o)) = {Connect(o, i, e[i], k[i]) : i \in S} \cup R
  <2>1. Range(YieldCalls(o)) =
          {Connect(o, i, Value(Expected(o, i)), Edge(YieldEdge[Op(Op(o).parent).kind], Op(o).parent, i)) :
             i \in S}
    BY YieldMembers
  <2>2. {Connect(o, i, Value(Expected(o, i)), Edge(YieldEdge[Op(Op(o).parent).kind], Op(o).parent, i)) :
             i \in S} = {Connect(o, i, e[i], k[i]) : i \in S}
    OBVIOUS
  <2>. HIDE DEF e, k, S
  <2>. QED BY <1>1, <2>1, <2>2
<1>4. \A i \in S : e[i] = Value(Expected(o, i))
  OBVIOUS
<1>5. \A i \in S : Expects(o, i, e[i])
  <2>1. \A d \in R : d.use = NoUse
    OBVIOUS
  <2>. HIDE DEF R, e, k, S
  <2>. QED BY <1>2, <2>1, ConnectsOnly
<1>. QED BY <1>4, <1>5

LEMMA ReturnExpects ==
  ASSUME program \in Programs, NEW o \in Ops, Op(o).kind = "return"
  PROVE  \A i \in TensorSlots(Op(o).operands) : Expects(o, i, Result(Op(o).parent, i))
<1> DEFINE S == TensorSlots(Op(o).operands)
           e == [i \in S |-> Result(Op(o).parent, i)]
           k == [i \in S |-> NoEdge]
           R == {}
<1>1. Relations(o) = ReturnCalls(o)
  BY DEF Relations
<1>2. Range(Relations(o)) = {Connect(o, i, e[i], k[i]) : i \in S} \cup R
  <2>1. Range(ReturnCalls(o)) = {Connect(o, i, Result(Op(o).parent, i), NoEdge) : i \in S}
    BY ReturnMembers
  <2>2. {Connect(o, i, Result(Op(o).parent, i), NoEdge) : i \in S}
          = {Connect(o, i, e[i], k[i]) : i \in S}
    OBVIOUS
  <2>. HIDE DEF e, k, S
  <2>. QED BY <1>1, <2>1, <2>2
<1>4. \A i \in S : e[i] = Result(Op(o).parent, i)
  OBVIOUS
<1>5. \A i \in S : Expects(o, i, e[i])
  <2>1. \A d \in R : d.use = NoUse
    OBVIOUS
  <2>. HIDE DEF R, e, k, S
  <2>. QED BY <1>2, <2>1, ConnectsOnly
<1>. QED BY <1>4, <1>5

LEMMA ConditionExpects ==
  ASSUME program \in Programs, NEW o \in Ops, Op(o).kind = "condition"
  PROVE  \A i \in TensorSlots(Op(o).operands) \ {1} :
           Expects(o, i, Value(Op(Op(o).parent).results[i - 1]))
<1> DEFINE S == TensorSlots(Op(o).operands) \ {1}
           e == [i \in S |-> Value(Op(Op(o).parent).results[i - 1])]
           k == [i \in S |-> Edge("WhileCondition", Op(o).parent, i - 1)]
           R == {}
<1>1. Relations(o) = ConditionCalls(o)
  BY DEF Relations
<1>2. Range(Relations(o)) = {Connect(o, i, e[i], k[i]) : i \in S} \cup R
  <2>1. Range(ConditionCalls(o)) =
          UNION {IF i = 1 THEN {} ELSE {ConditionCall(o, i)} : i \in TensorSlots(Op(o).operands)}
    BY ConditionMembers
  <2>2. \A i \in S : ConditionCall(o, i) = Connect(o, i, e[i], k[i])
    BY DEF ConditionCall
  <2>3. \A d : d \in Range(ConditionCalls(o)) <=> \E i \in S : d = Connect(o, i, e[i], k[i])
    <3>1. \A d : d \in Range(ConditionCalls(o)) <=> \E i \in S : d = ConditionCall(o, i)
      BY <2>1
    <3>. HIDE DEF e, k, S
    <3>. QED BY <2>2, <3>1
  <2>. HIDE DEF e, k, S
  <2>. QED BY <1>1, <2>3
<1>4. \A i \in S : e[i] = Value(Op(Op(o).parent).results[i - 1])
  OBVIOUS
<1>5. \A i \in S : Expects(o, i, e[i])
  <2>1. \A d \in R : d.use = NoUse
    OBVIOUS
  <2>. HIDE DEF R, e, k, S
  <2>. QED BY <1>2, <2>1, ConnectsOnly
<1>. QED BY <1>4, <1>5

LEMMA ElementwiseExpects ==
  ASSUME program \in Programs, NEW o \in Ops, Op(o).kind = "elementwise",
         NEW i \in TensorSlots(Op(o).operands)
  PROVE  Expects(o, i, IF i \in Op(o).mixed THEN Use(o, i) ELSE Value(Op(o).results[1]))
<1>1. Range(Relations(o)) = AllSames(o) \cup AllUses(o)
  <2>1. Relations(o) = ElementwiseCalls(o)
    BY DEF Relations
  <2>. QED BY <2>1, ElementwiseMembers
<1>2. <<o, i>> # NoUse
  BY OpFacts DEF NoUse
<1>3. \A d \in AllSames(o) : d.use = NoUse
  BY CallFields DEF AllSames, ResultSames
<1>4. OperandCalls(o, i) \subseteq Range(Relations(o))
  BY <1>1 DEF AllUses
<1>5. ASSUME NEW d \in Range(Relations(o)), Converts(o, i, d)
      PROVE  d.kind = "Convertible"
             /\ d.ends[2] = IF i \in Op(o).mixed THEN Use(o, i) ELSE Value(Op(o).results[1])
  <2>1. d.use = <<o, i>> /\ d \notin AllSames(o)
    BY <1>2, <1>3, <1>5 DEF Converts
  <2>2. PICK j \in TensorSlots(Op(o).operands) : d \in OperandCalls(o, j)
    BY <1>1, <2>1 DEF AllUses
  <2>3. d # MixedCall(o, j)
    <3>1. MixedCall(o, j).use = NoUse
      BY CallFields
    <3>. QED BY <1>2, <2>1, <3>1
  <2>4. IF j \in Op(o).mixed THEN d = OwnUse(o, j) ELSE d = Connect(o, j, Value(Op(o).results[1]), NoEdge)
    BY <2>2, <2>3 DEF OperandCalls
  <2>5. d.use = <<o, j>>
    BY <2>4, CallFields
  <2>6. j = i
    BY <2>1, <2>5
  <2>. QED BY <2>4, <2>6, CallFields
<1>6. \E d \in Range(Relations(o)) : Converts(o, i, d)
  <2>1. CASE i \in Op(o).mixed
    <3>1. OwnUse(o, i) \in Range(Relations(o)) /\ Converts(o, i, OwnUse(o, i))
      BY <1>4, <2>1, CallFields DEF OperandCalls, Converts
    <3>. QED BY <3>1
  <2>2. CASE i \notin Op(o).mixed
    <3> DEFINE d == Connect(o, i, Value(Op(o).results[1]), NoEdge)
    <3>1. d \in Range(Relations(o)) /\ Converts(o, i, d)
      BY <1>4, <2>2, CallFields DEF OperandCalls, Converts
    <3>. QED BY <3>1
  <2>. QED BY <2>1, <2>2
<1>. QED BY <1>5, <1>6 DEF Expects

LEMMA TransposeExpects ==
  ASSUME program \in Programs, NEW o \in Ops, Op(o).kind = "transpose"
  PROVE  Expects(o, 1, Use(o, 1)) /\ Expects(o, 2, Value(Op(o).results[1]))
<1> DEFINE x == OwnUse(o, 1)
           y == TransformCall(o)
           z == Connect(o, 2, Value(Op(o).results[1]), NoEdge)
<1>1. Range(Relations(o)) = {x, y, z}
  <2>1. Relations(o) = TransposeCalls(o)
    BY DEF Relations
  <2>. QED BY <2>1, TransposeMembers
<1>2. <<o, 1>> # NoUse /\ <<o, 2>> # NoUse /\ <<o, 1>> # <<o, 2>>
  BY OpFacts DEF NoUse
<1>3. /\ x.use = <<o, 1>> /\ ~ x.existing /\ x.kind = "Convertible" /\ x.ends[2] = Use(o, 1)
      /\ y.use = NoUse
      /\ z.use = <<o, 2>> /\ ~ z.existing /\ z.kind = "Convertible"
      /\ z.ends[2] = Value(Op(o).results[1])
  BY CallFields
<1>. HIDE DEF x, y, z
<1>. QED BY <1>1, <1>2, <1>3 DEF Expects, Converts

\* What an operation relates is among the calls made.
LEMMA RelationsMade ==
  ASSUME Finalized, NEW o \in Seen
  PROVE  Range(Relations(o)) \subseteq Made(Seen)
<1>1. Range(Relations(o)) \subseteq Range(Calls(o))
  BY FinalizedFacts, CallMembers
<1>. QED BY <1>1 DEF Made

\* Values an operation makes agree.
LEMMA SameLayouts ==
  ASSUME Finalized, NEW a \in Solutions, NEW o \in Seen, NEW v, NEW w, NEW k,
         Same(v, w, k) \in Range(Relations(o))
  PROVE  Layout(a, v) = Layout(a, w)
<1>1. Same(v, w, k) \in Made(Seen)
  BY RelationsMade
<1>2. /\ Same(v, w, k).kind = "SameLayout"
      /\ Same(v, w, k).ends[1] = Value(v) /\ Same(v, w, k).ends[2] = Value(w)
  BY CallFields
<1>. QED BY <1>1, <1>2, SolutionObserves DEF Layout

LEMMA LoopsAgree ==
  ASSUME Finalized, NEW a \in Solutions, NEW o \in Ops
  PROVE  /\ Op(o).kind = "for" => \A i \in TensorSlots(Op(o).args) :
              Layout(a, Op(o).args[i]) = Layout(a, Op(o).results[i])
         /\ Op(o).kind = "while" => \A i \in TensorSlots(Op(o).after) :
              Layout(a, Op(o).after[i]) = Layout(a, Op(o).results[i])
<1>0. program \in Programs
  BY FinalizedFacts
<1>1. ASSUME Op(o).kind = "for", NEW i \in TensorSlots(Op(o).args)
      PROVE  Layout(a, Op(o).args[i]) = Layout(a, Op(o).results[i])
  <2>1. o \in Seen
    BY <1>1, FinalizedFacts DEF TensorBearing
  <2>2. Relations(o) = ForCalls(o)
    BY <1>1 DEF Relations
  <2>3. Same(Op(o).args[i], Op(o).results[i], Edge("ForResult", o, i)) \in Range(Relations(o))
    BY <1>0, <1>1, <2>2, ForMembers
  <2>. QED BY <2>1, <2>3, SameLayouts
<1>2. ASSUME Op(o).kind = "while", NEW i \in TensorSlots(Op(o).after)
      PROVE  Layout(a, Op(o).after[i]) = Layout(a, Op(o).results[i])
  <2>1. o \in Seen
    BY <1>2, FinalizedFacts DEF TensorBearing
  <2>2. Relations(o) = WhileCalls(o)
    BY <1>2 DEF Relations
  <2>3. Same(Op(o).after[i], Op(o).results[i], Edge("WhileResult", o, i)) \in Range(Relations(o))
    BY <1>0, <1>2, <2>2, WhileMembers
  <2>. QED BY <2>1, <2>3, SameLayouts
<1>. QED BY <1>1, <1>2

\* An expected value is what the operand arrives as.
LEMMA Gets ==
  ASSUME Finalized, NEW a \in Solutions, NEW o \in Seen, NEW i, NEW v, Expects(o, i, Value(v))
  PROVE  Arrives(a, o, i) = {Layout(a, v)}
BY Arrival DEF Layout

LEMMA SolutionAccepts ==
  ASSUME Finalized, NEW a \in Solutions, NEW o \in Ops
  PROVE  Accepts(a, o)
<1>0. program \in Programs
  BY FinalizedFacts
<1>1. \A s \in Tuples(o) : \A i \in TensorSlots(s) : o \in Seen
  BY FinalizedFacts DEF TensorBearing, Tuples
<1>2. CASE Op(o).kind = "for"
  <2>1. ASSUME NEW i \in TensorSlots(Op(o).args)
        PROVE  Arrives(a, o, i) = {Layout(a, Op(o).args[i])}
    <3>1. o \in Seen
      BY <1>1 DEF Tuples
    <3>2. Expects(o, i, Value(Op(o).args[i]))
      BY <1>0, <1>2, ForExpects
    <3>. QED BY <3>1, <3>2, Gets
  <2>2. \A i \in TensorSlots(Op(o).args) : Layout(a, Op(o).args[i]) = Layout(a, Op(o).results[i])
    BY <1>2, LoopsAgree
  <2>. QED BY <1>2, <2>1, <2>2 DEF Accepts
<1>3. CASE Op(o).kind = "while"
  <2>1. ASSUME NEW i \in TensorSlots(Op(o).args)
        PROVE  Arrives(a, o, i) = {Layout(a, Op(o).args[i])}
    <3>1. o \in Seen
      BY <1>1 DEF Tuples
    <3>2. Expects(o, i, Value(Op(o).args[i]))
      BY <1>0, <1>3, WhileExpects
    <3>. QED BY <3>1, <3>2, Gets
  <2>2. \A i \in TensorSlots(Op(o).after) : Layout(a, Op(o).after[i]) = Layout(a, Op(o).results[i])
    BY <1>3, LoopsAgree
  <2>. QED BY <1>3, <2>1, <2>2 DEF Accepts
<1>4. CASE Op(o).kind = "condition"
  <2>1. ASSUME NEW i \in TensorSlots(Op(o).operands) \ {1}
        PROVE  Arrives(a, o, i) = {Layout(a, Op(Op(o).parent).after[i - 1])}
    <3> DEFINE w == Op(o).parent
    <3>1. o \in Seen
      BY <1>1 DEF Tuples
    <3>2. Expects(o, i, Value(Op(w).results[i - 1]))
      BY <1>0, <1>4, ConditionExpects
    <3>3. w \in Ops /\ Op(w).kind = "while" /\ i - 1 \in TensorSlots(Op(w).results)
      BY <1>0, <1>4, OpFacts DEF Matched
    <3>4. i - 1 \in TensorSlots(Op(w).after)
      BY <1>0, <3>3, OpFacts DEF Matched
    <3>5. Layout(a, Op(w).after[i - 1]) = Layout(a, Op(w).results[i - 1])
      BY <3>3, <3>4, LoopsAgree
    <3>6. Arrives(a, o, i) = {Layout(a, Op(w).results[i - 1])}
      BY <3>1, <3>2, Gets
    <3>. QED BY <3>5, <3>6
  <2>. QED BY <1>4, <2>1 DEF Accepts
<1>5. CASE Op(o).kind = "yield"
  <2> DEFINE p == Op(o).parent
             v(i) == IF Op(p).kind = "if" THEN Op(p).results[i] ELSE Op(p).args[i]
  <2>1. ASSUME NEW i \in TensorSlots(Op(o).operands)
        PROVE  Arrives(a, o, i) = {Layout(a, v(i))}
    <3>1. o \in Seen
      BY <1>1 DEF Tuples
    <3>2. Op(p).kind \in {"if", "for", "while"}
      BY <1>5, <3>1, FinalizedFacts DEF Unsupported
    <3>3. Expects(o, i, Value(Expected(o, i)))
      BY <1>0, <1>5, <3>2, YieldExpects
    <3>4. Arrives(a, o, i) = {Layout(a, Expected(o, i))}
      BY <3>1, <3>3, Gets
    <3>5. Layout(a, Expected(o, i)) = Layout(a, v(i))
      <4>1. CASE Op(p).kind = "for"
        <5>1. p \in Ops /\ i \in TensorSlots(Op(p).args)
          <6>1. p \in Ops /\ i \in TensorSlots(Op(p).results)
            BY <1>0, <1>5, <4>1, OpFacts DEF Matched
          <6>. QED BY <1>0, <4>1, <6>1, OpFacts DEF Matched
        <5>2. Layout(a, Op(p).args[i]) = Layout(a, Op(p).results[i])
          BY <4>1, <5>1, LoopsAgree
        <5>. QED BY <4>1, <5>2 DEF Expected
      <4>2. CASE Op(p).kind \in {"if", "while"}
        BY <4>2 DEF Expected
      <4>. QED BY <3>2, <4>1, <4>2
    <3>. QED BY <3>4, <3>5
  <2>. QED BY <1>5, <2>1 DEF Accepts
<1>6. CASE Op(o).kind = "return"
  <2>1. ASSUME NEW i \in TensorSlots(Op(o).operands)
        PROVE  Arrives(a, o, i) = {a[VarOf(Result(Op(o).parent, i))]}
    <3>1. o \in Seen
      BY <1>1 DEF Tuples
    <3>2. Expects(o, i, Result(Op(o).parent, i))
      BY <1>0, <1>6, ReturnExpects
    <3>. QED BY <3>1, <3>2, Arrival
  <2>. QED BY <1>6, <2>1 DEF Accepts
<1>7. CASE Op(o).kind = "elementwise"
  <2>1. ASSUME NEW i \in TensorSlots(Op(o).operands)
        PROVE  Arrives(a, o, i) = {Layout(a, Op(o).results[1])}
    <3>1. o \in Seen
      BY <1>1 DEF Tuples
    <3>2. Expects(o, i, IF i \in Op(o).mixed THEN Use(o, i) ELSE Value(Op(o).results[1]))
      BY <1>0, <1>7, ElementwiseExpects
    <3>3. CASE i \in Op(o).mixed
      <4>1. Arrives(a, o, i) = {a[VarOf(Use(o, i))]}
        BY <3>1, <3>2, <3>3, Arrival
      <4>2. MixedCall(o, i) \in Made(Seen)
        <5>1. Relations(o) = ElementwiseCalls(o)
          BY <1>7 DEF Relations
        <5>2. MixedCall(o, i) \in AllUses(o)
          BY <3>3 DEF AllUses, OperandCalls
        <5>. QED BY <1>0, <1>7, <3>1, <5>1, <5>2, ElementwiseMembers, RelationsMade
      <4>3. /\ MixedCall(o, i).kind = "SameLayout" /\ MixedCall(o, i).ends[1] = Use(o, i)
            /\ MixedCall(o, i).ends[2] = Value(Op(o).results[1])
        BY CallFields
      <4>4. a[VarOf(Use(o, i))] = a[VarOf(Value(Op(o).results[1]))]
        BY <4>2, <4>3, SolutionObserves
      <4>. QED BY <4>1, <4>4 DEF Layout
    <3>4. CASE i \notin Op(o).mixed
      BY <3>1, <3>2, <3>4, Gets
    <3>. QED BY <3>3, <3>4
  <2>2. ASSUME NEW i \in TensorSlots(Op(o).results)
        PROVE  Layout(a, Op(o).results[i]) = Layout(a, Op(o).results[1])
    <3>1. o \in Seen
      BY <1>1 DEF Tuples
    <3>2. CASE i # 1
      <4>1. Same(Op(o).results[1], Op(o).results[i], NoEdge) \in AllSames(o)
        BY <3>2 DEF AllSames, ResultSames
      <4>2. Relations(o) = ElementwiseCalls(o)
        BY <1>7 DEF Relations
      <4>3. Same(Op(o).results[1], Op(o).results[i], NoEdge) \in Range(Relations(o))
        BY <1>0, <1>7, <4>1, <4>2, ElementwiseMembers
      <4>. QED BY <3>1, <4>3, SameLayouts
    <3>. QED BY <3>2
  <2>. QED BY <1>7, <2>1, <2>2 DEF Accepts
<1>8. CASE Op(o).kind = "transpose"
  <2>1. o \in Seen
    <3>1. 1 \in TensorSlots(Op(o).operands)
      BY <1>0, <1>8, OpFacts DEF Matched
    <3>. QED BY <1>1, <3>1 DEF Tuples
  <2>2. Arrives(a, o, 1) = {a[VarOf(Use(o, 1))]} /\ Arrives(a, o, 2) = {Layout(a, Op(o).results[1])}
    BY <1>0, <1>8, <2>1, TransposeExpects, Arrival, Gets
  <2>3. TransformCall(o) \in Made(Seen)
    <3>1. Relations(o) = TransposeCalls(o)
      BY <1>8 DEF Relations
    <3>. QED BY <1>0, <1>8, <2>1, <3>1, TransposeMembers, RelationsMade
  <2>4. /\ TransformCall(o).kind = "TransformLayout" /\ TransformCall(o).ends[1] = Use(o, 1)
        /\ TransformCall(o).ends[2] = Value(Op(o).results[1])
    BY CallFields
  <2>5. Layout(a, Op(o).results[1]) = Transposed[a[VarOf(Use(o, 1))]]
    BY <2>3, <2>4, SolutionObserves DEF Layout
  <2>6. {Transposed[d] : d \in Arrives(a, o, 1)} = {Layout(a, Op(o).results[1])}
    BY <2>2, <2>5
  <2>. QED BY <1>8, <2>2, <2>6 DEF Accepts
<1>9. CASE Op(o).kind \notin {"for", "while", "condition", "yield", "return", "elementwise", "transpose"}
  BY <1>9 DEF Accepts
<1>. QED BY <1>2, <1>3, <1>4, <1>5, <1>6, <1>7, <1>8, <1>9

\* Every solution of a finalized graph types the program: the property the run
\* checks, for every program the dialects accept and every order of the names.
THEOREM SolutionsAreTypings == Spec => []SolutionsTypecheck
<1>1. WalkInv => SolutionsTypecheck
  <2>1. SUFFICES ASSUME WalkInv, phase = "finalized", NEW a \in Solutions
        PROVE  /\ \A o \in DOMAIN program.ops : Accepts(a, o)
               /\ \A e \in DOMAIN program.pinned : a[VarOf(e)] = program.pinned[e]
    BY DEF SolutionsTypecheck
  <2>2. Finalized
    BY <2>1 DEF Finalized
  <2>. QED BY <2>1, <2>2, SolutionAccepts, PinnedIsObserved DEF Ops
<1>. QED BY <1>1, WalkInductive, PTL
------------------------------------------------------------------------------
(* And every typing is a solution.                                         *)

\* The relations that bind layouts to one another, by operation.
SameFrom(o, d) ==
  \/ Op(o).kind = "for" /\ \E i \in TensorSlots(Op(o).args) :
       d = Same(Op(o).args[i], Op(o).results[i], Edge("ForResult", o, i))
  \/ Op(o).kind = "while" /\ \E i \in TensorSlots(Op(o).after) :
       d = Same(Op(o).after[i], Op(o).results[i], Edge("WhileResult", o, i))
  \/ Op(o).kind = "elementwise" /\ \E i \in TensorSlots(Op(o).results) :
       d = Same(Op(o).results[1], Op(o).results[i], NoEdge)
  \/ Op(o).kind = "elementwise" /\ \E i \in TensorSlots(Op(o).operands) : d = MixedCall(o, i)

LEMMA RelationSources ==
  ASSUME program \in Programs, NEW o \in Ops, TensorBearing(o), ~ Unsupported(o),
         NEW d \in Range(Relations(o))
  PROVE  /\ d.kind = "SameLayout" => SameFrom(o, d)
         /\ d.kind = "TransformLayout" => Op(o).kind = "transpose" /\ d = TransformCall(o)
<1>1. CASE Op(o).kind = "func"
  <2>1. Relations(o) = FunctionCalls(o)
    BY <1>1 DEF Relations
  <2>2. PICK i : d = Bind(Result(o, i))
    BY <2>1, FunctionMembers
  <2>. QED BY <2>2 DEF Bind, Call
<1>2. CASE Op(o).kind = "return"
  <2>1. Relations(o) = ReturnCalls(o)
    BY <1>2 DEF Relations
  <2>2. PICK i : d = Connect(o, i, Result(Op(o).parent, i), NoEdge)
    BY <1>2, <2>1, ReturnMembers
  <2>3. d.kind = "Convertible"
    BY <2>2, CallFields
  <2>. QED BY <2>3
<1>3. CASE Op(o).kind = "for"
  <2>1. Relations(o) = ForCalls(o)
    BY <1>3 DEF Relations
  <2>2. CASE \E i \in TensorSlots(Op(o).args) :
               d = Same(Op(o).args[i], Op(o).results[i], Edge("ForResult", o, i))
    <3>1. d.kind = "SameLayout"
      BY <2>2, CallFields
    <3>. QED BY <1>3, <2>2, <3>1 DEF SameFrom
  <2>3. CASE \E i \in TensorSlots(Op(o).args) :
               d = Connect(o, i, Value(Op(o).args[i]), Edge("ForInit", o, i))
    <3>1. d.kind = "Convertible"
      BY <2>3, CallFields
    <3>. QED BY <3>1
  <2>. QED BY <1>3, <2>1, <2>2, <2>3, ForMembers
<1>4. CASE Op(o).kind = "while"
  <2>1. Relations(o) = WhileCalls(o)
    BY <1>4 DEF Relations
  <2>2. CASE \E i \in TensorSlots(Op(o).after) :
               d = Same(Op(o).after[i], Op(o).results[i], Edge("WhileResult", o, i))
    <3>1. d.kind = "SameLayout"
      BY <2>2, CallFields
    <3>. QED BY <1>4, <2>2, <3>1 DEF SameFrom
  <2>3. CASE \E i \in TensorSlots(Op(o).args) :
               d = Connect(o, i, Value(Op(o).args[i]), Edge("WhileInit", o, i))
    <3>1. d.kind = "Convertible"
      BY <2>3, CallFields
    <3>. QED BY <3>1
  <2>. QED BY <1>4, <2>1, <2>2, <2>3, WhileMembers
<1>5. CASE Op(o).kind = "yield"
  <2>1. Relations(o) = YieldCalls(o)
    BY <1>5 DEF Relations
  <2>2. Op(Op(o).parent).kind \in {"if", "for", "while"}
    BY <1>5 DEF Unsupported
  <2>3. PICK i : d = Connect(o, i, Value(Expected(o, i)),
                             Edge(YieldEdge[Op(Op(o).parent).kind], Op(o).parent, i))
    BY <1>5, <2>1, <2>2, YieldMembers
  <2>4. d.kind = "Convertible"
    BY <2>3, CallFields
  <2>. QED BY <2>4
<1>6. CASE Op(o).kind = "condition"
  <2>1. Relations(o) = ConditionCalls(o)
    BY <1>6 DEF Relations
  <2>2. PICK i : d = ConditionCall(o, i)
    BY <1>6, <2>1, ConditionMembers
  <2>3. d.kind = "Convertible"
    BY <2>2, CallFields DEF ConditionCall
  <2>. QED BY <2>3
<1>7. CASE Op(o).kind = "load"
  <2>1. Relations(o) = Access(Value(Op(o).results[1]), Storage(Op(o).operands[1]))
    BY <1>7 DEF Relations
  <2>. QED BY <1>7, <2>1, LoadMembers
<1>8. CASE Op(o).kind = "store"
  <2>1. Relations(o) = StoreCalls(o)
    BY <1>8 DEF Relations, StoreCalls
  <2>2. OwnUse(o, 1).kind = "Convertible"
    BY CallFields
  <2>. QED BY <1>8, <2>1, <2>2, StoreMembers
<1>9. CASE Op(o).kind = "convert"
  <2>1. Relations(o) = ConvertCalls(o)
    BY <1>9 DEF Relations
  <2>. QED BY <1>9, <2>1, ConvertMembers
<1>10. CASE Op(o).kind = "transpose"
  <2>1. Relations(o) = TransposeCalls(o)
    BY <1>10 DEF Relations
  <2>2. d \in {OwnUse(o, 1), TransformCall(o), Connect(o, 2, Value(Op(o).results[1]), NoEdge)}
    BY <1>10, <2>1, TransposeMembers
  <2>3. /\ OwnUse(o, 1).kind = "Convertible" /\ TransformCall(o).kind = "TransformLayout"
        /\ Connect(o, 2, Value(Op(o).results[1]), NoEdge).kind = "Convertible"
    BY CallFields
  <2>. QED BY <1>10, <2>2, <2>3
<1>11. CASE Op(o).kind = "elementwise"
  <2>1. Relations(o) = ElementwiseCalls(o)
    BY <1>11 DEF Relations
  <2>2. d \in AllSames(o) \/ d \in AllUses(o)
    BY <1>11, <2>1, ElementwiseMembers
  <2>3. CASE d \in AllSames(o)
    <3>1. PICK i \in TensorSlots(Op(o).results) : d \in ResultSames(o, i)
      BY <2>3 DEF AllSames
    <3>2. d = Same(Op(o).results[1], Op(o).results[i], NoEdge)
      BY <3>1 DEF ResultSames
    <3>3. d.kind = "SameLayout"
      BY <3>2, CallFields
    <3>. QED BY <1>11, <3>2, <3>3 DEF SameFrom
  <2>4. CASE d \in AllUses(o)
    <3>1. PICK i \in TensorSlots(Op(o).operands) : d \in OperandCalls(o, i)
      BY <2>4 DEF AllUses
    <3>2. \/ d = OwnUse(o, i) \/ d = MixedCall(o, i)
          \/ d = Connect(o, i, Value(Op(o).results[1]), NoEdge)
      BY <3>1 DEF OperandCalls
    <3>3. d = MixedCall(o, i) \/ d.kind = "Convertible"
      BY <3>2, CallFields
    <3>4. MixedCall(o, i).kind = "SameLayout"
      BY CallFields
    <3>. QED BY <1>11, <3>3, <3>4 DEF SameFrom
  <2>. QED BY <2>2, <2>3, <2>4
<1>12. CASE Op(o).kind \notin Models
  <2>1. Relations(o) = <<>>
    BY <1>12 DEF Relations, Models
  <2>. QED BY <2>1, TupleRanges
<1>. QED BY <1>1, <1>2, <1>3, <1>4, <1>5, <1>6, <1>7, <1>8, <1>9, <1>10, <1>11, <1>12 DEF Models

\* The tensors that have a variable.
Laid == {v \in program.tensors : Value(v) \in Range(graph.vars)}

LEMMA SlotsAreLaid ==
  ASSUME Finalized, NEW o \in Ops, NEW s \in Tuples(o), NEW i \in TensorSlots(s)
  PROVE  o \in Seen /\ s[i] \in Laid
<1>1. o \in Seen
  BY FinalizedFacts DEF TensorBearing, Tuples
<1>2. program \in Programs /\ TensorBearing(o) /\ ~ Unsupported(o)
  BY <1>1, FinalizedFacts
<1>3. Bind(Value(s[i])) \in Range(Binds(o))
  BY <1>2, BindMembers
<1>4. Bind(Value(s[i])) \in Made(Seen)
  BY <1>1, <1>2, <1>3, CallMembers DEF Made
<1>5. Value(s[i]) \in Range(Bind(Value(s[i])).ends)
  <2>1. Bind(Value(s[i])).ends = <<Value(s[i])>>
    BY DEF Bind, Call
  <2>. QED BY <2>1, TupleRanges
<1>6. Value(s[i]) \in EndsOf(Made(Seen))
  BY <1>4, <1>5 DEF EndsOf
<1>7. s[i] \in program.tensors
  BY DEF TensorSlots, SlotsIn
<1>. QED BY <1>1, <1>6, <1>7, FinalizedFacts DEF Laid

\* A typing, extended to uses, results and storage.
AnyLayout == CHOOSE x \in Encodings : TRUE
Back(y) == CHOOSE x \in Encodings : Transposed[x] = y
GivenTo(t, v) == IF v \in Laid THEN t[v] ELSE AnyLayout
AtUse(t, o) == LET y == GivenTo(t, Op(o).results[1])
               IN  IF Op(o).kind = "transpose" THEN Back(y) ELSE y
Extended(t, e) ==
  IF e[1] = "value" THEN GivenTo(t, e[2])
  ELSE IF e[1] = "use" THEN AtUse(t, e[2])
  ELSE IF e \in DOMAIN program.pinned THEN program.pinned[e] ELSE AnyLayout
Assignment(t) == [n \in DOMAIN graph.vars |-> Extended(t, graph.vars[n])]

LEMMA AnyLayoutTyped == AnyLayout \in Encodings
BY ProgramsAssumption DEF AnyLayout

LEMMA BackAgain ==
  ASSUME NEW y \in Encodings
  PROVE  Back(y) \in Encodings /\ Transposed[Back(y)] = y
<1>1. \E x \in Encodings : Transposed[x] = y
  BY ProgramsAssumption DEF Bijection, Surjection
<1>. QED BY <1>1 DEF Back

LEMMA ExtendedTyped ==
  ASSUME Finalized, NEW t \in [Laid -> Encodings]
  PROVE  /\ \A v : GivenTo(t, v) \in Encodings
         /\ \A e : Extended(t, e) \in Encodings
         /\ \A v : Extended(t, Value(v)) = GivenTo(t, v)
         /\ \A o, i : Extended(t, Use(o, i)) = AtUse(t, o)
<1>1. \A v : GivenTo(t, v) \in Encodings
  BY AnyLayoutTyped DEF GivenTo
<1>2. \A o : AtUse(t, o) \in Encodings
  BY <1>1, BackAgain DEF AtUse
<1>3. \A e \in DOMAIN program.pinned : program.pinned[e] \in Encodings
  BY FinalizedFacts, PinnedFacts DEF PinnedTyped
<1>4. \A e : Extended(t, e) \in Encodings
  BY <1>1, <1>2, <1>3, AnyLayoutTyped DEF Extended
<1>5. \A v : Extended(t, Value(v)) = GivenTo(t, v)
  BY DEF Extended, Value
<1>6. \A o, i : Extended(t, Use(o, i)) = AtUse(t, o)
  BY DEF Extended, Use
<1>. QED BY <1>1, <1>4, <1>5, <1>6

\* What Typable asks is what the relations ask.
LEMMA TypingRelates ==
  ASSUME Finalized, NEW t \in [Laid -> Encodings], Typable(t),
         NEW d \in Made(Seen), d.kind # "bind"
  PROVE  /\ d.kind = "SameLayout" => Extended(t, d.ends[1]) = Extended(t, d.ends[2])
         /\ d.kind = "TransformLayout" =>
              Extended(t, d.ends[2]) = Transposed[Extended(t, d.ends[1])]
<1>0. program \in Programs
  BY FinalizedFacts
<1>1. PICK o \in Seen : d \in Range(Calls(o))
  BY DEF Made
<1>2. o \in Ops /\ TensorBearing(o) /\ ~ Unsupported(o)
  BY FinalizedFacts
<1>3. d \in Range(Relations(o))
  BY <1>0, <1>1, <1>2, CallMembers, BindMembers
<1>4. /\ d.kind = "SameLayout" => SameFrom(o, d)
      /\ d.kind = "TransformLayout" => Op(o).kind = "transpose" /\ d = TransformCall(o)
  BY <1>0, <1>2, <1>3, RelationSources
<1>5. /\ Op(o).kind = "for" => \A i \in TensorSlots(Op(o).args) :
           t[Op(o).args[i]] = t[Op(o).results[i]]
      /\ Op(o).kind = "while" => \A i \in TensorSlots(Op(o).after) :
           t[Op(o).after[i]] = t[Op(o).results[i]]
      /\ Op(o).kind = "elementwise" => \A i \in TensorSlots(Op(o).results) :
           t[Op(o).results[i]] = t[Op(o).results[1]]
  BY <1>2 DEF Typable, Ops
<1>6. \A v \in Laid : Extended(t, Value(v)) = t[v]
  BY ExtendedTyped DEF GivenTo
<1>7. CASE d.kind = "SameLayout"
  <2>1. ASSUME Op(o).kind = "for", NEW i \in TensorSlots(Op(o).args),
               d = Same(Op(o).args[i], Op(o).results[i], Edge("ForResult", o, i))
        PROVE  Extended(t, d.ends[1]) = Extended(t, d.ends[2])
    <3>1. i \in TensorSlots(Op(o).results)
      BY <1>0, <1>2, <2>1, OpFacts DEF Matched
    <3>2. Op(o).args[i] \in Laid /\ Op(o).results[i] \in Laid
      BY <1>2, <3>1, SlotsAreLaid DEF Tuples
    <3>3. d.ends[1] = Value(Op(o).args[i]) /\ d.ends[2] = Value(Op(o).results[i])
      BY <2>1, CallFields
    <3>. QED BY <1>5, <1>6, <2>1, <3>2, <3>3
  <2>2. ASSUME Op(o).kind = "while", NEW i \in TensorSlots(Op(o).after),
               d = Same(Op(o).after[i], Op(o).results[i], Edge("WhileResult", o, i))
        PROVE  Extended(t, d.ends[1]) = Extended(t, d.ends[2])
    <3>1. i \in TensorSlots(Op(o).results)
      BY <1>0, <1>2, <2>2, OpFacts DEF Matched
    <3>2. Op(o).after[i] \in Laid /\ Op(o).results[i] \in Laid
      BY <1>2, <3>1, SlotsAreLaid DEF Tuples
    <3>3. d.ends[1] = Value(Op(o).after[i]) /\ d.ends[2] = Value(Op(o).results[i])
      BY <2>2, CallFields
    <3>. QED BY <1>5, <1>6, <2>2, <3>2, <3>3
  <2>3. ASSUME Op(o).kind = "elementwise", NEW i \in TensorSlots(Op(o).results),
               d = Same(Op(o).results[1], Op(o).results[i], NoEdge)
        PROVE  Extended(t, d.ends[1]) = Extended(t, d.ends[2])
    <3>1. 1 \in TensorSlots(Op(o).results)
      BY <1>0, <1>2, <2>3, OpFacts DEF Matched
    <3>2. Op(o).results[1] \in Laid /\ Op(o).results[i] \in Laid
      BY <1>2, <3>1, SlotsAreLaid DEF Tuples
    <3>3. d.ends[1] = Value(Op(o).results[1]) /\ d.ends[2] = Value(Op(o).results[i])
      BY <2>3, CallFields
    <3>. QED BY <1>5, <1>6, <2>3, <3>2, <3>3
  <2>4. ASSUME Op(o).kind = "elementwise", NEW i, d = MixedCall(o, i)
        PROVE  Extended(t, d.ends[1]) = Extended(t, d.ends[2])
    <3>1. d.ends[1] = Use(o, i) /\ d.ends[2] = Value(Op(o).results[1])
      BY <2>4, CallFields
    <3>2. AtUse(t, o) = GivenTo(t, Op(o).results[1])
      BY <2>4 DEF AtUse
    <3>. QED BY <3>1, <3>2, ExtendedTyped
  <2>. QED BY <1>4, <1>7, <2>1, <2>2, <2>3, <2>4 DEF SameFrom
<1>8. CASE d.kind = "TransformLayout"
  <2>1. Op(o).kind = "transpose" /\ d.ends[1] = Use(o, 1) /\ d.ends[2] = Value(Op(o).results[1])
    BY <1>4, <1>8, CallFields
  <2> DEFINE y == GivenTo(t, Op(o).results[1])
  <2>2. Extended(t, d.ends[1]) = Back(y) /\ Extended(t, d.ends[2]) = y /\ y \in Encodings
    BY <2>1, ExtendedTyped DEF AtUse
  <2>. HIDE DEF y
  <2>. QED BY <1>8, <2>2, BackAgain
<1>. QED BY <1>7, <1>8

\* A typing keeps the encodings in types.
LEMMA TypingKeepsPinned ==
  ASSUME Finalized, NEW t \in [Laid -> Encodings], Typable(t), NEW e \in DOMAIN program.pinned
  PROVE  Extended(t, e) = program.pinned[e]
<1>1. Appears(program, e)
  BY FinalizedFacts, PinnedFacts
<1>2. e \in Range(graph.vars)
  <2>1. PICK d \in Made(Seen) : d.kind = "bind" /\ e = d.ends[1]
    BY PinnedIsBound DEF BoundBy
  <2>2. d \in Calling
    BY FinalizedFacts
  <2>3. 1 \in DOMAIN d.ends
    BY <2>2, Callings
  <2>4. e \in Range(d.ends)
    BY <2>1, <2>3 DEF Range
  <2>5. e \in EndsOf(Made(Seen))
    BY <2>4 DEF EndsOf
  <2>. QED BY <2>5, FinalizedFacts
<1>3. (\E v \in program.tensors : e = Value(v)) \/ (\E o, i : e = Result(o, i))
  BY <1>1 DEF Appears, SlotsIn
<1>4. ASSUME NEW v \in program.tensors, e = Value(v) PROVE Extended(t, e) = program.pinned[e]
  <2>1. v \in Laid
    BY <1>2, <1>4 DEF Laid
  <2>2. t[v] = program.pinned[Value(v)]
    BY <1>4, <2>1 DEF Typable
  <2>3. Extended(t, Value(v)) = t[v]
    BY <2>1, ExtendedTyped DEF GivenTo
  <2>. QED BY <1>4, <2>2, <2>3
<1>5. ASSUME NEW o, NEW i, e = Result(o, i) PROVE Extended(t, e) = program.pinned[e]
  BY <1>5 DEF Extended, Result
<1>. QED BY <1>3, <1>4, <1>5

\* So a typing extends to a solution.
LEMMA TypingExtends ==
  ASSUME Finalized, NEW t \in [Laid -> Encodings], Typable(t)
  PROVE  Assignment(t) \in Solutions
<1> DEFINE a == Assignment(t)
<1>1. /\ a \in [DOMAIN graph.vars -> Encodings]
      /\ \A n \in DOMAIN graph.vars : a[n] = Extended(t, graph.vars[n])
  BY ExtendedTyped DEF Assignment
<1>. HIDE DEF a
<1>2. ASSUME NEW n \in DOMAIN graph.cons PROVE Holds(graph.cons[n], a)
  <2>0. PICK c : c = graph.cons[n]
    OBVIOUS
  <2> DEFINE ends == [k \in DOMAIN c.vars |-> graph.vars[c.vars[k]]]
  <2>1. \A k \in DOMAIN c.vars : a[c.vars[k]] = Extended(t, graph.vars[c.vars[k]])
    BY <1>1, <2>0, FinalizedFacts DEF WithinVars
  <2>2. NamedRelation(graph, c) \in RelationsFrom(Made(Seen))
    BY <2>0, FinalizedFacts DEF RelationsOf
  <2>3. ASSUME NEW d \in Made(Seen), d.kind # "bind", NamedRelation(graph, c) = Relation(d)
        PROVE  Holds(c, a)
    <3>1. d \in Relating
      <4>1. d \in Calling
        BY FinalizedFacts
      <4>2. \A e \in Entity : Bind(e).kind = "bind"
        BY DEF Bind, Call
      <4>. QED BY <2>3, <4>1, <4>2 DEF Calling
    <3>2. c.kind = d.kind /\ c.kind # "RequireEncoding"
      BY <2>3, <3>1 DEF NamedRelation, Relation, Relating
    <3>3. DOMAIN d.ends = {1, 2}
      BY <3>1 DEF Relating
    <3>4. CASE d.kind = "SameLayout"
      <4>1. Range(ends) = Range(d.ends)
        BY <2>3, <3>2, <3>4 DEF NamedRelation, Relation, Commutative
      <4>2. \A e \in Range(d.ends) : Extended(t, e) = Extended(t, d.ends[1])
        BY <2>3, <3>3, <3>4, TypingRelates DEF Range
      <4>3. ASSUME NEW v \in Range(c.vars) PROVE a[v] = Extended(t, d.ends[1])
        <5>1. PICK k \in DOMAIN c.vars : v = c.vars[k]
          BY DEF Range
        <5>2. graph.vars[v] \in Range(ends)
          BY <5>1 DEF Range
        <5>. QED BY <2>1, <4>1, <4>2, <5>1, <5>2
      <4>. QED BY <3>2, <3>4, <4>3 DEF Holds
    <3>5. CASE d.kind = "TransformLayout"
      <4>1. ends = d.ends
        BY <2>3, <3>2, <3>5 DEF NamedRelation, Relation, Commutative
      <4>2. DOMAIN ends = DOMAIN c.vars /\ \A k \in DOMAIN c.vars : ends[k] = graph.vars[c.vars[k]]
        OBVIOUS
      <4>. HIDE DEF ends
      <4>3. 1 \in DOMAIN c.vars /\ 2 \in DOMAIN c.vars
        BY <3>3, <4>1, <4>2
      <4>4. /\ a[c.vars[1]] = Extended(t, d.ends[1])
            /\ a[c.vars[2]] = Extended(t, d.ends[2])
        BY <2>1, <4>1, <4>2, <4>3
      <4>5. Extended(t, d.ends[2]) = Transposed[Extended(t, d.ends[1])]
        BY <2>3, <3>5, TypingRelates
      <4>. QED BY <3>2, <3>5, <4>4, <4>5 DEF Holds
    <3>6. CASE d.kind \notin {"SameLayout", "TransformLayout"}
      BY <3>2, <3>6 DEF Holds
    <3>. QED BY <3>4, <3>5, <3>6
  <2>4. ASSUME NEW e \in DOMAIN program.pinned, NamedRelation(graph, c) = Requirement(e)
        PROVE  Holds(c, a)
    <3>1. c.kind = "RequireEncoding" /\ c.enc = program.pinned[e] /\ ends = <<e>>
      BY <2>4 DEF NamedRelation, Requirement, Commutative
    <3>2. DOMAIN ends = DOMAIN c.vars /\ \A k \in DOMAIN c.vars : ends[k] = graph.vars[c.vars[k]]
      OBVIOUS
    <3>. HIDE DEF ends
    <3>3. 1 \in DOMAIN c.vars /\ graph.vars[c.vars[1]] = e
      <4>1. DOMAIN <<e>> = {1} /\ <<e>>[1] = e
        OBVIOUS
      <4>. QED BY <3>1, <3>2, <4>1
    <3>4. a[c.vars[1]] = program.pinned[e]
      BY <2>1, <3>3, TypingKeepsPinned
    <3>. QED BY <3>1, <3>4 DEF Holds
  <2>. QED BY <2>0, <2>2, <2>3, <2>4 DEF RelationsFrom
<1>3. \A c \in Range(graph.cons) : Holds(c, a)
  BY <1>2 DEF Range
<1>4. a \in Solutions
  BY <1>1, <1>3 DEF Solutions
<1>. QED BY <1>4 DEF a

\* The layouts a solution gives to the tensors.
Restricted(a) == [v \in Laid |-> Layout(a, v)]

LEMMA SolutionRestricts ==
  ASSUME Finalized, NEW a \in Solutions
  PROVE  Restricted(a) \in [Laid -> Encodings] /\ Typable(Restricted(a))
<1> DEFINE t == Restricted(a)
<1>0. program \in Programs
  BY FinalizedFacts
<1>1. a \in [DOMAIN graph.vars -> Encodings]
  BY DEF Solutions
<1>2. ASSUME NEW v \in Laid PROVE Layout(a, v) \in Encodings
  <2>1. VarOf(Value(v)) \in DOMAIN graph.vars
    BY FinalizedFacts, Variables DEF Laid
  <2>. QED BY <1>1, <2>1 DEF Layout
<1>3. t \in [Laid -> Encodings] /\ \A v \in Laid : t[v] = Layout(a, v)
  BY <1>2 DEF Restricted
<1>3a. DOMAIN t = Laid
  BY DEF Restricted
<1>. HIDE DEF t
<1>4. ASSUME NEW v \in DOMAIN t, Value(v) \in DOMAIN program.pinned
      PROVE  t[v] = program.pinned[Value(v)]
  BY <1>3, <1>3a, <1>4, PinnedIsObserved DEF Layout
<1>5. ASSUME NEW o \in Ops, Op(o).kind = "for", NEW i \in TensorSlots(Op(o).args)
      PROVE  t[Op(o).args[i]] = t[Op(o).results[i]]
  <2>1. i \in TensorSlots(Op(o).results)
    BY <1>0, <1>5, OpFacts DEF Matched
  <2>2. Op(o).args[i] \in Laid /\ Op(o).results[i] \in Laid
    BY <2>1, SlotsAreLaid DEF Tuples
  <2>. QED BY <1>3, <1>5, <2>2, LoopsAgree
<1>6. ASSUME NEW o \in Ops, Op(o).kind = "while", NEW i \in TensorSlots(Op(o).after)
      PROVE  t[Op(o).after[i]] = t[Op(o).results[i]]
  <2>1. i \in TensorSlots(Op(o).results)
    BY <1>0, <1>6, OpFacts DEF Matched
  <2>2. Op(o).after[i] \in Laid /\ Op(o).results[i] \in Laid
    BY <2>1, SlotsAreLaid DEF Tuples
  <2>. QED BY <1>3, <1>6, <2>2, LoopsAgree
<1>7. ASSUME NEW o \in Ops, Op(o).kind = "elementwise", NEW i \in TensorSlots(Op(o).results)
      PROVE  t[Op(o).results[i]] = t[Op(o).results[1]]
  <2>1. 1 \in TensorSlots(Op(o).results)
    BY <1>0, <1>7, OpFacts DEF Matched
  <2>2. Op(o).results[i] \in Laid /\ Op(o).results[1] \in Laid
    BY <2>1, SlotsAreLaid DEF Tuples
  <2>3. Layout(a, Op(o).results[i]) = Layout(a, Op(o).results[1])
    BY <1>7, SolutionAccepts DEF Accepts
  <2>. QED BY <1>3, <2>2, <2>3
<1>8. Typable(t)
  BY <1>4, <1>5, <1>6, <1>7 DEF Typable, Ops
<1>. QED BY <1>3, <1>8 DEF t

\* The solutions are the typings: the property the run checks, for every program
\* the dialects accept.
THEOREM SolutionsAreAllTypings == Spec => []NothingExcluded
<1>1. WalkInv => NothingExcluded
  <2>1. SUFFICES ASSUME WalkInv, phase = "finalized"
        PROVE  {t \in [Laid -> Encodings] : Typable(t)} = {Restricted(a) : a \in Solutions}
    BY DEF NothingExcluded, Laid, Restricted
  <2>2. Finalized
    BY <2>1 DEF Finalized
  <2>3. ASSUME NEW a \in Solutions
        PROVE  Restricted(a) \in [Laid -> Encodings] /\ Typable(Restricted(a))
    BY <2>2, SolutionRestricts
  <2>4. ASSUME NEW t \in [Laid -> Encodings], Typable(t)
        PROVE  \E a \in Solutions : t = Restricted(a)
    <3>1. Assignment(t) \in Solutions
      BY <2>2, <2>4, TypingExtends
    <3>2. ASSUME NEW v \in Laid PROVE Layout(Assignment(t), v) = t[v]
      <4>1. VarOf(Value(v)) \in DOMAIN graph.vars /\ graph.vars[VarOf(Value(v))] = Value(v)
        BY <2>2, FinalizedFacts, Variables DEF Laid
      <4>2. Layout(Assignment(t), v) = Extended(t, Value(v))
        BY <4>1 DEF Layout, Assignment
      <4>. QED BY <2>2, <4>2, ExtendedTyped DEF GivenTo
    <3>3. Restricted(Assignment(t)) = t
      BY <3>2 DEF Restricted
    <3>. QED BY <3>1, <3>3
  <2>. QED BY <2>3, <2>4
<1>. QED BY <1>1, WalkInductive, PTL

\* finalize() only changes IDs (RenumberingIsImmaterial), for every program and every
\* order of the names.
THEOREM Renumbering == Spec => RenumberingIsImmaterial
<1>1. ASSUME WalkInv, [Next]_vars, phase' = "finalized", vars' # vars
      PROVE  Named(graph') = Named(graph)
  <2>1. Finalize \/ (phase = "finalized" /\ phase' = phase)
    BY <1>1 DEF Next, Skip, Visit, Refuse, vars
  <2>2. CASE Finalize
    <3>1. PICK remap \in Bijection(DOMAIN graph.vars, DOMAIN graph.vars) :
            graph' = Renumbered(graph, remap) /\ Verified(graph)
      BY <1>1, <2>2 DEF Finalize
    <3>2. graph \in Graph
      BY <1>1, <2>2 DEF WalkInv, Reads, Injective, Finalize
    <3>. QED BY <3>1, <3>2, RenumberedIsNamedAlike
  <2>3. ~ (phase = "finalized" /\ phase' = phase)
    BY <1>1 DEF Next, Skip, Visit, Refuse, Finalize, vars
  <2>. QED BY <2>1, <2>2, <2>3
<1>2. WalkInv /\ [Next]_vars => [phase' = "finalized" => Named(graph') = Named(graph)]_vars
  BY <1>1 DEF vars
<1>. QED BY <1>2, WalkInductive, PTL DEF Spec, RenumberingIsImmaterial
==============================================================================
