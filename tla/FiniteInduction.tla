---------------------------- MODULE FiniteInduction ----------------------------
(***************************************************************************)
(* Induction over finite sets and natural numbers, stated with sets where  *)
(* one would expect predicates, and what it says about sums.               *)
(***************************************************************************)
EXTENDS Integers, FiniteSets, FiniteSetsExt, FiniteSetTheorems, Functions, TLAPS

\* A nonempty family of subsets of a finite set has a minimal member.
LEMMA MinimalMember ==
  ASSUME NEW S, IsFiniteSet(S), NEW F \in SUBSET (SUBSET S), F # {}
  PROVE  \E T \in F : \A U \in F : U \subseteq T => U = T
<1> DEFINE R == StrictSubsetOrdering(S)
<1>1. IsWellFoundedOn(R, FiniteSubsetsOf(S))
  BY FS_StrictSubsetOrderingWellFounded
<1>2. F \subseteq FiniteSubsetsOf(S)
  BY FS_FiniteSubsetsOfFinite
<1>3. \E T \in F : \A U \in F : ~(<<U, T>> \in R)
  <2> HIDE DEF R
  <2> QED BY <1>1, <1>2, WFMin, Zenon
<1> QED
  BY <1>3 DEF StrictSubsetOrdering

\* What holds of the empty set and is kept by adding an element holds of all
\* finite sets.
LEMMA SubsetInduction ==
  ASSUME NEW S, IsFiniteSet(S), NEW F, {} \in F,
         \A T \in SUBSET S, x \in S : T \in F /\ x \notin T => T \cup {x} \in F
  PROVE  \A T \in SUBSET S : T \in F
<1> DEFINE G == {T \in SUBSET S : T \notin F}
<1> SUFFICES ASSUME G # {} PROVE FALSE
  OBVIOUS
<1>1. PICK T \in G : \A U \in G : U \subseteq T => U = T
  <2>1. G \in SUBSET (SUBSET S)
    OBVIOUS
  <2> HIDE DEF G
  <2> QED BY <2>1, MinimalMember
<1>2. PICK x \in T : TRUE
  BY <1>1
<1>3. T \ {x} \in SUBSET S /\ T \ {x} \notin G
  BY <1>1, <1>2
<1>4. T \ {x} \in F /\ (T \ {x}) \cup {x} = T
  BY <1>2, <1>3
<1>5. (T \ {x}) \cup {x} \in F
  BY <1>1, <1>2, <1>3, <1>4, Zenon
<1> QED
  BY <1>1, <1>4, <1>5

\* Strict total orders, given as sets of pairs, and the elements of S that
\* have fewer than n predecessors.
StrictOrderOn(S, R) ==
  /\ \A x \in S : <<x, x>> \notin R
  /\ \A x, y, z \in S : <<x, y>> \in R /\ <<y, z>> \in R => <<x, z>> \in R

TotalOrderOn(S, R) ==
  /\ StrictOrderOn(S, R)
  /\ \A x, y \in S : x # y => <<x, y>> \in R \/ <<y, x>> \in R

InitialOf(S, R, n) == {x \in S : Cardinality({y \in S : <<y, x>> \in R}) < n}

\* A finite set has a first element in every strict order.
LEMMA FirstElement ==
  ASSUME NEW S, IsFiniteSet(S), S # {}, NEW R, StrictOrderOn(S, R)
  PROVE  \E x \in S : \A y \in S : <<y, x>> \notin R
<1> \A x \in S : <<x, x>> \notin R
  BY DEF StrictOrderOn
<1> \A x, y, z \in S : <<x, y>> \in R /\ <<y, z>> \in R => <<x, z>> \in R
  BY DEF StrictOrderOn
<1> DEFINE Below(x) == {y \in S : <<y, x>> \in R}
           F == {Below(x) : x \in S}
<1>1. PICK T \in F : \A U \in F : U \subseteq T => U = T
  <2>1. \A x \in S : Below(x) \in SUBSET S /\ Below(x) \in F
    OBVIOUS
  <2>2. F \in SUBSET (SUBSET S) /\ F # {}
    <3> HIDE DEF Below
    <3> QED BY <2>1
  <2> HIDE DEF F
  <2> QED BY <2>2, MinimalMember
<1>2. PICK x \in S : T = Below(x)
  BY <1>1
<1>3. \A y \in S : <<y, x>> \notin R
  <2> SUFFICES ASSUME NEW y \in S, <<y, x>> \in R PROVE FALSE
    OBVIOUS
  <2>1. Below(y) \subseteq Below(x)
    OBVIOUS
  <2>2. Below(y) \in F
    OBVIOUS
  <2>3. Below(y) = Below(x)
    <3> HIDE DEF F, Below
    <3> QED BY <1>1, <1>2, <2>1, <2>2
  <2>4. y \in Below(x) /\ y \notin Below(y)
    OBVIOUS
  <2> QED
    BY <2>3, <2>4
<1> QED
  BY <1>3

\* A nonempty set of natural numbers has a least element.
LEMMA LeastNatural ==
  ASSUME NEW S \in SUBSET Nat, S # {}
  PROVE  \E x \in S : \A y \in S : x <= y
<1>1. PICK n \in S : TRUE
  OBVIOUS
<1> DEFINE T == {x \in S : x <= n}
           R == {p \in Nat \X Nat : p[1] < p[2]}
<1>2. IsFiniteSet(T) /\ T # {}
  BY <1>1, FS_BoundedSetOfNaturals
<1>3. \E x \in T : \A y \in T : <<y, x>> \notin R
  <2>1. \A x \in T : <<x, x>> \notin R
    OBVIOUS
  <2>2. \A x, y, z \in T : <<x, y>> \in R /\ <<y, z>> \in R => <<x, z>> \in R
    OBVIOUS
  <2> HIDE DEF T, R
  <2> QED BY <1>2, <2>1, <2>2, FirstElement DEF StrictOrderOn
<1>4. PICK x \in T : \A y \in T : <<y, x>> \notin R
  BY <1>3
<1>5. x \in S /\ x \in Nat /\ x <= n
  OBVIOUS
<1>6. ASSUME NEW y \in S PROVE x <= y
  <2>1. y \in Nat /\ n \in Nat
    OBVIOUS
  <2>2. CASE y <= n
    <3>1. y \in T BY <2>2
    <3>2. <<y, x>> \notin R BY <3>1, <1>4
    <3> QED BY <3>2, <2>1, <1>5
  <2> QED BY <2>1, <2>2, <1>5
<1> QED
  BY <1>5, <1>6

\* A set with zero and the successors of its elements has all natural numbers.
LEMMA NaturalInduction ==
  ASSUME NEW P, 0 \in P, \A n \in Nat : n \in P => n + 1 \in P
  PROVE  \A n \in Nat : n \in P
<1> SUFFICES ASSUME Nat \ P # {} PROVE FALSE
  OBVIOUS
<1>1. PICK m \in Nat \ P : \A n \in Nat \ P : m <= n
  BY LeastNatural
<1>2. m # 0 /\ m - 1 \in Nat /\ m - 1 \notin Nat \ P
  BY <1>1
<1> QED
  BY <1>1, <1>2

-----------------------------------------------------------------------------
(* Finite sets of functions, and the first n elements of an order.         *)

LEMMA FinitePartialFunctions ==
  ASSUME NEW S, IsFiniteSet(S), NEW E, IsFiniteSet(E),
         NEW F, \A f \in F : \E D \in SUBSET S : f \in [D -> E]
  PROVE  IsFiniteSet(F)
<1> DEFINE Pairs(f) == {<<x, f[x]>> : x \in DOMAIN f}
           M == [f \in F |-> Pairs(f)]
           U == SUBSET (S \X E)
<1>1. IsFiniteSet(U)
  BY FS_Product, FS_SUBSET
<1>2. \A f \in F : DOMAIN f \in SUBSET S /\ f \in [DOMAIN f -> E]
  OBVIOUS
<1>3. \A f \in F : Pairs(f) \in U
  BY <1>2
<1>4. M \in [F -> U]
  <2> HIDE DEF Pairs, U
  <2> QED BY <1>3
<1>5. ASSUME NEW f \in F, NEW g \in F, Pairs(f) = Pairs(g)
      PROVE  f = g
  <2>1. \A x \in DOMAIN f : x \in DOMAIN g /\ g[x] = f[x]
    <3> SUFFICES ASSUME NEW x \in DOMAIN f PROVE x \in DOMAIN g /\ g[x] = f[x]
      OBVIOUS
    <3>1. <<x, f[x]>> \in Pairs(g)
      BY <1>5
    <3> QED
      BY <3>1
  <2>2. \A x \in DOMAIN g : x \in DOMAIN f
    <3> SUFFICES ASSUME NEW x \in DOMAIN g PROVE x \in DOMAIN f
      OBVIOUS
    <3>1. <<x, g[x]>> \in Pairs(f)
      BY <1>5
    <3> QED
      BY <3>1
  <2>3. f \in [DOMAIN f -> E] /\ g \in [DOMAIN g -> E]
    BY <1>2
  <2>4. DOMAIN f = DOMAIN g
    BY <2>1, <2>2
  <2> QED
    BY <2>1, <2>3, <2>4
<1>6. \A f, g \in F : M[f] = M[g] => f = g
  <2> HIDE DEF Pairs
  <2> QED BY <1>5
<1>7. M \in Injection(F, U)
  <2> HIDE DEF M, U
  <2> QED BY <1>4, <1>6 DEF Injection, IsInjective
<1> QED
  <2> HIDE DEF M, U
  <2> QED BY <1>1, <1>7, FS_Injection

\* In a strict total order at most n elements have fewer than n predecessors.
LEMMA FirstElements ==
  ASSUME NEW S, IsFiniteSet(S), NEW R, TotalOrderOn(S, R), NEW n \in Nat
  PROVE  IsFiniteSet(InitialOf(S, R, n)) /\ Cardinality(InitialOf(S, R, n)) <= n
<1> \A x \in S : <<x, x>> \notin R
  BY DEF TotalOrderOn, StrictOrderOn
<1> \A x, y, z \in S : <<x, y>> \in R /\ <<y, z>> \in R => <<x, z>> \in R
  BY DEF TotalOrderOn, StrictOrderOn
<1> \A x, y \in S : x # y => <<x, y>> \in R \/ <<y, x>> \in R
  BY DEF TotalOrderOn
<1> DEFINE Before(x) == {y \in S : <<y, x>> \in R}
           B == {x \in S : Cardinality(Before(x)) < n}
           Q == {p \in S \X S : <<p[2], p[1]>> \in R}
<1> SUFFICES IsFiniteSet(B) /\ Cardinality(B) <= n
  BY DEF InitialOf
<1>1. IsFiniteSet(B) /\ Cardinality(B) \in Nat
  BY FS_Subset, FS_CardinalityType
<1>2. CASE B = {}
  <2> HIDE DEF B
  <2> QED BY <1>2, FS_EmptySet
<1>3. CASE B # {}
  <2>1. \A x \in B : <<x, x>> \notin Q
    OBVIOUS
  <2>2. \A x, y, z \in B : <<x, y>> \in Q /\ <<y, z>> \in Q => <<x, z>> \in Q
    <3>1. B \subseteq S
      OBVIOUS
    <3> HIDE DEF B
    <3> QED BY <3>1
  <2>3. PICK x \in B : \A y \in B : <<y, x>> \notin Q
    <3> HIDE DEF B, Q
    <3> QED BY <1>1, <1>3, <2>1, <2>2, FirstElement DEF StrictOrderOn
  <2>4. B \ {x} \subseteq Before(x)
    <3> SUFFICES ASSUME NEW y \in B, y # x PROVE y \in Before(x)
      OBVIOUS
    <3>1. x \in S /\ y \in S
      OBVIOUS
    <3>2. <<y, x>> \notin Q
      BY <2>3
    <3>3. <<x, y>> \notin R
      BY <3>1, <3>2
    <3> QED
      BY <3>1, <3>3
  <2>5. IsFiniteSet(Before(x)) /\ Cardinality(Before(x)) \in Nat
    BY FS_Subset, FS_CardinalityType
  <2>6. Cardinality(Before(x)) < n
    OBVIOUS
  <2>7. Cardinality(B \ {x}) <= Cardinality(Before(x))
    <3> HIDE DEF B, Before
    <3> QED BY <2>4, <2>5, FS_Subset
  <2>8. Cardinality(B \ {x}) = Cardinality(B) - 1
    <3> HIDE DEF B
    <3> QED BY <1>1, FS_RemoveElement
  <2> QED
    <3> HIDE DEF B, Before
    <3> QED BY <1>1, <2>5, <2>6, <2>7, <2>8
<1> QED
  BY <1>1, <1>2, <1>3

\* A finite union of finite sets.
LEMMA FiniteUnion ==
  ASSUME NEW S, IsFiniteSet(S), NEW F, \A x \in S : IsFiniteSet(F[x])
  PROVE  IsFiniteSet(UNION {F[x] : x \in S})
<1> DEFINE U(T) == UNION {F[x] : x \in T}
           P == {T \in SUBSET S : IsFiniteSet(U(T))}
<1>1. {} \in P
  <2>1. U({}) = {}
    OBVIOUS
  <2> HIDE DEF U
  <2> QED BY <2>1, FS_EmptySet
<1>2. ASSUME NEW T \in SUBSET S, NEW x \in S, T \in P, x \notin T
      PROVE  T \cup {x} \in P
  <2>1. U(T \cup {x}) = U(T) \cup F[x]
    OBVIOUS
  <2> HIDE DEF U
  <2>2. IsFiniteSet(U(T)) /\ IsFiniteSet(F[x])
    BY <1>2
  <2>3. IsFiniteSet(U(T) \cup F[x])
    BY <2>2, FS_Union
  <2> QED BY <2>1, <2>3
<1>3. S \in P
  <2>1. S \in SUBSET S
    OBVIOUS
  <2> HIDE DEF P
  <2> QED BY <1>1, <1>2, <2>1, SubsetInduction
<1> QED
  BY <1>3

-----------------------------------------------------------------------------
(* Recursion over the subsets of a finite set, and sums.                   *)

\* What a recursion over the subsets of S needs, and what it defines.
RecursionData(S, V, b, pick, h) ==
  /\ IsFiniteSet(S) /\ b \in V
  /\ \A T \in SUBSET S : T # {} => pick[T] \in T
  /\ \A x \in S, v \in V : h[<<x, v>>] \in V

RecursionOn(S, V, b, pick, h) ==
  {g \in [SUBSET S -> V] : \A T \in SUBSET S :
     g[T] = IF T = {} THEN b ELSE h[<<pick[T], g[T \ {pick[T]}]>>]}

\* A function that takes an element out of its argument and goes on with the
\* rest has a value everywhere.
LEMMA RecursionDefines ==
  ASSUME NEW S, NEW V, NEW b, NEW pick, NEW h, RecursionData(S, V, b, pick, h)
  PROVE  RecursionOn(S, V, b, pick, h) # {}
<1> IsFiniteSet(S)
  BY DEF RecursionData
<1> b \in V
  BY DEF RecursionData
<1> \A T \in SUBSET S : T # {} => pick[T] \in T
  BY DEF RecursionData
<1> \A x \in S, v \in V : h[<<x, v>>] \in V
  BY DEF RecursionData
<1> DEFINE P == (SUBSET S) \X V
           Closed(C) == /\ <<{}, b>> \in C
                        /\ \A T \in SUBSET S, v \in V :
                             T # {} /\ <<T \ {pick[T]}, v>> \in C
                               => <<T, h[<<pick[T], v>>]>> \in C
           G == {p \in P : \A C \in SUBSET P : Closed(C) => p \in C}
           Single(T) == \E v \in V : <<T, v>> \in G /\ \A w \in V : <<T, w>> \in G => w = v
           Bad == {T \in SUBSET S : ~Single(T)}
<1>1. \A T \in SUBSET S, v \in V :
        T # {} => T \ {pick[T]} \in SUBSET S /\ h[<<pick[T], v>>] \in V
  OBVIOUS
<1>2. Closed(G)
  <2>1. <<{}, b>> \in G
    OBVIOUS
  <2>2. ASSUME NEW T \in SUBSET S, NEW v \in V, T # {}, <<T \ {pick[T]}, v>> \in G
        PROVE  <<T, h[<<pick[T], v>>]>> \in G
    <3>1. <<T, h[<<pick[T], v>>]>> \in P
      BY <1>1, <2>2
    <3>2. ASSUME NEW C \in SUBSET P, Closed(C)
          PROVE  <<T, h[<<pick[T], v>>]>> \in C
      <4>1. <<T \ {pick[T]}, v>> \in C
        BY <2>2, <3>2
      <4> QED
        BY <2>2, <3>2, <4>1
    <3> QED
      <4> HIDE DEF Closed
      <4> QED BY <3>1, <3>2
  <2> QED
    <3> HIDE DEF G
    <3> QED BY <2>1, <2>2
<1>3. ASSUME NEW C \in SUBSET P, Closed(C)
      PROVE  G \subseteq C
  <2> HIDE DEF Closed
  <2> QED BY <1>3
<1>4. G \subseteq P
  OBVIOUS
<1>5. Bad = {}
  <2> SUFFICES ASSUME Bad # {} PROVE FALSE
    OBVIOUS
  <2>1. PICK T \in Bad : \A U \in Bad : U \subseteq T => U = T
    <3>1. Bad \in SUBSET (SUBSET S)
      OBVIOUS
    <3> HIDE DEF Bad
    <3> QED BY <3>1, MinimalMember
  <2>2. T \in SUBSET S /\ ~Single(T)
    <3> HIDE DEF Single
    <3> QED BY <2>1
  <2>3. CASE T = {}
    <3>1. ASSUME NEW w \in V, <<T, w>> \in G, w # b PROVE FALSE
      <4> DEFINE C == G \ {<<{}, w>>}
      <4>1. Closed(C)
        <5>1. <<{}, b>> \in C
          BY <1>2, <3>1
        <5>2. ASSUME NEW U \in SUBSET S, NEW v \in V, U # {}, <<U \ {pick[U]}, v>> \in C
              PROVE  <<U, h[<<pick[U], v>>]>> \in C
          <6>1. <<U, h[<<pick[U], v>>]>> \in G
            <7> HIDE DEF G
            <7> QED BY <1>2, <5>2
          <6> QED
            <7> HIDE DEF G
            <7> QED BY <5>2, <6>1
        <5> QED
          <6> HIDE DEF C
          <6> QED BY <5>1, <5>2
      <4>2. G \subseteq C
        <5> HIDE DEF G, Closed
        <5> QED BY <1>3, <1>4, <4>1
      <4> QED
        <5> HIDE DEF G
        <5> QED BY <2>3, <3>1, <4>2
    <3>2. <<T, b>> \in G
      BY <1>2, <2>3
    <3>3. Single(T)
      <4> HIDE DEF G
      <4> QED BY <3>1, <3>2
    <3> QED
      BY <2>2, <3>3
  <2>4. CASE T # {}
    <3> DEFINE p == pick[T]
               U == T \ {p}
    <3>1. p \in T /\ U \in SUBSET S /\ U # T /\ U \subseteq T
      BY <2>2, <2>4
    <3>2. Single(U)
      <4>1. U \notin Bad
        <5> HIDE DEF Bad, U
        <5> QED BY <2>1, <3>1
      <4> QED
        <5> HIDE DEF Single, U
        <5> QED BY <3>1, <4>1
    <3>3. PICK u \in V : <<U, u>> \in G /\ \A w \in V : <<U, w>> \in G => w = u
      <4> HIDE DEF G, U
      <4> QED BY <3>2
    <3> DEFINE t == h[<<p, u>>]
    <3>4. <<T, t>> \in G /\ t \in V
      <4>1. <<T \ {pick[T]}, u>> \in G
        BY <3>3
      <4> HIDE DEF G
      <4> QED BY <1>1, <1>2, <2>2, <2>4, <4>1
    <3>5. ASSUME NEW w \in V, <<T, w>> \in G, w # t PROVE FALSE
      <4> DEFINE C == G \ {<<T, w>>}
      <4>1. Closed(C)
        <5>1. <<{}, b>> \in C
          BY <1>2, <2>4
        <5>2. ASSUME NEW X \in SUBSET S, NEW v \in V, X # {}, <<X \ {pick[X]}, v>> \in C
              PROVE  <<X, h[<<pick[X], v>>]>> \in C
          <6>1. <<X \ {pick[X]}, v>> \in G
            BY <5>2
          <6>2. <<X, h[<<pick[X], v>>]>> \in G
            <7> HIDE DEF G, C
            <7> QED BY <1>2, <5>2, <6>1
          <6>3. CASE X = T
            <7>1. v = u
              <8> HIDE DEF G, C
              <8> QED BY <3>3, <6>1, <6>3
            <7>2. h[<<pick[X], v>>] # w
              BY <3>5, <6>3, <7>1
            <7> QED
              <8> HIDE DEF G
              <8> QED BY <6>2, <7>2
          <6>4. CASE X # T
            <7> HIDE DEF G
            <7> QED BY <6>2, <6>4
          <6> QED
            BY <6>3, <6>4
        <5> QED
          <6> HIDE DEF C
          <6> QED BY <5>1, <5>2
      <4>2. G \subseteq C
        <5> HIDE DEF G, Closed
        <5> QED BY <1>3, <1>4, <4>1
      <4> QED
        <5> HIDE DEF G
        <5> QED BY <3>5, <4>2
    <3>6. Single(T)
      <4> HIDE DEF G, t
      <4> QED BY <3>4, <3>5
    <3> QED
      BY <2>2, <3>6
  <2> QED
    BY <2>3, <2>4
<1>6. \A T \in SUBSET S : Single(T)
  <2> HIDE DEF Single
  <2> QED BY <1>5
<1> DEFINE val(T) == CHOOSE v \in V : <<T, v>> \in G
           g == [T \in SUBSET S |-> val(T)]
<1>7. \A T \in SUBSET S : g[T] \in V /\ <<T, g[T]>> \in G /\ \A w \in V : <<T, w>> \in G => w = g[T]
  <2> HIDE DEF G
  <2> QED BY <1>6
<1>8. g \in [SUBSET S -> V]
  <2>1. \A T \in SUBSET S : val(T) \in V
    <3> HIDE DEF G
    <3> QED BY <1>6
  <2> HIDE DEF val
  <2> QED BY <2>1
<1>9. ASSUME NEW T \in SUBSET S
      PROVE  g[T] = IF T = {} THEN b ELSE h[<<pick[T], g[T \ {pick[T]}]>>]
  <2>1. CASE T = {}
    <3> HIDE DEF g, G
    <3> QED BY <1>2, <1>7, <2>1
  <2>2. CASE T # {}
    <3> DEFINE U == T \ {pick[T]}
    <3>1. U \in SUBSET S
      OBVIOUS
    <3>2. g[U] \in V /\ <<U, g[U]>> \in G
      <4> HIDE DEF g, G, U
      <4> QED BY <1>7, <3>1
    <3>3. <<T, h[<<pick[T], g[U]>>]>> \in G /\ h[<<pick[T], g[U]>>] \in V
      <4> HIDE DEF g, G
      <4> QED BY <1>1, <1>2, <2>2, <3>2
    <3> QED
      <4> HIDE DEF g, G, U
      <4>1. g[T] = h[<<pick[T], g[U]>>]
        BY <1>7, <3>3
      <4> QED
        BY <2>2, <4>1 DEF U
  <2> QED
    BY <2>1, <2>2
<1> QED
  <2> HIDE DEF g
  <2> QED BY <1>8, <1>9 DEF RecursionOn

\* The sum over a set takes one element out of it.
LEMMA SumStep ==
  ASSUME NEW f, NEW T, IsFiniteSet(T), \A x \in T : f[x] \in Int
  PROVE  /\ SumFunctionOnSet(f, {}) = 0
         /\ SumFunctionOnSet(f, T) \in Int
         /\ T # {} => LET c == CHOOSE x \in T : TRUE
                      IN  SumFunctionOnSet(f, T) = f[c] + SumFunctionOnSet(f, T \ {c})
<1> DEFINE c(s) == CHOOSE x \in s : TRUE
           It(U) == CHOOSE g : g = [s \in SUBSET U |->
                      IF s = {} THEN 0 ELSE f[c(s)] + g[s \ {c(s)}]]
<1>1. \A U : SumFunctionOnSet(f, U) = It(U)[U]
  BY DEF SumFunctionOnSet, FoldFunctionOnSet, MapThenFoldSet
<1>2. ASSUME NEW U \in SUBSET T
      PROVE  It(U) \in [SUBSET U -> Int]
             /\ It(U)[{}] = 0
             /\ \A s \in SUBSET U : s # {} => It(U)[s] = f[c(s)] + It(U)[s \ {c(s)}]
  <2> DEFINE pick == [s \in SUBSET U |-> c(s)]
             h == [p \in U \X Int |-> f[p[1]] + p[2]]
  <2>1. IsFiniteSet(U)
    BY FS_Subset
  <2>2. \A s \in SUBSET U : s # {} => c(s) \in s
    OBVIOUS
  <2>3. \A s \in SUBSET U : s # {} => pick[s] \in s
    <3> HIDE DEF c
    <3> QED BY <2>2
  <2>4. \A x \in U, v \in Int : h[<<x, v>>] = f[x] + v
    OBVIOUS
  <2>12. \A x \in U, v \in Int : h[<<x, v>>] \in Int
    OBVIOUS
  <2>5. 0 \in Int
    OBVIOUS
  <2>6. PICK g \in [SUBSET U -> Int] : \A s \in SUBSET U :
          g[s] = IF s = {} THEN 0 ELSE h[<<pick[s], g[s \ {pick[s]}]>>]
    <3>1. RecursionData(U, Int, 0, pick, h)
      <4> HIDE DEF pick, h
      <4> QED BY <2>1, <2>3, <2>12 DEF RecursionData
    <3>2. RecursionOn(U, Int, 0, pick, h) # {}
      <4> HIDE DEF pick, h
      <4> QED BY <3>1, RecursionDefines
    <3> QED
      <4> HIDE DEF pick, h
      <4> QED BY <3>2 DEF RecursionOn
  <2>7. \A s \in SUBSET U : g[s] = IF s = {} THEN 0 ELSE f[c(s)] + g[s \ {c(s)}]
    <3> SUFFICES ASSUME NEW s \in SUBSET U, s # {}
                 PROVE  g[s] = f[c(s)] + g[s \ {c(s)}]
      BY <2>6
    <3>1. pick[s] = c(s) /\ c(s) \in U /\ s \ {c(s)} \in SUBSET U
      BY <2>2
    <3> HIDE DEF pick, h, c
    <3>2. g[s \ {c(s)}] \in Int
      BY <3>1
    <3> QED
      BY <2>4, <2>6, <3>1, <3>2
  <2>8. g = [s \in SUBSET U |-> IF s = {} THEN 0 ELSE f[c(s)] + g[s \ {c(s)}]]
    <3> HIDE DEF c
    <3> QED BY <2>7
  <2>9. It(U) = [s \in SUBSET U |-> IF s = {} THEN 0 ELSE f[c(s)] + It(U)[s \ {c(s)}]]
    <3> HIDE DEF c
    <3> QED BY <2>8
  <2>10. /\ It(U)[{}] = 0
         /\ \A s \in SUBSET U : s # {} => It(U)[s] = f[c(s)] + It(U)[s \ {c(s)}]
    <3>1. \A s \in SUBSET U : It(U)[s] = IF s = {} THEN 0 ELSE f[c(s)] + It(U)[s \ {c(s)}]
      <4> HIDE DEF It, c
      <4> QED BY <2>9
    <3>2. {} \in SUBSET U
      OBVIOUS
    <3> HIDE DEF It, c
    <3> QED BY <3>1, <3>2
  <2>11. \A s \in SUBSET U : It(U)[s] \in Int
    <3> DEFINE F == {s \in SUBSET U : It(U)[s] \notin Int}
    <3> SUFFICES ASSUME F # {} PROVE FALSE
      OBVIOUS
    <3>1. PICK s \in F : \A t \in F : t \subseteq s => t = s
      <4>1. F \in SUBSET (SUBSET U)
        OBVIOUS
      <4> HIDE DEF F
      <4> QED BY <2>1, <4>1, MinimalMember
    <3>2. s \in SUBSET U /\ It(U)[s] \notin Int
      <4> HIDE DEF It
      <4> QED BY <3>1
    <3>3. CASE s = {}
      <4> HIDE DEF It, c
      <4> QED BY <2>10, <3>2, <3>3
    <3>4. CASE s # {}
      <4>1. c(s) \in s
        BY <3>4
      <4>2. s \ {c(s)} \notin F
        <5> HIDE DEF F, c
        <5> QED BY <3>1, <4>1
      <4>3. It(U)[s \ {c(s)}] \in Int
        <5> HIDE DEF It, c
        <5> QED BY <3>2, <4>2
      <4> HIDE DEF It, c
      <4>4. f[c(s)] \in Int
        BY <3>2, <4>1
      <4>5. It(U)[s] = f[c(s)] + It(U)[s \ {c(s)}]
        BY <2>10, <3>2, <3>4
      <4> QED
        BY <3>2, <4>3, <4>4, <4>5
    <3> QED
      BY <3>3, <3>4
  <2> QED
    <3> HIDE DEF It, c
    <3> QED BY <2>9, <2>10, <2>11
<1>3. ASSUME NEW U \in SUBSET T
      PROVE  \A s \in SUBSET U : It(U)[s] = It(T)[s]
  <2> DEFINE F == {s \in SUBSET U : It(U)[s] # It(T)[s]}
  <2> SUFFICES ASSUME F # {} PROVE FALSE
    <3> HIDE DEF It
    <3> QED OBVIOUS
  <2>1. PICK s \in F : \A t \in F : t \subseteq s => t = s
    <3>1. F \in SUBSET (SUBSET U) /\ IsFiniteSet(U)
      BY FS_Subset
    <3> HIDE DEF F
    <3> QED BY <3>1, MinimalMember
  <2>2. s \in SUBSET U /\ s \in SUBSET T /\ It(U)[s] # It(T)[s]
    <3> HIDE DEF It
    <3> QED BY <2>1
  <2>3. CASE s = {}
    <3> HIDE DEF It, c
    <3> QED BY <1>2, <2>2, <2>3
  <2>4. CASE s # {}
    <3>1. c(s) \in s
      BY <2>4
    <3>2. s \ {c(s)} \notin F
      <4> HIDE DEF F, c
      <4> QED BY <2>1, <3>1
    <3> HIDE DEF It, c
    <3>3. It(U)[s \ {c(s)}] = It(T)[s \ {c(s)}]
      BY <2>2, <3>2
    <3>4. It(U)[s] = f[c(s)] + It(U)[s \ {c(s)}]
      BY <1>2, <2>2, <2>4
    <3>5. It(T)[s] = f[c(s)] + It(T)[s \ {c(s)}]
      <4>1. T \in SUBSET T
        OBVIOUS
      <4> QED
        BY <1>2, <2>2, <2>4, <4>1
    <3> QED
      BY <2>2, <3>3, <3>4, <3>5
  <2> QED
    BY <2>3, <2>4
<1>4. \A U \in SUBSET T : SumFunctionOnSet(f, U) = It(T)[U]
  <2> HIDE DEF It, c
  <2> QED BY <1>1, <1>3
<1>5. T \in SUBSET T /\ {} \in SUBSET T
  OBVIOUS
<1>6. ASSUME T # {}
      PROVE  SumFunctionOnSet(f, T) = f[c(T)] + SumFunctionOnSet(f, T \ {c(T)})
  <2>1. T \ {c(T)} \in SUBSET T
    OBVIOUS
  <2> HIDE DEF It, c
  <2>2. It(T)[T] = f[c(T)] + It(T)[T \ {c(T)}]
    BY <1>2, <1>5, <1>6
  <2> QED BY <1>4, <1>5, <2>1, <2>2
<1>7. SumFunctionOnSet(f, {}) = 0 /\ SumFunctionOnSet(f, T) \in Int
  <2> HIDE DEF It, c
  <2>1. It(T)[{}] = 0 /\ It(T)[T] \in Int
    BY <1>2, <1>5
  <2> QED BY <1>4, <1>5, <2>1
<1> QED
  BY <1>6, <1>7

\* Any element can be the one.
LEMMA SumRemove ==
  ASSUME NEW f, NEW T, IsFiniteSet(T), \A x \in T : f[x] \in Int
  PROVE  \A x \in T : SumFunctionOnSet(f, T) = f[x] + SumFunctionOnSet(f, T \ {x})
<1> DEFINE Sum(U) == SumFunctionOnSet(f, U)
           F == {U \in SUBSET T : \E x \in U : Sum(U) # f[x] + Sum(U \ {x})}
<1> SUFFICES ASSUME F # {} PROVE FALSE
  <2>1. T \in SUBSET T
    OBVIOUS
  <2> HIDE DEF Sum
  <2> QED BY <2>1 DEF Sum
<1>1. PICK U \in F : \A W \in F : W \subseteq U => W = U
  <2>1. F \in SUBSET (SUBSET T)
    OBVIOUS
  <2> HIDE DEF F
  <2> QED BY <2>1, MinimalMember
<1>2. PICK x \in U : Sum(U) # f[x] + Sum(U \ {x})
  <2> HIDE DEF Sum
  <2> QED BY <1>1
<1>3. U \in SUBSET T
  <2> HIDE DEF Sum
  <2> QED BY <1>1
<1> DEFINE c == CHOOSE y \in U : TRUE
<1>4. c \in U
  BY <1>2
<1>5. \A W \in SUBSET U : IsFiniteSet(W) /\ \A y \in W : f[y] \in Int
  BY <1>3, FS_Subset
<1>6. Sum(U) = f[c] + Sum(U \ {c})
  BY <1>2, <1>5, SumStep
<1>7. \A W \in SUBSET U : Sum(W) \in Int
  BY <1>5, SumStep
<1>8. x # c
  <2> HIDE DEF Sum, c
  <2> QED BY <1>2, <1>6
<1> DEFINE A == U \ {x}
           B == U \ {c}
<1>9. A \notin F /\ B \notin F
  <2> HIDE DEF F, c
  <2> QED BY <1>1, <1>2, <1>4
<1>10. A \in SUBSET T /\ B \in SUBSET T /\ c \in A /\ x \in B
  <2> HIDE DEF c
  <2> QED BY <1>3, <1>4, <1>8
<1>11. Sum(A) = f[c] + Sum(A \ {c}) /\ Sum(B) = f[x] + Sum(B \ {x})
  <2> HIDE DEF Sum, c, A, B
  <2> QED BY <1>9, <1>10
<1>12. A \ {c} = B \ {x} /\ A \ {c} \in SUBSET U
  <2> HIDE DEF c
  <2> QED OBVIOUS
<1>13. Sum(A) \in Int /\ Sum(B) \in Int /\ Sum(A \ {c}) \in Int /\ f[c] \in Int /\ f[x] \in Int
  <2> HIDE DEF Sum, c
  <2> QED BY <1>2, <1>4, <1>5, <1>7, <1>12
<1>14. Sum(U) = f[c] + Sum(B) /\ Sum(U) # f[x] + Sum(A)
  BY <1>2, <1>6
<1>15. Sum(A \ {c}) = Sum(B \ {x})
  BY <1>12
<1> QED
  <2> HIDE DEF Sum, c, A, B
  <2> QED BY <1>11, <1>13, <1>14, <1>15

\* A sum only looks at the values it adds.
LEMMA SumAgree ==
  ASSUME NEW f, NEW g, NEW T, IsFiniteSet(T), \A x \in T : f[x] \in Int /\ g[x] = f[x]
  PROVE  SumFunctionOnSet(f, T) = SumFunctionOnSet(g, T)
<1> DEFINE Sum(h, U) == SumFunctionOnSet(h, U)
           F == {U \in SUBSET T : Sum(f, U) = Sum(g, U)}
<1>1. \A U \in SUBSET T : IsFiniteSet(U) /\ \A x \in U : f[x] \in Int /\ g[x] \in Int
  BY FS_Subset
<1>2. {} \in F
  BY <1>1, SumStep
<1>3. ASSUME NEW U \in SUBSET T, NEW x \in T, U \in F, x \notin U
      PROVE  U \cup {x} \in F
  <2> DEFINE W == U \cup {x}
  <2>1. W \in SUBSET T /\ x \in W /\ W \ {x} = U
    BY <1>3
  <2>2. IsFiniteSet(W) /\ (\A y \in W : f[y] \in Int) /\ (\A y \in W : g[y] \in Int)
    <3> HIDE DEF W
    <3> QED BY <1>1, <2>1
  <2>3. Sum(f, W) = f[x] + Sum(f, W \ {x})
    <3> HIDE DEF W
    <3> QED BY <2>1, <2>2, SumRemove
  <2>4. Sum(g, W) = g[x] + Sum(g, W \ {x})
    <3> HIDE DEF W
    <3> QED BY <2>1, <2>2, SumRemove
  <2> HIDE DEF Sum, W
  <2>5. Sum(f, U) = Sum(g, U) /\ f[x] = g[x]
    BY <1>3
  <2> QED BY <2>1, <2>3, <2>4, <2>5 DEF W
<1>4. T \in F
  <2>1. T \in SUBSET T
    OBVIOUS
  <2> HIDE DEF F
  <2> QED BY <1>2, <1>3, <2>1, SubsetInduction
<1> QED
  BY <1>4

\* A sum over two disjoint sets is the sum of the sums.
LEMMA SumUnion ==
  ASSUME NEW f, NEW S, NEW T, IsFiniteSet(S), IsFiniteSet(T), S \cap T = {},
         \A x \in S \cup T : f[x] \in Int
  PROVE  SumFunctionOnSet(f, S \cup T) = SumFunctionOnSet(f, S) + SumFunctionOnSet(f, T)
<1> DEFINE Sum(U) == SumFunctionOnSet(f, U)
           F == {U \in SUBSET T : Sum(S \cup U) = Sum(S) + Sum(U)}
<1>1. \A U \in SUBSET (S \cup T) : IsFiniteSet(U) /\ (\A x \in U : f[x] \in Int)
  <2>1. IsFiniteSet(S \cup T)
    BY FS_Union
  <2> QED BY <2>1, FS_Subset
<1>2. \A U \in SUBSET (S \cup T) : Sum(U) \in Int
  BY <1>1, SumStep
<1>3. \A U \in SUBSET (S \cup T) : \A x \in U : Sum(U) = f[x] + Sum(U \ {x})
  BY <1>1, SumRemove
<1>4. {} \in F
  <2>1. Sum({}) = 0 /\ S \cup {} = S /\ S \in SUBSET (S \cup T)
    BY <1>1, SumStep
  <2> QED
    <3> HIDE DEF Sum
    <3> QED BY <1>2, <2>1
<1>5. ASSUME NEW U \in SUBSET T, NEW x \in T, U \in F, x \notin U
      PROVE  U \cup {x} \in F
  <2> DEFINE W == U \cup {x}
             X == S \cup W
             Y == S \cup U
  <2>1. W \in SUBSET T /\ W \in SUBSET (S \cup T) /\ x \in W /\ W \ {x} = U
    BY <1>5
  <2>2. X \in SUBSET (S \cup T) /\ x \in X /\ X \ {x} = Y
    BY <1>5
  <2>3. Sum(W) = f[x] + Sum(U) /\ Sum(X) = f[x] + Sum(Y)
    <3> HIDE DEF Sum, W, X, Y
    <3> QED BY <1>3, <2>1, <2>2
  <2>4. Sum(Y) = Sum(S) + Sum(U)
    <3> HIDE DEF Sum
    <3> QED BY <1>5
  <2>5. f[x] \in Int /\ Sum(S) \in Int /\ Sum(U) \in Int
    <3> HIDE DEF Sum
    <3> QED BY <1>2
  <2>6. Sum(X) = Sum(S) + Sum(W)
    <3> HIDE DEF Sum, W, X, Y
    <3> QED BY <2>3, <2>4, <2>5
  <2> QED
    <3> HIDE DEF Sum
    <3> QED BY <2>1, <2>6
<1>6. T \in F
  <2>1. T \in SUBSET T
    OBVIOUS
  <2> HIDE DEF F
  <2> QED BY <1>4, <1>5, <2>1, SubsetInduction
<1> QED
  BY <1>6

\* A sum of natural numbers is one.
LEMMA SumNat ==
  ASSUME NEW f, NEW T, IsFiniteSet(T), \A x \in T : f[x] \in Nat
  PROVE  SumFunctionOnSet(f, T) \in Nat
<1> DEFINE Sum(U) == SumFunctionOnSet(f, U)
           F == {U \in SUBSET T : Sum(U) \in Nat}
<1>1. \A U \in SUBSET T : IsFiniteSet(U) /\ (\A x \in U : f[x] \in Int)
  BY FS_Subset
<1>2. {} \in F
  <2>1. Sum({}) = 0
    BY <1>1, SumStep
  <2> HIDE DEF Sum
  <2> QED BY <2>1
<1>3. ASSUME NEW U \in SUBSET T, NEW x \in T, U \in F, x \notin U
      PROVE  U \cup {x} \in F
  <2> DEFINE W == U \cup {x}
  <2>1. W \in SUBSET T /\ x \in W /\ W \ {x} = U
    BY <1>3
  <2>2. Sum(W) = f[x] + Sum(W \ {x})
    <3> HIDE DEF W
    <3> QED BY <1>1, <2>1, SumRemove
  <2>3. Sum(U) \in Nat /\ f[x] \in Nat
    <3> HIDE DEF Sum
    <3> QED BY <1>3
  <2>4. Sum(W) \in Nat
    <3> HIDE DEF Sum, W
    <3> QED BY <2>1, <2>2, <2>3
  <2> QED
    <3> HIDE DEF Sum
    <3> QED BY <2>1, <2>4
<1>4. T \in F
  <2>1. T \in SUBSET T
    OBVIOUS
  <2> HIDE DEF F
  <2> QED BY <1>2, <1>3, <2>1, SubsetInduction
<1> QED
  BY <1>4

-----------------------------------------------------------------------------
(* Recursion over prefixes, as folds over sequences do it.                 *)

\* The greatest element of a set of positions, and what remains of a prefix
\* without its last position.
LEMMA LastPosition ==
  ASSUME NEW n \in Nat
  PROVE  /\ \A T \in SUBSET (1..n) : T # {} => Max(T) \in T
         /\ \A i \in 1..n : /\ 1..i \in SUBSET (1..n) /\ 1..i # {}
                            /\ Max(1..i) = i /\ (1..i) \ {Max(1..i)} = 1..(i - 1)
<1>1. ASSUME NEW T \in SUBSET (1..n), T # {}
      PROVE  \E x \in T : \A y \in T : x >= y
  <2> DEFINE D == {n - x : x \in T}
  <2>0. \A x \in T : x \in Int /\ x <= n /\ n - x \in Nat
    BY <1>1
  <2>1. D \in SUBSET Nat /\ D # {}
    BY <1>1, <2>0
  <2>2. PICK m \in D : \A d \in D : m <= d
    <3> HIDE DEF D
    <3> QED BY <2>1, LeastNatural
  <2>3. PICK x \in T : m = n - x
    BY <2>2
  <2>4. \A y \in T : n - y \in D
    OBVIOUS
  <2>5. \A y \in T : n - x <= n - y
    <3> HIDE DEF D
    <3> QED BY <2>2, <2>3, <2>4
  <2>6. \A y \in T : x >= y
    BY <2>0, <2>5
  <2> QED BY <2>6
<1>2. \A T \in SUBSET (1..n) : T # {} => Max(T) \in T /\ \A y \in T : Max(T) >= y
  BY <1>1 DEF Max
<1>3. ASSUME NEW i \in 1..n
      PROVE  Max(1..i) = i
  <2>1. 1..i \in SUBSET (1..n) /\ i \in 1..i
    OBVIOUS
  <2>2. Max(1..i) \in 1..i /\ Max(1..i) >= i
    BY <1>2, <2>1
  <2> QED BY <2>2
<1>4. \A i \in 1..n : (1..i) \ {i} = 1..(i - 1)
  OBVIOUS
<1>5. ASSUME NEW i \in 1..n
      PROVE  1..i \in SUBSET (1..n) /\ 1..i # {}
  <2>1. i \in 1..i
    OBVIOUS
  <2> QED BY <2>1
<1> QED BY <1>2, <1>3, <1>4, <1>5

StepsIn(n, V, h) == \A i \in 1..n, v \in V : h[<<i, v>>] \in V

PrefixRecursions(n, V, b, h) ==
  {g \in [SUBSET (1..n) -> V] : \A T \in SUBSET (1..n) :
     g[T] = IF T = {} THEN b ELSE h[<<Max(T), g[T \ {Max(T)}]>>]}

\* A recursion that takes the last position away is defined.
LEMMA PrefixRecursion ==
  ASSUME NEW n \in Nat, NEW V, NEW b \in V, NEW h, StepsIn(n, V, h)
  PROVE  PrefixRecursions(n, V, b, h) # {}
<1> DEFINE S == 1..n
           pick == [T \in SUBSET S |-> Max(T)]
<1>1. \A T \in SUBSET S : T # {} => pick[T] \in T
  BY LastPosition
<1>2. IsFiniteSet(S)
  BY FS_Interval
<1>3. RecursionData(S, V, b, pick, h)
  <2> HIDE DEF pick
  <2> QED BY <1>1, <1>2 DEF RecursionData, StepsIn
<1>4. RecursionOn(S, V, b, pick, h) # {}
  <2> HIDE DEF pick, S
  <2> QED BY <1>3, RecursionDefines
<1>5. PICK g \in [SUBSET S -> V] : \A T \in SUBSET S :
        g[T] = IF T = {} THEN b ELSE h[<<pick[T], g[T \ {pick[T]}]>>]
  <2> HIDE DEF pick, S
  <2> QED BY <1>4 DEF RecursionOn
<1>6. \A T \in SUBSET S : g[T] = IF T = {} THEN b ELSE h[<<Max(T), g[T \ {Max(T)}]>>]
  <2>1. \A T \in SUBSET S : pick[T] = Max(T)
    OBVIOUS
  <2> HIDE DEF pick
  <2> QED BY <1>5, <2>1
<1> QED BY <1>6 DEF PrefixRecursions

\* The values such a recursion takes on prefixes.
Recursive(n, V, h, It) ==
  /\ It[1..0] \in V
  /\ \A i \in 1..n : It[1..(i - 1)] \in V => It[1..i] = h[<<i, It[1..(i - 1)]>>]

ValuesOf(n, V, h, It) ==
  {q \in [0..n -> V] : /\ q[0] = It[1..0] /\ q[n] = It[1..n]
                       /\ \A i \in 1..n : q[i] = h[<<i, q[i - 1]>>]}

LEMMA PrefixValues ==
  ASSUME NEW n \in Nat, NEW V, NEW h, NEW It, StepsIn(n, V, h), Recursive(n, V, h, It)
  PROVE  ValuesOf(n, V, h, It) # {}
<1> DEFINE P == {i \in Nat : i <= n => It[1..i] \in V}
<1> USE DEF StepsIn, Recursive
<1>1. 0 \in P
  OBVIOUS
<1>2. ASSUME NEW i \in Nat, i \in P
      PROVE  i + 1 \in P
  <2> SUFFICES ASSUME i + 1 <= n PROVE It[1..(i + 1)] \in V
    OBVIOUS
  <2>1. i + 1 \in 1..n /\ (i + 1) - 1 = i /\ i <= n
    OBVIOUS
  <2>2. It[1..i] \in V
    BY <1>2, <2>1
  <2> QED BY <2>1, <2>2
<1>3. \A i \in Nat : i \in P
  <2> HIDE DEF P
  <2> QED BY <1>1, <1>2, NaturalInduction
<1>4. \A i \in 0..n : It[1..i] \in V
  BY <1>3
<1> DEFINE q == [i \in 0..n |-> It[1..i]]
<1>5. q \in [0..n -> V] /\ q[0] = It[1..0] /\ q[n] = It[1..n]
  BY <1>4
<1>6. ASSUME NEW i \in 1..n
      PROVE  q[i] = h[<<i, q[i - 1]>>]
  <2>1. i - 1 \in 0..n /\ i \in 0..n
    OBVIOUS
  <2> QED BY <1>4, <2>1
<1> QED
  <2> HIDE DEF q
  <2> QED BY <1>5, <1>6 DEF ValuesOf

Iterations(n, V, b, f) ==
  {c \in [0..n -> V] : c[0] = b /\ \A k \in 1..n : c[k] = f[c[k - 1]]}

\* A function that goes on from its previous value is defined.
LEMMA IterationDefines ==
  ASSUME NEW n \in Nat, NEW V, NEW b \in V, NEW f \in [V -> V]
  PROVE  Iterations(n, V, b, f) # {}
<1> DEFINE h == [p \in (1..n) \X V |-> f[p[2]]]
<1>1. \A i \in 1..n, v \in V : h[<<i, v>>] = f[v] /\ f[v] \in V
  OBVIOUS
<1>. HIDE DEF h
<1>2. PICK g \in PrefixRecursions(n, V, b, h) : TRUE
  <2>1. StepsIn(n, V, h)
    BY <1>1 DEF StepsIn
  <2>. QED BY <2>1, PrefixRecursion
<1>3. /\ g \in [SUBSET (1..n) -> V]
      /\ \A T \in SUBSET (1..n) : g[T] = IF T = {} THEN b ELSE h[<<Max(T), g[T \ {Max(T)}]>>]
  BY <1>2 DEF PrefixRecursions
<1> DEFINE c == [k \in 0..n |-> g[1..k]]
<1>4. \A k \in 0..n : 1..k \in SUBSET (1..n)
  OBVIOUS
<1>5. c \in [0..n -> V] /\ \A k \in 0..n : c[k] = g[1..k]
  BY <1>3, <1>4
<1>6. c[0] = b
  <2>1. 1..0 = {} /\ 0 \in 0..n
    OBVIOUS
  <2>. HIDE DEF c
  <2>. QED BY <1>3, <1>4, <1>5, <2>1
<1>. HIDE DEF c
<1>7. ASSUME NEW k \in 1..n
      PROVE  c[k] = f[c[k - 1]]
  <2>1. /\ 1..k \in SUBSET (1..n) /\ 1..k # {}
        /\ Max(1..k) = k /\ (1..k) \ {Max(1..k)} = 1..(k - 1)
    BY LastPosition
  <2>2. g[1..k] = h[<<k, g[1..(k - 1)]>>]
    BY <1>3, <2>1
  <2>3. k - 1 \in 0..n /\ k \in 0..n
    OBVIOUS
  <2>4. c[k - 1] \in V /\ c[k - 1] = g[1..(k - 1)]
    BY <1>5, <2>3
  <2>. QED BY <1>1, <1>5, <2>2, <2>3, <2>4
<1>. QED BY <1>5, <1>6, <1>7 DEF Iterations

\* A function with finitely many arguments has finitely many values.
LEMMA FiniteValues ==
  ASSUME NEW f, IsFiniteSet(DOMAIN f), NEW S, \A y \in S : \E x \in DOMAIN f : f[x] = y
  PROVE  IsFiniteSet(S)
<1>. USE DEF Surjection
<1>1. CASE S = {}
  BY <1>1, FS_EmptySet
<1>2. CASE S # {}
  <2>1. PICK b \in S : TRUE
    BY <1>2
  <2> DEFINE g == [x \in DOMAIN f |-> IF f[x] \in S THEN f[x] ELSE b]
  <2>2. g \in [DOMAIN f -> S] /\ \A y \in S : \E x \in DOMAIN f : g[x] = y
    OBVIOUS
  <2>. HIDE DEF g
  <2>3. g \in Surjection(DOMAIN f, S)
    BY <2>2
  <2>. QED BY <2>3, FS_Surjection
<1>. QED BY <1>1, <1>2
===============================================================================
