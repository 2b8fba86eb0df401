----------------------------- MODULE PickProofs ------------------------------
(***************************************************************************)
(* Theorems about PickPolicy.tla, on the picks of MCPickPolicy, for any    *)
(* accounts, balances and window.  The points of a set of accounts are     *)
(* added up in the order that CHOOSE gives; it does not matter.            *)
(***************************************************************************)
EXTENDS MCPickPolicy, FiniteSetTheorems, TLAPS

Facts == INSTANCE FoldFacts WITH Op <- +

-----------------------------------------------------------------------------
(* Finite sets                                                             *)

\* Induction over the subsets of a finite set, one element at a time.
LEMMA SetInduction ==
  ASSUME NEW S, IsFiniteSet(S), NEW I,
         \A T \in SUBSET S : (\A x \in T : T \ {x} \in I) => T \in I
  PROVE  \A T \in SUBSET S : T \in I
  <1> DEFINE K == {n \in Nat : \A T \in SUBSET S : Cardinality(T) = n => T \in I}
  <1>0. \A T \in SUBSET S : IsFiniteSet(T) /\ Cardinality(T) \in Nat
    BY FS_Subset, FS_CardinalityType
  <1>1. 0 \in K
    <2> SUFFICES ASSUME NEW T \in SUBSET S, Cardinality(T) = 0 PROVE T \in I
      OBVIOUS
    <2>1. T = {}
      BY <1>0, FS_EmptySet
    <2> QED BY <2>1
  <1>2. ASSUME NEW n \in Nat, n \in K PROVE n + 1 \in K
    <2> SUFFICES ASSUME NEW T \in SUBSET S, Cardinality(T) = n + 1
                 PROVE  T \in I
      OBVIOUS
    <2>1. ASSUME NEW x \in T PROVE T \ {x} \in I
      <3>1. Cardinality(T \ {x}) = n /\ T \ {x} \in SUBSET S
        <4>1. Cardinality(T \ {x}) = Cardinality(T) - 1
          BY <1>0, FS_RemoveElement
        <4> QED BY <4>1
      <3> QED BY <1>2, <3>1
    <2> QED BY <2>1
  <1> HIDE DEF K
  <1>3. \A n \in Nat : n \in K
    BY <1>1, <1>2, Facts!Induction
  <1> QED BY <1>0, <1>3 DEF K

-----------------------------------------------------------------------------
(* Points                                                                  *)

\* What TotalPoints does to a set, once it knows the sum of smaller ones.
First(s) == CHOOSE x \in s : TRUE
Step(e, g, s) ==
  IF s = {} THEN 0 ELSE e[First(s)].points + g[s \ {First(s)}]

Sums(e, g, S) == g = [s \in SUBSET S |-> Step(e, g, s)]

LEMMA FirstIsIn == \A s : s # {} => First(s) \in s
  BY DEF First

\* The sums of all subsets exist.
LEMMA SumsExist ==
  ASSUME NEW S, IsFiniteSet(S), NEW e
  PROVE  \E g : Sums(e, g, S)
  <1> DEFINE Upto(g, k) == \A s \in SUBSET S :
                              Cardinality(s) <= k => g[s] = Step(e, g, s)
             K == {k \in Nat : \E g : Upto(g, k)}
  <1>1. \A T \in SUBSET S :
           /\ IsFiniteSet(T) /\ Cardinality(T) \in Nat
           /\ Cardinality(T) <= Cardinality(S)
           /\ Cardinality(T) = 0 <=> T = {}
    BY FS_Subset, FS_CardinalityType, FS_EmptySet
  <1>2. \A T \in SUBSET S : T # {} =>
           /\ T \ {First(T)} \in SUBSET S
           /\ Cardinality(T \ {First(T)}) = Cardinality(T) - 1
    BY <1>1, FirstIsIn, FS_RemoveElement
  <1>3. 0 \in K
    <2> DEFINE g == [s \in SUBSET S |-> 0]
    <2>1. Upto(g, 0)
      BY <1>1 DEF Step
    <2> QED BY <2>1
  <1>4. ASSUME NEW k \in Nat, k \in K PROVE k + 1 \in K
    <2>1. PICK g : Upto(g, k)
      BY <1>4
    <2> DEFINE h == [s \in SUBSET S |-> IF Cardinality(s) = k + 1
                                        THEN Step(e, g, s) ELSE g[s]]
    <2>2. ASSUME NEW s \in SUBSET S, Cardinality(s) <= k + 1
          PROVE  h[s] = Step(e, h, s)
      <3>1. h[s] = Step(e, g, s)
        <4>1. CASE Cardinality(s) = k + 1
          BY <4>1
        <4>2. CASE Cardinality(s) <= k
          BY <2>1, <4>2, <1>1
        <4> QED BY <4>1, <4>2, <2>2, <1>1
      <3>2. CASE s = {}
        BY <3>1, <3>2 DEF Step
      <3>3. CASE s # {}
        <4>1. /\ s \ {First(s)} \in SUBSET S
              /\ Cardinality(s \ {First(s)}) # k + 1
          BY <1>1, <1>2, <2>2, <3>3
        <4>2. h[s \ {First(s)}] = g[s \ {First(s)}]
          BY <4>1
        <4> HIDE DEF h
        <4> QED BY <3>1, <3>3, <4>2 DEF Step
      <3> QED BY <3>2, <3>3
    <2> HIDE DEF h
    <2>3. Upto(h, k + 1)
      BY <2>2
    <2> QED BY <2>3
  <1> HIDE DEF K
  <1>5. Cardinality(S) \in K
    <2>1. \A k \in Nat : k \in K
      BY <1>3, <1>4, Facts!Induction
    <2> QED BY <2>1, <1>1
  <1>6. PICK g : Upto(g, Cardinality(S))
    BY <1>5 DEF K
  <1> DEFINE h == [s \in SUBSET S |-> g[s]]
  <1>7. ASSUME NEW s \in SUBSET S PROVE h[s] = Step(e, h, s)
    <2>1. g[s] = Step(e, g, s)
      BY <1>1, <1>6
    <2>2. s # {} => h[s \ {First(s)}] = g[s \ {First(s)}]
      BY <1>2
    <2>3. h[s] = g[s]
      OBVIOUS
    <2> HIDE DEF h
    <2> QED BY <2>1, <2>2, <2>3 DEF Step
  <1>8. h = [s \in SUBSET S |-> h[s]]
    OBVIOUS
  <1> HIDE DEF h
  <1>9. Sums(e, h, S)
    BY <1>7, <1>8, Zenon DEF Sums
  <1> QED BY <1>9

\* TotalPoints is one of them.
LEMMA TotalIsSum ==
  ASSUME NEW S, IsFiniteSet(S), NEW e
  PROVE  \E g : Sums(e, g, S) /\ TotalPoints(e, S) = g[S]
  <1> DEFINE g == CHOOSE g : Sums(e, g, S)
  <1>1. Sums(e, g, S)
    BY SumsExist
  <1>2. TotalPoints(e, S) = g[S]
    BY Zenon DEF TotalPoints, MapThenSumSet, MapThenFoldSet, Sums, Step, First
  <1> QED BY <1>1, <1>2

\* Those of a set and of a part of it agree.
LEMMA SumsAgree ==
  ASSUME NEW S, IsFiniteSet(S), NEW e, NEW g, Sums(e, g, S),
         NEW T \in SUBSET S, NEW h, Sums(e, h, T)
  PROVE  g[T] = h[T]
  <1> DEFINE I == {s \in SUBSET T : g[s] = h[s]}
  <1>1. IsFiniteSet(T)
    BY FS_Subset
  <1>2. ASSUME NEW s \in SUBSET T, \A x \in s : s \ {x} \in I
        PROVE  s \in I
    <2>1. g[s] = Step(e, g, s) /\ h[s] = Step(e, h, s)
      BY DEF Sums
    <2>2. s # {} => g[s \ {First(s)}] = h[s \ {First(s)}]
      BY <1>2, FirstIsIn
    <2> QED BY <2>1, <2>2 DEF Step
  <1> HIDE DEF I
  <1>3. \A s \in SUBSET T : s \in I
    BY <1>1, <1>2, SetInduction
  <1> QED BY <1>3 DEF I

\* They are numbers.
LEMMA SumsType ==
  ASSUME NEW S, IsFiniteSet(S), NEW e, \A u \in S : e[u].points \in Int,
         NEW g, Sums(e, g, S)
  PROVE  \A s \in SUBSET S : g[s] \in Int
  <1> DEFINE I == {s \in SUBSET S : g[s] \in Int}
  <1>1. ASSUME NEW s \in SUBSET S, \A x \in s : s \ {x} \in I
        PROVE  s \in I
    <2>1. g[s] = Step(e, g, s)
      BY DEF Sums
    <2>2. CASE s = {}
      BY <2>1, <2>2 DEF Step
    <2>3. CASE s # {}
      <3>1. First(s) \in S /\ g[s \ {First(s)}] \in Int
        BY <1>1, <2>3, FirstIsIn
      <3>2. e[First(s)].points \in Int
        BY <3>1
      <3> QED BY <2>1, <2>3, <3>1, <3>2 DEF Step
    <2> QED BY <2>2, <2>3
  <1> HIDE DEF I
  <1>2. \A s \in SUBSET S : s \in I
    BY <1>1, SetInduction
  <1> QED BY <1>2 DEF I

\* Any account may be added first.
LEMMA SumsAdd ==
  ASSUME NEW S, IsFiniteSet(S), NEW e, \A u \in S : e[u].points \in Int,
         NEW g, Sums(e, g, S)
  PROVE  \A s \in SUBSET S : \A x \in s : g[s] = e[x].points + g[s \ {x}]
  <1> DEFINE I == {s \in SUBSET S :
                     \A x \in s : g[s] = e[x].points + g[s \ {x}]}
  <1>1. ASSUME NEW s \in SUBSET S, \A y \in s : s \ {y} \in I, NEW x \in s
        PROVE  g[s] = e[x].points + g[s \ {x}]
    <2> DEFINE c == First(s)
    <2>1. c \in s
      BY FirstIsIn
    <2>2. g[s] = e[c].points + g[s \ {c}]
      BY DEF Sums, Step
    <2> HIDE DEF c
    <2>3. CASE x = c
      BY <2>2, <2>3
    <2>4. CASE x # c
      <3> DEFINE t == g[(s \ {c}) \ {x}]
      <3>1. x \in s \ {c} /\ c \in s \ {x} /\ (s \ {x}) \ {c} = (s \ {c}) \ {x}
        BY <2>1, <2>4
      <3>2. g[s \ {c}] = e[x].points + t /\ g[s \ {x}] = e[c].points + t
        BY <1>1, <2>1, <3>1
      <3>3. t \in Int /\ e[x].points \in Int /\ e[c].points \in Int
        <4>1. (s \ {c}) \ {x} \in SUBSET S
          OBVIOUS
        <4> QED BY <2>1, <4>1, SumsType
      <3> HIDE DEF t
      <3> QED BY <2>2, <3>2, <3>3
    <2> QED BY <2>3, <2>4
  <1>2. ASSUME NEW s \in SUBSET S, \A y \in s : s \ {y} \in I
        PROVE  s \in I
    BY <1>1, <1>2
  <1> HIDE DEF I
  <1>3. \A s \in SUBSET S : s \in I
    BY <1>2, SetInduction
  <1> QED BY <1>3 DEF I

\* The points of a set are those of one of its accounts and of the others.
LEMMA PointsOfOne ==
  ASSUME NEW S, IsFiniteSet(S), NEW e, \A u \in S : e[u].points \in Int
  PROVE  /\ TotalPoints(e, S) \in Int
         /\ \A x \in S : TotalPoints(e, S)
                            = e[x].points + TotalPoints(e, S \ {x})
         /\ S = {} => TotalPoints(e, S) = 0
  <1>1. PICK g : Sums(e, g, S) /\ TotalPoints(e, S) = g[S]
    BY TotalIsSum
  <1>2. TotalPoints(e, S) \in Int
    BY <1>1, SumsType
  <1>3. ASSUME NEW x \in S
        PROVE  TotalPoints(e, S) = e[x].points + TotalPoints(e, S \ {x})
    <2>1. IsFiniteSet(S \ {x}) /\ S \ {x} \in SUBSET S
      BY FS_Subset
    <2>2. PICK h : Sums(e, h, S \ {x}) /\ TotalPoints(e, S \ {x}) = h[S \ {x}]
      BY <2>1, TotalIsSum
    <2>3. g[S \ {x}] = h[S \ {x}]
      BY <1>1, <2>1, <2>2, SumsAgree
    <2>4. g[S] = e[x].points + g[S \ {x}]
      BY <1>1, SumsAdd
    <2> QED BY <1>1, <2>2, <2>3, <2>4
  <1>4. S = {} => TotalPoints(e, S) = 0
    BY <1>1 DEF Sums, Step
  <1> QED BY <1>2, <1>3, <1>4

\* Without debts, more accounts have no fewer points.
LEMMA MorePoints ==
  ASSUME NEW S, IsFiniteSet(S), NEW e, \A u \in S : e[u].points \in Nat
  PROVE  \A T \in SUBSET S : \A R \in SUBSET T :
            TotalPoints(e, R) <= TotalPoints(e, T)
  <1> DEFINE I == {T \in SUBSET S : \A R \in SUBSET T :
                      TotalPoints(e, R) <= TotalPoints(e, T)}
  <1>1. \A T \in SUBSET S :
           /\ TotalPoints(e, T) \in Int
           /\ \A x \in T : TotalPoints(e, T)
                              = e[x].points + TotalPoints(e, T \ {x})
    <2>1. ASSUME NEW T \in SUBSET S
          PROVE  /\ TotalPoints(e, T) \in Int
                 /\ \A x \in T : TotalPoints(e, T)
                                    = e[x].points + TotalPoints(e, T \ {x})
      <3>1. IsFiniteSet(T) /\ \A u \in T : e[u].points \in Int
        BY FS_Subset
      <3> QED BY <3>1, PointsOfOne, Zenon
    <2> QED BY <2>1
  <1>2. ASSUME NEW T \in SUBSET S, \A x \in T : T \ {x} \in I,
               NEW R \in SUBSET T
        PROVE  TotalPoints(e, R) <= TotalPoints(e, T)
    <2>1. CASE R = T
      BY <1>1, <2>1
    <2>2. CASE R # T
      <3>1. PICK x \in T : x \notin R
        BY <2>2
      <3>2. TotalPoints(e, R) <= TotalPoints(e, T \ {x})
        BY <1>2, <3>1
      <3>3. TotalPoints(e, T) = e[x].points + TotalPoints(e, T \ {x})
        BY <1>1
      <3>4. /\ TotalPoints(e, R) \in Int /\ TotalPoints(e, T \ {x}) \in Int
            /\ e[x].points \in Nat
        BY <1>1
      <3> QED BY <3>2, <3>3, <3>4
    <2> QED BY <2>1, <2>2
  <1>3. ASSUME NEW T \in SUBSET S, \A x \in T : T \ {x} \in I
        PROVE  T \in I
    BY <1>2, <1>3
  <1> HIDE DEF I
  <1>4. \A T \in SUBSET S : T \in I
    BY <1>3, SetInduction
  <1> QED BY <1>4 DEF I

-----------------------------------------------------------------------------
(* The order of the sort                                                   *)

\* Candidates are numbers, with points.
Sorted(e, C) == C \subseteq Nat /\ \A u \in C : e[u].points \in Int

\* Precedes orders them.
LEMMA SortOrder ==
  ASSUME NEW e, NEW C, Sorted(e, C)
  PROVE  \A u, v, w \in C :
            /\ ~Precedes(e, u, u)
            /\ u = v \/ Precedes(e, u, v) \/ Precedes(e, v, u)
            /\ Precedes(e, u, v) => ~Precedes(e, v, u)
            /\ Precedes(e, u, v) /\ Precedes(e, v, w) => Precedes(e, u, w)
  <1> SUFFICES ASSUME NEW u \in C, NEW v \in C, NEW w \in C
               PROVE  /\ ~Precedes(e, u, u)
                      /\ u = v \/ Precedes(e, u, v) \/ Precedes(e, v, u)
                      /\ Precedes(e, u, v) => ~Precedes(e, v, u)
                      /\ Precedes(e, u, v) /\ Precedes(e, v, w) =>
                            Precedes(e, u, w)
    OBVIOUS
  <1>1. /\ u \in Nat /\ v \in Nat /\ w \in Nat
        /\ e[u].points \in Int /\ e[v].points \in Int /\ e[w].points \in Int
    BY DEF Sorted
  <1> QED BY <1>1 DEF Precedes

\* Some candidates have a last one.
LEMMA LastOne ==
  ASSUME NEW e, NEW C, IsFiniteSet(C), Sorted(e, C)
  PROVE  \A T \in SUBSET C : T # {} =>
            \E p \in T : \A v \in T \ {p} : Precedes(e, v, p)
  <1> DEFINE I == {T \in SUBSET C : T # {} =>
                     \E p \in T : \A v \in T \ {p} : Precedes(e, v, p)}
  <1>1. ASSUME NEW T \in SUBSET C, \A x \in T : T \ {x} \in I, T # {}
        PROVE  \E p \in T : \A v \in T \ {p} : Precedes(e, v, p)
    <2>1. PICK x : x \in T
      BY <1>1
    <2>2. CASE T = {x}
      BY <2>2
    <2>3. CASE T # {x}
      <3>1. PICK p \in T \ {x} : \A v \in (T \ {x}) \ {p} : Precedes(e, v, p)
        BY <1>1, <2>1, <2>3
      <3>2. x \in C /\ p \in C /\ x # p
        BY <2>1, <3>1
      <3>3. CASE Precedes(e, x, p)
        BY <3>1, <3>3
      <3>4. CASE Precedes(e, p, x)
        <4>1. ASSUME NEW v \in T \ {x} PROVE Precedes(e, v, x)
          <5>1. v = p \/ Precedes(e, v, p)
            BY <3>1, <4>1
          <5> QED BY <3>2, <3>4, <5>1, <4>1, SortOrder
        <4> QED BY <2>1, <4>1
      <3> QED BY <3>2, <3>3, <3>4, SortOrder
    <2> QED BY <2>2, <2>3
  <1>2. ASSUME NEW T \in SUBSET C, \A x \in T : T \ {x} \in I
        PROVE  T \in I
    BY <1>1, <1>2
  <1> HIDE DEF I
  <1>3. \A T \in SUBSET C : T \in I
    BY <1>2, SetInduction
  <1> QED BY <1>3 DEF I

-----------------------------------------------------------------------------
(* The weighted draw                                                       *)

\* The candidates before u, and the points that pickWeighted has counted when
\* it comes to u.
Before(e, C, u) == {v \in C : Precedes(e, v, u)}
Reached(e, C, u) == TotalPoints(e, Before(e, C, u))

\* Without debts, u is drawn by the numbers from those points on, as many as it
\* has points itself.
LEMMA DrawnInside ==
  ASSUME NEW e, NEW C, IsFiniteSet(C), C \subseteq Nat,
         \A u \in C : e[u].points \in Nat, NEW u \in C,
         NEW r \in 0 .. TotalPoints(e, C) - 1
  PROVE  /\ Reached(e, C, u) \in Nat
         /\ Reached(e, C, u) + e[u].points <= TotalPoints(e, C)
         /\ Drawn(e, C, r) = {u} <=>
               /\ Reached(e, C, u) <= r
               /\ r < Reached(e, C, u) + e[u].points
  <1> DEFINE Upto(w) == {v \in C : v = w \/ Precedes(e, v, w)}
             hit == {w \in C : r < Acc(e, C, w)}
             total == TotalPoints(e, C)
  <1>1. Sorted(e, C)
    BY DEF Sorted
  <1>2. \A w \in C : Acc(e, C, w) = TotalPoints(e, Upto(w))
    BY DEF Acc
  <1>3. ASSUME NEW T \in SUBSET C PROVE TotalPoints(e, T) \in Int
    <2>1. IsFiniteSet(T) /\ \A v \in T : e[v].points \in Int
      BY FS_Subset
    <2> QED BY <2>1, PointsOfOne
  <1>4. \A w \in C : Before(e, C, w) \in SUBSET C /\ Upto(w) \in SUBSET C
    BY DEF Before
  <1>5. total \in Int /\ r \in Int /\ 0 <= r /\ r < total
    BY <1>3
  <1>6. ASSUME NEW w \in C
        PROVE  Acc(e, C, w) = Reached(e, C, w) + e[w].points
    <2>1. w \in Upto(w) /\ Upto(w) \ {w} = Before(e, C, w)
      BY <1>1, SortOrder DEF Before
    <2>2. IsFiniteSet(Upto(w)) /\ \A v \in Upto(w) : e[v].points \in Int
      BY FS_Subset
    <2> HIDE DEF Upto
    <2>3. TotalPoints(e, Upto(w))
             = e[w].points + TotalPoints(e, Upto(w) \ {w})
      BY <2>1, <2>2, PointsOfOne
    <2>4. TotalPoints(e, Before(e, C, w)) \in Int
      BY <1>3, <1>4
    <2>5. e[w].points \in Int
      OBVIOUS
    <2>6. Acc(e, C, w) = e[w].points + Reached(e, C, w)
      BY <1>2, <2>1, <2>3 DEF Reached
    <2> QED BY <2>4, <2>5, <2>6 DEF Reached
  <1>7. \A w \in C : Reached(e, C, w) \in Int /\ Acc(e, C, w) \in Int
    BY <1>2, <1>3, <1>4 DEF Reached
  <1>8. TotalPoints(e, {}) = 0
    BY PointsOfOne, FS_EmptySet
  <1>9. \A T \in SUBSET C : \A R \in SUBSET T :
           TotalPoints(e, R) <= TotalPoints(e, T)
    BY MorePoints
  <1>10. Reached(e, C, u) \in Nat
    <2>1. {} \in SUBSET Before(e, C, u)
      OBVIOUS
    <2>2. 0 <= Reached(e, C, u)
      BY <1>4, <1>8, <1>9, <2>1 DEF Reached
    <2> QED BY <1>7, <2>2
  <1>11. Reached(e, C, u) + e[u].points <= total
    <2>1. C \in SUBSET C
      OBVIOUS
    <2> QED BY <1>2, <1>4, <1>6, <1>9, <2>1
  <1> HIDE DEF Upto
  <1>12. hit # {}
    <2>1. PICK p \in C : \A v \in C \ {p} : Precedes(e, v, p)
      <3>1. C \in SUBSET C /\ C # {}
        OBVIOUS
      <3> QED BY <1>1, <3>1, LastOne
    <2>2. Upto(p) = C
      BY <2>1 DEF Upto
    <2> QED BY <1>2, <1>5, <2>2
  <1>13. Drawn(e, C, r) = {w \in hit : \A v \in hit \ {w} : Precedes(e, w, v)}
    BY <1>12, Zenon DEF Drawn
  <1>14. ASSUME Drawn(e, C, r) = {u}
         PROVE  Reached(e, C, u) <= r /\ r < Reached(e, C, u) + e[u].points
    <2>1. u \in hit /\ \A v \in hit \ {u} : Precedes(e, u, v)
      BY <1>13, <1>14
    <2>2. r < Reached(e, C, u) + e[u].points
      BY <1>6, <2>1
    <2>3. ASSUME r < Reached(e, C, u) PROVE FALSE
      <3>1. Before(e, C, u) # {}
        BY <1>5, <1>8, <2>3 DEF Reached
      <3>2. PICK p \in Before(e, C, u) :
               \A v \in Before(e, C, u) \ {p} : Precedes(e, v, p)
        BY <1>1, <1>4, <3>1, LastOne
      <3>3. p \in C /\ Precedes(e, p, u)
        BY <3>2 DEF Before
      <3>4. Upto(p) = Before(e, C, u)
        <4>1. ASSUME NEW v \in C, Precedes(e, v, p) PROVE Precedes(e, v, u)
          BY <1>1, <3>3, <4>1, SortOrder
        <4> QED BY <3>2, <3>3, <4>1 DEF Before, Upto
      <3>5. p \in hit
        BY <1>2, <2>3, <3>3, <3>4 DEF Reached
      <3>6. p # u /\ ~Precedes(e, u, p)
        BY <1>1, <3>3, SortOrder
      <3> QED BY <2>1, <3>5, <3>6
    <2> QED BY <1>5, <1>7, <2>2, <2>3
  <1>15. ASSUME Reached(e, C, u) <= r, r < Reached(e, C, u) + e[u].points
         PROVE  Drawn(e, C, r) = {u}
    <2>1. u \in hit
      BY <1>6, <1>15
    <2>2. ASSUME NEW v \in hit, v # u PROVE Precedes(e, u, v)
      <3>1. v \in C /\ r < Acc(e, C, v)
        OBVIOUS
      <3>2. ASSUME Precedes(e, v, u) PROVE FALSE
        <4>1. Upto(v) \in SUBSET Before(e, C, u)
          <5>1. ASSUME NEW w \in C, Precedes(e, w, v) PROVE Precedes(e, w, u)
            BY <1>1, <3>1, <3>2, <5>1, SortOrder
          <5> QED BY <3>2, <5>1 DEF Upto, Before
        <4>2. Acc(e, C, v) <= Reached(e, C, u)
          BY <1>2, <1>4, <1>9, <3>1, <4>1 DEF Reached
        <4> QED BY <1>5, <1>7, <1>15, <3>1, <4>2
      <3> QED BY <1>1, <2>2, <3>1, <3>2, SortOrder
    <2>3. ASSUME NEW w \in hit, \A v \in hit \ {w} : Precedes(e, w, v)
          PROVE  w = u
      <3>1. w # u => Precedes(e, w, u) /\ Precedes(e, u, w)
        BY <2>1, <2>2, <2>3
      <3> QED BY <1>1, <3>1, SortOrder
    <2> QED BY <1>13, <2>1, <2>2, <2>3
  <1> QED BY <1>10, <1>11, <1>14, <1>15

\* An account is drawn by as many numbers as it has points.
LEMMA DrawnAsOften ==
  ASSUME NEW e, NEW C, IsFiniteSet(C), C \subseteq Nat,
         \A u \in C : e[u].points \in Nat, NEW u \in C
  PROVE  Cardinality({r \in 0 .. TotalPoints(e, C) - 1 : Drawn(e, C, r) = {u}})
            = e[u].points
  <1> DEFINE total == TotalPoints(e, C)
             low == Reached(e, C, u)
             high == low + e[u].points - 1
             numbers == {r \in 0 .. total - 1 : Drawn(e, C, r) = {u}}
  <1>1. total \in Int /\ e[u].points \in Nat
    <2>1. \A v \in C : e[v].points \in Int
      OBVIOUS
    <2> QED BY <2>1, PointsOfOne
  <1>2. total > 0 => /\ low \in Nat /\ low + e[u].points <= total
                     /\ \A r \in 0 .. total - 1 : Drawn(e, C, r) = {u} <=>
                           low <= r /\ r < low + e[u].points
    <2>1. total > 0 => 0 \in 0 .. total - 1
      BY <1>1
    <2> QED BY <2>1, DrawnInside, Zenon
  <1>3. e[u].points <= total
    <2>1. {u} \in SUBSET C /\ C \in SUBSET C
      OBVIOUS
    <2>2. TotalPoints(e, {u}) <= total
      BY <2>1, MorePoints
    <2>3. TotalPoints(e, {u}) = e[u].points
      <3>1. IsFiniteSet({u}) /\ {u} \ {u} = {}
        BY FS_Singleton
      <3>2. TotalPoints(e, {u}) = e[u].points + TotalPoints(e, {u} \ {u})
        BY <3>1, PointsOfOne
      <3>3. TotalPoints(e, {}) = 0
        BY PointsOfOne, FS_EmptySet
      <3> QED BY <1>1, <3>1, <3>2, <3>3
    <2> QED BY <2>2, <2>3
  <1>4. CASE total > 0
    <2> HIDE DEF low, total
    <2>1. numbers = low .. high
      BY <1>1, <1>2, <1>4
    <2> HIDE DEF numbers
    <2>2. low \in Int /\ high \in Int
      BY <1>1, <1>2, <1>4
    <2>3. Cardinality(low .. high) = IF low > high THEN 0 ELSE high - low + 1
      BY <2>2, FS_Interval
    <2>4. Cardinality(numbers) = e[u].points
      BY <1>1, <1>2, <1>4, <2>1, <2>3
    <2> QED BY <2>4 DEF numbers, total
  <1>5. CASE ~(total > 0)
    <2>1. numbers = {}
      BY <1>1, <1>5
    <2>2. e[u].points = 0
      BY <1>1, <1>3, <1>5
    <2> QED BY <2>1, <2>2, FS_EmptySet
  <1> QED BY <1>4, <1>5

-----------------------------------------------------------------------------
(* The loops of the code                                                   *)

\* s lists the candidates T in the order of the sort.
Lists(e, s, T) ==
  /\ s \in Seq(T)
  /\ \A u \in T : \E i \in 1 .. Len(s) : s[i] = u
  /\ \A i, j \in 1 .. Len(s) : i < j => Precedes(e, s[i], s[j])

\* A list goes on with a candidate that comes after all of it.
LEMMA ListAppend ==
  ASSUME NEW e, NEW C, Sorted(e, C), NEW T \in SUBSET C, NEW x \in C,
         \A u \in T : Precedes(e, u, x), NEW s, Lists(e, s, T)
  PROVE  Lists(e, Append(s, x), T \cup {x}) /\ x \notin T
  <1> DEFINE t == Append(s, x)
             n == Len(s)
  <1>1. s \in Seq(T) /\ n \in Nat /\ \A i \in 1 .. n : s[i] \in T
    BY DEF Lists
  <1>2. /\ t \in Seq(T \cup {x}) /\ Len(t) = n + 1 /\ t[n + 1] = x
        /\ \A i \in 1 .. n : t[i] = s[i]
    BY <1>1
  <1> HIDE DEF t, n
  <1>3. ASSUME NEW u \in T \cup {x}
        PROVE  \E i \in 1 .. n + 1 : t[i] = u
    <2>1. CASE u = x
      BY <1>1, <1>2, <2>1
    <2>2. CASE u # x
      <3>1. PICK i \in 1 .. n : s[i] = u
        BY <2>2 DEF Lists, n
      <3> QED BY <1>1, <1>2, <3>1
    <2> QED BY <2>1, <2>2
  <1>4. ASSUME NEW i \in 1 .. n + 1, NEW j \in 1 .. n + 1, i < j
        PROVE  Precedes(e, t[i], t[j])
    <2>1. i \in 1 .. n
      BY <1>1, <1>4
    <2>2. CASE j = n + 1
      BY <1>1, <1>2, <2>1, <2>2
    <2>3. CASE j # n + 1
      <3>1. j \in 1 .. n
        BY <1>1, <2>3
      <3>2. Precedes(e, s[i], s[j])
        BY <1>4, <2>1, <3>1 DEF Lists, n
      <3> QED BY <1>2, <2>1, <3>1, <3>2
    <2> QED BY <2>2, <2>3
  <1>5. x \notin T
    BY SortOrder
  <1>6. Lists(e, t, T \cup {x})
    BY <1>2, <1>3, <1>4, Zenon DEF Lists
  <1> QED BY <1>5, <1>6 DEF t

\* The first k of a list are the list of those candidates.
LEMMA ListFront ==
  ASSUME NEW e, NEW T, NEW s, Lists(e, s, T), NEW k \in Nat, k <= Len(s)
  PROVE  Lists(e, SubSeq(s, 1, k), {s[i] : i \in 1 .. k})
  <1> DEFINE f == SubSeq(s, 1, k)
             U == {s[i] : i \in 1 .. k}
  <1>1. s \in Seq(T) /\ Len(s) \in Nat
    BY DEF Lists
  <1>2. /\ f \in Seq(T) /\ Len(f) = k /\ \A i \in 1 .. k : f[i] = s[i]
    BY <1>1
  <1>3. \A i \in 1 .. k : i \in 1 .. Len(s)
    BY <1>1
  <1> HIDE DEF f
  <1>4. \A i \in 1 .. k : f[i] \in U
    BY <1>2
  <1>5. \A u \in U : \E i \in 1 .. k : f[i] = u
    BY <1>2
  <1> HIDE DEF U
  <1>6. f \in Seq(U)
    BY <1>2, <1>4
  <1>7. \A i, j \in 1 .. k : i < j => Precedes(e, f[i], f[j])
    BY <1>2, <1>3 DEF Lists
  <1>8. Lists(e, f, U)
    BY <1>2, <1>5, <1>6, <1>7, Zenon DEF Lists
  <1> QED BY <1>8 DEF f, U

\* s is the list f of U and then x.
Longer(e, s, T, f, U, x) ==
  /\ U \in SUBSET T /\ x \in T /\ T = U \cup {x}
  /\ f \in Seq(U) /\ Lists(e, f, U) /\ s = Append(f, x)
  /\ \A u \in U : Precedes(e, u, x)

\* A list that is not empty has a last candidate.
LEMMA ListLast ==
  ASSUME NEW e, NEW T, NEW s, Lists(e, s, T), NEW n \in Nat, Len(s) = n + 1
  PROVE  \E f, U, x : Longer(e, s, T, f, U, x) /\ Len(f) = n
  <1> DEFINE f == SubSeq(s, 1, n)
             x == s[n + 1]
             U == {s[i] : i \in 1 .. n}
  <1>1. s \in Seq(T)
    BY DEF Lists
  <1>2. Lists(e, f, U)
    <2>1. n <= Len(s)
      OBVIOUS
    <2> QED BY <2>1, ListFront
  <1>3. Len(f) = n /\ s = Append(f, x) /\ x \in T
    BY <1>1
  <1>4. \A u \in U : u \in T /\ Precedes(e, u, x)
    <2> SUFFICES ASSUME NEW i \in 1 .. n
                 PROVE  s[i] \in T /\ Precedes(e, s[i], x)
      OBVIOUS
    <2>1. i \in 1 .. Len(s) /\ n + 1 \in 1 .. Len(s) /\ i < n + 1
      OBVIOUS
    <2>2. Precedes(e, s[i], s[n + 1])
      BY <2>1 DEF Lists
    <2> QED BY <1>1, <2>1, <2>2
  <1>5. T = U \cup {x}
    <2>1. ASSUME NEW u \in T PROVE u \in U \cup {x}
      <3>1. PICK i \in 1 .. Len(s) : s[i] = u
        BY DEF Lists
      <3>2. i = n + 1 \/ i \in 1 .. n
        BY <3>1
      <3> QED BY <3>1, <3>2
    <2> QED BY <1>3, <1>4, <2>1
  <1> HIDE DEF f, x, U
  <1>6. U \in SUBSET T /\ x \in T
    BY <1>3, <1>4
  <1>7. f \in Seq(U)
    BY <1>2 DEF Lists
  <1>8. Longer(e, s, T, f, U, x) /\ Len(f) = n
    BY <1>2, <1>3, <1>4, <1>5, <1>6, <1>7 DEF Longer
  <1> QED BY <1>8

\* What holds of the empty list and of each longer one holds of all lists.
LEMMA ListInduction ==
  ASSUME NEW e, NEW C, Sorted(e, C), NEW I, <<<<>>, {}>> \in I,
         \A T \in SUBSET C : \A s \in Seq(T) : \A x \in C :
            /\ Lists(e, s, T)
            /\ \A u \in T : Precedes(e, u, x)
            /\ <<s, T>> \in I
            => <<Append(s, x), T \cup {x}>> \in I
  PROVE  \A T \in SUBSET C : \A s : Lists(e, s, T) => <<s, T>> \in I
  <1> DEFINE K == {n \in Nat : \A T \in SUBSET C : \A s :
                      Lists(e, s, T) /\ Len(s) = n => <<s, T>> \in I}
  <1>1. 0 \in K
    <2> SUFFICES ASSUME NEW T \in SUBSET C, NEW s, Lists(e, s, T), Len(s) = 0
                 PROVE  <<s, T>> \in I
      OBVIOUS
    <2>1. s = <<>> /\ 1 .. Len(s) = {}
      BY DEF Lists
    <2>2. T = {}
      BY <2>1, Zenon DEF Lists
    <2> QED BY <2>1, <2>2
  <1>2. ASSUME NEW n \in Nat, n \in K PROVE n + 1 \in K
    <2> SUFFICES ASSUME NEW T \in SUBSET C, NEW s, Lists(e, s, T),
                        Len(s) = n + 1
                 PROVE  <<s, T>> \in I
      OBVIOUS
    <2>1. PICK f, U, x : Longer(e, s, T, f, U, x) /\ Len(f) = n
      BY ListLast
    <2> U \in SUBSET C /\ x \in C
      BY <2>1 DEF Longer
    <2>2. <<f, U>> \in I
      BY <1>2, <2>1, Zenon DEF Longer
    <2>3. <<Append(f, x), U \cup {x}>> \in I
      BY <2>1, <2>2, Zenon DEF Longer
    <2> QED BY <2>1, <2>3, Zenon DEF Longer
  <1> HIDE DEF K
  <1>3. \A n \in Nat : n \in K
    BY <1>1, <1>2, Facts!Induction
  <1> SUFFICES ASSUME NEW T \in SUBSET C, NEW s, Lists(e, s, T)
               PROVE  <<s, T>> \in I
    OBVIOUS
  <1>4. Len(s) \in Nat
    BY DEF Lists
  <1> QED BY <1>3, <1>4 DEF K

\* A list is as long as the set.
LEMMA ListLength ==
  ASSUME NEW e, NEW C, Sorted(e, C), NEW T \in SUBSET C, NEW s, Lists(e, s, T)
  PROVE  IsFiniteSet(T) /\ Cardinality(T) = Len(s)
  <1> DEFINE I == {p \in Seq(C) \X SUBSET C :
                     IsFiniteSet(p[2]) /\ Cardinality(p[2]) = Len(p[1])}
  <1>1. <<<<>>, {}>> \in I
    <2>1. /\ <<>> \in Seq(C) /\ Len(<<>>) = 0
          /\ IsFiniteSet({}) /\ Cardinality({}) = 0
      BY FS_EmptySet
    <2> QED BY <2>1
  <1>2. ASSUME NEW U \in SUBSET C, NEW t \in Seq(U), NEW x \in C,
               Lists(e, t, U), \A u \in U : Precedes(e, u, x), <<t, U>> \in I
        PROVE  <<Append(t, x), U \cup {x}>> \in I
    <2>1. x \notin U
      BY <1>2, ListAppend
    <2>2. IsFiniteSet(U) /\ Cardinality(U) = Len(t) /\ t \in Seq(C)
      BY <1>2
    <2>3. /\ IsFiniteSet(U \cup {x})
          /\ Cardinality(U \cup {x}) = Cardinality(U) + 1
      BY <2>1, <2>2, FS_AddElement
    <2>4. /\ Append(t, x) \in Seq(C) /\ U \cup {x} \in SUBSET C
          /\ Len(Append(t, x)) = Len(t) + 1
      BY <2>2
    <2> QED BY <2>2, <2>3, <2>4
  <1>3. \A U \in SUBSET C : \A t \in Seq(U) : \A x \in C :
            /\ Lists(e, t, U)
            /\ \A u \in U : Precedes(e, u, x)
            /\ <<t, U>> \in I
            => <<Append(t, x), U \cup {x}>> \in I
    BY <1>2
  <1> HIDE DEF I
  <1>4. <<s, T>> \in I
    BY <1>1, <1>3, ListInduction, Zenon
  <1> QED BY <1>4 DEF I

\* Candidates can be sorted.
LEMMA ListExists ==
  ASSUME NEW e, NEW C, IsFiniteSet(C), Sorted(e, C)
  PROVE  \E s : Lists(e, s, C)
  <1> DEFINE I == {T \in SUBSET C : \E s : Lists(e, s, T)}
  <1>1. ASSUME NEW T \in SUBSET C, \A x \in T : T \ {x} \in I
        PROVE  \E s : Lists(e, s, T)
    <2>1. CASE T = {}
      <3>1. <<>> \in Seq(T) /\ 1 .. Len(<<>>) = {}
        OBVIOUS
      <3>2. Lists(e, <<>>, T)
        BY <2>1, <3>1, Zenon DEF Lists
      <3> QED BY <3>2
    <2>2. CASE T # {}
      <3>1. PICK p \in T : \A v \in T \ {p} : Precedes(e, v, p)
        BY <2>2, LastOne
      <3>2. PICK s : Lists(e, s, T \ {p})
        BY <1>1
      <3>3. T \ {p} \in SUBSET C /\ p \in C /\ (T \ {p}) \cup {p} = T
        OBVIOUS
      <3>4. Lists(e, Append(s, p), (T \ {p}) \cup {p})
        BY <3>1, <3>2, <3>3, ListAppend
      <3> QED BY <3>3, <3>4
    <2> QED BY <2>1, <2>2
  <1>2. ASSUME NEW T \in SUBSET C, \A x \in T : T \ {x} \in I
        PROVE  T \in I
    BY <1>1, <1>2
  <1> HIDE DEF I
  <1>3. C \in I
    <2>1. \A T \in SUBSET C : T \in I
      BY <1>2, SetInduction
    <2> QED BY <2>1
  <1> QED BY <1>3 DEF I

\* What the sort leaves is the list of the candidates.
LEMMA SortedIsList ==
  ASSUME NEW C, IsFiniteSet(C), Sorted(es, C)
  PROVE  Lists(es, SortedCands(C), C)
  <1> DEFINE P(s) == /\ \A u \in C : \E i \in DOMAIN s : s[i] = u
                     /\ \A i, j \in DOMAIN s : i < j => Less(s[i], s[j])
             n == Cardinality(C)
             s0 == SortedCands(C)
  <1>1. \A u, v \in C : Less(u, v) <=> Precedes(es, u, v)
    <2> SUFFICES ASSUME NEW u \in C, NEW v \in C
                 PROVE  Less(u, v) <=> Precedes(es, u, v)
      OBVIOUS
    <2>1. es[u].points \in Int /\ es[v].points \in Int /\ u \in Nat /\ v \in Nat
      BY DEF Sorted
    <2> QED BY <2>1 DEF Less, Precedes
  <1>2. PICK t : Lists(es, t, C)
    BY ListExists
  <1>3. t \in Seq(C) /\ Len(t) = n /\ n \in Nat
    BY <1>2, ListLength, FS_CardinalityType DEF Lists
  <1>4. t \in [1 .. n -> C] /\ DOMAIN t = 1 .. n
    BY <1>3
  <1> HIDE DEF n
  <1>5. P(t)
    <2>1. ASSUME NEW i \in 1 .. n, NEW j \in 1 .. n, i < j
          PROVE  Less(t[i], t[j])
      <3>1. Precedes(es, t[i], t[j])
        BY <1>2, <1>3, <2>1 DEF Lists
      <3> QED BY <1>1, <1>4, <3>1
    <2>2. \A u \in C : \E i \in 1 .. n : t[i] = u
      BY <1>2, <1>3 DEF Lists
    <2> QED BY <1>4, <2>1, <2>2
  <1>6. s0 = CHOOSE s \in [1 .. n -> C] : P(s)
    BY DEF SortedCands, n
  <1> HIDE DEF P, s0
  <1>7. s0 \in [1 .. n -> C] /\ P(s0)
    BY <1>4, <1>5, <1>6
  <1>8. s0 \in Seq(C) /\ Len(s0) = n /\ DOMAIN s0 = 1 .. n
    BY <1>3, <1>7
  <1>9. \A i, j \in 1 .. n : i < j => Precedes(es, s0[i], s0[j])
    BY <1>1, <1>7, <1>8 DEF P
  <1>10. \A u \in C : \E i \in 1 .. n : s0[i] = u
    BY <1>7, <1>8 DEF P
  <1>11. Lists(es, s0, C)
    BY <1>8, <1>9, <1>10, Zenon DEF Lists
  <1> QED BY <1>11 DEF s0

\* The cut of the list is the list of the best candidates.
LEMMA CutIsBest ==
  ASSUME NEW e, NEW C, Sorted(e, C), NEW s, Lists(e, s, C)
  PROVE  Lists(e, CutToTopN(s), Best(e, C))
  <1> DEFINE n == Len(s)
             Ahead(u) == {v \in C : Precedes(e, v, u)}
  <1>1. s \in Seq(C) /\ n \in Nat /\ \A i \in 1 .. n : s[i] \in C
    BY DEF Lists
  <1>2. ASSUME NEW i \in 1 .. n PROVE Cardinality(Ahead(s[i])) = i - 1
    <2> DEFINE U == {s[j] : j \in 1 .. i - 1}
    <2>1. i - 1 \in Nat /\ i - 1 <= n
      BY <1>1
    <2>2. Lists(e, SubSeq(s, 1, i - 1), U)
      BY <2>1, ListFront
    <2>3. Len(SubSeq(s, 1, i - 1)) = i - 1
      BY <1>1, <2>1
    <2>4. U \in SUBSET C
      BY <1>1, <2>1
    <2>5. Cardinality(U) = i - 1
      BY <2>2, <2>3, <2>4, ListLength, Zenon
    <2>6. ASSUME NEW v \in C, Precedes(e, v, s[i]) PROVE v \in U
      <3>1. PICK j \in 1 .. n : s[j] = v
        BY DEF Lists
      <3>2. j # i /\ ~(i < j)
        <4>1. i < j => Precedes(e, s[i], s[j])
          BY DEF Lists
        <4> QED BY <1>1, <2>6, <3>1, <4>1, SortOrder
      <3>3. j \in 1 .. i - 1
        BY <1>1, <3>2
      <3> QED BY <3>1, <3>3
    <2>7. ASSUME NEW j \in 1 .. i - 1 PROVE Precedes(e, s[j], s[i])
      <3>1. j \in 1 .. n /\ j < i
        BY <1>1
      <3> QED BY <3>1 DEF Lists
    <2>8. Ahead(s[i]) = U
      BY <2>4, <2>6, <2>7
    <2> QED BY <2>5, <2>8
  <1>3. \A u \in C : \E i \in 1 .. n : s[i] = u
    BY DEF Lists
  <1>4. TopN \in Nat \ {0}
    BY TopNAssumption
  <1>5. Best(e, C) = {u \in C : Cardinality(Ahead(u)) < TopN}
    BY DEF Best
  <1> HIDE DEF n, Ahead
  <1>6. CASE n > TopN
    <2>1. CutToTopN(s) = SubSeq(s, 1, TopN)
      BY <1>6 DEF CutToTopN, n
    <2>2. Lists(e, SubSeq(s, 1, TopN), {s[i] : i \in 1 .. TopN})
      <3>1. TopN \in Nat /\ TopN <= Len(s)
        BY <1>1, <1>4, <1>6 DEF n
      <3> QED BY <3>1, ListFront
    <2>3. ASSUME NEW u \in C
          PROVE  Cardinality(Ahead(u)) < TopN <=> \E i \in 1 .. TopN : s[i] = u
      <3>1. PICK i \in 1 .. n : s[i] = u
        BY <1>3
      <3>2. Cardinality(Ahead(u)) = i - 1
        BY <1>2, <3>1
      <3>3. ASSUME NEW j \in 1 .. TopN, s[j] = u
            PROVE  Cardinality(Ahead(u)) = j - 1 /\ j \in Int /\ j <= TopN
        <4>1. j \in 1 .. n
          BY <1>1, <1>4, <1>6
        <4> QED BY <1>2, <1>4, <3>3, <4>1
      <3>4. i - 1 < TopN => i \in 1 .. TopN
        BY <1>1, <1>4
      <3> QED BY <3>1, <3>2, <3>3, <3>4, <1>4
    <2>4. \A i \in 1 .. TopN : s[i] \in C
      BY <1>1, <1>4, <1>6
    <2>5. Best(e, C) = {s[i] : i \in 1 .. TopN}
      BY <1>5, <2>3, <2>4
    <2> QED BY <2>1, <2>2, <2>5
  <1>7. CASE ~(n > TopN)
    <2>1. CutToTopN(s) = s
      BY <1>7 DEF CutToTopN, n
    <2>2. ASSUME NEW u \in C PROVE Cardinality(Ahead(u)) < TopN
      <3>1. PICK i \in 1 .. n : s[i] = u
        BY <1>3
      <3>2. Cardinality(Ahead(u)) = i - 1
        BY <1>2, <3>1
      <3> QED BY <1>1, <1>4, <1>7, <3>2
    <2>3. Best(e, C) = C
      BY <1>5, <2>2
    <2> QED BY <2>1, <2>3
  <1> QED BY <1>6, <1>7

Resting == INSTANCE FoldFacts WITH Op <- KeepRested
Older == INSTANCE FoldFacts WITH Op <- OlderOf
Summing == INSTANCE FoldFacts WITH Op <- AddPoints
Scanning == INSTANCE FoldFacts WITH Op <- NextCand

\* The loops are folds.
LEMMA LoopsAreFolds ==
  /\ \A s : Eligible(s) = Resting!Fold(<<>>, s)
  /\ \A s : ScanLeastRecent(s) = Older!Fold(Head(s), Tail(s))
  /\ \A s : SumOf(s) = Summing!Fold(0, s)
  /\ \A s, r : ScanWeighted(s, r) = Scanning!Fold(ScanFrom(r), s).at
  <1>1. \A s : Eligible(s) = Resting!Fold(<<>>, s)
    BY Zenon DEF Eligible, Resting!Fold, Resting!FoldLeft, FoldLeft,
                 Resting!MapThenFoldSet, MapThenFoldSet, Resting!Max, Max
  <1>2. \A s : ScanLeastRecent(s) = Older!Fold(Head(s), Tail(s))
    BY Zenon DEF ScanLeastRecent, Older!Fold, Older!FoldLeft, FoldLeft,
                 Older!MapThenFoldSet, MapThenFoldSet, Older!Max, Max
  <1>3. \A s : SumOf(s) = Summing!Fold(0, s)
    BY Zenon DEF SumOf, Summing!Fold, Summing!FoldLeft, FoldLeft,
                 Summing!MapThenFoldSet, MapThenFoldSet, Summing!Max, Max
  <1>4. \A s, r : ScanWeighted(s, r) = Scanning!Fold(ScanFrom(r), s).at
    BY Zenon DEF ScanWeighted, Scanning!Fold, Scanning!FoldLeft, FoldLeft,
                 Scanning!MapThenFoldSet, MapThenFoldSet, Scanning!Max, Max
  <1> QED BY <1>1, <1>2, <1>3, <1>4

\* The accounts have points, and times of use.
Typed(C) == Sorted(es, C) /\ \A u \in C : es[u].lastUsed \in Int

\* The loop over the window keeps the rested candidates, in order.
LEMMA EligibleIsRested ==
  ASSUME NEW C, Typed(C), NEW T \in SUBSET C, NEW s, Lists(es, s, T)
  PROVE  Lists(es, Eligible(s), {u \in T : Rested(es, now, u)})
  <1> DEFINE Kept(U) == {u \in U : Rested(es, now, u)}
             I == {p \in Seq(C) \X SUBSET C :
                     Lists(es, Resting!Fold(<<>>, p[1]), Kept(p[2]))}
  <1>1. <<<<>>, {}>> \in I
    <2>1. <<>> \in Seq(C) /\ {} \in SUBSET C /\ Kept({}) = {}
      OBVIOUS
    <2>2. <<>> \in Seq({}) /\ 1 .. Len(<<>>) = {}
      OBVIOUS
    <2>3. Lists(es, <<>>, {})
      BY <2>2, Zenon DEF Lists
    <2>4. Resting!Fold(<<>>, <<>>) = <<>>
      BY Resting!FoldEmpty, Zenon
    <2> QED BY <2>1, <2>3, <2>4
  <1>2. ASSUME NEW U \in SUBSET C, NEW t \in Seq(U), NEW x \in C,
               Lists(es, t, U), \A u \in U : Precedes(es, u, x), <<t, U>> \in I
        PROVE  <<Append(t, x), U \cup {x}>> \in I
    <2> DEFINE kept == Resting!Fold(<<>>, t)
    <2>1. t \in Seq(C)
      BY <1>2
    <2>2. Resting!Fold(<<>>, Append(t, x)) = KeepRested(kept, x)
      BY <2>1, Resting!FoldAppend, Zenon
    <2>3. Lists(es, kept, Kept(U))
      BY <1>2
    <2> HIDE DEF kept, I
    <2>4. Lists(es, KeepRested(kept, x), Kept(U \cup {x}))
      <3>1. CASE Rested(es, now, x)
        <4>1. KeepRested(kept, x) = Append(kept, x)
          BY <3>1 DEF KeepRested, Rested
        <4>2. Kept(U \cup {x}) = Kept(U) \cup {x}
          BY <3>1
        <4>3. Kept(U) \in SUBSET C /\ \A u \in Kept(U) : Precedes(es, u, x)
          BY <1>2
        <4>4. Sorted(es, C)
          BY DEF Typed
        <4> HIDE DEF Kept
        <4>5. Lists(es, Append(kept, x), Kept(U) \cup {x})
          BY <2>3, <4>3, <4>4, ListAppend
        <4> QED BY <4>1, <4>2, <4>5
      <3>2. CASE ~Rested(es, now, x)
        <4>1. KeepRested(kept, x) = kept
          BY <3>2 DEF KeepRested, Rested
        <4>2. Kept(U \cup {x}) = Kept(U)
          BY <3>2
        <4> QED BY <2>3, <4>1, <4>2
      <3> QED BY <3>1, <3>2
    <2>5. Append(t, x) \in Seq(C) /\ U \cup {x} \in SUBSET C
      BY <2>1
    <2> QED BY <2>2, <2>4, <2>5 DEF I
  <1>3. \A U \in SUBSET C : \A t \in Seq(U) : \A x \in C :
            /\ Lists(es, t, U)
            /\ \A u \in U : Precedes(es, u, x)
            /\ <<t, U>> \in I
            => <<Append(t, x), U \cup {x}>> \in I
    BY <1>2
  <1> HIDE DEF I
  <1>4. <<s, T>> \in I
    BY <1>1, <1>3, ListInduction, Zenon DEF Typed
  <1>5. Lists(es, Resting!Fold(<<>>, s), Kept(T))
    BY <1>4 DEF I
  <1> QED BY <1>5, LoopsAreFolds

\* One more candidate, after all others, adds its points.
LEMMA PointsGrow ==
  ASSUME NEW C, Typed(C), NEW U \in SUBSET C, NEW t, Lists(es, t, U),
         NEW x \in C, \A u \in U : Precedes(es, u, x)
  PROVE  /\ TotalPoints(es, U \cup {x}) = TotalPoints(es, U) + es[x].points
         /\ TotalPoints(es, U) \in Int /\ es[x].points \in Int
  <1>1. Sorted(es, C)
    BY DEF Typed
  <1>2. x \notin U /\ Lists(es, Append(t, x), U \cup {x})
    BY <1>1, ListAppend
  <1>3. IsFiniteSet(U \cup {x}) /\ IsFiniteSet(U)
    <2>1. U \cup {x} \in SUBSET C
      OBVIOUS
    <2> QED BY <1>1, <1>2, <2>1, ListLength
  <1>4. \A u \in U \cup {x} : es[u].points \in Int
    BY <1>1 DEF Sorted
  <1>5. /\ TotalPoints(es, U \cup {x})
              = es[x].points + TotalPoints(es, (U \cup {x}) \ {x})
        /\ TotalPoints(es, U) \in Int
    BY <1>3, <1>4, PointsOfOne
  <1>6. (U \cup {x}) \ {x} = U /\ es[x].points \in Int
    BY <1>2, <1>4
  <1>7. TotalPoints(es, U \cup {x}) = es[x].points + TotalPoints(es, U)
    BY <1>5, <1>6
  <1> QED BY <1>5, <1>6, <1>7

\* The sum over the list is that of the set.
LEMMA SumIsTotal ==
  ASSUME NEW C, Typed(C), NEW T \in SUBSET C, NEW s, Lists(es, s, T)
  PROVE  SumOf(s) = TotalPoints(es, T)
  <1> DEFINE I == {p \in Seq(C) \X SUBSET C :
                     Summing!Fold(0, p[1]) = TotalPoints(es, p[2])}
  <1>1. <<<<>>, {}>> \in I
    <2>1. Summing!Fold(0, <<>>) = 0
      BY Summing!FoldEmpty, Zenon
    <2>2. TotalPoints(es, {}) = 0
      <3>1. IsFiniteSet({}) /\ \A u \in {} : es[u].points \in Int
        BY FS_EmptySet
      <3> QED BY <3>1, PointsOfOne, Zenon
    <2>3. <<>> \in Seq(C) /\ {} \in SUBSET C
      OBVIOUS
    <2> QED BY <2>1, <2>2, <2>3
  <1>2. ASSUME NEW U \in SUBSET C, NEW t \in Seq(U), NEW x \in C,
               Lists(es, t, U), \A u \in U : Precedes(es, u, x), <<t, U>> \in I
        PROVE  <<Append(t, x), U \cup {x}>> \in I
    <2>1. t \in Seq(C)
      BY <1>2
    <2>2. Summing!Fold(0, Append(t, x)) = Summing!Fold(0, t) + es[x].points
      BY <2>1, Summing!FoldAppend, Zenon DEF AddPoints
    <2>3. TotalPoints(es, U \cup {x}) = TotalPoints(es, U) + es[x].points
      BY <1>2, PointsGrow
    <2>4. Summing!Fold(0, t) = TotalPoints(es, U)
      BY <1>2
    <2>5. Summing!Fold(0, Append(t, x)) = TotalPoints(es, U \cup {x})
      BY <2>2, <2>3, <2>4, Zenon
    <2>6. Append(t, x) \in Seq(C) /\ U \cup {x} \in SUBSET C
      BY <2>1
    <2> QED BY <2>5, <2>6
  <1>3. \A U \in SUBSET C : \A t \in Seq(U) : \A x \in C :
            /\ Lists(es, t, U)
            /\ \A u \in U : Precedes(es, u, x)
            /\ <<t, U>> \in I
            => <<Append(t, x), U \cup {x}>> \in I
    BY <1>2
  <1> HIDE DEF I
  <1>4. <<s, T>> \in I
    BY <1>1, <1>3, ListInduction, Zenon DEF Typed
  <1> QED BY <1>4, LoopsAreFolds DEF I

\* The scan of the fallback finds the candidate used the longest ago.
LEMMA ScanFindsOldest ==
  ASSUME NEW C, Typed(C), NEW T \in SUBSET C, NEW s, Lists(es, s, T), T # {}
  PROVE  LeastRecentlyUsed(es, T) = {ScanLeastRecent(s)}
  <1> DEFINE Oldest(t) == Older!Fold(Head(t), Tail(t))
             I == {p \in Seq(C) \X SUBSET C :
                     p[1] # <<>> =>
                        LeastRecentlyUsed(es, p[2]) = {Oldest(p[1])}}
  <1>1. <<<<>>, {}>> \in I
    <2>1. <<>> \in Seq(C) /\ {} \in SUBSET C
      OBVIOUS
    <2> QED BY <2>1
  <1>2. ASSUME NEW U \in SUBSET C, NEW t \in Seq(U), NEW x \in C,
               Lists(es, t, U), \A u \in U : Precedes(es, u, x), <<t, U>> \in I
        PROVE  <<Append(t, x), U \cup {x}>> \in I
    <2>1. t \in Seq(C) /\ Append(t, x) \in Seq(C) /\ U \cup {x} \in SUBSET C
      BY <1>2
    <2>2. CASE t = <<>>
      <3>1. 1 .. Len(t) = {}
        BY <2>2
      <3>2. U = {}
        BY <1>2, <3>1, Zenon DEF Lists
      <3>3. Head(Append(t, x)) = x /\ Tail(Append(t, x)) = <<>>
        BY <2>2
      <3>4. Oldest(Append(t, x)) = x
        BY <3>3, Older!FoldEmpty, Zenon
      <3>5. LeastRecentlyUsed(es, U \cup {x}) = {x}
        BY <3>2 DEF LeastRecentlyUsed
      <3> QED BY <2>1, <3>4, <3>5
    <2>3. CASE t # <<>>
      <3> DEFINE o == Oldest(t)
                 lru == LeastRecentlyUsed(es, U)
      <3>1. /\ Head(Append(t, x)) = Head(t)
            /\ Tail(Append(t, x)) = Append(Tail(t), x)
            /\ Tail(t) \in Seq(C)
        BY <2>1, <2>3
      <3>2. Oldest(Append(t, x)) = OlderOf(o, x)
        BY <3>1, Older!FoldAppend, Zenon
      <3>3. lru = {o}
        BY <1>2, <2>3
      <3> HIDE DEF o, I, Oldest
      <3>4. /\ o \in U
            /\ \A v \in U \ {o} :
                  \/ es[o].lastUsed < es[v].lastUsed
                  \/ es[o].lastUsed = es[v].lastUsed /\ Precedes(es, o, v)
        BY <3>3 DEF LeastRecentlyUsed
      <3>5. \A v \in C : es[v].lastUsed \in Int
        BY DEF Typed
      <3>6. Precedes(es, o, x) /\ o \in C /\ ~Precedes(es, x, o) /\ x \notin U
        <4>1. Precedes(es, o, x) /\ o \in C
          BY <1>2, <3>4
        <4>2. Sorted(es, C)
          BY DEF Typed
        <4>3. ~Precedes(es, x, o)
          BY <4>1, <4>2, SortOrder
        <4> QED BY <1>2, <4>1, <4>2, <4>3, ListAppend
      <3>7. CASE es[x].lastUsed < es[o].lastUsed
        <4>1. OlderOf(o, x) = x
          BY <3>7 DEF OlderOf
        <4>2. \A v \in U : es[x].lastUsed < es[v].lastUsed
          <5>1. \A v \in U : es[o].lastUsed <= es[v].lastUsed
            <6> SUFFICES ASSUME NEW v \in U
                         PROVE  es[o].lastUsed <= es[v].lastUsed
              OBVIOUS
            <6>1. es[o].lastUsed \in Int /\ es[v].lastUsed \in Int
              BY <3>5, <3>6
            <6> QED BY <3>4, <6>1
          <5>2. \A v \in U : v \in C
            OBVIOUS
          <5> QED BY <3>5, <3>6, <3>7, <5>1, <5>2
        <4>3. x \in LeastRecentlyUsed(es, U \cup {x})
          BY <4>2 DEF LeastRecentlyUsed
        <4>4. ASSUME NEW w \in U PROVE w \notin LeastRecentlyUsed(es, U \cup {x})
          <5>1. es[w].lastUsed \in Int /\ es[x].lastUsed \in Int
            BY <3>5
          <5>2. es[x].lastUsed < es[w].lastUsed /\ x # w
            BY <3>6, <4>2
          <5>3. ~(es[w].lastUsed < es[x].lastUsed) /\ es[w].lastUsed # es[x].lastUsed
            BY <5>1, <5>2
          <5> QED BY <5>2, <5>3 DEF LeastRecentlyUsed
        <4>5. LeastRecentlyUsed(es, U \cup {x}) \subseteq U \cup {x}
          BY DEF LeastRecentlyUsed
        <4>6. LeastRecentlyUsed(es, U \cup {x}) = {x}
          BY <4>3, <4>4, <4>5
        <4> QED BY <2>1, <3>2, <4>1, <4>6 DEF I
      <3>8. CASE ~(es[x].lastUsed < es[o].lastUsed)
        <4>1. OlderOf(o, x) = o
          BY <3>8 DEF OlderOf
        <4>2. es[o].lastUsed < es[x].lastUsed \/ es[o].lastUsed = es[x].lastUsed
          BY <3>5, <3>6, <3>8
        <4>3. o \in LeastRecentlyUsed(es, U \cup {x})
          BY <3>4, <3>6, <4>2 DEF LeastRecentlyUsed
        <4>4. x \notin LeastRecentlyUsed(es, U \cup {x})
          BY <3>4, <3>6, <3>8 DEF LeastRecentlyUsed
        <4>5. ASSUME NEW w \in U, w \in LeastRecentlyUsed(es, U \cup {x})
              PROVE  w = o
          <5>1. w \in lru
            BY <4>5 DEF LeastRecentlyUsed
          <5> QED BY <3>3, <5>1
        <4>6. LeastRecentlyUsed(es, U \cup {x}) \subseteq U \cup {x}
          BY DEF LeastRecentlyUsed
        <4>7. LeastRecentlyUsed(es, U \cup {x}) = {o}
          BY <4>3, <4>4, <4>5, <4>6
        <4> QED BY <2>1, <3>2, <4>1, <4>7 DEF I
      <3> QED BY <3>7, <3>8
    <2> QED BY <2>2, <2>3
  <1>3. \A U \in SUBSET C : \A t \in Seq(U) : \A x \in C :
            /\ Lists(es, t, U)
            /\ \A u \in U : Precedes(es, u, x)
            /\ <<t, U>> \in I
            => <<Append(t, x), U \cup {x}>> \in I
    BY <1>2
  <1> HIDE DEF I, Oldest
  <1>4. <<s, T>> \in I
    BY <1>1, <1>3, ListInduction, Zenon DEF Typed
  <1>5. s # <<>>
    <2>1. s = <<>> => 1 .. Len(s) = {}
      OBVIOUS
    <2> QED BY <2>1, Zenon DEF Lists
  <1>6. LeastRecentlyUsed(es, T) = {Oldest(s)}
    BY <1>4, <1>5 DEF I
  <1> QED BY <1>6, LoopsAreFolds DEF Oldest

\* There is one first and one last candidate.
LEMMA OnlyFirst ==
  ASSUME NEW e, NEW C, Sorted(e, C), NEW H \in SUBSET C, NEW a \in H,
         \A v \in H \ {a} : Precedes(e, a, v)
  PROVE  {u \in H : \A v \in H \ {u} : Precedes(e, u, v)} = {a}
  <1>1. ASSUME NEW u \in H, u # a, \A v \in H \ {u} : Precedes(e, u, v)
        PROVE  FALSE
    <2>1. Precedes(e, u, a) /\ Precedes(e, a, u) /\ u \in C /\ a \in C
      BY <1>1
    <2> QED BY <2>1, SortOrder
  <1> QED BY <1>1

LEMMA OnlyLast ==
  ASSUME NEW e, NEW C, Sorted(e, C), NEW H \in SUBSET C, NEW a \in H,
         \A v \in H \ {a} : Precedes(e, v, a)
  PROVE  {u \in H : \A v \in H \ {u} : Precedes(e, v, u)} = {a}
  <1>1. ASSUME NEW u \in H, u # a, \A v \in H \ {u} : Precedes(e, v, u)
        PROVE  FALSE
    <2>1. Precedes(e, u, a) /\ Precedes(e, a, u) /\ u \in C /\ a \in C
      BY <1>1
    <2> QED BY <2>1, SortOrder
  <1> QED BY <1>1

\* The candidates at which the loop of pickWeighted may return, with r.
Hits(T, r) == {u \in T : r < Acc(es, T, u)}

\* One more candidate, after all others.
LEMMA HitsGrow ==
  ASSUME NEW C, Typed(C), NEW U \in SUBSET C, NEW t, Lists(es, t, U),
         NEW x \in C, \A u \in U : Precedes(es, u, x), NEW r
  PROVE  /\ Hits(U, r) \subseteq Hits(U \cup {x}, r)
         /\ Hits(U \cup {x}, r) \subseteq Hits(U, r) \cup {x}
         /\ x \in Hits(U \cup {x}, r) <=> r < TotalPoints(es, U \cup {x})
         /\ x \notin U
  <1>1. Sorted(es, C)
    BY DEF Typed
  <1>2. x \notin U
    BY <1>1, ListAppend
  <1>3. ASSUME NEW u \in U PROVE Acc(es, U \cup {x}, u) = Acc(es, U, u)
    <2>1. x # u /\ ~Precedes(es, x, u)
      BY <1>1, <1>2, SortOrder
    <2>2. {v \in U \cup {x} : v = u \/ Precedes(es, v, u)}
             = {v \in U : v = u \/ Precedes(es, v, u)}
      BY <2>1
    <2> QED BY <2>2, Zenon DEF Acc
  <1>4. Acc(es, U \cup {x}, x) = TotalPoints(es, U \cup {x})
    <2>1. {v \in U \cup {x} : v = x \/ Precedes(es, v, x)} = U \cup {x}
      OBVIOUS
    <2> QED BY <2>1, Zenon DEF Acc
  <1> QED BY <1>2, <1>3, <1>4 DEF Hits

\* What the scan knows after the candidates T.
Scanned(st, T, r) ==
  /\ st.r = r /\ st.acc \in Int
  /\ Hits(T, r) = {} =>
        /\ st.acc = TotalPoints(es, T) /\ ~(r < st.acc)
        /\ T # {} => /\ st.at \in T
                     /\ \A v \in T \ {st.at} : Precedes(es, v, st.at)
  /\ Hits(T, r) # {} =>
        /\ r < st.acc /\ st.at \in Hits(T, r)
        /\ \A v \in Hits(T, r) \ {st.at} : Precedes(es, st.at, v)

LEMMA ScanGrows ==
  ASSUME NEW C, Typed(C), NEW U \in SUBSET C, NEW t, Lists(es, t, U),
         NEW x \in C, \A u \in U : Precedes(es, u, x), NEW r \in Nat,
         NEW st, Scanned(st, U, r)
  PROVE  Scanned(NextCand(st, x), U \cup {x}, r)
  <1> DEFINE next == [r |-> st.r, acc |-> st.acc + es[x].points, at |-> x]
  <1>1. /\ Hits(U, r) \subseteq Hits(U \cup {x}, r)
        /\ Hits(U \cup {x}, r) \subseteq Hits(U, r) \cup {x}
        /\ x \in Hits(U \cup {x}, r) <=> r < TotalPoints(es, U \cup {x})
        /\ x \notin U
    BY HitsGrow
  <1>2. /\ TotalPoints(es, U \cup {x}) = TotalPoints(es, U) + es[x].points
        /\ TotalPoints(es, U) \in Int /\ es[x].points \in Int
    BY PointsGrow
  <1>3. Hits(U, r) \subseteq U
    BY DEF Hits
  <1>4. CASE Hits(U, r) # {}
    <2>1. NextCand(st, x) = st
      BY <1>4 DEF NextCand, Scanned
    <2>2. /\ r < st.acc /\ st.at \in Hits(U, r)
          /\ \A v \in Hits(U, r) \ {st.at} : Precedes(es, st.at, v)
          /\ st.r = r /\ st.acc \in Int
      BY <1>4 DEF Scanned
    <2>3. Precedes(es, st.at, x)
      BY <1>3, <2>2
    <2>4. \A v \in Hits(U \cup {x}, r) \ {st.at} : Precedes(es, st.at, v)
      BY <1>1, <2>2, <2>3
    <2>5. st.at \in Hits(U \cup {x}, r)
      BY <1>1, <2>2
    <2> QED BY <2>1, <2>2, <2>4, <2>5 DEF Scanned
  <1>5. CASE Hits(U, r) = {}
    <2>1. st.r = r /\ st.acc = TotalPoints(es, U) /\ ~(r < st.acc)
      BY <1>5 DEF Scanned
    <2>2. NextCand(st, x) = next
      BY <2>1 DEF NextCand
    <2>3. /\ next.r = r /\ next.at = x
          /\ next.acc = TotalPoints(es, U \cup {x}) /\ next.acc \in Int
      BY <1>2, <2>1
    <2> HIDE DEF next
    <2>4. CASE r < TotalPoints(es, U \cup {x})
      <3>1. Hits(U \cup {x}, r) = {x}
        BY <1>1, <1>5, <2>4
      <3> QED BY <2>2, <2>3, <2>4, <3>1 DEF Scanned
    <2>5. CASE ~(r < TotalPoints(es, U \cup {x}))
      <3>1. Hits(U \cup {x}, r) = {}
        BY <1>1, <1>5, <2>5
      <3>2. \A v \in (U \cup {x}) \ {x} : Precedes(es, v, x)
        OBVIOUS
      <3> QED BY <2>2, <2>3, <2>5, <3>1, <3>2 DEF Scanned
    <2> QED BY <2>4, <2>5
  <1> QED BY <1>4, <1>5

\* The loop returns the account that Drawn says.
LEMMA ScanDraws ==
  ASSUME NEW C, Typed(C), NEW T \in SUBSET C, NEW s, Lists(es, s, T), T # {},
         NEW r \in Nat
  PROVE  Drawn(es, T, r) = {ScanWeighted(s, r)}
  <1> DEFINE St(t) == Scanning!Fold(ScanFrom(r), t)
             I == {p \in Seq(C) \X SUBSET C : Scanned(St(p[1]), p[2], r)}
  <1>1. <<<<>>, {}>> \in I
    <2>1. St(<<>>) = ScanFrom(r)
      BY Scanning!FoldEmpty, Zenon
    <2>2. TotalPoints(es, {}) = 0
      <3>1. IsFiniteSet({}) /\ \A u \in {} : es[u].points \in Int
        BY FS_EmptySet
      <3> QED BY <3>1, PointsOfOne, Zenon
    <2>3. Hits({}, r) = {}
      BY DEF Hits
    <2>4. ScanFrom(r).r = r /\ ScanFrom(r).acc = 0
      BY DEF ScanFrom
    <2>5. Scanned(ScanFrom(r), {}, r)
      BY <2>2, <2>3, <2>4 DEF Scanned
    <2>6. <<>> \in Seq(C) /\ {} \in SUBSET C
      OBVIOUS
    <2> HIDE DEF St
    <2> QED BY <2>1, <2>5, <2>6
  <1>2. ASSUME NEW U \in SUBSET C, NEW t \in Seq(U), NEW x \in C,
               Lists(es, t, U), \A u \in U : Precedes(es, u, x), <<t, U>> \in I
        PROVE  <<Append(t, x), U \cup {x}>> \in I
    <2>1. t \in Seq(C) /\ Append(t, x) \in Seq(C) /\ U \cup {x} \in SUBSET C
      BY <1>2
    <2>2. St(Append(t, x)) = NextCand(St(t), x)
      BY <2>1, Scanning!FoldAppend, Zenon
    <2> HIDE DEF St
    <2>3. Scanned(St(t), U, r)
      BY <1>2
    <2> HIDE DEF I
    <2>4. Scanned(NextCand(St(t), x), U \cup {x}, r)
      BY <1>2, <2>3, ScanGrows
    <2> QED BY <2>1, <2>2, <2>4 DEF I
  <1>3. \A U \in SUBSET C : \A t \in Seq(U) : \A x \in C :
            /\ Lists(es, t, U)
            /\ \A u \in U : Precedes(es, u, x)
            /\ <<t, U>> \in I
            => <<Append(t, x), U \cup {x}>> \in I
    BY <1>2
  <1> HIDE DEF I, St
  <1>4. <<s, T>> \in I
    BY <1>1, <1>3, ListInduction, Zenon DEF Typed
  <1>5. Scanned(St(s), T, r)
    BY <1>4 DEF I
  <1>6. ScanWeighted(s, r) = St(s).at
    BY LoopsAreFolds, Zenon DEF St
  <1>7. Sorted(es, C)
    BY DEF Typed
  <1>8. Hits(T, r) \in SUBSET C
    BY DEF Hits
  <1>9. CASE Hits(T, r) # {}
    <2>1. /\ St(s).at \in Hits(T, r)
          /\ \A v \in Hits(T, r) \ {St(s).at} : Precedes(es, St(s).at, v)
      BY <1>5, <1>9 DEF Scanned
    <2>2. {u \in Hits(T, r) : \A v \in Hits(T, r) \ {u} : Precedes(es, u, v)}
             = {St(s).at}
      BY <1>7, <1>8, <2>1, OnlyFirst
    <2> QED BY <1>6, <1>9, <2>2, Zenon DEF Drawn, Hits
  <1>10. CASE Hits(T, r) = {}
    <2>1. /\ St(s).at \in T
          /\ \A v \in T \ {St(s).at} : Precedes(es, v, St(s).at)
      BY <1>5, <1>10 DEF Scanned
    <2>2. {u \in T : \A v \in T \ {u} : Precedes(es, v, u)} = {St(s).at}
      BY <1>7, <2>1, OnlyLast
    <2> QED BY <1>6, <1>10, <2>2, Zenon DEF Drawn, Hits
  <1> QED BY <1>9, <1>10

\* From any candidates, the loops return what the policy allows.
LEMMA LoopsChoose ==
  ASSUME NEW C, Typed(C), IsFiniteSet(C), C # {}
  PROVE  PickChoices(es, now, C) = ReferenceChoices(C)
  <1> DEFINE best == Best(es, C)
             list == CutToTopN(SortedCands(C))
             kept == {u \in best : Rested(es, now, u)}
             eligible == Eligible(list)
             total == TotalPoints(es, kept)
  <1>1. Sorted(es, C)
    BY DEF Typed
  <1>2. Lists(es, list, best)
    BY <1>1, SortedIsList, CutIsBest
  <1>3. best \in SUBSET C /\ kept \in SUBSET C /\ kept \in SUBSET best
    BY DEF Best
  <1>4. Lists(es, eligible, kept)
    BY <1>2, <1>3, EligibleIsRested
  <1>5. best # {}
    <2> DEFINE s == SortedCands(C)
    <2>1. Lists(es, s, C)
      BY <1>1, SortedIsList
    <2>2. s \in Seq(C) /\ Len(s) # 0
      <3>1. s \in Seq(C) /\ \A u \in C : \E i \in 1 .. Len(s) : s[i] = u
        BY <2>1 DEF Lists
      <3> HIDE DEF s
      <3> QED BY <3>1
    <2>3. list \in Seq(best)
      BY <1>2 DEF Lists
    <2>4. Len(list) # 0
      <3> HIDE DEF s
      <3>1. TopN \in Nat /\ TopN # 0
        BY TopNAssumption
      <3>2. list = IF Len(s) > TopN THEN SubSeq(s, 1, TopN) ELSE s
        BY DEF CutToTopN, s
      <3> HIDE DEF list
      <3> QED BY <2>2, <3>1, <3>2
    <2> HIDE DEF list, best
    <2>5. list[1] \in best
      BY <2>3, <2>4
    <2> QED BY <2>5
  <1>6. PickChoices(es, now, C) =
           IF kept = {} THEN LeastRecentlyUsed(es, best)
                        ELSE WeightedDraw(es, kept)
    BY Zenon DEF PickChoices
  <1>7. ReferenceChoices(C) =
           IF eligible = <<>> THEN {ScanLeastRecent(list)}
           ELSE IF SumOf(eligible) <= 0 THEN ToSet(eligible)
           ELSE {ScanWeighted(eligible, r) : r \in 0 .. SumOf(eligible) - 1}
    BY Zenon DEF ReferenceChoices
  <1> HIDE DEF best, list, kept, eligible
  <1>8. eligible = <<>> <=> kept = {}
    <2>1. eligible \in Seq(kept)
      BY <1>4 DEF Lists
    <2>2. eligible = <<>> => 1 .. Len(eligible) = {}
      OBVIOUS
    <2>3. \A u \in kept : \E i \in 1 .. Len(eligible) : eligible[i] = u
      BY <1>4 DEF Lists
    <2>4. eligible # <<>> => eligible[1] \in kept
      BY <2>1
    <2> QED BY <2>2, <2>3, <2>4
  <1>9. CASE kept = {}
    <2>1. LeastRecentlyUsed(es, best) = {ScanLeastRecent(list)}
      BY <1>2, <1>3, <1>5, ScanFindsOldest
    <2> QED BY <1>6, <1>7, <1>8, <1>9, <2>1
  <1>10. CASE kept # {}
    <2>1. SumOf(eligible) = total
      BY <1>3, <1>4, SumIsTotal
    <2>2. ToSet(eligible) = kept
      <3>1. eligible \in Seq(kept)
        BY <1>4 DEF Lists
      <3>2. \A u \in kept : \E i \in 1 .. Len(eligible) : eligible[i] = u
        BY <1>4 DEF Lists
      <3>3. DOMAIN eligible = 1 .. Len(eligible)
        BY <3>1
      <3>4. \A i \in 1 .. Len(eligible) : eligible[i] \in kept
        BY <3>1
      <3> QED BY <3>2, <3>3, <3>4 DEF ToSet
    <2>3. \A r \in Nat : Drawn(es, kept, r) = {ScanWeighted(eligible, r)}
      BY <1>3, <1>4, <1>10, ScanDraws
    <2> HIDE DEF total
    <2>4. UNION {Drawn(es, kept, r) : r \in 0 .. total - 1}
             = {ScanWeighted(eligible, r) : r \in 0 .. total - 1}
      <3>1. \A r \in 0 .. total - 1 :
               Drawn(es, kept, r) = {ScanWeighted(eligible, r)}
        <4>1. \A r \in 0 .. total - 1 : r \in Nat
          OBVIOUS
        <4> QED BY <2>3, <4>1, Zenon
      <3> QED BY <3>1
    <2>5. WeightedDraw(es, kept) =
             IF total <= 0 THEN kept
             ELSE UNION {Drawn(es, kept, r) : r \in 0 .. total - 1}
      BY Zenon DEF WeightedDraw, total
    <2> QED BY <1>6, <1>7, <1>8, <1>10, <2>1, <2>2, <2>4, <2>5
  <1> QED BY <1>9, <1>10

-----------------------------------------------------------------------------
(* Sequences of picks                                                      *)

PicksInv ==
  /\ es \in [Accounts -> [points : Int, lastUsed : Nat]]
  /\ now \in Nat

\* A pick gives an account of its candidates the time of the clock.
LEMMA PicksTyped == MCSpec => []PicksInv
  <1>1. MCInit => PicksInv
    BY MCAssumption DEF MCInit, PicksInv, PointValues, Zero
  <1>2. ASSUME PicksInv, [MCNext]_mcVars PROVE PicksInv'
    <2>1. ASSUME NEW u \in Accounts, MCPick(u) PROVE PicksInv'
      BY <1>2, <2>1 DEF MCPick, PicksInv
    <2>2. CASE MCNewRequest
      BY <1>2, <2>2 DEF MCNewRequest, PicksInv
    <2>3. CASE MCTick
      BY <1>2, <2>3 DEF MCTick, PicksInv
    <2>4. CASE UNCHANGED mcVars
      BY <1>2, <2>4 DEF mcVars, PicksInv
    <2> QED BY <1>2, <2>1, <2>2, <2>3, <2>4 DEF MCNext
  <1> QED BY <1>1, <1>2, PTL DEF MCSpec

\* The set-based policy is the loops of PickExcluding and pickWeighted, for any
\* number of candidates, any cut and any window.
THEOREM PolicyIsLoops == MCSpec => []MatchesReference
  <1>1. PicksInv => MatchesReference
    <2> SUFFICES ASSUME PicksInv, NEW C \in (SUBSET Accounts) \ {{}}
                 PROVE  PickChoices(es, now, C) = ReferenceChoices(C)
      BY Zenon DEF MatchesReference
    <2>0. C \in SUBSET Accounts /\ C # {}
      OBVIOUS
    <2>1. IsFiniteSet(C) /\ C \subseteq Nat
      BY <2>0, MCAssumption, FS_Subset
    <2>2. \A u \in C : es[u].points \in Int /\ es[u].lastUsed \in Int
      BY <2>0 DEF PicksInv
    <2> QED BY <2>0, <2>1, <2>2, LoopsChoose DEF Typed, Sorted
  <1> QED BY <1>1, PicksTyped, PTL

\* The draw of pickWeighted is by points, for any number of candidates.
THEOREM DrawIsFair == MCSpec => []DrawnByPoints
  <1>1. PicksInv => DrawnByPoints
    <2> SUFFICES ASSUME PicksInv, \A u \in Cands : es[u].points >= 0,
                        NEW u \in Cands
                 PROVE  Cardinality({r \in 0 .. TotalPoints(es, Cands) - 1 :
                                        Drawn(es, Cands, r) = {u}})
                           = es[u].points
      BY DEF DrawnByPoints
    <2>1. Cands \subseteq Accounts /\ IsFiniteSet(Cands) /\ Cands \subseteq Nat
      BY MCAssumption, FS_Subset DEF Cands
    <2>2. \A v \in Cands : es[v].points \in Nat
      BY <2>1 DEF PicksInv
    <2> QED BY <2>1, <2>2, DrawnAsOften
  <1> QED BY <1>1, PicksTyped, PTL

\* What is drawn is eligible.
LEMMA DrawnIsOne == ASSUME NEW e, NEW C PROVE WeightedDraw(e, C) \subseteq C
  <1>1. \A r : Drawn(e, C, r) \subseteq C
    BY DEF Drawn
  <1> QED BY <1>1 DEF WeightedDraw

\* An account is picked again inside the window only if all that made the cut
\* were used inside it, and it was used the longest ago.
THEOREM PicksSpread == MCSpec => SpreadsWithinWindow
  <1>1. ASSUME PicksInv, [MCNext]_mcVars, NEW u \in tried' \ tried,
               ~Rested(es, now, u), NEW v \in Best(es, Cands)
        PROVE  ~Rested(es, now, v) /\ es[u].lastUsed <= es[v].lastUsed
    <2>1. MCPick(u)
      BY <1>1 DEF MCNext, MCPick, MCNewRequest, MCTick, mcVars
    <2> DEFINE best == Best(es, Cands)
               eligible == {w \in best : Rested(es, now, w)}
    <2>2. u \in IF eligible = {} THEN LeastRecentlyUsed(es, best)
                                 ELSE WeightedDraw(es, eligible)
      BY <2>1, Zenon DEF MCPick, PickChoices
    <2>3. eligible = {}
      BY <1>1, <2>2, DrawnIsOne
    <2>4. ~Rested(es, now, v)
      BY <2>3
    <2>5. u \in best /\ v \in best
      BY <2>2, <2>3 DEF LeastRecentlyUsed
    <2>6. es[u].lastUsed \in Nat /\ es[v].lastUsed \in Nat
      <3>1. u \in Accounts /\ v \in Accounts
        BY <2>5 DEF Best, Cands
      <3> QED BY <1>1, <3>1 DEF PicksInv
    <2>7. CASE u = v
      BY <2>4, <2>6, <2>7
    <2>8. CASE u # v
      <3>1. u \in LeastRecentlyUsed(es, best) /\ v \in best \ {u}
        BY <2>2, <2>3, <2>5, <2>8
      <3>2. es[u].lastUsed < es[v].lastUsed \/ es[u].lastUsed = es[v].lastUsed
        BY <3>1, Zenon DEF LeastRecentlyUsed
      <3> QED BY <2>4, <2>6, <3>2
    <2> QED BY <2>7, <2>8
  <1>2. PicksInv /\ [MCNext]_mcVars =>
           [\A u \in tried' \ tried :
               ~Rested(es, now, u) =>
                   \A v \in Best(es, Cands) :
                       /\ ~Rested(es, now, v)
                       /\ es[u].lastUsed <= es[v].lastUsed]_mcVars
    BY <1>1
  <1> QED BY <1>2, PicksTyped, PTL DEF MCSpec, SpreadsWithinWindow
=============================================================================
