------------------------------ MODULE FoldFacts ------------------------------
(***************************************************************************)
(* What FoldLeft computes, for any operator: it applies it to the elements *)
(* of a sequence from the first to the last.  The operator is a parameter  *)
(* of the module, so that an INSTANCE of it has these facts for one of the *)
(* folds of the models.  FoldLeft of SequencesExt is a recursive function  *)
(* over sets of indices, from which the greatest is taken.                 *)
(***************************************************************************)
EXTENDS Integers, SequencesExt, WellFoundedInduction, TLAPS

CONSTANT Op(_, _)

Fold(base, s) == FoldLeft(Op, base, s)

\* Induction, of a set: it has all numbers if it has zero and with each number
\* the next.
LEMMA Induction ==
    ASSUME NEW S, 0 \in S, \A n \in Nat : n \in S => n + 1 \in S
    PROVE  \A n \in Nat : n \in S
  <1> SUFFICES ASSUME NEW k \in Nat, k \notin S PROVE FALSE
    OBVIOUS
  <1> DEFINE R == OpToRel(<, Nat)
             Bad == {n \in Nat : n \notin S}
  <1>1. IsWellFoundedOn(R, Nat)
    BY NatLessThanWellFounded, Zenon
  <1>2. Bad \subseteq Nat /\ Bad # {}
    OBVIOUS
  <1>3. PICK n \in Bad : \A m \in Bad : <<m, n>> \notin R
    <2> HIDE DEF R, Bad
    <2> QED BY <1>1, <1>2, WFMin
  <1>4. \A m \in Nat : m < n => m \in S
    BY <1>3, Zenon DEF OpToRel
  <1>5. n # 0 /\ n - 1 \in Nat /\ n - 1 < n /\ (n - 1) + 1 = n
    OBVIOUS
  <1> QED BY <1>3, <1>4, <1>5

-----------------------------------------------------------------------------
(* The recursion is well defined                                           *)

\* The function FoldLeft defines over the sets of the first n indices.
Folds(g, n, base, seq) ==
    g = [s \in SUBSET (1 .. n) |->
            IF s = {} THEN base ELSE Op(g[s \ {Max(s)}], seq[Max(s)])]

\* Max is the greatest of a set of numbers that has one.
LEMMA MaxOf ==
    ASSUME NEW n \in Nat, NEW s \in SUBSET (1 .. n), NEW m \in s,
           \A i \in s : i <= m
    PROVE  Max(s) = m
  <1>1. \A i \in s : i \in Nat
    OBVIOUS
  <1>2. \A y \in s : m >= y
    BY <1>1
  <1>3. \A x \in s : (\A y \in s : x >= y) => x = m
    BY <1>1
  <1> QED BY <1>2, <1>3 DEF Max

\* There is such a function.
LEMMA FoldsExist ==
    ASSUME NEW n \in Nat, NEW base, NEW seq
    PROVE  \E g : Folds(g, n, base, seq)
  <1> DEFINE Defined == {k \in Nat : \E g : Folds(g, k, base, seq)}
  <1>1. 0 \in Defined
    <2> DEFINE g == [s \in SUBSET (1 .. 0) |-> base]
    <2>1. \A s \in SUBSET (1 .. 0) : s = {}
      BY SMT
    <2>2. Folds(g, 0, base, seq)
      BY <2>1 DEF Folds
    <2> QED BY <2>2
  <1>2. ASSUME NEW k \in Nat, k \in Defined PROVE k + 1 \in Defined
    <2>1. PICK g : Folds(g, k, base, seq)
      BY <1>2
    <2> DEFINE h == [s \in SUBSET (1 .. k + 1) |->
                        IF k + 1 \in s THEN Op(g[s \ {k + 1}], seq[k + 1])
                                       ELSE g[s]]
    <2>2. ASSUME NEW s \in SUBSET (1 .. k + 1)
          PROVE  h[s] = IF s = {} THEN base
                        ELSE Op(h[s \ {Max(s)}], seq[Max(s)])
      <3>1. CASE k + 1 \in s
        <4>1. Max(s) = k + 1
          <5>1. \A i \in s : i <= k + 1
            OBVIOUS
          <5> QED BY <3>1, <5>1, MaxOf
        <4>2. s \ {k + 1} \in SUBSET (1 .. k + 1) /\ k + 1 \notin s \ {k + 1}
          OBVIOUS
        <4> QED BY <3>1, <4>1, <4>2
      <3>2. CASE k + 1 \notin s
        <4>1. s \in SUBSET (1 .. k)
          BY <3>2
        <4>2. g[s] = IF s = {} THEN base ELSE Op(g[s \ {Max(s)}], seq[Max(s)])
          BY <2>1, <4>1 DEF Folds
        <4>3. s # {} => /\ s \ {Max(s)} \in SUBSET (1 .. k + 1)
                        /\ k + 1 \notin s \ {Max(s)}
          BY <3>2
        <4> QED BY <3>2, <4>2, <4>3
      <3> QED BY <3>1, <3>2
    <2>3. Folds(h, k + 1, base, seq)
      <3>1. h = [s \in SUBSET (1 .. k + 1) |-> h[s]]
        OBVIOUS
      <3> HIDE DEF h
      <3> QED BY <2>2, <3>1, Zenon DEF Folds
    <2> QED BY <2>3
  <1> HIDE DEF Defined
  <1>3. n \in Defined
    BY <1>1, <1>2, Induction
  <1> QED BY <1>3 DEF Defined

\* What it is of the first k + 1 indices.
LEMMA FoldsNext ==
    ASSUME NEW n \in Nat, NEW k \in Nat, k + 1 <= n, NEW base, NEW s, NEW g,
           Folds(g, n, base, s)
    PROVE  g[1 .. k + 1] = Op(g[1 .. k], s[k + 1])
  <1> DEFINE K == 1 .. k + 1
  <1>1. K \in SUBSET (1 .. n) /\ K # {} /\ K \ {k + 1} = 1 .. k
    BY SMT
  <1>2. Max(K) = k + 1
    <2>1. k + 1 \in Nat /\ k + 1 \in K /\ \A i \in K : i <= k + 1
      OBVIOUS
    <2> QED BY <1>1, <2>1, MaxOf
  <1> HIDE DEF K
  <1>3. g[K] = Op(g[K \ {Max(K)}], s[Max(K)])
    BY <1>1 DEF Folds
  <1> QED BY <1>1, <1>2, <1>3 DEF K

\* Two of them agree on the sets of the first indices, which are all that
\* FoldLeft asks for.
LEMMA FoldsAgree ==
    ASSUME NEW n \in Nat, NEW m \in Nat, NEW base, NEW s, NEW t, NEW g, NEW h,
           Folds(g, n, base, s), Folds(h, m, base, t),
           \A i \in 1 .. n : i <= m => s[i] = t[i]
    PROVE  \A k \in Nat : k <= n /\ k <= m => g[1 .. k] = h[1 .. k]
  <1> DEFINE Same == {k \in Nat : k <= n /\ k <= m => g[1 .. k] = h[1 .. k]}
  <1>1. 0 \in Same
    <2>1. 1 .. 0 = {} /\ {} \in SUBSET (1 .. n) /\ {} \in SUBSET (1 .. m)
      OBVIOUS
    <2>2. g[{}] = base /\ h[{}] = base
      BY <2>1, Zenon DEF Folds
    <2> QED BY <2>1, <2>2
  <1>2. ASSUME NEW k \in Nat, k \in Same PROVE k + 1 \in Same
    <2> SUFFICES ASSUME k + 1 <= n, k + 1 <= m
                 PROVE  g[1 .. k + 1] = h[1 .. k + 1]
      OBVIOUS
    <2>1. k + 1 \in 1 .. n /\ k <= n /\ k <= m
      OBVIOUS
    <2>3. /\ g[1 .. k + 1] = Op(g[1 .. k], s[k + 1])
          /\ h[1 .. k + 1] = Op(h[1 .. k], t[k + 1])
      BY FoldsNext
    <2>4. g[1 .. k] = h[1 .. k] /\ s[k + 1] = t[k + 1]
      BY <1>2, <2>1
    <2> QED BY <2>3, <2>4
  <1> HIDE DEF Same
  <1>3. \A k \in Nat : k \in Same
    BY <1>1, <1>2, Induction
  <1> QED BY <1>3 DEF Same

\* FoldLeft is such a function, of all indices of the sequence.
LEMMA FoldIsFolds ==
    ASSUME NEW n \in Nat, NEW base, NEW s, DOMAIN s = 1 .. n
    PROVE  \E g : Folds(g, n, base, s) /\ Fold(base, s) = g[1 .. n]
  <1> DEFINE g == CHOOSE g : Folds(g, n, base, s)
  <1>1. Folds(g, n, base, s)
    BY FoldsExist
  <1>2. Fold(base, s) = g[1 .. n]
    BY Zenon DEF Fold, FoldLeft, MapThenFoldSet, Folds
  <1> QED BY <1>1, <1>2

-----------------------------------------------------------------------------
(* The facts                                                               *)

\* Of an empty sequence.
LEMMA FoldEmpty == \A base : Fold(base, <<>>) = base
  <1> SUFFICES ASSUME NEW base PROVE Fold(base, <<>>) = base
    OBVIOUS
  <1>1. PICK g : Folds(g, 0, base, <<>>) /\ Fold(base, <<>>) = g[1 .. 0]
    <2>1. DOMAIN <<>> = 1 .. 0
      OBVIOUS
    <2> QED BY <2>1, FoldIsFolds
  <1>2. 1 .. 0 = {} /\ {} \in SUBSET (1 .. 0)
    OBVIOUS
  <1> QED BY <1>1, <1>2, Zenon DEF Folds

\* The operator is applied to the last element last.
LEMMA FoldAppend ==
    ASSUME NEW S, NEW s \in Seq(S), NEW x \in S, NEW base
    PROVE  Fold(base, Append(s, x)) = Op(Fold(base, s), x)
  <1> DEFINE n == Len(s)
             t == Append(s, x)
  <1>1. /\ n \in Nat /\ DOMAIN s = 1 .. n /\ DOMAIN t = 1 .. n + 1
        /\ \A i \in 1 .. n : s[i] = t[i]
        /\ t[n + 1] = x
    OBVIOUS
  <1> HIDE DEF n, t
  <1>2. PICK g : Folds(g, n, base, s) /\ Fold(base, s) = g[1 .. n]
    BY <1>1, FoldIsFolds
  <1>3. PICK h : Folds(h, n + 1, base, t) /\ Fold(base, t) = h[1 .. n + 1]
    BY <1>1, FoldIsFolds
  <1>4. g[1 .. n] = h[1 .. n]
    <2>1. n + 1 \in Nat /\ n <= n + 1 /\ n <= n
      BY <1>1
    <2> QED BY <1>1, <1>2, <1>3, <2>1, FoldsAgree
  <1>5. h[1 .. n + 1] = Op(h[1 .. n], t[n + 1])
    <2>1. n + 1 \in Nat /\ n + 1 <= n + 1
      BY <1>1
    <2> QED BY <1>1, <1>3, <2>1, FoldsNext
  <1> QED BY <1>1, <1>2, <1>3, <1>4, <1>5 DEF t

LEMMA FoldSingle == \A base, x : Fold(base, <<x>>) = Op(base, x)
  <1> SUFFICES ASSUME NEW base, NEW x PROVE Fold(base, <<x>>) = Op(base, x)
    OBVIOUS
  <1>1. <<>> \in Seq({x}) /\ Append(<<>>, x) = <<x>>
    OBVIOUS
  <1>2. Fold(base, Append(<<>>, x)) = Op(Fold(base, <<>>), x)
    BY <1>1, FoldAppend
  <1> QED BY <1>1, <1>2, FoldEmpty

\* Induction over sequences.
LEMMA SeqInduction ==
    ASSUME NEW S, NEW T, <<>> \in T,
           \A s \in Seq(S), x \in S : s \in T => Append(s, x) \in T
    PROVE  \A s \in Seq(S) : s \in T
  <1> DEFINE Lengths == {n \in Nat : \A s \in Seq(S) : Len(s) = n => s \in T}
  <1>1. 0 \in Lengths
    <2>1. \A s \in Seq(S) : Len(s) = 0 => s = <<>>
      OBVIOUS
    <2> QED BY <2>1
  <1>2. ASSUME NEW n \in Nat, n \in Lengths PROVE n + 1 \in Lengths
    <2> SUFFICES ASSUME NEW s \in Seq(S), Len(s) = n + 1 PROVE s \in T
      OBVIOUS
    <2> DEFINE f == SubSeq(s, 1, n)
    <2>1. f \in Seq(S) /\ Len(f) = n /\ s[n + 1] \in S
      OBVIOUS
    <2>2. s = Append(f, s[n + 1])
      OBVIOUS
    <2> HIDE DEF f
    <2>3. f \in T
      BY <1>2, <2>1
    <2> QED BY <2>1, <2>2, <2>3
  <1> HIDE DEF Lengths
  <1>3. \A n \in Nat : n \in Lengths
    BY <1>1, <1>2, Induction
  <1> QED BY <1>3 DEF Lengths

\* What every application keeps, the fold keeps.
LEMMA FoldInto ==
    ASSUME NEW S, NEW s \in Seq(S), NEW I, NEW base \in I,
           \A c \in I, x \in S : Op(c, x) \in I
    PROVE  Fold(base, s) \in I
  <1> DEFINE T == {t \in Seq(S) : Fold(base, t) \in I}
  <1>1. <<>> \in T
    BY FoldEmpty
  <1>2. ASSUME NEW t \in Seq(S), NEW x \in S, t \in T PROVE Append(t, x) \in T
    <2>1. Fold(base, Append(t, x)) = Op(Fold(base, t), x)
      BY FoldAppend
    <2> QED BY <1>2, <2>1
  <1> HIDE DEF T
  <1>3. \A t \in Seq(S) : t \in T
    BY <1>1, <1>2, SeqInduction
  <1> QED BY <1>3 DEF T

\* Of two sequences, the second goes on from what the first made.
LEMMA FoldConcat ==
    ASSUME NEW S, NEW s \in Seq(S), NEW t \in Seq(S), NEW base
    PROVE  Fold(base, s \o t) = Fold(Fold(base, s), t)
  <1> DEFINE T == {u \in Seq(S) : Fold(base, s \o u) = Fold(Fold(base, s), u)}
  <1>1. <<>> \in T
    BY FoldEmpty
  <1>2. ASSUME NEW u \in Seq(S), NEW x \in S, u \in T PROVE Append(u, x) \in T
    <2>1. s \o Append(u, x) = Append(s \o u, x) /\ s \o u \in Seq(S)
      OBVIOUS
    <2>2. Fold(base, Append(s \o u, x)) = Op(Fold(base, s \o u), x)
      BY <2>1, FoldAppend
    <2>3. Fold(Fold(base, s), Append(u, x)) = Op(Fold(Fold(base, s), u), x)
      BY FoldAppend
    <2>4. Append(u, x) \in Seq(S) /\ Fold(base, s \o u) = Fold(Fold(base, s), u)
      BY <1>2
    <2>5. Fold(base, s \o Append(u, x)) = Fold(Fold(base, s), Append(u, x))
      BY <2>1, <2>2, <2>3, <2>4
    <2> QED BY <2>4, <2>5
  <1> HIDE DEF T
  <1>3. \A u \in Seq(S) : u \in T
    BY <1>1, <1>2, SeqInduction
  <1> QED BY <1>3 DEF T
=============================================================================
