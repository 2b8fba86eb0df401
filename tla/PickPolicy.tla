----------------------------- MODULE PickPolicy -----------------------------
(***************************************************************************)
(* How PickExcluding (internal/pool/pool.go) chooses among the candidates  *)
(* it collected: the order of the sort, the cut to the best TopN, the      *)
(* anti-collision window MinPickGap, the weighted draw and the             *)
(* least-recently-used fallback.                                           *)
(*                                                                         *)
(* An account is a natural number (its UID; "<" is the order of the UID    *)
(* strings) and  es  maps accounts to records that have at least the       *)
(* fields  points  and  lastUsed.  Zero is Go's zero time.                 *)
(***************************************************************************)
EXTENDS Integers, FiniteSets, FiniteSetsExt

CONSTANTS
    TopN,        \* how many of the best candidates stay in the draw (5)
    MinPickGap   \* minPickGap, the window an account rests after a pick

ASSUME TopNAssumption == TopN \in Nat \ {0}
ASSUME MinPickGapAssumption == MinPickGap \in Nat

Zero == 0

\* The sort: more points first, equal points by UID.
Precedes(es, u, v) ==
    \/ es[u].points > es[v].points
    \/ es[u].points = es[v].points /\ u < v

\* Mutant of Best: the cut keeps one account too many.
Best_OneMore(es, C) ==
    {u \in C : Cardinality({v \in C : Precedes(es, v, u)}) <= TopN}

\* The first TopN of the sorted candidates.
Best(es, C) ==
    {u \in C : Cardinality({v \in C : Precedes(es, v, u)}) < TopN}

\* time.Time subtraction saturates, so the zero time is always long ago.
Rested(es, now, u) ==
    es[u].lastUsed = Zero \/ now - es[u].lastUsed >= MinPickGap

\* Mutant of LeastRecentlyUsed: the head of the list, without the scan.
LeastRecentlyUsed_First(es, C) ==
    {u \in C : \A v \in C \ {u} : Precedes(es, u, v)}

\* The scan keeps the first of the sorted candidates used least recently.
LeastRecentlyUsed(es, C) ==
    {u \in C : \A v \in C \ {u} :
        \/ es[u].lastUsed < es[v].lastUsed
        \/ es[u].lastUsed = es[v].lastUsed /\ Precedes(es, u, v)}

TotalPoints(es, C) == MapThenSumSet(LAMBDA u : es[u].points, C)

\* acc once the scan of pickWeighted has passed u.
Acc(es, C, u) == TotalPoints(es, {v \in C : v = u \/ Precedes(es, v, u)})

\* Mutant of Drawn: r <= acc instead of r < acc.
Drawn_AtOrBelow(es, C, r) ==
    LET hit == {u \in C : r <= Acc(es, C, u)} IN
    IF hit # {} THEN {u \in hit : \A v \in hit \ {u} : Precedes(es, u, v)}
                ELSE {u \in C : \A v \in C \ {u} : Precedes(es, v, u)}

\* The account pickWeighted returns for the random number r.
Drawn(es, C, r) ==
    LET hit == {u \in C : r < Acc(es, C, u)} IN
    IF hit # {} THEN {u \in hit : \A v \in hit \ {u} : Precedes(es, u, v)}
                ELSE {u \in C : \A v \in C \ {u} : Precedes(es, v, u)}

\* Every account pickWeighted can return, over all random numbers.
WeightedDraw(es, C) ==
    LET total == TotalPoints(es, C) IN
    IF total <= 0 THEN C
    ELSE UNION {Drawn(es, C, r) : r \in 0 .. total - 1}

\* Every account PickExcluding can return from the candidates C.
PickChoices(es, now, C) ==
    LET best == Best(es, C)
        eligible == {u \in best : Rested(es, now, u)}
    IN  IF eligible = {} THEN LeastRecentlyUsed(es, best)
                         ELSE WeightedDraw(es, eligible)
=============================================================================
