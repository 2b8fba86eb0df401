---------------------------- MODULE MCPickPolicy ----------------------------
(* TLC checks PickPolicy.tla on sequences of picks: requests that rotate   *)
(* through a few accounts with every assignment of balances, debts         *)
(* included, while the clock moves.  The reference is the code of          *)
(* PickExcluding and pickWeighted read literally, loop by loop, over the   *)
(* sorted slice.                                                           *)
EXTENDS PickPolicy, Sequences, SequencesExt

CONSTANTS Accounts, MaxPoints, MaxDebt, MaxTime

ASSUME MCAssumption ==
    /\ Accounts \subseteq Nat /\ IsFiniteSet(Accounts)
    /\ MaxPoints \in Nat /\ MaxDebt \in Nat /\ MaxTime \in Nat

\* A wallet may be overdrawn: total_balance is taken as it comes.
PointValues == (0 - MaxDebt) .. MaxPoints

VARIABLES es, now, tried

mcVars == <<es, now, tried>>

MCInit ==
    /\ es \in [Accounts -> [points : PointValues, lastUsed : {Zero}]]
    /\ now = 1
    /\ tried = {}

Cands == Accounts \ tried

MCPick(u) ==
    /\ u \in PickChoices(es, now, Cands)
    /\ es' = [es EXCEPT ![u].lastUsed = now]
    /\ tried' = tried \cup {u}
    /\ UNCHANGED now

MCNewRequest == tried # {} /\ tried' = {} /\ UNCHANGED <<es, now>>

MCTick == now < MaxTime /\ now' = now + 1 /\ UNCHANGED <<es, tried>>

MCNext == (\E u \in Accounts : MCPick(u)) \/ MCNewRequest \/ MCTick

MCSpec == MCInit /\ [][MCNext]_mcVars

-----------------------------------------------------------------------------
(* The code, loop by loop.  A loop over a slice is a fold; what its body    *)
(* assigns is the value folded.                                            *)

\* less of the sort.Slice.
Less(u, v) == IF es[u].points # es[v].points
              THEN es[u].points > es[v].points ELSE u < v

\* The sort permutes the candidates into the order of less.
SortedCands(C) ==
    CHOOSE s \in [1 .. Cardinality(C) -> C] :
        /\ \A u \in C : \E i \in DOMAIN s : s[i] = u
        /\ \A i, j \in DOMAIN s : i < j => Less(s[i], s[j])

CutToTopN(s) == IF Len(s) > TopN THEN SubSeq(s, 1, TopN) ELSE s

\* eligible = append(eligible, e)
KeepRested(eligible, c) ==
    IF es[c].lastUsed = Zero \/ now - es[c].lastUsed >= MinPickGap
    THEN Append(eligible, c) ELSE eligible

Eligible(s) == FoldLeft(KeepRested, <<>>, s)

\* e starts as cands[0] and goes through cands[1:].
OlderOf(e, c) == IF es[c].lastUsed < es[e].lastUsed THEN c ELSE e

ScanLeastRecent(s) == FoldLeft(OlderOf, Head(s), Tail(s))

AddPoints(total, c) == total + es[c].points

SumOf(s) == FoldLeft(AddPoints, 0, s)

\* The loop of pickWeighted has returned once r < acc; otherwise it looks at
\* the next candidate, and after the last one it returns that one.
NextCand(st, c) ==
    IF st.r < st.acc THEN st
    ELSE [r |-> st.r, acc |-> st.acc + es[c].points, at |-> c]

ScanFrom(r) == [r |-> r, acc |-> 0, at |-> Zero]

ScanWeighted(s, r) == FoldLeft(NextCand, ScanFrom(r), s).at

ReferenceChoices(C) ==
    LET best == CutToTopN(SortedCands(C))
        eligible == Eligible(best)
    IN  IF eligible = <<>> THEN {ScanLeastRecent(best)}
        ELSE IF SumOf(eligible) <= 0 THEN ToSet(eligible)
        ELSE {ScanWeighted(eligible, r) : r \in 0 .. SumOf(eligible) - 1}

-----------------------------------------------------------------------------
(* Properties                                                              *)

\* The set-based policy is the code's loops: the same accounts can be
\* returned from the same candidates, ties, debts and recent use included.
MatchesReference ==
    \A C \in (SUBSET Accounts) \ {{}} :
        PickChoices(es, now, C) = ReferenceChoices(C)

\* The draw of pool.go is weighted by points: without debts, each account
\* is hit by as many random numbers as it has points, so accounts without
\* points are not drawn while another one has some.
DrawnByPoints ==
    LET total == TotalPoints(es, Cands) IN
    (\A u \in Cands : es[u].points >= 0) /\ total > 0 =>
        \A u \in Cands :
            Cardinality({r \in 0 .. total - 1 : Drawn(es, Cands, r) = {u}})
                = es[u].points

\* minPickGap spreads concurrent requests: an account is returned again
\* inside the window only when every candidate that made the cut was used
\* inside the window too, and none of them longer ago.
SpreadsWithinWindow ==
    [][\A u \in tried' \ tried :
        ~Rested(es, now, u) =>
            \A v \in Best(es, Cands) :
                /\ ~Rested(es, now, v)
                /\ es[u].lastUsed <= es[v].lastUsed]_mcVars
=============================================================================
