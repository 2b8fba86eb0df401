--------------------------- MODULE GatewayProofs ---------------------------
(***************************************************************************)
(* Theorems about Gateway.tla, for any accounts, any number of requests in *)
(* flight, every mode, any MaxRotate, and any number of restarts.          *)
(***************************************************************************)
EXTENDS Gateway, PoolProofs, FiniteSetTheorems, WellFoundedInduction

-----------------------------------------------------------------------------
(* The inductive invariant                                                 *)

\* Where a request has an account, and where it has not reported on it yet.
AttemptPc == {"prepare", "openai", "body", "relay", "writing"}
UnjudgedPc == {"prepare", "openai", "relay", "writing"}

Tries(q) == Cardinality(q.tried)
Due(q) == IF q.pc \in UnjudgedPc THEN Tries(q) - 1 ELSE Tries(q)

\* All a request needs, each for itself: its account, one answer at most
\* while the client stays, at most one report for each account tried; and in
\* relay mode an answer whenever it ends, and exactly those reports.
Sound(q) ==
    /\ q.pc \in AttemptPc => q.acct \in Uids
    /\ IsFiniteSet(q.tried) /\ Tries(q) <= MaxRotate
    /\ q.verdicts <= Due(q)
    /\ ~q.gone => q.answers <= IF q.pc \in {"writing", "done"} THEN 1 ELSE 0
    /\ q.pc = "writing" => q.answers >= 1

SoundInRelay(q) ==
    /\ q.pc \notin {"openai", "body"}
    /\ q.verdicts = Due(q)
    /\ q.pc \in {"writing", "done"} => q.answers >= 1

GoodRequest ==
    {q \in Request : Sound(q) /\ (Mode = "relay" => SoundInRelay(q))}

\* The scheduler has an account once it visits one, and a balance while it
\* reports one.
GoodMaint ==
    {m \in Maint :
        /\ m.pc \notin {"idle", "next"} => m.acct \in Uids
        /\ m.pc \in {"set", "thaw"} => m.points \in Balances}

GatewayInv ==
    /\ TypeOK
    /\ req \in [Requests -> GoodRequest]
    /\ maint \in GoodMaint
    /\ dead \subseteq Uids
    /\ promised \in [Uids -> Nat]

-----------------------------------------------------------------------------
(* Requests                                                                *)

\* A handler that changes its request well leaves all of them well.
LEMMA BecomesGood ==
    ASSUME req \in [Requests -> GoodRequest], NEW r \in Requests,
           NEW q \in GoodRequest, Becomes(r, q)
    PROVE  req' \in [Requests -> GoodRequest]
  BY DEF Becomes

\* The counters of a request, as numbers.
LEMMA RequestNumbers ==
    ASSUME NEW q \in GoodRequest
    PROVE  /\ q \in Request /\ Sound(q)
           /\ q.answers \in Nat /\ q.verdicts \in Nat /\ Tries(q) \in Nat
           /\ IsFiniteSet(q.tried)
           /\ Mode = "relay" => SoundInRelay(q)
  BY FS_CardinalityType DEF GoodRequest, Sound, Request, Tries

\* A slot without a request.
LEMMA IdleGood == IdleRequest \in GoodRequest
  <1>1. IsFiniteSet({}) /\ Cardinality({}) = 0
    BY FS_EmptySet
  <1>2. IdleRequest \in Request
    BY DEF IdleRequest, Request, RequestPc, NoAcct
  <1>3. Tries(IdleRequest) = 0 /\ Due(IdleRequest) = 0
    BY <1>1 DEF Tries, Due, IdleRequest, UnjudgedPc
  <1> QED BY <1>1, <1>2, <1>3, MaxRotateAssumption
          DEF GoodRequest, Sound, SoundInRelay, IdleRequest, AttemptPc

\* What the steps of a handler change of its request.
Moved(q, n, pc) ==
    /\ n \in Request
    /\ n.pc = pc /\ n.acct = q.acct /\ n.tried = q.tried /\ n.gone = q.gone

LEMMA Moves ==
    ASSUME NEW q \in Request, NEW pc \in RequestPc
    PROVE  /\ LET n == [q EXCEPT !.pc = pc]
              IN  /\ Moved(q, n, pc)
                  /\ n.answers = q.answers /\ n.verdicts = q.verdicts
           /\ LET n == [q EXCEPT !.pc = pc, !.verdicts = @ + 1]
              IN  /\ Moved(q, n, pc)
                  /\ n.answers = q.answers /\ n.verdicts = q.verdicts + 1
           /\ LET n == [q EXCEPT !.pc = pc, !.answers = @ + 1]
              IN  /\ Moved(q, n, pc)
                  /\ n.answers = q.answers + 1 /\ n.verdicts = q.verdicts
           /\ LET n == [q EXCEPT !.pc = pc, !.verdicts = @ + 1,
                                 !.answers = @ + 1]
              IN  /\ Moved(q, n, pc)
                  /\ n.answers = q.answers + 1 /\ n.verdicts = q.verdicts + 1
  <1>1. q.answers + 1 \in Nat /\ q.verdicts + 1 \in Nat
    BY DEF Request
  <1> QED BY <1>1 DEF Request, Moved

\* A request that goes on without an answer or a report.
LEMMA ToGood ==
    ASSUME req \in [Requests -> GoodRequest], NEW r \in Requests,
           NEW pc \in RequestPc, To(r, pc),
           \/ req[r].pc = "prepare" /\ pc = "relay"
           \/ req[r].pc = "prepare" /\ pc = "openai" /\ Mode # "relay"
           \/ req[r].pc = "openai" /\ pc \in {"relay", "done"}
           \/ req[r].pc = "body" /\ pc = "done"
    PROVE  req' \in [Requests -> GoodRequest]
  <1> DEFINE q == req[r]
             n == [q EXCEPT !.pc = pc]
  <1>1. q \in GoodRequest
    OBVIOUS
  <1>2. /\ Moved(q, n, pc)
        /\ n.answers = q.answers /\ n.verdicts = q.verdicts
    BY <1>1, RequestNumbers, Moves
  <1>3. Becomes(r, n)
    BY DEF To
  <1>4. /\ q.pc = req[r].pc
    OBVIOUS
  <1> HIDE DEF q, n
  <1>5. Tries(n) = Tries(q)
    BY <1>2 DEF Moved, Tries
  <1>6. n \in GoodRequest
    BY <1>1, <1>2, <1>4, <1>5, RequestNumbers
       DEF Moved, GoodRequest, Sound, SoundInRelay, Due, UnjudgedPc, AttemptPc
  <1> QED BY <1>3, <1>6, BecomesGood

\* A request that reports on its account and tries the next, or passes on
\* what it got.
LEMMA JudgedGood ==
    ASSUME req \in [Requests -> GoodRequest], NEW r \in Requests,
           NEW pc \in RequestPc, Judged(r, pc),
           \/ req[r].pc \in {"prepare", "openai", "relay"} /\ pc = "pick"
           \/ req[r].pc = "writing" /\ req[r].gone /\ pc = "pick"
           \/ req[r].pc = "openai" /\ pc = "body"
           \/ req[r].pc = "writing" /\ pc = "done"
    PROVE  req' \in [Requests -> GoodRequest]
  <1> DEFINE q == req[r]
             n == [q EXCEPT !.pc = pc, !.verdicts = @ + 1]
  <1>1. q \in GoodRequest
    OBVIOUS
  <1>2. /\ Moved(q, n, pc)
        /\ n.answers = q.answers /\ n.verdicts = q.verdicts + 1
    BY <1>1, RequestNumbers, Moves
  <1>3. Becomes(r, n)
    BY DEF Judged
  <1>4. /\ q.pc = req[r].pc /\ q.gone = req[r].gone
    OBVIOUS
  <1> HIDE DEF q, n
  <1>5. Tries(n) = Tries(q)
    BY <1>2 DEF Moved, Tries
  <1>6. n \in GoodRequest
    BY <1>1, <1>2, <1>4, <1>5, RequestNumbers
       DEF Moved, GoodRequest, Sound, SoundInRelay, Due, UnjudgedPc, AttemptPc
  <1> QED BY <1>3, <1>6, BecomesGood

\* A request that begins its answer.
LEMMA AnswersGood ==
    ASSUME req \in [Requests -> GoodRequest], NEW r \in Requests,
           NEW pc \in RequestPc, Answers(r, pc),
           \/ req[r].pc \in {"idle", "pick", "body"} /\ pc = "done"
           \/ req[r].pc = "relay" /\ pc = "writing"
    PROVE  req' \in [Requests -> GoodRequest]
  <1> DEFINE q == req[r]
             n == [q EXCEPT !.pc = pc, !.answers = @ + 1]
  <1>1. q \in GoodRequest
    OBVIOUS
  <1>2. /\ Moved(q, n, pc)
        /\ n.answers = q.answers + 1 /\ n.verdicts = q.verdicts
    BY <1>1, RequestNumbers, Moves
  <1>3. Becomes(r, n)
    BY DEF Answers
  <1>4. /\ q.pc = req[r].pc
    OBVIOUS
  <1> HIDE DEF q, n
  <1>5. Tries(n) = Tries(q)
    BY <1>2 DEF Moved, Tries
  <1>6. n \in GoodRequest
    BY <1>1, <1>2, <1>4, <1>5, RequestNumbers
       DEF Moved, GoodRequest, Sound, SoundInRelay, Due, UnjudgedPc, AttemptPc
  <1> QED BY <1>3, <1>6, BecomesGood

\* A request that answers and reports at once.
LEMMA JudgedAnswerGood ==
    ASSUME req \in [Requests -> GoodRequest], NEW r \in Requests,
           Becomes(r, [req[r] EXCEPT !.pc = "done", !.verdicts = @ + 1,
                                     !.answers = @ + 1]),
           req[r].pc = "relay"
    PROVE  req' \in [Requests -> GoodRequest]
  <1> DEFINE q == req[r]
             n == [q EXCEPT !.pc = "done", !.verdicts = @ + 1,
                            !.answers = @ + 1]
  <1>1. q \in GoodRequest
    OBVIOUS
  <1>2. /\ Moved(q, n, "done")
        /\ n.answers = q.answers + 1 /\ n.verdicts = q.verdicts + 1
    BY <1>1, RequestNumbers, Moves DEF RequestPc
  <1>3. Becomes(r, n)
    OBVIOUS
  <1>4. /\ q.pc = "relay"
    OBVIOUS
  <1> HIDE DEF q, n
  <1>5. Tries(n) = Tries(q)
    BY <1>2 DEF Moved, Tries
  <1>6. n \in GoodRequest
    BY <1>1, <1>2, <1>4, <1>5, RequestNumbers
       DEF Moved, GoodRequest, Sound, SoundInRelay, Due, UnjudgedPc, AttemptPc
  <1> QED BY <1>3, <1>6, BecomesGood

\* A request that arrives.
LEMMA ArriveGood ==
    ASSUME req \in [Requests -> GoodRequest], NEW r \in Requests, Arrive(r)
    PROVE  req' \in [Requests -> GoodRequest]
  <1>1. ASSUME NEW s \in BOOLEAN,
               Becomes(r, [req[r] EXCEPT !.pc = "pick", !.stream = s])
        PROVE  req' \in [Requests -> GoodRequest]
    <2> DEFINE q == req[r]
               n == [q EXCEPT !.pc = "pick", !.stream = s]
    <2>1. q \in GoodRequest /\ q.pc = "idle" /\ Becomes(r, n)
      BY <1>1 DEF Arrive
    <2>2. /\ Moved(q, n, "pick")
          /\ n.answers = q.answers /\ n.verdicts = q.verdicts
      BY <2>1, RequestNumbers DEF Request, RequestPc, Moved
    <2> HIDE DEF q, n
    <2>3. Tries(n) = Tries(q)
      BY <2>2 DEF Moved, Tries
    <2>4. n \in GoodRequest
      BY <2>1, <2>2, <2>3, RequestNumbers
         DEF Moved, GoodRequest, Sound, SoundInRelay, Due, UnjudgedPc, AttemptPc
    <2> QED BY <2>1, <2>4, BecomesGood
  <1>2. CASE Answered(r)
    BY <1>2, AnswersGood DEF Answered, Arrive, RequestPc
  <1> QED BY <1>1, <1>2 DEF Arrive

\* A client that hangs up owes nothing and is owed nothing.
LEMMA LeavesGood ==
    ASSUME req \in [Requests -> GoodRequest], NEW r \in Requests,
           ClientLeaves(r)
    PROVE  req' \in [Requests -> GoodRequest]
  <1> DEFINE q == req[r]
             n == [q EXCEPT !.gone = TRUE]
  <1>1. q \in GoodRequest /\ Becomes(r, n)
    BY DEF ClientLeaves
  <1>2. /\ n \in Request /\ n.pc = q.pc /\ n.acct = q.acct
        /\ n.tried = q.tried /\ n.gone = TRUE
        /\ n.answers = q.answers /\ n.verdicts = q.verdicts
    BY <1>1, RequestNumbers DEF Request
  <1> HIDE DEF q, n
  <1>3. Tries(n) = Tries(q)
    BY <1>2 DEF Tries
  <1>4. n \in GoodRequest
    BY <1>1, <1>2, <1>3, RequestNumbers
       DEF GoodRequest, Sound, SoundInRelay, Due
  <1> QED BY <1>1, <1>4, BecomesGood

\* A request that is given an account it has not tried yet.
LEMMA PickGood ==
    ASSUME req \in [Requests -> GoodRequest], NEW r \in Requests,
           PickAccount(r)
    PROVE  req' \in [Requests -> GoodRequest]
  <1> PICK u \in Uids :
        /\ Pick(req[r].tried, u)
        /\ Becomes(r, [req[r] EXCEPT !.pc = "prepare", !.acct = u,
                                     !.tried = @ \cup {u}])
    BY DEF PickAccount
  <1> DEFINE q == req[r]
             n == [q EXCEPT !.pc = "prepare", !.acct = u,
                            !.tried = @ \cup {u}]
  <1>1. q \in GoodRequest /\ q.pc = "pick" /\ Becomes(r, n)
    BY DEF PickAccount
  <1>2. u \notin q.tried /\ Tries(q) < MaxRotate
    BY PickIsCandidate DEF Pick, Candidates, PickAccount, Tries
  <1>3. /\ n \in Request /\ n.pc = "prepare" /\ n.acct = u
        /\ n.tried = q.tried \cup {u} /\ n.gone = q.gone
        /\ n.answers = q.answers /\ n.verdicts = q.verdicts
    BY <1>1, RequestNumbers DEF Request, RequestPc
  <1> HIDE DEF q, n
  <1>4. IsFiniteSet(n.tried) /\ Tries(n) = Tries(q) + 1
    BY <1>1, <1>2, <1>3, RequestNumbers, FS_AddElement DEF Tries
  <1>5. Due(q) = Tries(q) /\ Due(n) = Tries(q)
    BY <1>1, <1>3, <1>4, RequestNumbers DEF Due, UnjudgedPc
  <1>6. Sound(n)
    BY <1>1, <1>2, <1>3, <1>4, <1>5, RequestNumbers, MaxRotateAssumption
       DEF Sound
  <1>7. Mode = "relay" => SoundInRelay(n)
    BY <1>1, <1>3, <1>5, RequestNumbers DEF SoundInRelay
  <1>8. n \in GoodRequest
    BY <1>3, <1>6, <1>7 DEF GoodRequest
  <1> QED BY <1>1, <1>8, BecomesGood

\* Every step of a request keeps all requests well.
LEMMA RequestStepGood ==
    ASSUME req \in [Requests -> GoodRequest], NEW r \in Requests,
           Arrive(r) \/ HandlerStep(r) \/ ClientLeaves(r) \/ Return(r)
    PROVE  req' \in [Requests -> GoodRequest]
  <1> USE DEF RequestPc
  <1>1. CASE PickAccount(r)
    BY <1>1, PickGood
  <1>2. CASE GiveUp(r)
    BY <1>2, AnswersGood DEF GiveUp, Answered
  <1>3. CASE PrepareOk(r)
    BY <1>3, ToGood, ModeAssumption DEF PrepareOk
  <1>4. CASE PrepareFails(r)
    BY <1>4, JudgedGood DEF PrepareFails
  <1>5. CASE OpenAITransportFails(r)
    BY <1>5, JudgedGood DEF OpenAITransportFails
  <1>6. CASE FallBackToRelay(r)
    BY <1>6, ToGood DEF FallBackToRelay
  <1>7. CASE OpenAIRefuses(r)
    BY <1>7, ToGood DEF OpenAIRefuses
  <1>8. CASE OpenAIAccepts(r)
    BY <1>8, JudgedGood DEF OpenAIAccepts
  <1>9. CASE OpenAIBody(r)
    BY <1>9, ToGood, AnswersGood DEF OpenAIBody, Answered
  <1>10. CASE RelayFirstChunk(r)
    BY <1>10, AnswersGood DEF RelayFirstChunk
  <1>11. CASE RelayFails(r)
    BY <1>11, JudgedGood DEF RelayFails
  <1>12. CASE RelayWriteFails(r)
    BY <1>12, JudgedGood DEF RelayWriteFails
  <1>13. CASE RelayOk(r)
    BY <1>13, JudgedGood, JudgedAnswerGood DEF RelayOk
  <1>14. CASE Return(r)
    BY <1>14, IdleGood, BecomesGood DEF Return
  <1> QED
    BY <1>1, <1>2, <1>3, <1>4, <1>5, <1>6, <1>7, <1>8, <1>9, <1>10, <1>11,
       <1>12, <1>13, <1>14, ArriveGood, LeavesGood DEF HandlerStep

-----------------------------------------------------------------------------
(* The scheduler                                                           *)

\* The next account of a round is one of the list.
LEMMA NextOfList ==
    ASSUME NEW S \in SUBSET Uids, S # {}
    PROVE  Min(S) \in S
  <1> DEFINE R == OpToRel(<, Nat)
  <1>0. R = {xy \in Nat \X Nat : xy[1] < xy[2]}
    BY Zenon DEF OpToRel
  <1>2. IsWellFoundedOn(R, Nat)
    BY NatLessThanWellFounded, Zenon
  <1> HIDE DEF R
  <1>1. \A x, y \in Nat : y < x => <<y, x>> \in R
    BY <1>0
  <1>3. PICK x \in S : \A y \in S : ~(<<y, x>> \in R)
    BY <1>2, UidsAssumption, WFMin
  <1>4. ASSUME NEW y \in S PROVE x <= y
    <2>1. x \in Nat /\ y \in Nat
      BY UidsAssumption
    <2>2. ~(y < x)
      BY <1>1, <1>3, <2>1, Zenon
    <2> QED BY <2>1, <2>2
  <1> QED BY <1>4 DEF Min

\* A scheduler between two rounds.
LEMMA IdleMaintGood == IdleMaint \in GoodMaint
  BY DEF IdleMaint, GoodMaint, Maint, MaintPc, NoAcct

\* Every step of a round leaves the scheduler well.
LEMMA MaintStepGood ==
    ASSUME TypeOK, maint \in GoodMaint, MaintStart \/ MaintStep
    PROVE  maint' \in GoodMaint
  <1> USE DEF Scheduling
  <1>m. /\ maint \in Maint
        /\ maint.pc \notin {"idle", "next"} => maint.acct \in Uids
        /\ maint.pc \in {"set", "thaw"} => maint.points \in Balances
    BY DEF GoodMaint
  <1>g. \A m \in Maint :
          /\ m.pc \notin {"idle", "next"} => m.acct \in Uids
          /\ m.pc \in {"set", "thaw"} => m.points \in Balances
          => m \in GoodMaint
    BY DEF GoodMaint
  <1>a. \A p : AfterPoints(p) \in {"next", "sandbox"}
    BY DEF AfterPoints
  <1>1. CASE MaintStart
    BY <1>1, <1>m, <1>g DEF MaintStart, Maint, MaintPc, TypeOK
  <1>2. CASE MaintNext
    <2>1. CASE maint.todo = {}
      BY <1>2, <2>1, IdleMaintGood DEF MaintNext
    <2>2. CASE maint.todo # {}
      <3>1. Min(maint.todo) \in Uids
        BY <1>m, <2>2, NextOfList DEF Maint
      <3> QED BY <1>2, <2>2, <3>1, <1>m, <1>g DEF MaintNext, Maint, MaintPc
    <2> QED BY <2>1, <2>2
  <1>3. CASE MaintRefreshed
    BY <1>3, <1>m, <1>g DEF MaintRefreshed, Maint, MaintPc
  <1>4. CASE MaintSessionDead
    BY <1>4, <1>m, <1>g DEF MaintSessionDead, Maint, MaintPc
  <1>5. CASE MaintPoints
    <2>1. ASSUME NEW p \in Balances,
                 maint' = [maint EXCEPT !.pc = "set", !.points = p]
          PROVE  maint' \in GoodMaint
      <3>1. p \in Int
        BY BalancesAssumption
      <3> QED BY <1>5, <2>1, <3>1, <1>m, <1>g DEF MaintPoints, Maint, MaintPc
    <2>2. CASE maint' = [maint EXCEPT !.pc = AfterPoints(0)]
      BY <1>5, <2>2, <1>m, <1>g, <1>a DEF MaintPoints, Maint, MaintPc
    <2> QED BY <1>5, <2>1, <2>2 DEF MaintPoints
  <1>6. CASE MaintSetPoints
    BY <1>6, <1>m, <1>g DEF MaintSetPoints, Maint, MaintPc
  <1>7. CASE MaintThaw
    <2>1. ASSUME NEW pc \in {"next", "sandbox"}, NEW p \in Int,
                 maint' = [maint EXCEPT !.pc = pc, !.points = p]
          PROVE  maint' \in GoodMaint
      BY <1>7, <2>1, <1>m, <1>g DEF MaintThaw, Maint, MaintPc
    <2>2. 0 \in Int
      OBVIOUS
    <2> QED BY <1>7, <2>1, <2>2, <1>a, Zenon DEF MaintThaw
  <1>8. CASE MaintSandbox
    BY <1>8, <1>m, <1>g DEF MaintSandbox, Maint, MaintPc
  <1> QED BY <1>1, <1>2, <1>3, <1>4, <1>5, <1>6, <1>7, <1>8 DEF MaintStep

-----------------------------------------------------------------------------
(* What the gateway does to the pool                                       *)

\* Go's zero time is a time.
LEMMA ZeroIsNat == Zero \in Nat
  BY DEF Zero

\* The operations of the pool the gateway uses, and the world around it.
PoolUse ==
    \/ \E u \in Uids :
        \/ Report(u)
        \/ \E tried \in SUBSET Uids : Pick(tried, u)
        \/ Login(u)
        \/ RemoveCredential(u)
    \/ FlushTick \/ Flush
    \/ Boot \/ SyncToDir \/ Stop
    \/ Tick

\* All of it are steps of Pool.tla.
LEMMA UseIsNext == [PoolUse]_poolVars => [Next]_poolVars
  BY DEF PoolUse, Next, Setter

\* How the history of dead accounts grows: with an account disabled, and not
\* beyond the process.
DeadStep ==
    \/ dead' = dead /\ (Running => Running')
    \/ \E u \in Uids : Disable(u) /\ dead' = dead \cup {u}
    \/ Stop /\ dead' = {}

Uses ==
    /\ [PoolUse]_poolVars
    /\ DeadStep
    /\ promised' \in [Uids -> Nat]

\* A step that leaves pool and history alone.
LEMMA LeavesPool ==
    ASSUME GatewayInv, UNCHANGED <<poolVars, history>>
    PROVE  Uses
  BY DEF GatewayInv, Uses, DeadStep, Running, history, poolVars

\* A report leaves the process running.
LEMMA ReportRuns ==
    ASSUME NEW u, Report(u) PROVE Running /\ Running'
  BY DEF Report, SetPoints, ReenableIfPoints, Cooldown, Disable, NoteError,
         NoteSuccess, Update, UNCHANGED_Env, Running

\* A report to the pool that leaves the history alone.
LEMMA ReportUses ==
    ASSUME GatewayInv, NEW u \in Uids, Report(u), UNCHANGED history
    PROVE  Uses
  BY ReportRuns DEF GatewayInv, Uses, DeadStep, PoolUse, history

\* The verdict on a failed call is one report.
LEMMA VerdictUses ==
    ASSUME GatewayInv, NEW r \in Requests, NEW kind, Verdict(r, kind),
           req[r].acct \in Uids
    PROVE  Uses
  <1> DEFINE u == req[r].acct
  <1>1. CASE Disable(u) /\ dead' = dead \cup {u} /\ UNCHANGED promised
    BY <1>1 DEF GatewayInv, Uses, DeadStep, PoolUse, Report
  <1>2. CASE kind = "hard_credit" /\ Cooldown(u, kind) /\ UNCHANGED dead
             /\ promised' = [promised EXCEPT ![u] = now + HardCooldown]
    <2>1. now + HardCooldown \in Nat
      BY CooldownAssumption DEF GatewayInv, TypeOK
    <2>2. promised' \in [Uids -> Nat]
      BY <1>2, <2>1 DEF GatewayInv
    <2>3. Report(u)
      BY <1>2 DEF Report
    <2> QED BY <1>2, <2>2, <2>3, ReportRuns DEF Uses, DeadStep, PoolUse
  <1>3. CASE /\ (kind = "soft_rate" /\ Cooldown(u, kind)) \/ NoteError(u)
             /\ UNCHANGED history
    BY <1>3, ReportUses DEF Report
  <1> QED BY <1>1, <1>2, <1>3 DEF Verdict

\* A request in an attempt has an account.
LEMMA AttemptAccount ==
    ASSUME GatewayInv, NEW r \in Requests, req[r].pc \in AttemptPc
    PROVE  req[r].acct \in Uids
  BY DEF GatewayInv, GoodRequest, Sound

\* Every step of a request uses the pool by one operation or not at all.
LEMMA RequestUses ==
    ASSUME GatewayInv, NEW r \in Requests,
           Arrive(r) \/ HandlerStep(r) \/ ClientLeaves(r) \/ Return(r)
    PROVE  Uses
  <1> USE DEF AttemptPc
  <1>s. \A u \in Uids : NoteSuccess(u) => Report(u)
    BY DEF Report
  <1>1. CASE PickAccount(r)
    <2>1. PICK u \in Uids : Pick(req[r].tried, u)
      BY <1>1 DEF PickAccount
    <2>2. req[r].tried \in SUBSET Uids
      BY DEF GatewayInv, GoodRequest, Request
    <2> QED BY <1>1, <2>1, <2>2
            DEF PickAccount, GatewayInv, Uses, DeadStep, PoolUse, history,
                Pick, UNCHANGED_Env, Running
  <1>2. CASE PrepareFails(r)
    BY <1>2, AttemptAccount, VerdictUses DEF PrepareFails
  <1>3. CASE OpenAITransportFails(r)
    BY <1>3, AttemptAccount, VerdictUses DEF OpenAITransportFails
  <1>4. CASE RelayFails(r)
    BY <1>4, AttemptAccount, VerdictUses DEF RelayFails
  <1>5. CASE RelayWriteFails(r)
    BY <1>5, AttemptAccount, VerdictUses DEF RelayWriteFails
  <1>6. CASE OpenAIAccepts(r)
    BY <1>6, <1>s, AttemptAccount, ReportUses DEF OpenAIAccepts
  <1>7. CASE RelayOk(r)
    BY <1>7, <1>s, AttemptAccount, ReportUses DEF RelayOk
  <1>8. CASE \/ Arrive(r) \/ ClientLeaves(r) \/ Return(r) \/ GiveUp(r)
             \/ PrepareOk(r) \/ FallBackToRelay(r) \/ OpenAIRefuses(r)
             \/ OpenAIBody(r) \/ RelayFirstChunk(r)
    <2>1. UNCHANGED <<poolVars, history>>
      BY <1>8 DEF Arrive, ClientLeaves, Return, GiveUp, PrepareOk,
                  FallBackToRelay, OpenAIRefuses, OpenAIBody, RelayFirstChunk
    <2> QED BY <2>1, LeavesPool
  <1> QED BY <1>1, <1>2, <1>3, <1>4, <1>5, <1>6, <1>7, <1>8 DEF HandlerStep

\* So does every step of the scheduler.
LEMMA MaintUses ==
    ASSUME GatewayInv, MaintStart \/ MaintStep
    PROVE  Uses
  <1> USE DEF Scheduling
  <1>m. /\ maint.pc \notin {"idle", "next"} => maint.acct \in Uids
        /\ maint.pc \in {"set", "thaw"} => maint.points \in Balances
    BY DEF GatewayInv, GoodMaint
  <1>1. CASE MaintSessionDead
    BY <1>1, <1>m
       DEF MaintSessionDead, GatewayInv, Uses, DeadStep, PoolUse, Report
  <1>2. CASE MaintSetPoints
    <2>1. Report(maint.acct)
      BY <1>2, <1>m DEF MaintSetPoints, Report
    <2> QED BY <1>2, <1>m, <2>1, ReportUses DEF MaintSetPoints
  <1>3. CASE MaintThaw
    <2>1. Report(maint.acct)
      BY <1>3, <1>m DEF MaintThaw, Report
    <2>2. promised' \in [Uids -> Nat]
      BY <1>3, ZeroIsNat DEF MaintThaw, GatewayInv
    <2> QED BY <1>3, <1>m, <2>1, <2>2, ReportRuns
            DEF MaintThaw, Uses, DeadStep, PoolUse
  <1>4. CASE MaintStart \/ MaintNext \/ MaintRefreshed \/ MaintPoints
             \/ MaintSandbox
    <2>1. UNCHANGED <<poolVars, history>>
      BY <1>4 DEF MaintStart, MaintNext, MaintRefreshed, MaintPoints,
                  MaintSandbox
    <2> QED BY <2>1, LeavesPool
  <1> QED BY <1>1, <1>2, <1>3, <1>4 DEF MaintStep

\* And every step of the whole.
LEMMA GatewayUses == GatewayInv /\ [GatewayNext]_vars => Uses
  <1> SUFFICES ASSUME GatewayInv, [GatewayNext]_vars PROVE Uses
    OBVIOUS
  <1>1. CASE StartProcess \/ Flushing
    <2>1. Running => Running'
      BY <1>1 DEF StartProcess, Flushing, Boot, SyncToDir, FlushTick, Flush,
                  SwapAndSave, UNCHANGED_Env, Running
    <2> QED BY <1>1, <2>1 DEF StartProcess, Flushing, GatewayInv, Uses,
                              DeadStep, PoolUse, gatewayVars, history
  <1>2. CASE ServerStops
    BY <1>2, ZeroIsNat DEF ServerStops, Uses, DeadStep, PoolUse
  <1>3. CASE World
    <2>1. Running => Running'
      BY <1>3 DEF World, Tick, Login, RemoveCredential, Running
    <2> QED BY <1>3, <2>1 DEF World, GatewayInv, Uses, DeadStep, PoolUse,
                              gatewayVars, history
  <1>4. CASE UNCHANGED vars
    BY <1>4, LeavesPool DEF vars, gatewayVars
  <1> QED BY <1>1, <1>2, <1>3, <1>4, RequestUses, MaintUses DEF GatewayNext

-----------------------------------------------------------------------------
(* Type correctness, and requests one by one                               *)

\* The server starts well.
LEMMA InitGood == GatewayInit => GatewayInv
  <1> SUFFICES ASSUME GatewayInit PROVE GatewayInv
    OBVIOUS
  <1>1. TypeOK
    BY InitType DEF GatewayInit
  <1>2. req \in [Requests -> GoodRequest]
    BY IdleGood DEF GatewayInit
  <1> QED BY <1>1, <1>2, IdleMaintGood, ZeroIsNat DEF GatewayInit, GatewayInv

\* The invariant is inductive: the pool's part by the pool's own theorem,
\* requests and scheduler by their steps.
LEMMA NextGood == GatewayInv /\ [GatewayNext]_vars => GatewayInv'
  <1> SUFFICES ASSUME GatewayInv, [GatewayNext]_vars PROVE GatewayInv'
    OBVIOUS
  <1>u. Uses
    BY GatewayUses
  <1>1. TypeOK'
    BY <1>u, UseIsNext, NextType DEF Uses, GatewayInv
  <1>2. dead' \subseteq Uids
    BY <1>u DEF Uses, DeadStep, GatewayInv
  <1>3. req' \in [Requests -> GoodRequest] /\ maint' \in GoodMaint
    <2> USE DEF GatewayInv
    <2>1. ASSUME NEW r \in Requests,
                 Arrive(r) \/ HandlerStep(r) \/ ClientLeaves(r) \/ Return(r)
          PROVE  maint' = maint
      BY <2>1 DEF HandlerStep, Arrive, ClientLeaves, Return, PickAccount,
                  GiveUp, PrepareOk, PrepareFails, OpenAITransportFails,
                  FallBackToRelay, OpenAIRefuses, OpenAIAccepts, OpenAIBody,
                  RelayFirstChunk, RelayFails, RelayWriteFails, RelayOk
    <2>2. MaintStart \/ MaintStep => req' = req
      BY DEF MaintStart, MaintStep, MaintNext, MaintRefreshed,
             MaintSessionDead, MaintPoints, MaintSetPoints, MaintThaw,
             MaintSandbox
    <2>3. CASE ServerStops
      BY <2>3, IdleGood, IdleMaintGood DEF ServerStops
    <2>4. CASE StartProcess \/ Flushing \/ World \/ UNCHANGED vars
      BY <2>4 DEF StartProcess, Flushing, World, vars, gatewayVars
    <2> QED BY <2>1, <2>2, <2>3, <2>4, RequestStepGood, MaintStepGood
            DEF GatewayNext
  <1> QED BY <1>u, <1>1, <1>2, <1>3 DEF Uses, GatewayInv

\* The invariant of the whole server.
LEMMA GatewayInvHolds == GatewaySpec => []GatewayInv
  BY InitGood, NextGood, PTL DEF GatewaySpec

\* Every variable of the gateway stays in its domain.
THEOREM GatewayTypeCorrect == GatewaySpec => []GatewayTypeOK
  <1>1. GatewayInv => GatewayTypeOK
    BY DEF GatewayInv, GatewayTypeOK, GoodRequest, GoodMaint
  <1> QED BY <1>1, GatewayInvHolds, PTL

\* The gateway uses the pool by its operations only: all its behaviours,
\* seen at the pool, are behaviours of Pool.tla.
THEOREM GatewayImplementsPool == GatewaySpec => ImplementsPool
  <1>1. GatewayInit => Init
    BY DEF GatewayInit
  <1>2. GatewayInv /\ [GatewayNext]_vars => [Next]_poolVars
    BY GatewayUses, UseIsNext DEF Uses
  <1> QED BY <1>1, <1>2, GatewayInvHolds, PTL
          DEF GatewaySpec, ImplementsPool, Spec

\* So what is proved of the pool holds in the server: nothing unsaved behind
\* a clear flag, on a disk that takes every write.
THEOREM GatewayCleanIsSaved ==
    ASSUME ~DiskFaults PROVE GatewaySpec => []CleanMeansSaved
  <1>1. Spec => []CleanMeansSaved
    BY CleanIsSaved
  <1> QED BY <1>1, GatewayImplementsPool, PTL DEF ImplementsPool

\* And the lifecycle of accounts, now between concurrent requests, the
\* scheduler, restarts and the operator.
THEOREM GatewayImplementsLifecycle == GatewaySpec => ImplementsLifecycle
  BY PoolImplementsLifecycle, GatewayImplementsPool, PTL DEF ImplementsPool

\* A client that stays gets at most one answer, whatever the accounts it is
\* rotated over, in every mode and with any number of requests in flight.
THEOREM OneAnswer == GatewaySpec => []AtMostOneAnswer
  <1>1. GatewayInv => AtMostOneAnswer
    <2> SUFFICES ASSUME GatewayInv, NEW r \in Requests, ~req[r].gone
                 PROVE  req[r].answers <= 1
      BY DEF AtMostOneAnswer
    <2>1. req[r] \in GoodRequest
      BY DEF GatewayInv
    <2> QED BY <2>1, RequestNumbers DEF Sound
  <1> QED BY <1>1, GatewayInvHolds, PTL

\* No attempt is reported to the pool twice, in any mode.
THEOREM JudgedOnce == GatewaySpec => []JudgedAtMostOnce
  <1>1. GatewayInv => JudgedAtMostOnce
    <2> SUFFICES ASSUME GatewayInv, NEW r \in Requests
                 PROVE  req[r].verdicts <= Cardinality(req[r].tried)
      BY DEF JudgedAtMostOnce
    <2>1. req[r] \in GoodRequest
      BY DEF GatewayInv
    <2> QED BY <2>1, RequestNumbers DEF Sound, Due, Tries
  <1> QED BY <1>1, GatewayInvHolds, PTL

\* In relay mode no attempt goes unreported either: after any rotation the
\* pool has heard of each account the request left, exactly once.
THEOREM RelayJudgesAll ==
    ASSUME Mode = "relay" PROVE GatewaySpec => []EveryAttemptJudged
  <1>1. GatewayInv => EveryAttemptJudged
    <2> SUFFICES ASSUME GatewayInv, NEW r \in Requests
                 PROVE  req[r].verdicts = Due(req[r])
      BY DEF EveryAttemptJudged, Due, Tries, UnjudgedPc
    <2>1. req[r] \in GoodRequest
      BY DEF GatewayInv
    <2> QED BY <2>1, RequestNumbers DEF SoundInRelay
  <1> QED BY <1>1, GatewayInvHolds, PTL

\* In relay mode every request that ends has been answered, if its client is
\* still there.
THEOREM RelayAnswers ==
    ASSUME Mode = "relay" PROVE GatewaySpec => []AnsweredWhenDone
  <1>1. GatewayInv => AnsweredWhenDone
    <2> SUFFICES ASSUME GatewayInv, NEW r \in Requests, req[r].pc = "done"
                 PROVE  req[r].answers >= 1
      BY DEF AnsweredWhenDone
    <2>1. req[r] \in GoodRequest
      BY DEF GatewayInv
    <2> QED BY <2>1, RequestNumbers DEF SoundInRelay
  <1> QED BY <1>1, GatewayInvHolds, PTL

-----------------------------------------------------------------------------
(* Disabled accounts                                                       *)

\* A handler changes its own request only.
LEMMA OwnRequest ==
    ASSUME NEW r \in Requests,
           Arrive(r) \/ HandlerStep(r) \/ ClientLeaves(r) \/ Return(r)
    PROVE  \E q : Becomes(r, q)
  BY DEF HandlerStep, Arrive, ClientLeaves, Return, PickAccount, GiveUp,
         PrepareOk, PrepareFails, OpenAITransportFails, FallBackToRelay,
         OpenAIRefuses, OpenAIAccepts, OpenAIBody, RelayFirstChunk,
         RelayFails, RelayWriteFails, RelayOk, To, Judged, Answered, Answers

\* The account a request is given is one the pool has and has not disabled.
LEMMA ServedIsEnabled ==
    ASSUME GatewayInv, [GatewayNext]_vars, NEW r \in Requests,
           req[r].pc = "pick", req'[r].pc = "prepare"
    PROVE  /\ Running
           /\ req'[r].acct \in DOMAIN entries
           /\ ~entries[req'[r].acct].disabled
  <1>1. req \in [Requests -> Request]
    BY DEF GatewayInv, GoodRequest
  <1>2. PICK s \in Requests :
            Arrive(s) \/ HandlerStep(s) \/ ClientLeaves(s) \/ Return(s)
    <2>1. ~UNCHANGED req
      OBVIOUS
    <2>2. ~(MaintStart \/ MaintStep)
      BY <2>1 DEF MaintStart, MaintStep, MaintNext, MaintRefreshed,
                  MaintSessionDead, MaintPoints, MaintSetPoints, MaintThaw,
                  MaintSandbox
    <2>3. ~ServerStops
      BY DEF ServerStops, IdleRequest
    <2>4. ~(StartProcess \/ Flushing \/ World \/ UNCHANGED vars)
      BY <2>1 DEF StartProcess, Flushing, World, vars, gatewayVars
    <2> QED BY <2>2, <2>3, <2>4 DEF GatewayNext
  <1>3. s = r
    BY <1>1, <1>2, OwnRequest DEF Becomes
  <1>4. \A q : Becomes(r, q) => req'[r] = q
    BY <1>1 DEF Becomes
  <1>5. PickAccount(r)
    <2>1. ~(ClientLeaves(r) \/ GiveUp(r))
      BY <1>1, <1>4
         DEF ClientLeaves, GiveUp, Answered, Answers, Request
    <2> QED BY <1>2, <1>3, <2>1
            DEF HandlerStep, Arrive, Return, PrepareOk, PrepareFails,
                OpenAITransportFails, FallBackToRelay, OpenAIRefuses,
                OpenAIAccepts, OpenAIBody, RelayFirstChunk, RelayFails,
                RelayWriteFails, RelayOk
  <1>6. PICK u \in Uids :
            /\ Pick(req[r].tried, u)
            /\ Becomes(r, [req[r] EXCEPT !.pc = "prepare", !.acct = u,
                                         !.tried = @ \cup {u}])
    BY <1>5 DEF PickAccount
  <1>7. req'[r].acct = u
    BY <1>1, <1>4, <1>6 DEF Request
  <1> QED BY <1>6, <1>7, PickIsCandidate DEF Pick, Candidates, Healthy

\* While the process runs, what the server does to the pool adds no account,
\* loses none and enables none.
LEMMA UseKeepsDisabled ==
    ASSUME TypeOK, [PoolUse]_poolVars, Running, Running'
    PROVE  /\ DOMAIN entries' = DOMAIN entries
           /\ \A u \in DOMAIN entries :
                entries[u].disabled => entries'[u].disabled
  <1>e. \A u \in DOMAIN entries : entries[u] \in Entry
    BY DEF TypeOK
  <1>1. ASSUME NEW v, Report(v) PROVE DOMAIN entries' = DOMAIN entries
    <2>1. \E e : Update(v, e)
      BY <1>1 DEF Report, SetPoints, ReenableIfPoints, Cooldown, Disable,
                  NoteError, NoteSuccess
    <2> QED BY <2>1 DEF Update
  <1>2. ASSUME NEW v, NEW tried, Pick(tried, v)
        PROVE  /\ DOMAIN entries' = DOMAIN entries
               /\ \A u \in DOMAIN entries :
                    entries[u].disabled => entries'[u].disabled
    BY <1>2, <1>e DEF Pick, Entry
  <1>3. ~(Boot \/ SyncToDir \/ Stop)
    BY DEF Boot, SyncToDir, Stop, Running
  <1>4. ASSUME \/ FlushTick \/ Flush \/ Tick \/ UNCHANGED poolVars
               \/ \E u \in Uids : Login(u) \/ RemoveCredential(u)
        PROVE  entries' = entries
    BY <1>4 DEF FlushTick, Flush, SwapAndSave, Tick, poolVars, Login,
                RemoveCredential
  <1> QED BY <1>1, <1>2, <1>3, <1>4, ReportKeepsDisabled DEF PoolUse

\* What one process found dead is disabled in its pool, if it is there.
DeadInv ==
    /\ dead # {} => Running
    /\ \A u \in dead \cap DOMAIN entries : entries[u].disabled

\* Every step of the gateway keeps its dead accounts disabled.
LEMMA NextDead == GatewayInv /\ DeadInv /\ [GatewayNext]_vars => DeadInv'
  <1> SUFFICES ASSUME GatewayInv, DeadInv, [GatewayNext]_vars PROVE DeadInv'
    OBVIOUS
  <1>1. TypeOK /\ [PoolUse]_poolVars /\ DeadStep
    BY GatewayUses DEF Uses, GatewayInv
  <1>2. CASE dead' = dead /\ (Running => Running')
    BY <1>1, <1>2, UseKeepsDisabled DEF DeadInv
  <1>3. ASSUME NEW v \in Uids, Disable(v), dead' = dead \cup {v}
        PROVE  DeadInv'
    <2>1. Running /\ Running'
      BY <1>3, ReportRuns DEF Report
    <2>2. v \in DOMAIN entries => entries'[v].disabled
      <3> DEFINE e == [entries[v] EXCEPT !.disabled = TRUE,
                                         !.reason = "session dead"]
      <3> SUFFICES ASSUME v \in DOMAIN entries PROVE entries'[v].disabled
        OBVIOUS
      <3>1. entries[v] \in Entry
        BY <1>1 DEF TypeOK
      <3>2. e.disabled
        BY <3>1 DEF Entry
      <3>3. entries' = [entries EXCEPT ![v] = e]
        BY <1>3 DEF Disable, Update
      <3> QED BY <3>2, <3>3
    <2> QED BY <1>1, <1>3, <2>1, <2>2, UseKeepsDisabled DEF DeadInv
  <1>4. CASE Stop /\ dead' = {}
    BY <1>4 DEF DeadInv
  <1> QED BY <1>1, <1>2, <1>3, <1>4 DEF DeadStep

\* What is true of every single request is true of all: a dead account is
\* never given out again in the life of the process that found it dead.
THEOREM DeadStaysAway == GatewaySpec => DeadNeverServed
  <1> DEFINE Step == \A r \in Requests :
                        req[r].pc = "pick" /\ req'[r].pc = "prepare"
                            => req'[r].acct \notin dead
  <1>1. GatewayInit => DeadInv
    BY DEF GatewayInit, DeadInv
  <1>2. GatewayInv /\ DeadInv /\ [GatewayNext]_vars => [Step]_vars
    BY ServedIsEnabled DEF DeadInv
  <1> QED BY <1>1, <1>2, NextDead, GatewayInvHolds, PTL
          DEF GatewaySpec, DeadNeverServed

\* Memory never says less of a disabled account than the state file does.
\* Between New and SyncToDir the pool has every account of the file, so none
\* of them can join anew in its initial state.
SavedInv ==
    /\ ~StateFile => DOMAIN file = {}
    /\ proc = "loaded" => DOMAIN file \subseteq DOMAIN entries
    /\ proc # "down" => \A u \in DOMAIN entries \cap DOMAIN file :
                            file[u].disabled => entries[u].disabled

\* A save leaves the file as it was or writes what memory says.
LEMMA SaveOutcomes ==
    ASSUME NEW es, SaveLocked(es)
    PROVE  \/ file' = file
           \/ /\ StateFile /\ DOMAIN file' = DOMAIN es
              /\ \A u \in DOMAIN es : file'[u].disabled = es[u].disabled
  BY DEF SaveLocked, Persisted

\* Every use of the pool keeps memory and file in that order.
LEMMA NextSaved ==
    ASSUME TypeOK, SavedInv, [PoolUse]_poolVars PROVE SavedInv'
  <1>e. \A u \in DOMAIN entries : entries[u] \in Entry
    BY DEF TypeOK
  <1>1. CASE Running /\ Running' /\ file' = file
    BY <1>1, UseKeepsDisabled DEF SavedInv, Running
  <1>2. ASSUME NEW u, Report(u) \/ (\E tried : Pick(tried, u))
        PROVE  Running /\ Running' /\ file' = file
    BY <1>2, ReportRuns
       DEF Report, SetPoints, ReenableIfPoints, Cooldown, Disable, NoteError,
           NoteSuccess, Update, Pick, UNCHANGED_Env, Running
  <1>3. CASE SwapAndSave
    <2>1. entries' = entries /\ proc' = proc
      BY <1>3 DEF SwapAndSave, UNCHANGED_Env
    <2>2. CASE file' = file
      BY <2>1, <2>2 DEF SavedInv
    <2>3. CASE file' # file
      BY <1>3, <2>1, <2>3, SaveOutcomes DEF SwapAndSave, SavedInv
    <2> QED BY <2>2, <2>3
  <1>4. CASE Boot
    <2>1. file' = file /\ proc' = "loaded"
      BY <1>4 DEF Boot
    <2>2. CASE StateFile
      BY <1>4, <2>1, <2>2 DEF Boot, SavedInv, Restored
    <2>3. CASE ~StateFile
      BY <1>4, <2>1, <2>3 DEF Boot, SavedInv
    <2> QED BY <2>2, <2>3
  <1>5. CASE SyncToDir
    <2>1. /\ proc = "loaded" /\ proc' = "running"
          /\ DOMAIN entries' = dir
          /\ \A u \in dir : entries'[u] = Upserted(dir)[u]
      BY <1>5 DEF SyncToDir
    <2>2. \A u \in DOMAIN entries \cap dir :
            entries[u].disabled => entries'[u].disabled
      BY <2>1, <1>e DEF Upserted, Entry
    <2>3. CASE file' = file
      BY <2>1, <2>2, <2>3 DEF SavedInv
    <2>4. CASE file' # file
      <3>1. SaveLocked(entries')
        BY <1>5, <2>4 DEF SyncToDir
      <3> QED BY <2>1, <2>4, <3>1, SaveOutcomes DEF SavedInv
    <2> QED BY <2>3, <2>4
  <1>6. CASE Stop
    BY <1>6 DEF Stop, SavedInv
  <1>7. CASE UNCHANGED <<entries, file, proc>>
    BY <1>7 DEF SavedInv
  <1>8. ASSUME \/ Tick \/ UNCHANGED poolVars
               \/ \E u \in Uids : Login(u) \/ RemoveCredential(u)
        PROVE  UNCHANGED <<entries, file, proc>>
    BY <1>8 DEF Tick, poolVars, Login, RemoveCredential
  <1>9. FlushTick \/ Flush => SwapAndSave
    BY DEF FlushTick, Flush
  <1> QED BY <1>1, <1>2, <1>3, <1>4, <1>5, <1>6, <1>7, <1>8, <1>9 DEF PoolUse

\* An account the state file has as disabled is never given to a request,
\* after any number of crashes, restarts and failed writes.  The property
\* excepts accounts signed in to since; this proof does not use that.
THEOREM SavedStaysAway == GatewaySpec => SavedDisabledNeverServed
  <1> DEFINE Step == \A r \in Requests :
                        req[r].pc = "pick" /\ req'[r].pc = "prepare"
                            => LET u == req'[r].acct IN
                               u \in DOMAIN file /\ file[u].disabled
                                   => u \in relogged
  <1>1. GatewayInit => SavedInv
    BY NoAccountsType DEF GatewayInit, Init, SavedInv
  <1>2. GatewayInv /\ SavedInv /\ [GatewayNext]_vars => SavedInv'
    BY GatewayUses, NextSaved DEF Uses, GatewayInv
  <1>3. GatewayInv /\ SavedInv /\ [GatewayNext]_vars => [Step]_vars
    BY ServedIsEnabled DEF SavedInv, Running
  <1> QED BY <1>1, <1>2, <1>3, GatewayInvHolds, PTL
          DEF GatewaySpec, SavedDisabledNeverServed

-----------------------------------------------------------------------------
(* Rotations and rounds come to an end                                     *)

\* The steps a handler may still take: five for each account it may still
\* try, and those left with the account it has.
Place(pc) ==
    CASE pc = "prepare" -> 5
      [] pc = "openai" -> 4
      [] pc = "relay" -> 3
      [] pc \in {"body", "writing"} -> 2
      [] pc \in {"idle", "pick"} -> 1
      [] pc = "done" -> 0

StepsLeft(q) == 5 * (MaxRotate - Tries(q)) + Place(q.pc)

Nearer(r) == StepsLeft(req'[r]) < StepsLeft(req[r])
NotFarther(r) == StepsLeft(req'[r]) <= StepsLeft(req[r])

\* The steps left are a number, and never more than a new request has.
LEMMA StepsLeftBounds ==
    ASSUME NEW q \in GoodRequest
    PROVE  /\ Place(q.pc) \in 0 .. 5
           /\ StepsLeft(q) \in 0 .. (5 * MaxRotate + 5)
           /\ q.pc = "pick" => StepsLeft(q) <= 5 * MaxRotate + 1
  <1>1. q.pc \in RequestPc /\ Tries(q) \in Nat /\ Tries(q) <= MaxRotate
    BY RequestNumbers DEF Request, Sound
  <1>2. Place(q.pc) \in 0 .. 5 /\ (q.pc = "pick" => Place(q.pc) = 1)
    BY <1>1 DEF Place, RequestPc
  <1> QED BY <1>1, <1>2, MaxRotateAssumption DEF StepsLeft

\* A handler that goes on with the account it has.
LEMMA GoesOnNearer ==
    ASSUME req \in [Requests -> GoodRequest], NEW r \in Requests,
           NEW pc \in RequestPc,
           \/ pc = "done" /\ req[r].pc \in AttemptPc \cup {"pick"}
           \/ pc = "pick" /\ req[r].pc \in AttemptPc
           \/ pc \in {"openai", "relay"} /\ req[r].pc = "prepare"
           \/ pc \in {"body", "relay"} /\ req[r].pc = "openai"
           \/ pc = "writing" /\ req[r].pc = "relay",
           \/ To(r, pc) \/ Judged(r, pc) \/ Answers(r, pc)
           \/ Becomes(r, [req[r] EXCEPT !.pc = pc, !.verdicts = @ + 1,
                                        !.answers = @ + 1])
    PROVE  Nearer(r)
  <1> DEFINE q == req[r]
  <1>1. q \in GoodRequest /\ q \in Request
    BY RequestNumbers
  <1>2. PICK n : Becomes(r, n) /\ Moved(q, n, pc)
    BY <1>1, Moves DEF To, Judged, Answers
  <1>3. req'[r] = n
    BY <1>2 DEF Becomes
  <1>4. n.pc = pc /\ Tries(n) = Tries(q)
    BY <1>2 DEF Moved, Tries
  <1>5. Place(pc) \in Int /\ Place(q.pc) \in Int /\ Tries(q) \in Nat
    <2>1. Place(pc) \in Int
      BY DEF Place, RequestPc
    <2> QED BY <1>1, <2>1, StepsLeftBounds, RequestNumbers
  <1>6. Place(pc) < Place(q.pc)
    BY DEF Place, AttemptPc
  <1> HIDE DEF q
  <1>7. StepsLeft(n) < StepsLeft(q)
    BY <1>4, <1>5, <1>6, MaxRotateAssumption DEF StepsLeft
  <1> QED BY <1>3, <1>7 DEF Nearer, q

\* A handler that is given one more account has one account less to try.
LEMMA PickNearer ==
    ASSUME req \in [Requests -> GoodRequest], NEW r \in Requests,
           PickAccount(r)
    PROVE  Nearer(r)
  <1> PICK u \in Uids :
        /\ Pick(req[r].tried, u)
        /\ Becomes(r, [req[r] EXCEPT !.pc = "prepare", !.acct = u,
                                     !.tried = @ \cup {u}])
    BY DEF PickAccount
  <1> DEFINE q == req[r]
             n == [q EXCEPT !.pc = "prepare", !.acct = u,
                            !.tried = @ \cup {u}]
  <1>1. q \in GoodRequest /\ q.pc = "pick" /\ Becomes(r, n)
    BY DEF PickAccount
  <1>2. u \notin q.tried
    BY PickIsCandidate DEF Pick, Candidates
  <1>3. n.pc = "prepare" /\ n.tried = q.tried \cup {u}
    BY <1>1, RequestNumbers DEF Request
  <1>4. req'[r] = n
    BY <1>1 DEF Becomes
  <1>5. StepsLeft(q) = StepsLeft(req[r])
    OBVIOUS
  <1> HIDE DEF q, n
  <1>6. Tries(n) = Tries(q) + 1 /\ Tries(q) \in Nat
    BY <1>1, <1>2, <1>3, RequestNumbers, FS_AddElement DEF Tries
  <1>7. Place(n.pc) = 5 /\ Place(q.pc) = 1
    BY <1>1, <1>3 DEF Place
  <1>8. StepsLeft(n) < StepsLeft(q)
    BY <1>6, <1>7, MaxRotateAssumption DEF StepsLeft
  <1> QED BY <1>4, <1>5, <1>8 DEF Nearer

\* So does every step of a handler.
LEMMA HandlerNearer ==
    ASSUME req \in [Requests -> GoodRequest], NEW r \in Requests,
           HandlerStep(r)
    PROVE  Nearer(r)
  <1> USE DEF RequestPc, AttemptPc
  <1>1. CASE PickAccount(r)
    BY <1>1, PickNearer
  <1>2. CASE GiveUp(r)
    BY <1>2, GoesOnNearer DEF GiveUp, Answered
  <1>3. CASE PrepareOk(r)
    BY <1>3, GoesOnNearer DEF PrepareOk
  <1>4. CASE PrepareFails(r)
    BY <1>4, GoesOnNearer DEF PrepareFails
  <1>5. CASE OpenAITransportFails(r)
    BY <1>5, GoesOnNearer DEF OpenAITransportFails
  <1>6. CASE FallBackToRelay(r)
    BY <1>6, GoesOnNearer DEF FallBackToRelay
  <1>7. CASE OpenAIRefuses(r)
    BY <1>7, GoesOnNearer DEF OpenAIRefuses
  <1>8. CASE OpenAIAccepts(r)
    BY <1>8, GoesOnNearer DEF OpenAIAccepts
  <1>9. CASE OpenAIBody(r)
    BY <1>9, GoesOnNearer DEF OpenAIBody, Answered
  <1>10. CASE RelayFirstChunk(r)
    BY <1>10, GoesOnNearer DEF RelayFirstChunk
  <1>11. CASE RelayFails(r)
    BY <1>11, GoesOnNearer DEF RelayFails
  <1>12. CASE RelayWriteFails(r)
    BY <1>12, GoesOnNearer DEF RelayWriteFails
  <1>13. CASE RelayOk(r)
    BY <1>13, GoesOnNearer DEF RelayOk
  <1> QED
    BY <1>1, <1>2, <1>3, <1>4, <1>5, <1>6, <1>7, <1>8, <1>9, <1>10, <1>11,
       <1>12, <1>13 DEF HandlerStep

\* A request that arrives and a client that hangs up leave the handler's way
\* as long as it was, or end it.
LEMMA OthersNotFarther ==
    ASSUME req \in [Requests -> GoodRequest], NEW r \in Requests,
           Arrive(r) \/ ClientLeaves(r)
    PROVE  NotFarther(r)
  <1> DEFINE q == req[r]
  <1>1. q \in GoodRequest /\ q \in Request /\ StepsLeft(q) \in Int
    BY RequestNumbers, StepsLeftBounds
  <1>2. PICK n : Becomes(r, n) /\ n.tried = q.tried /\
                 (n.pc = q.pc \/ (q.pc = "idle" /\ n.pc \in {"pick", "done"}))
    <2>1. CASE ClientLeaves(r)
      <3>1. LET n == [q EXCEPT !.gone = TRUE]
            IN  Becomes(r, n) /\ n.tried = q.tried /\ n.pc = q.pc
        BY <1>1, <2>1 DEF ClientLeaves, Request
      <3> QED BY <3>1
    <2>2. CASE Answered(r) /\ q.pc = "idle"
      <3>1. LET n == [q EXCEPT !.pc = "done", !.answers = @ + 1]
            IN  Becomes(r, n) /\ n.tried = q.tried /\ n.pc = "done"
        BY <1>1, <2>2 DEF Answered, Answers, Request
      <3> QED BY <2>2, <3>1
    <2>3. ASSUME NEW s \in BOOLEAN, q.pc = "idle",
                 Becomes(r, [q EXCEPT !.pc = "pick", !.stream = s])
          PROVE  \E n : /\ Becomes(r, n) /\ n.tried = q.tried
                        /\ q.pc = "idle" /\ n.pc = "pick"
      <3>1. LET n == [q EXCEPT !.pc = "pick", !.stream = s]
            IN  Becomes(r, n) /\ n.tried = q.tried /\ n.pc = "pick"
        BY <1>1, <2>3 DEF Request
      <3> QED BY <2>3, <3>1
    <2> QED BY <2>1, <2>2, <2>3 DEF Arrive
  <1>3. req'[r] = n
    BY <1>2 DEF Becomes
  <1>4. Place(n.pc) <= Place(q.pc) /\ Place(n.pc) \in Int
    <2>1. CASE n.pc = q.pc
      BY <1>1, <2>1, StepsLeftBounds
    <2>2. CASE q.pc = "idle" /\ n.pc \in {"pick", "done"}
      BY <2>2 DEF Place
    <2> QED BY <1>2, <2>1, <2>2
  <1>5. Place(q.pc) \in Int /\ Tries(q) \in Nat
    BY <1>1, StepsLeftBounds, RequestNumbers
  <1> HIDE DEF q
  <1>6. Tries(n) = Tries(q)
    BY <1>2 DEF Tries
  <1>7. StepsLeft(n) <= StepsLeft(q)
    BY <1>4, <1>5, <1>6, MaxRotateAssumption DEF StepsLeft
  <1> QED BY <1>3, <1>7 DEF NotFarther, q

\* Whoever moves, a request gets no farther from its end, until its slot is
\* free again.
LEMMA NeverFarther ==
    ASSUME GatewayInv, [GatewayNext]_vars, NEW r \in Requests,
           req'[r] # IdleRequest
    PROVE  NotFarther(r)
  <1>1. req \in [Requests -> GoodRequest] /\ req[r] \in GoodRequest
    BY DEF GatewayInv
  <1>2. StepsLeft(req[r]) \in Int
    BY <1>1, StepsLeftBounds
  <1>3. CASE req'[r] = req[r]
    BY <1>2, <1>3 DEF NotFarther
  <1>4. CASE HandlerStep(r) \/ Arrive(r) \/ ClientLeaves(r)
    <2>1. CASE HandlerStep(r)
      <3>1. Nearer(r) /\ req' \in [Requests -> GoodRequest]
        BY <1>1, <2>1, HandlerNearer, RequestStepGood
      <3>2. StepsLeft(req'[r]) \in Int
        BY <3>1, StepsLeftBounds
      <3> QED BY <1>2, <3>1, <3>2 DEF Nearer, NotFarther
    <2> QED BY <1>1, <1>4, <2>1, OthersNotFarther
  <1>5. ASSUME NEW s \in Requests, s # r,
               Arrive(s) \/ HandlerStep(s) \/ ClientLeaves(s) \/ Return(s)
        PROVE  req'[r] = req[r]
    BY <1>1, <1>5, OwnRequest DEF Becomes
  <1>6. ~Return(r) /\ ~ServerStops
    BY <1>1 DEF Return, ServerStops, Becomes
  <1>7. ASSUME \/ MaintStart \/ MaintStep \/ StartProcess \/ Flushing \/ World
               \/ UNCHANGED vars
        PROVE  req'[r] = req[r]
    BY <1>7 DEF MaintStart, MaintStep, MaintNext, MaintRefreshed,
                MaintSessionDead, MaintPoints, MaintSetPoints, MaintThaw,
                MaintSandbox, StartProcess, Flushing, World, vars, gatewayVars
  <1> QED BY <1>3, <1>4, <1>5, <1>6, <1>7 DEF GatewayNext

\* A request makes its way to its end: however calls fail and accounts
\* rotate, each step of its handler brings it nearer, no step of anyone
\* moves it back, and from its first choice of an account it is at most five
\* steps for each account it may try, and one, away.
THEOREM RotationEnds ==
    GatewaySpec =>
        [][\A r \in Requests :
            /\ StepsLeft(req[r]) \in Nat
            /\ req[r].pc = "pick" => StepsLeft(req[r]) <= 5 * MaxRotate + 1
            /\ HandlerStep(r) => StepsLeft(req'[r]) < StepsLeft(req[r])
            /\ req'[r] # IdleRequest
                 => StepsLeft(req'[r]) <= StepsLeft(req[r])]_vars
  <1> DEFINE Step == \A r \in Requests :
            /\ StepsLeft(req[r]) \in Nat
            /\ req[r].pc = "pick" => StepsLeft(req[r]) <= 5 * MaxRotate + 1
            /\ HandlerStep(r) => StepsLeft(req'[r]) < StepsLeft(req[r])
            /\ req'[r] # IdleRequest
                 => StepsLeft(req'[r]) <= StepsLeft(req[r])
  <1>1. GatewayInv /\ [GatewayNext]_vars => [Step]_vars
    <2> SUFFICES ASSUME GatewayInv, [GatewayNext]_vars PROVE Step
      OBVIOUS
    <2> USE DEF Step
    <2>1. req \in [Requests -> GoodRequest]
      BY DEF GatewayInv
    <2>2. ASSUME NEW r \in Requests
          PROVE  /\ StepsLeft(req[r]) \in Nat
                 /\ req[r].pc = "pick"
                      => StepsLeft(req[r]) <= 5 * MaxRotate + 1
      BY <2>1, StepsLeftBounds
    <2>3. ASSUME NEW r \in Requests, HandlerStep(r) PROVE Nearer(r)
      BY <2>1, <2>3, HandlerNearer
    <2>4. ASSUME NEW r \in Requests, req'[r] # IdleRequest
          PROVE  NotFarther(r)
      BY <2>4, NeverFarther
    <2> QED BY <2>2, <2>3, <2>4 DEF Nearer, NotFarther
  <1> QED BY <1>1, GatewayInvHolds, PTL DEF GatewaySpec

\* The steps left of a maintenance round: six for each account still to be
\* visited, and those left with the one visited now.
MaintPlace(pc) ==
    CASE pc = "refresh" -> 6
      [] pc = "points" -> 5
      [] pc = "set" -> 4
      [] pc = "thaw" -> 3
      [] pc = "sandbox" -> 2
      [] pc = "next" -> 1
      [] pc = "idle" -> 0

MaintLeft(m) == 6 * Cardinality(m.todo) + MaintPlace(m.pc)

\* The steps left of a round are a number.
LEMMA MaintLeftType ==
    ASSUME IsFiniteSet(Uids), NEW m \in Maint
    PROVE  /\ Cardinality(m.todo) \in Nat /\ IsFiniteSet(m.todo)
           /\ MaintPlace(m.pc) \in Nat /\ MaintLeft(m) \in Nat
  <1>1. IsFiniteSet(m.todo) /\ Cardinality(m.todo) \in Nat
    BY FS_Subset, FS_CardinalityType DEF Maint
  <1>2. MaintPlace(m.pc) \in Nat
    BY DEF MaintPlace, Maint, MaintPc
  <1> QED BY <1>1, <1>2 DEF MaintLeft

\* A round that goes on with the account it visits, or with its list.
LEMMA MaintGoesOn ==
    ASSUME IsFiniteSet(Uids), NEW m \in Maint, NEW n \in Maint,
           n.todo = m.todo, MaintPlace(n.pc) < MaintPlace(m.pc)
    PROVE  MaintLeft(n) < MaintLeft(m)
  <1>1. /\ Cardinality(m.todo) \in Nat
        /\ MaintPlace(m.pc) \in Nat /\ MaintPlace(n.pc) \in Nat
    BY MaintLeftType
  <1> QED BY <1>1 DEF MaintLeft

\* Every step of a round brings it nearer to its end.
LEMMA MaintNearer ==
    ASSUME IsFiniteSet(Uids), TypeOK, maint \in GoodMaint, MaintStep
    PROVE  MaintLeft(maint') < MaintLeft(maint)
  <1> USE DEF Scheduling
  <1>m. maint \in Maint /\ maint' \in Maint
    BY MaintStepGood DEF GoodMaint
  <1>1. CASE MaintNext /\ maint.todo = {}
    <2>1. maint' = IdleMaint /\ maint.pc = "next" /\ Cardinality({}) = 0
      BY <1>1, FS_EmptySet DEF MaintNext
    <2>2. maint'.todo = maint.todo /\ maint'.pc = "idle"
      BY <1>1, <2>1 DEF IdleMaint
    <2>3. MaintPlace(maint'.pc) < MaintPlace(maint.pc)
      BY <2>1, <2>2 DEF MaintPlace
    <2> QED BY <1>m, <2>2, <2>3, MaintGoesOn
  <1>2. CASE MaintNext /\ maint.todo # {}
    <2> DEFINE u == Min(maint.todo)
    <2>1. u \in maint.todo
      BY <1>2, <1>m, NextOfList DEF Maint
    <2>2. /\ maint.pc = "next" /\ maint'.pc = "refresh"
          /\ maint'.todo = maint.todo \ {u}
      BY <1>2, <1>m DEF MaintNext, Maint
    <2> HIDE DEF u
    <2>3. /\ Cardinality(maint'.todo) = Cardinality(maint.todo) - 1
          /\ Cardinality(maint.todo) \in Nat
      <3>1. /\ IsFiniteSet(maint.todo)
            /\ Cardinality(maint.todo) \in Nat
        BY <1>m, MaintLeftType
      <3>2. Cardinality(maint.todo \ {u}) = Cardinality(maint.todo) - 1
        BY <2>1, <3>1, FS_RemoveElement
      <3> QED BY <2>2, <3>1, <3>2
    <2>4. MaintPlace(maint.pc) = 1 /\ MaintPlace(maint'.pc) = 6
      BY <2>2 DEF MaintPlace
    <2> QED BY <2>3, <2>4 DEF MaintLeft
  <1>3. CASE MaintRefreshed \/ MaintSessionDead \/ MaintPoints
             \/ MaintSetPoints \/ MaintThaw \/ MaintSandbox
    <2>1. \A p : AfterPoints(p) \in {"next", "sandbox"}
      BY DEF AfterPoints
    <2>2. /\ maint'.todo = maint.todo
          /\ \/ maint.pc = "refresh" /\ maint'.pc \in {"points", "next"}
             \/ maint.pc = "points" /\ maint'.pc \in {"set", "next", "sandbox"}
             \/ maint.pc = "set" /\ maint'.pc = "thaw"
             \/ maint.pc = "thaw" /\ maint'.pc \in {"next", "sandbox"}
             \/ maint.pc = "sandbox" /\ maint'.pc = "next"
      BY <1>3, <1>m, <2>1 DEF MaintRefreshed, MaintSessionDead, MaintPoints,
                              MaintSetPoints, MaintThaw, MaintSandbox, Maint
    <2>3. MaintPlace(maint'.pc) < MaintPlace(maint.pc)
      BY <2>2 DEF MaintPlace
    <2> QED BY <1>m, <2>2, <2>3, MaintGoesOn
  <1> QED BY <1>1, <1>2, <1>3 DEF MaintStep

\* A maintenance round makes its way to its end: with finitely many accounts
\* each of its steps brings it nearer, and nothing else the server or the
\* world does moves it back, short of the process ending.
THEOREM RoundEnds ==
    ASSUME IsFiniteSet(Uids)
    PROVE  GatewaySpec =>
             [][/\ MaintLeft(maint) \in Nat
                /\ MaintStep => MaintLeft(maint') < MaintLeft(maint)
                /\ maint.pc # "idle" /\ maint' # IdleMaint
                     => MaintStep \/ UNCHANGED maint]_vars
  <1> DEFINE Step == /\ MaintLeft(maint) \in Nat
                     /\ MaintStep => MaintLeft(maint') < MaintLeft(maint)
                     /\ maint.pc # "idle" /\ maint' # IdleMaint
                          => MaintStep \/ UNCHANGED maint
  <1>1. GatewayInv /\ [GatewayNext]_vars => [Step]_vars
    <2> SUFFICES ASSUME GatewayInv, [GatewayNext]_vars PROVE Step
      OBVIOUS
    <2>1. TypeOK /\ maint \in GoodMaint /\ maint \in Maint
      BY DEF GatewayInv, GoodMaint
    <2>2. MaintLeft(maint) \in Nat
      BY <2>1, MaintLeftType
    <2>3. MaintStep => MaintLeft(maint') < MaintLeft(maint)
      BY <2>1, MaintNearer
    <2>4. ASSUME maint.pc # "idle", maint' # IdleMaint, ~MaintStep
          PROVE  UNCHANGED maint
      <3>1. ~MaintStart /\ ~ServerStops
        BY <2>4 DEF MaintStart, Scheduling, ServerStops
      <3>2. ASSUME NEW r \in Requests,
                   Arrive(r) \/ HandlerStep(r) \/ ClientLeaves(r) \/ Return(r)
            PROVE  UNCHANGED maint
        BY <3>2 DEF HandlerStep, Arrive, ClientLeaves, Return, PickAccount,
                    GiveUp, PrepareOk, PrepareFails, OpenAITransportFails,
                    FallBackToRelay, OpenAIRefuses, OpenAIAccepts, OpenAIBody,
                    RelayFirstChunk, RelayFails, RelayWriteFails, RelayOk
      <3>3. CASE StartProcess \/ Flushing \/ World \/ UNCHANGED vars
        BY <3>3 DEF StartProcess, Flushing, World, vars, gatewayVars
      <3> QED BY <2>4, <3>1, <3>2, <3>3 DEF GatewayNext
    <2> QED BY <2>2, <2>3, <2>4
  <1> QED BY <1>1, GatewayInvHolds, PTL DEF GatewaySpec

-----------------------------------------------------------------------------
(* The contract of responses                                               *)

Seen == [r \in Requests |-> ResponseOf(req[r])]

\* A response, by its fields.
LEMMA ResponseFields ==
    ASSUME NEW q
    PROVE  /\ ResponseOf(q) = Promise!Reply(PlaceOf(q.pc), q.answers, q.gone)
           /\ ResponseOf(q).at = PlaceOf(q.pc)
           /\ ResponseOf(q).answers = q.answers /\ ResponseOf(q).gone = q.gone
  BY DEF ResponseOf, Promise!Reply

\* A handler changes the response of its own request,
LEMMA SeenChanges ==
    ASSUME req \in [Requests -> GoodRequest], NEW r \in Requests, NEW n,
           Becomes(r, n)
    PROVE  /\ Seen' = [Seen EXCEPT ![r] = ResponseOf(n)]
           /\ Seen[r] = ResponseOf(req[r]) /\ Seen'[r] = ResponseOf(n)
  <1>1. req' = [req EXCEPT ![r] = n]
    BY DEF Becomes
  <1> QED BY <1>1 DEF Seen

\* without an answer,
LEMMA SeenGoes ==
    ASSUME req \in [Requests -> GoodRequest], NEW r \in Requests, NEW n,
           Becomes(r, n), n.answers = req[r].answers,
           n.gone = req[r].gone \/ n.gone = TRUE
    PROVE  Promise!Goes(r, PlaceOf(req[r].pc), PlaceOf(n.pc))
  <1> DEFINE q == req[r]
             p == ResponseOf(q)
             m == ResponseOf(n)
  <1>1. Seen' = [Seen EXCEPT ![r] = m] /\ Seen[r] = p
    BY SeenChanges
  <1>2. /\ p.at = PlaceOf(q.pc) /\ p.gone = q.gone /\ p.answers = q.answers
        /\ m = Promise!Reply(PlaceOf(n.pc), q.answers, n.gone)
    BY ResponseFields
  <1>3. n.gone \in {q.gone, TRUE}
    OBVIOUS
  <1> HIDE DEF q, p, m
  <1> QED BY <1>1, <1>2, <1>3 DEF Promise!Goes, Seen, q

\* or with one.
LEMMA SeenAnswers ==
    ASSUME req \in [Requests -> GoodRequest], NEW r \in Requests, NEW n,
           Becomes(r, n), n.answers = req[r].answers + 1,
           n.gone = req[r].gone, req[r].answers = 0 \/ n.gone
    PROVE  Promise!Answers(r, PlaceOf(req[r].pc), PlaceOf(n.pc))
  <1> DEFINE q == req[r]
             p == ResponseOf(q)
             m == ResponseOf(n)
  <1>1. Seen' = [Seen EXCEPT ![r] = m] /\ Seen[r] = p
    BY SeenChanges
  <1>2. /\ p.at = PlaceOf(q.pc) /\ p.gone = q.gone /\ p.answers = q.answers
        /\ m = Promise!Reply(PlaceOf(n.pc), q.answers + 1, n.gone)
    BY ResponseFields
  <1>3. n.gone = q.gone /\ (q.answers = 0 \/ n.gone)
    OBVIOUS
  <1> HIDE DEF q, p, m
  <1> QED BY <1>1, <1>2, <1>3 DEF Promise!Answers, Seen, q

\* What a step of a handler on its request is in the contract: the place
\* it goes to, and no more answers than are free to be begun.
LEMMA StepSeen ==
    ASSUME req \in [Requests -> GoodRequest], NEW r \in Requests,
           NEW pc \in RequestPc
    PROVE  /\ To(r, pc) \/ Judged(r, pc) =>
                /\ Promise!Goes(r, PlaceOf(req[r].pc), PlaceOf(pc))
                /\ Seen'[r].answers = req[r].answers
                /\ Seen'[r].gone = req[r].gone
           /\ /\ \/ Answers(r, pc)
                 \/ Becomes(r, [req[r] EXCEPT !.pc = pc, !.verdicts = @ + 1,
                                              !.answers = @ + 1])
              /\ req[r].pc \notin {"writing", "done"}
              => Promise!Answers(r, PlaceOf(req[r].pc), PlaceOf(pc))
  <1> DEFINE q == req[r]
  <1>1. /\ q \in GoodRequest /\ q \in Request /\ Sound(q)
        /\ q.answers \in Nat /\ q.gone \in BOOLEAN
    BY RequestNumbers DEF Request
  <1>2. ASSUME To(r, pc) \/ Judged(r, pc)
        PROVE  /\ Promise!Goes(r, PlaceOf(q.pc), PlaceOf(pc))
               /\ Seen'[r].answers = q.answers /\ Seen'[r].gone = q.gone
    <2>1. PICK n : Becomes(r, n) /\ Moved(q, n, pc) /\ n.answers = q.answers
      <3>1. CASE To(r, pc)
        <4> DEFINE n == [q EXCEPT !.pc = pc]
        <4>1. Becomes(r, n)
          BY <3>1 DEF To
        <4>2. Moved(q, n, pc) /\ n.answers = q.answers
          BY <1>1, Moves
        <4> QED BY <4>1, <4>2
      <3>2. CASE Judged(r, pc)
        <4> DEFINE n == [q EXCEPT !.pc = pc, !.verdicts = @ + 1]
        <4>1. Becomes(r, n)
          BY <3>2 DEF Judged
        <4>2. Moved(q, n, pc) /\ n.answers = q.answers
          BY <1>1, Moves
        <4> QED BY <4>1, <4>2
      <3> QED BY <1>2, <3>1, <3>2
    <2>2. n.gone = q.gone /\ n.pc = pc
      BY <2>1 DEF Moved
    <2>3. Seen'[r] = ResponseOf(n)
      BY <2>1, SeenChanges
    <2>4. Promise!Goes(r, PlaceOf(q.pc), PlaceOf(n.pc))
      BY <2>1, <2>2, SeenGoes
    <2> QED BY <2>1, <2>2, <2>3, <2>4, ResponseFields
  <1>3. ASSUME \/ Answers(r, pc)
               \/ Becomes(r, [q EXCEPT !.pc = pc, !.verdicts = @ + 1,
                                       !.answers = @ + 1]),
               q.pc \notin {"writing", "done"}
        PROVE  Promise!Answers(r, PlaceOf(q.pc), PlaceOf(pc))
    <2>1. PICK n : /\ Becomes(r, n) /\ Moved(q, n, pc)
                   /\ n.answers = q.answers + 1
      BY <1>1, <1>3, Moves DEF Answers
    <2>2. n.gone = q.gone /\ n.pc = pc /\ (q.answers = 0 \/ n.gone)
      BY <1>1, <1>3, <2>1 DEF Moved, Sound
    <2>3. Promise!Answers(r, PlaceOf(q.pc), PlaceOf(n.pc))
      BY <2>1, <2>2, SeenAnswers
    <2> QED BY <2>2, <2>3
  <1> QED BY <1>2, <1>3

\* The steps of a handler are steps of the contract.
LEMMA HandlerSeen ==
    ASSUME GatewayInv, NEW r \in Requests, HandlerStep(r)
    PROVE  Promise!ResponsesNext
  <1> DEFINE here == PlaceOf(req[r].pc)
  <1>g. /\ req \in [Requests -> GoodRequest] /\ req[r] \in GoodRequest
        /\ req[r].answers \in Nat /\ Sound(req[r])
    BY RequestNumbers DEF GatewayInv
  <1>p. /\ PlaceOf("pick") = "between" /\ PlaceOf("prepare") = "openai"
        /\ PlaceOf("openai") = "openai" /\ PlaceOf("body") = "openai"
        /\ PlaceOf("relay") = "relay" /\ PlaceOf("writing") = "relay"
        /\ PlaceOf("done") = "over"
    BY DEF PlaceOf
  <1>1. CASE PickAccount(r)
    <2> PICK u \in Uids : Becomes(r, [req[r] EXCEPT !.pc = "prepare",
                                        !.acct = u, !.tried = @ \cup {u}])
      BY <1>1 DEF PickAccount
    <2> DEFINE n == [req[r] EXCEPT !.pc = "prepare", !.acct = u,
                                   !.tried = @ \cup {u}]
    <2>1. /\ Becomes(r, n) /\ n.pc = "prepare"
          /\ n.answers = req[r].answers /\ n.gone = req[r].gone
      BY <1>g, RequestNumbers DEF Request
    <2> HIDE DEF n
    <2>2. Promise!Goes(r, here, PlaceOf(n.pc))
      BY <1>g, <2>1, SeenGoes
    <2>3. Promise!Attempts(r)
      BY <1>1, <1>p, <2>1, <2>2 DEF Promise!Attempts, PickAccount
    <2> QED BY <2>3 DEF Promise!ResponsesNext
  <1>2. CASE GiveUp(r)
    <2>1. Promise!Answers(r, here, PlaceOf("done"))
      BY <1>g, <1>2, StepSeen DEF GiveUp, Answered, RequestPc
    <2>2. Promise!Refuses(r)
      BY <1>2, <1>p, <2>1 DEF Promise!Refuses, GiveUp
    <2> QED BY <2>2 DEF Promise!ResponsesNext
  <1>3. CASE PrepareOk(r) \/ FallBackToRelay(r) \/ OpenAIAccepts(r)
    <2>1. /\ req[r].pc \in {"prepare", "openai"}
          /\ \E pc \in {"openai", "body", "relay"} : To(r, pc) \/ Judged(r, pc)
      BY <1>3 DEF PrepareOk, FallBackToRelay, OpenAIAccepts
    <2>2. PICK pc \in {"openai", "body", "relay"} :
              Promise!Goes(r, here, PlaceOf(pc))
      BY <1>g, <2>1, StepSeen DEF RequestPc
    <2>3. here = "openai" /\ PlaceOf(pc) \in {"openai", "relay"}
      BY <1>p, <2>1
    <2>4. Promise!Goes(r, "openai", "openai") => Promise!Leaves(r)
      BY DEF Promise!Leaves, Promise!Places
    <2>5. Promise!Goes(r, "openai", "relay") => Promise!FallsBack(r)
      BY DEF Promise!FallsBack
    <2> QED BY <2>2, <2>3, <2>4, <2>5 DEF Promise!ResponsesNext
  <1>4. CASE \/ PrepareFails(r) \/ OpenAITransportFails(r) \/ RelayFails(r)
             \/ RelayWriteFails(r)
    <2>1. /\ req[r].pc \in {"prepare", "openai", "relay", "writing"}
          /\ req[r].pc = "writing" => req[r].gone
          /\ Judged(r, "pick")
      BY <1>4 DEF PrepareFails, OpenAITransportFails, RelayFails,
                  RelayWriteFails
    <2>2. /\ Promise!Goes(r, here, PlaceOf("pick"))
          /\ Seen'[r].answers = req[r].answers /\ Seen'[r].gone = req[r].gone
      BY <1>g, <2>1, StepSeen DEF RequestPc
    <2>3. here \in {"openai", "relay"} /\ PlaceOf("pick") = "between"
      BY <1>p, <2>1
    <2>4. Seen'[r].answers = 0 \/ Seen'[r].gone
      BY <1>g, <2>1, <2>2 DEF Sound
    <2>5. Promise!Rotates(r)
      BY <2>2, <2>3, <2>4 DEF Promise!Rotates, Seen
    <2> QED BY <2>5 DEF Promise!ResponsesNext
  <1>5. CASE OpenAIRefuses(r) \/ OpenAIBody(r)
    <2>1. /\ req[r].pc \in {"openai", "body"}
          /\ To(r, "done") \/ Answers(r, "done")
      BY <1>5 DEF OpenAIRefuses, OpenAIBody, Answered
    <2>2. \/ Promise!Goes(r, here, PlaceOf("done"))
          \/ Promise!Answers(r, here, PlaceOf("done"))
      BY <1>g, <2>1, StepSeen DEF RequestPc
    <2>3. here = "openai" /\ PlaceOf("done") = "over"
      BY <1>p, <2>1
    <2>4. Promise!EndsOpenAI(r)
      BY <2>2, <2>3 DEF Promise!EndsOpenAI
    <2> QED BY <2>4 DEF Promise!ResponsesNext
  <1>6. CASE RelayFirstChunk(r)
    <2>1. Promise!Answers(r, here, PlaceOf("writing"))
      BY <1>g, <1>6, StepSeen DEF RelayFirstChunk, RequestPc
    <2>2. here = "relay" /\ PlaceOf("writing") = "relay"
      BY <1>6, <1>p DEF RelayFirstChunk
    <2>3. Promise!Writes(r)
      BY <2>1, <2>2 DEF Promise!Writes
    <2> QED BY <2>3 DEF Promise!ResponsesNext
  <1>7. CASE RelayOk(r) /\ req[r].pc = "writing"
    <2>1. /\ Promise!Goes(r, here, PlaceOf("done"))
          /\ Seen'[r].answers = req[r].answers
      BY <1>g, <1>7, StepSeen DEF RelayOk, RequestPc
    <2>2. here = "relay" /\ PlaceOf("done") = "over" /\ req[r].answers >= 1
      BY <1>g, <1>7, <1>p DEF Sound
    <2>3. Promise!EndsRelay(r)
      BY <2>1, <2>2 DEF Promise!EndsRelay, Seen
    <2> QED BY <2>3 DEF Promise!ResponsesNext
  <1>8. CASE RelayOk(r) /\ req[r].pc = "relay"
    <2>1. Promise!Answers(r, here, PlaceOf("done"))
      BY <1>g, <1>8, StepSeen DEF RelayOk, RequestPc
    <2>2. here = "relay" /\ PlaceOf("done") = "over"
      BY <1>8, <1>p
    <2>3. Promise!EndsRelay(r)
      BY <2>1, <2>2 DEF Promise!EndsRelay
    <2> QED BY <2>3 DEF Promise!ResponsesNext
  <1>9. RelayOk(r) => req[r].pc \in {"writing", "relay"}
    BY DEF RelayOk
  <1> QED BY <1>1, <1>2, <1>3, <1>4, <1>5, <1>6, <1>7, <1>8, <1>9
          DEF HandlerStep

\* So are those of a request that arrives, hangs up or returns.
LEMMA RequestSeen ==
    ASSUME GatewayInv, NEW r \in Requests,
           Arrive(r) \/ HandlerStep(r) \/ ClientLeaves(r) \/ Return(r)
    PROVE  Promise!ResponsesNext \/ UNCHANGED Seen
  <1> DEFINE q == req[r]
             here == PlaceOf(q.pc)
  <1>g. /\ req \in [Requests -> GoodRequest] /\ q \in Request
        /\ q.answers \in Nat /\ q.gone \in BOOLEAN
    BY RequestNumbers DEF GatewayInv, Request
  <1>p. /\ PlaceOf("idle") = "between" /\ PlaceOf("pick") = "between"
        /\ PlaceOf("done") = "over"
    BY DEF PlaceOf
  <1>1. CASE Arrive(r) /\ Answered(r)
    <2>1. Promise!Answers(r, here, PlaceOf("done"))
      BY <1>g, <1>1, StepSeen DEF Answered, Arrive, RequestPc
    <2>2. Promise!Refuses(r)
      BY <1>1, <1>p, <2>1 DEF Promise!Refuses, Arrive
    <2> QED BY <2>2 DEF Promise!ResponsesNext
  <1>2. ASSUME Arrive(r), NEW s \in BOOLEAN,
               Becomes(r, [q EXCEPT !.pc = "pick", !.stream = s])
        PROVE  Promise!ResponsesNext
    <2> DEFINE n == [q EXCEPT !.pc = "pick", !.stream = s]
    <2>1. /\ Becomes(r, n) /\ n.pc = "pick" /\ q.pc = "idle"
          /\ n.answers = q.answers /\ n.gone = q.gone
      BY <1>g, <1>2 DEF Request, Arrive
    <2> HIDE DEF n
    <2>2. Promise!Goes(r, here, PlaceOf(n.pc))
      BY <1>g, <2>1, SeenGoes
    <2>3. Promise!Goes(r, "between", "between")
      BY <1>p, <2>1, <2>2
    <2>4. Promise!Leaves(r)
      BY <2>3 DEF Promise!Leaves, Promise!Places
    <2> QED BY <2>4 DEF Promise!ResponsesNext
  <1>3. CASE ClientLeaves(r)
    <2> DEFINE n == [q EXCEPT !.gone = TRUE]
    <2>1. /\ Becomes(r, n) /\ n.pc = q.pc
          /\ n.answers = q.answers /\ n.gone = TRUE /\ q.pc # "done"
      BY <1>g, <1>3 DEF Request, ClientLeaves
    <2> HIDE DEF n
    <2>2. Promise!Goes(r, here, PlaceOf(n.pc))
      BY <1>g, <2>1, SeenGoes
    <2>3. here \in {"between", "openai", "relay"}
      BY <1>g, <2>1 DEF PlaceOf, Request, RequestPc
    <2>4. Promise!Leaves(r)
      BY <2>1, <2>2, <2>3 DEF Promise!Leaves, Promise!Places
    <2> QED BY <2>4 DEF Promise!ResponsesNext
  <1>4. CASE Return(r)
    <2>1. Becomes(r, IdleRequest) /\ q.pc = "done"
      BY <1>4 DEF Return
    <2>2. /\ Seen' = [Seen EXCEPT ![r] = ResponseOf(IdleRequest)]
          /\ Seen[r] = ResponseOf(q)
      BY <1>g, <2>1, SeenChanges
    <2>3. ResponseOf(IdleRequest) = Promise!Begun("between")
      BY <1>p DEF ResponseOf, IdleRequest, Promise!Begun, Promise!Reply
    <2>4. Seen[r].at = "over"
      BY <1>p, <2>1, <2>2, ResponseFields
    <2>5. Promise!Returns(r)
      BY <2>2, <2>3, <2>4 DEF Promise!Returns, Seen
    <2> QED BY <2>5 DEF Promise!ResponsesNext
  <1> QED BY <1>1, <1>2, <1>3, <1>4, HandlerSeen DEF Arrive

\* Every step of the server is one of the contract, or does not touch it.
LEMMA NextSeen ==
    GatewayInv /\ [GatewayNext]_vars => [Promise!ResponsesNext]_Seen
  <1> SUFFICES ASSUME GatewayInv, [GatewayNext]_vars
               PROVE  Promise!ResponsesNext \/ UNCHANGED Seen
    OBVIOUS
  <1>1. CASE ServerStops
    <2>1. ResponseOf(IdleRequest) = Promise!Begun("between")
      BY DEF ResponseOf, PlaceOf, IdleRequest, Promise!Begun, Promise!Reply
    <2>2. Seen' = [r \in Requests |-> Promise!Begun("between")]
      BY <1>1, <2>1 DEF Seen, ServerStops
    <2>3. Promise!Vanish
      BY <2>2 DEF Promise!Vanish, Seen
    <2> QED BY <2>3 DEF Promise!ResponsesNext
  <1>2. ASSUME \/ MaintStart \/ MaintStep \/ StartProcess \/ Flushing \/ World
               \/ UNCHANGED vars
        PROVE  UNCHANGED Seen
    <2>1. req' = req
      BY <1>2 DEF MaintStart, MaintStep, MaintNext, MaintRefreshed,
                  MaintSessionDead, MaintPoints, MaintSetPoints, MaintThaw,
                  MaintSandbox, StartProcess, Flushing, World, vars,
                  gatewayVars
    <2> QED BY <2>1 DEF Seen
  <1> QED BY <1>1, <1>2, RequestSeen DEF GatewayNext

\* The rotation keeps the contract of responses: an attempt that began an
\* answer is followed by no other, and no second answer is begun, while the
\* client is there.
THEOREM RotationKeepsResponses == GatewaySpec => KeepsResponses
  <1>1. GatewayInit => Promise!ResponsesInit
    <2> SUFFICES ASSUME GatewayInit PROVE Promise!ResponsesInit
      OBVIOUS
    <2>1. ResponseOf(IdleRequest) = Promise!Begun("between")
      BY DEF ResponseOf, PlaceOf, IdleRequest, Promise!Begun, Promise!Reply
    <2>2. Seen = [r \in Requests |-> Promise!Begun("between")]
      BY <2>1 DEF GatewayInit, Seen
    <2>3. "between" \in Promise!Places \ {"over"}
      BY DEF Promise!Places
    <2>4. Seen \in [Requests -> {Promise!Begun(at) :
                                    at \in Promise!Places \ {"over"}}]
      BY <2>2, <2>3
    <2> QED BY <2>4 DEF Promise!ResponsesInit, Seen
  <1>2. GatewayInv /\ [GatewayNext]_vars
            => [Promise!ResponsesNext]_[r \in Requests |-> ResponseOf(req[r])]
    BY NextSeen DEF Seen
  <1> QED BY <1>1, <1>2, GatewayInvHolds, PTL
          DEF GatewaySpec, KeepsResponses, Promise!ResponsesSpec

\* A response as the contract lets it be.
Bounded(p) ==
    /\ p.answers \in Nat /\ p.gone \in BOOLEAN
    /\ ~p.gone => p.answers <= IF p.at = "between" THEN 0 ELSE 1

AllBounded == \A r \in Requests : Bounded(Seen[r])

LEMMA ReplyBounded ==
    ASSUME NEW at, NEW answers \in Nat, NEW gone \in BOOLEAN,
           ~gone => answers <= IF at = "between" THEN 0 ELSE 1
    PROVE  Bounded(Promise!Reply(at, answers, gone))
  BY DEF Bounded, Promise!Reply

\* A step of the contract changes one response.
LEMMA OneReply ==
    ASSUME AllBounded, NEW r \in Requests, NEW p, Bounded(p),
           Seen' = [Seen EXCEPT ![r] = p]
    PROVE  AllBounded'
  <1>1. ASSUME NEW s \in Requests PROVE Bounded(Seen'[s])
    <2>1. Seen'[s] = IF s = r THEN p ELSE Seen[s]
      BY DEF Seen
    <2> QED BY <2>1 DEF AllBounded
  <1> QED BY <1>1 DEF AllBounded, Bounded

\* The contract alone is enough: whatever keeps it answers a client that
\* stays at most once.
THEOREM ContractGivesOneAnswer == KeepsResponses => []AtMostOneAnswer
  <1>b. ASSUME NEW at PROVE Bounded(Promise!Begun(at))
    BY DEF Bounded, Promise!Begun, Promise!Reply
  <1>1. Promise!ResponsesInit => AllBounded
    <2> SUFFICES ASSUME Promise!ResponsesInit, NEW r \in Requests
                 PROVE  Bounded(Seen[r])
      BY DEF AllBounded
    <2>1. PICK at : Seen[r] = Promise!Begun(at)
      BY DEF Promise!ResponsesInit, Seen
    <2> QED BY <1>b, <2>1
  <1>2. AllBounded /\ [Promise!ResponsesNext]_Seen => AllBounded'
    <2> SUFFICES ASSUME AllBounded, [Promise!ResponsesNext]_Seen
                 PROVE  AllBounded'
      OBVIOUS
    <2>g. ASSUME NEW r \in Requests, NEW from, NEW to,
                 Promise!Goes(r, from, to),
                 to = "between" => \/ from = "between"
                                   \/ Seen[r].answers = 0 \/ Seen'[r].gone
          PROVE  AllBounded'
      <3> DEFINE p == Seen[r]
      <3>1. p.at = from
        BY <2>g DEF Promise!Goes, Seen
      <3>2. PICK gone \in {p.gone, TRUE} :
                Seen' = [Seen EXCEPT ![r] = Promise!Reply(to, p.answers, gone)]
        BY <2>g DEF Promise!Goes, Seen
      <3>3. Seen'[r].gone = gone
        BY <3>2 DEF Seen, Promise!Reply
      <3>4. Bounded(p)
        BY DEF AllBounded
      <3>5. \/ ~(to = "between") \/ from = "between"
            \/ p.answers = 0 \/ gone
        BY <2>g, <3>3
      <3> HIDE DEF p
      <3>6. Bounded(Promise!Reply(to, p.answers, gone))
        <4> DEFINE k == p.answers
        <4>1. /\ k \in Nat /\ gone \in BOOLEAN
              /\ ~gone => k <= IF to = "between" THEN 0 ELSE 1
          <5>1. /\ p.answers \in Nat /\ p.gone \in BOOLEAN
                /\ ~p.gone => p.answers <= IF from = "between" THEN 0 ELSE 1
            BY <3>1, <3>4 DEF Bounded
          <5>2. gone \in BOOLEAN /\ (~gone => ~p.gone)
            BY <5>1
          <5> QED BY <3>5, <5>1, <5>2
        <4> HIDE DEF k
        <4>2. Bounded(Promise!Reply(to, k, gone))
          BY <4>1, ReplyBounded
        <4> QED BY <4>2 DEF k
      <3> QED BY <3>2, <3>6, OneReply
    <2>a. ASSUME NEW r \in Requests, NEW from, NEW to, to # "between",
                 Promise!Answers(r, from, to)
          PROVE  AllBounded'
      <3> DEFINE p == Seen[r]
      <3>1. PICK gone \in {p.gone, TRUE} :
              /\ p.answers = 0 \/ gone
              /\ Seen' = [Seen EXCEPT ![r] =
                              Promise!Reply(to, p.answers + 1, gone)]
        BY <2>a DEF Promise!Answers, Seen
      <3>2. Bounded(p)
        BY DEF AllBounded
      <3> HIDE DEF p
      <3>3. Bounded(Promise!Reply(to, p.answers + 1, gone))
        <4> DEFINE k == p.answers + 1
        <4>1. /\ k \in Nat /\ gone \in BOOLEAN
              /\ ~gone => k <= IF to = "between" THEN 0 ELSE 1
          <5>1. p.answers \in Nat /\ p.gone \in BOOLEAN
            BY <3>2 DEF Bounded
          <5>2. gone \in BOOLEAN /\ (p.answers = 0 \/ gone)
            BY <3>1, <5>1
          <5> QED BY <2>a, <5>1, <5>2
        <4> HIDE DEF k
        <4>2. Bounded(Promise!Reply(to, k, gone))
          BY <4>1, ReplyBounded
        <4> QED BY <4>2 DEF k
      <3> QED BY <3>1, <3>3, OneReply
    <2>1. ASSUME NEW r \in Requests, Promise!Rotates(r) PROVE AllBounded'
      <3>1. PICK at \in {"openai", "relay"} : Promise!Goes(r, at, "between")
        BY <2>1 DEF Promise!Rotates
      <3>2. Seen'[r].answers = 0 \/ Seen'[r].gone
        BY <2>1 DEF Promise!Rotates, Seen
      <3>3. Seen'[r].answers = Seen[r].answers
        BY <3>1 DEF Promise!Goes, Promise!Reply, Seen
      <3> QED BY <2>g, <3>1, <3>2, <3>3
    <2>2. ASSUME NEW r \in Requests, Promise!Returns(r) PROVE AllBounded'
      <3>1. Seen' = [Seen EXCEPT ![r] = Promise!Begun("between")]
        BY <2>2 DEF Promise!Returns, Seen
      <3> QED BY <1>b, <3>1, OneReply
    <2>3. CASE Promise!Vanish
      <3>1. \A r \in Requests : Seen'[r] = Promise!Begun("between")
        BY <2>3 DEF Promise!Vanish, Seen
      <3> QED BY <1>b, <3>1 DEF AllBounded, Bounded
    <2>4. ASSUME NEW r \in Requests,
                 \/ Promise!Attempts(r) \/ Promise!FallsBack(r)
                 \/ Promise!Writes(r) \/ Promise!Leaves(r)
                 \/ Promise!Refuses(r) \/ Promise!EndsOpenAI(r)
                 \/ Promise!EndsRelay(r)
          PROVE  AllBounded'
      <3>1. \/ \E from, to : Promise!Goes(r, from, to) /\
                             (to = "between" => from = "between")
            \/ \E from, to : Promise!Answers(r, from, to) /\ to # "between"
        BY <2>4 DEF Promise!Attempts, Promise!FallsBack, Promise!Writes,
                    Promise!Leaves, Promise!Refuses, Promise!EndsOpenAI,
                    Promise!EndsRelay
      <3> QED BY <2>a, <2>g, <3>1
    <2>5. CASE UNCHANGED Seen
      BY <2>5 DEF AllBounded, Bounded
    <2> QED BY <2>1, <2>2, <2>3, <2>4, <2>5 DEF Promise!ResponsesNext
  <1>3. AllBounded => AtMostOneAnswer
    <2> SUFFICES ASSUME AllBounded, NEW r \in Requests, ~req[r].gone
                 PROVE  req[r].answers <= 1
      BY DEF AtMostOneAnswer
    <2>1. Bounded(Seen[r]) /\ Seen[r] = ResponseOf(req[r])
      BY DEF AllBounded, Seen
    <2> QED BY <2>1, ResponseFields DEF Bounded
  <1>4. AllBounded /\ [Promise!ResponsesNext]_[r \in Requests |->
                          ResponseOf(req[r])] => AllBounded'
    BY <1>2 DEF Seen
  <1> QED BY <1>1, <1>3, <1>4, PTL DEF KeepsResponses, Promise!ResponsesSpec
=============================================================================
