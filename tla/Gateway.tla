------------------------------ MODULE Gateway ------------------------------
(***************************************************************************)
(* The server process: concurrent chat requests (internal/server/          *)
(* handler.go) and the maintenance scheduler (internal/scheduler/          *)
(* scheduler.go) over the one pool of Pool.tla.                            *)
(*                                                                         *)
(* A step of a request or of the scheduler ends at its next call of the    *)
(* upstream: everything the code does between two network calls without    *)
(* touching the pool again is one step, and the pool calls are the actions *)
(* of Pool.tla.  Other requests, the scheduler, the clock and the client   *)
(* move while a call is out.                                               *)
(*                                                                         *)
(* An upstream call may fail in any way Classification.tla derives from    *)
(* its responses.                                                          *)
(***************************************************************************)
EXTENDS Pool, Classification

CONSTANTS
    Requests,        \* slots for chat requests in flight at the same time
    Mode,            \* cfg.Mode: "auto", "openai" or "relay"
    MaxRotate,       \* cfg.MaxRotate, accounts tried per request (3)
    Maintained,      \* whether the scheduler runs in this instance
    Restarts,        \* whether the process may end and start again
    ClientsMayLeave  \* whether clients may hang up

ASSUME ModeAssumption == Mode \in {"auto", "openai", "relay"}
ASSUME MaxRotateAssumption == MaxRotate \in Nat \ {0}
ASSUME InstanceAssumption ==
    Maintained \in BOOLEAN /\ Restarts \in BOOLEAN /\ ClientsMayLeave \in BOOLEAN

VARIABLES
    req,     \* the handler of each request
    maint,   \* the scheduler goroutine
    dead,    \* history: accounts this process has found dead
    promised \* history: until when each account was last to rest for want
             \* of credit (Zero once the scheduler found credit again)

history == <<dead, promised>>
gatewayVars == <<req, maint, history>>
vars == <<poolVars, gatewayVars>>

NoAcct == -1

-----------------------------------------------------------------------------
(* The state of a request and of the scheduler                             *)

\* Where a handler is: at the top of the rotation loop, or in the call named.
\* "writing" is ChatRelay once it has written a chunk to the client.
RequestPc == {"idle", "pick", "prepare", "openai", "body", "relay",
              "writing", "done"}

Request == [pc : RequestPc, acct : Uids \cup {NoAcct}, tried : SUBSET Uids,
            stream : BOOLEAN, gone : BOOLEAN,
            answers : Nat,    \* answers begun on the response
            verdicts : Nat]   \* reports made to the pool

IdleRequest == [pc |-> "idle", acct |-> NoAcct, tried |-> {},
                stream |-> FALSE, gone |-> FALSE, answers |-> 0,
                verdicts |-> 0]

\* todo: what is left of the List snapshot; cooling: which of its accounts
\* were at rest when it was taken.
MaintPc == {"idle", "next", "refresh", "points", "set", "thaw", "sandbox"}
Maint == [pc : MaintPc, todo : SUBSET Uids, cooling : SUBSET Uids,
          acct : Uids \cup {NoAcct}, points : Int]

IdleMaint == [pc |-> "idle", todo |-> {}, cooling |-> {}, acct |-> NoAcct,
              points |-> 0]

Becomes(r, q) == req' = [req EXCEPT ![r] = q]

To(r, pc) == Becomes(r, [req[r] EXCEPT !.pc = pc])

\* The request reported on its account and goes on.
Judged(r, pc) == Becomes(r, [req[r] EXCEPT !.pc = pc, !.verdicts = @ + 1])

\* The handler begins an answer and returns, or goes on.
Answers(r, pc) == Becomes(r, [req[r] EXCEPT !.pc = pc, !.answers = @ + 1])
Answered(r) == Answers(r, "done")

-----------------------------------------------------------------------------
(* A chat request                                                          *)

\* A request arrives.  Its body is checked before the pool is asked.
Arrive(r) ==
    /\ Running
    /\ req[r].pc = "idle"
    /\ \/ \E s \in BOOLEAN :
            Becomes(r, [req[r] EXCEPT !.pc = "pick", !.stream = s])
       \/ Answered(r)                                   \* 400
    /\ UNCHANGED <<poolVars, maint, history>>

\* One round of the rotation loop: an account not tried yet.
PickAccount(r) ==
    /\ req[r].pc = "pick"
    /\ Cardinality(req[r].tried) < MaxRotate
    /\ \E u \in Uids :
        /\ Pick(req[r].tried, u)
        /\ Becomes(r, [req[r] EXCEPT !.pc = "prepare", !.acct = u,
                                     !.tried = @ \cup {u}])
    /\ UNCHANGED <<maint, history>>

\* Mutant of GiveUp: the 503 is not written.
GiveUp_Silently(r) ==
    /\ req[r].pc = "pick"
    /\ Running
    /\ Cardinality(req[r].tried) >= MaxRotate \/ PickNone(req[r].tried)
    /\ To(r, "done")
    /\ UNCHANGED <<poolVars, maint, history>>

\* Mutant of GiveUp: with no account left the handler waits for one.
GiveUp_Waits(r) ==
    /\ req[r].pc = "pick"
    /\ Running
    /\ Cardinality(req[r].tried) >= MaxRotate
    /\ Answered(r)
    /\ UNCHANGED <<poolVars, maint, history>>

\* No account is left, or MaxRotate were tried: 503.
GiveUp(r) ==
    /\ req[r].pc = "pick"
    /\ Running
    /\ Cardinality(req[r].tried) >= MaxRotate \/ PickNone(req[r].tried)
    /\ Answered(r)
    /\ UNCHANGED <<poolVars, maint, history>>

\* What the handler does to the pool for a failed call.
Verdict(r, kind) ==
    LET u == req[r].acct IN
    \/ /\ kind = "session_dead"
       /\ Disable(u)
       /\ dead' = dead \cup {u}
       /\ UNCHANGED promised
    \/ /\ kind = "hard_credit"
       /\ Cooldown(u, kind)
       /\ promised' = [promised EXCEPT ![u] = now + HardCooldown]
       /\ UNCHANGED dead
    \/ /\ kind = "soft_rate"
       /\ Cooldown(u, kind)
       /\ UNCHANGED history
    \/ /\ kind = "other"
       /\ NoteError(u)
       /\ UNCHANGED history

\* Mutant of PrepareOk: the next call is taken from the mode's name.
PrepareOk_ByMode(r) ==
    /\ Running
    /\ req[r].pc = "prepare"
    /\ To(r, Mode)
    /\ UNCHANGED <<poolVars, maint, history>>

\* prepareAccount: refresh the token, ensure and wake the sandbox.
PrepareOk(r) ==
    /\ Running
    /\ req[r].pc = "prepare"
    /\ To(r, IF Mode = "relay" THEN "relay" ELSE "openai")
    /\ UNCHANGED <<poolVars, maint, history>>

PrepareFails(r) ==
    /\ req[r].pc = "prepare"
    /\ \E kind \in PrepareKinds : Verdict(r, kind)
    /\ Judged(r, "pick")
    /\ UNCHANGED maint

\* ChatOpenAI returns an error: never an upstream.Error, so NoteError.
OpenAITransportFails(r) ==
    /\ req[r].pc = "openai"
    /\ Verdict(r, "other")
    /\ Judged(r, "pick")
    /\ UNCHANGED maint

\* Mutant of FallBackToRelay: falling back counts as an error too.
FallBackToRelay_NoteError(r) ==
    /\ req[r].pc = "openai"
    /\ Mode = "auto"
    /\ Verdict(r, "other")
    /\ Judged(r, "relay")
    /\ UNCHANGED maint

\* The endpoint is not enabled: the other channel with the same account.
\* NewHandler sets AutoRelayFallback in mode "auto" only.
FallBackToRelay(r) ==
    /\ Running
    /\ req[r].pc = "openai"
    /\ Mode = "auto"
    /\ \E resp \in ErrorResponses : NotEnabled(resp)
    /\ To(r, "relay")
    /\ UNCHANGED <<poolVars, maint, history>>

\* Any other status >= 400, or any in mode "openai": chatViaOpenAI reports
\* handled with an error the caller drops; nothing is written and the pool is
\* told nothing.
OpenAIRefuses(r) ==
    /\ Running
    /\ req[r].pc = "openai"
    /\ \E resp \in ErrorResponses : Mode = "auto" => ~NotEnabled(resp)
    /\ To(r, "done")
    /\ UNCHANGED <<poolVars, maint, history>>

\* 2xx: the success is recorded before the body is read.
OpenAIAccepts(r) ==
    /\ req[r].pc = "openai"
    /\ NoteSuccess(req[r].acct)
    /\ Judged(r, "body")
    /\ UNCHANGED <<maint, history>>

\* Mutant of OpenAIBody: after a 502 the loop tries the next account.
OpenAIBody_Rotates(r) ==
    /\ Running
    /\ req[r].pc = "body"
    /\ \/ Answered(r) \/ To(r, "done")
       \/ Answers(r, "pick")
    /\ UNCHANGED <<poolVars, maint, history>>

\* The body is passed on, aggregated or wrapped, or a 502 says why not; or
\* reading it failed before anything was written, and nothing is.
OpenAIBody(r) ==
    /\ Running
    /\ req[r].pc = "body"
    /\ Answered(r) \/ To(r, "done")
    /\ UNCHANGED <<poolVars, maint, history>>

\* ChatRelay writes its first chunk (only when streaming: otherwise into a
\* buffer).  The client is there, or its absence is not noticed yet.
RelayFirstChunk(r) ==
    /\ Running
    /\ req[r].pc = "relay" /\ req[r].stream
    /\ Answers(r, "writing")
    /\ UNCHANGED <<poolVars, maint, history>>

\* Mutant of RelayFails: the loop goes on without telling the pool.
RelayFails_Unreported(r) ==
    /\ Running
    /\ req[r].pc = "relay"
    /\ To(r, "pick")
    /\ UNCHANGED <<poolVars, maint, history>>

\* ChatRelay fails before a chunk: a call failed, or the buffer does not
\* aggregate, or the first write meets a client that is gone.
RelayFails(r) ==
    /\ req[r].pc = "relay"
    /\ \E kind \in RelayKinds : Verdict(r, kind)
    /\ Judged(r, "pick")
    /\ UNCHANGED maint

\* Mutant of RelayWriteFails: an error event amid the stream is returned as
\* an error, and the loop goes on with the client still there.
RelayWriteFails_AnyError(r) ==
    /\ req[r].pc = "writing"
    /\ Verdict(r, "other")
    /\ Judged(r, "pick")
    /\ UNCHANGED maint

\* A later write fails: the client hung up.  The loop goes on all the same.
RelayWriteFails(r) ==
    /\ req[r].pc = "writing" /\ req[r].gone
    /\ Verdict(r, "other")
    /\ Judged(r, "pick")
    /\ UNCHANGED maint

\* ChatRelay returns nil: the stream ended, or the buffer is aggregated and
\* written.
RelayOk(r) ==
    /\ \/ req[r].pc = "writing"
          /\ Judged(r, "done")
       \/ req[r].pc = "relay" /\ ~req[r].stream
          /\ Becomes(r, [req[r] EXCEPT !.pc = "done", !.verdicts = @ + 1,
                                       !.answers = @ + 1])
    /\ NoteSuccess(req[r].acct)
    /\ UNCHANGED <<maint, history>>

ClientLeaves(r) ==
    /\ ClientsMayLeave
    /\ req[r].pc \notin {"idle", "done"} /\ ~req[r].gone
    /\ Becomes(r, [req[r] EXCEPT !.gone = TRUE])
    /\ UNCHANGED <<poolVars, maint, history>>

\* The handler returned; the slot takes another request.
Return(r) ==
    /\ req[r].pc = "done"
    /\ Becomes(r, IdleRequest)
    /\ UNCHANGED <<poolVars, maint, history>>

-----------------------------------------------------------------------------
(* The scheduler: RunMaintenanceNow                                        *)

Scheduling(pc) == Running /\ Maintained /\ maint.pc = pc

\* List: the accounts not disabled now are visited, whatever happens next.
MaintStart ==
    /\ Scheduling("idle")
    /\ maint' = [maint EXCEPT !.pc = "next",
            !.todo = {u \in DOMAIN entries : ~entries[u].disabled},
            !.cooling = {u \in DOMAIN entries : ~entries[u].disabled /\
                                                Cooling(entries[u], now)}]
    /\ UNCHANGED <<poolVars, req, history>>

\* Mutant of MaintNext: the account visited stays in the list.
MaintNext_Requeues ==
    /\ Scheduling("next")
    /\ IF maint.todo = {} THEN maint' = IdleMaint
       ELSE maint' = [maint EXCEPT !.pc = "refresh", !.acct = Min(maint.todo)]
    /\ UNCHANGED <<poolVars, req, history>>

MaintNext ==
    /\ Scheduling("next")
    /\ IF maint.todo = {} THEN maint' = IdleMaint
       ELSE LET u == Min(maint.todo) IN
            maint' = [maint EXCEPT !.pc = "refresh", !.acct = u,
                                   !.todo = @ \ {u}]
    /\ UNCHANGED <<poolVars, req, history>>

\* RefreshToken was not needed, worked, or failed without the session being
\* dead: the balance is asked for in every case.
MaintRefreshed ==
    /\ Scheduling("refresh")
    /\ maint' = [maint EXCEPT !.pc = "points"]
    /\ UNCHANGED <<poolVars, req, history>>

MaintSessionDead ==
    /\ Scheduling("refresh")
    /\ Disable(maint.acct)
    /\ dead' = dead \cup {maint.acct}
    /\ maint' = [maint EXCEPT !.pc = "next"]
    /\ UNCHANGED <<req, promised>>

\* An account that was at rest and has no credit needs no sandbox.
AfterPoints(points) ==
    IF maint.acct \in maint.cooling /\ points <= 0 THEN "next" ELSE "sandbox"

\* CheckPoints answers, or fails and the pool is left alone.
MaintPoints ==
    /\ Scheduling("points")
    /\ \/ \E p \in Balances :
            maint' = [maint EXCEPT !.pc = "set", !.points = p]
       \/ maint' = [maint EXCEPT !.pc = AfterPoints(0)]
    /\ UNCHANGED <<poolVars, req, history>>

\* SetPoints and ReenableIfPoints take the pool's lock one after the other.
MaintSetPoints ==
    /\ Scheduling("set")
    /\ SetPoints(maint.acct, maint.points)
    /\ maint' = [maint EXCEPT !.pc = "thaw"]
    /\ UNCHANGED <<req, history>>

\* Mutant of MaintThaw: the manual operation instead of ReenableIfPoints.
MaintThaw_Manual ==
    /\ Scheduling("thaw")
    /\ ReenableAfterManual(maint.acct)
    /\ maint' = [maint EXCEPT !.pc = AfterPoints(maint.points),
                           !.points = 0]
    /\ UNCHANGED <<req, history>>

MaintThaw ==
    /\ Scheduling("thaw")
    /\ ReenableIfPoints(maint.acct, maint.points)
    /\ promised' = IF maint.points > 0
                   THEN [promised EXCEPT ![maint.acct] = Zero] ELSE promised
    /\ maint' = [maint EXCEPT !.pc = AfterPoints(maint.points),
                           !.points = 0]
    /\ UNCHANGED <<req, dead>>

\* EnsureSandbox and SaveAtomic, which work or fail: nothing is told to the
\* pool (Credentials.tla has what they do to the credential).
MaintSandbox ==
    /\ Scheduling("sandbox")
    /\ maint' = [maint EXCEPT !.pc = "next"]
    /\ UNCHANGED <<poolVars, req, history>>

-----------------------------------------------------------------------------
(* The process and the world                                               *)

StartProcess == (Boot \/ SyncToDir) /\ UNCHANGED gatewayVars

\* The process ends: connections are cut and goroutines vanish.
ServerStops ==
    /\ Restarts
    /\ Stop
    /\ req' = [r \in Requests |-> IdleRequest]
    /\ maint' = IdleMaint
    /\ dead' = {}
    /\ promised' = [u \in Uids |-> Zero]

\* The flusher, and the Flush calls of a shutdown.
Flushing == (FlushTick \/ (Restarts /\ Flush)) /\ UNCHANGED gatewayVars

World ==
    /\ \/ Tick
       \/ /\ Restarts
          /\ \E u \in Uids : Login(u) \/ RemoveCredential(u)
    /\ UNCHANGED gatewayVars

-----------------------------------------------------------------------------
(* Specification                                                           *)

GatewayInit ==
    /\ Init
    /\ req = [r \in Requests |-> IdleRequest]
    /\ maint = IdleMaint
    /\ dead = {}
    /\ promised = [u \in Uids |-> Zero]

\* The steps a handler takes once its request has arrived.
HandlerStep(r) ==
    \/ PickAccount(r) \/ GiveUp(r)
    \/ PrepareOk(r) \/ PrepareFails(r)
    \/ OpenAITransportFails(r) \/ FallBackToRelay(r) \/ OpenAIRefuses(r)
    \/ OpenAIAccepts(r) \/ OpenAIBody(r)
    \/ RelayFirstChunk(r) \/ RelayFails(r) \/ RelayWriteFails(r) \/ RelayOk(r)

MaintStep ==
    \/ MaintNext
    \/ MaintRefreshed \/ MaintSessionDead
    \/ MaintPoints \/ MaintSetPoints \/ MaintThaw \/ MaintSandbox

GatewayNext ==
    \/ \E r \in Requests :
        Arrive(r) \/ HandlerStep(r) \/ ClientLeaves(r) \/ Return(r)
    \/ MaintStart \/ MaintStep
    \/ StartProcess \/ ServerStops \/ Flushing
    \/ World

GatewaySpec == GatewayInit /\ [][GatewayNext]_vars

\* A handler takes its next step where no one outside the process keeps it
\* from it.  Every HTTP call ends: client.HTTP has a timeout (config.go makes
\* it positive) that covers the body too, and a refusal of a few hundred
\* bytes (the messages are cut) fits the buffers of the response.  Not so in
\* ChatRelay, which may wait for its WebSocket without a deadline
\* (RelaySession.tla), nor while an answer is written: the server has no
\* WriteTimeout (main.go:79), so a client that stays and does not read holds
\* the write.
MovesOn(r) ==
    /\ HandlerStep(r)
    /\ req[r].pc # "relay"
    /\ req[r].pc \in {"body", "writing"} => req[r].gone

\* Handlers move on, a started maintenance round takes its next step (its
\* calls have the same timeout), and the flusher's ticker never stops.
FairGatewaySpec ==
    /\ GatewaySpec
    /\ \A r \in Requests : WF_vars(MovesOn(r))
    /\ WF_vars(MaintStep)
    /\ WF_vars(FlushTick /\ UNCHANGED gatewayVars)

-----------------------------------------------------------------------------
(* Properties                                                              *)

\* Every variable of this module stays in its domain.
GatewayTypeOK ==
    /\ req \in [Requests -> Request]
    /\ maint \in Maint
    /\ dead \subseteq Uids
    /\ promised \in [Uids -> Nat]

\* The gateway uses the pool only through its operations: each of its steps
\* is a step of Pool.tla or leaves the pool alone.
ImplementsPool == Spec

\* The responses, seen without accounts and verdicts.
PlaceOf(pc) ==
    CASE pc \in {"idle", "pick"} -> "between"
      [] pc \in {"prepare", "openai", "body"} -> "openai"
      [] pc \in {"relay", "writing"} -> "relay"
      [] pc = "done" -> "over"

ResponseOf(q) ==
    [at |-> PlaceOf(q.pc), answers |-> q.answers, gone |-> q.gone]

Promise == INSTANCE Responses
               WITH response <- [r \in Requests |-> ResponseOf(req[r])]

\* The rotation keeps the contract of responses, and takes of an attempt
\* nothing but what the contract grants (ChatAttempt.tla).
KeepsResponses == Promise!ResponsesSpec

\* A client that stays gets at most one answer: no path through the
\* rotation, the two channels and the error branches of handler.go begins a
\* second answer on the same response.
AtMostOneAnswer == \A r \in Requests : ~req[r].gone => req[r].answers <= 1

\* A handler that returned has answered the client.
AnsweredWhenDone ==
    \A r \in Requests :
        req[r].pc = "done" /\ ~req[r].gone => req[r].answers >= 1

\* Every account a request tried and left was reported to the pool, once:
\* as failed or as successful.  No failure goes unnoticed by the pool and
\* none is counted twice.
EveryAttemptJudged ==
    \A r \in Requests :
        req[r].verdicts =
            IF req[r].pc \in {"prepare", "openai", "relay", "writing"}
            THEN Cardinality(req[r].tried) - 1
            ELSE Cardinality(req[r].tried)

\* The weaker half, for the modes where the other one fails: no attempt is
\* reported twice.
JudgedAtMostOnce ==
    \A r \in Requests : req[r].verdicts <= Cardinality(req[r].tried)

\* Once a request or the scheduler has found a session dead, no request of
\* this process is given the account again: requests in flight with the same
\* account, balance refreshes of a maintenance round that began earlier and
\* flushes do not bring it back.
DeadNeverServed ==
    [][\A r \in Requests :
        req[r].pc = "pick" /\ req'[r].pc = "prepare"
            => req'[r].acct \notin dead]_vars

\* What the state file says of a dead account outlives the process: after
\* any number of restarts, in whatever order flushes and removals of
\* credentials come, a request is never given an account the file has as
\* disabled, unless someone signed in to it since it was found dead.  Those
\* README.md:117 says a restart enables again; the run pool_restart_enables
\* shows what the code makes of that.
SavedDisabledNeverServed ==
    [][\A r \in Requests :
        req[r].pc = "pick" /\ req'[r].pc = "prepare"
            => LET u == req'[r].acct IN
               u \in DOMAIN file /\ file[u].disabled => u \in relogged]_vars

\* A request that arrived finishes, whatever the upstream answers, unless
\* the process ends first, ChatRelay never returns, or the client stays and
\* stops reading what is written to it: no other place of the handler holds
\* a request for good, the rotation comes to an end, and a request whose
\* client left is held by ChatRelay only.
RequestsFinish ==
    \A r \in Requests :
        req[r].pc # "idle" ~>
            \/ req[r].pc = "done" \/ ~Running
            \/ [](req[r].pc = "relay")
            \/ [](req[r].pc \in {"body", "writing"} /\ ~req[r].gone)

\* A maintenance round comes to its end.
MaintenanceFinishes == maint.pc # "idle" ~> maint.pc = "idle"

(* What the repository says and the code does not do.                      *)

\* README.md:114: an account out of credit is cooled for cooldown.hard_credit
\* and not chosen in the meantime (README.md:120: unless its balance
\* recovered).
HardCooldownHonoured ==
    [][\A r \in Requests :
        req[r].pc = "pick" /\ req'[r].pc = "prepare"
            => now >= promised[req'[r].acct]]_vars
=============================================================================
