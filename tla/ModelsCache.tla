---------------------------- MODULE ModelsCache -----------------------------
(***************************************************************************)
(* GET /v1/models (internal/server/handler.go): concurrent requests that   *)
(* share dynamicModelsCache and, to fill it, take accounts from the pool   *)
(* of Pool.tla.                                                            *)
(*                                                                         *)
(* The lock of the cache is held for the look at the start and for the     *)
(* writes at the end; between them a request picks an account, asks for    *)
(* its status, prepares it and fetches, one step per call.                 *)
(***************************************************************************)
EXTENDS Pool

CONSTANTS
    Readers,        \* requests for the list in flight at the same time
    ModelsTTL,      \* dynamicModelsTTL (1h)
    FailCooldown    \* modelsFetchFailCooldown (5min)

ASSUME ModelsAssumption == ModelsTTL \in Nat \ {0} /\ FailCooldown \in Nat

VARIABLES
    cache,     \* dynamicModelsCache: fetched is Zero when ids is empty
    reader,    \* the handler of each request
    fetchedAt  \* history: when a fetch last succeeded

modelsVars == <<cache, reader, fetchedAt>>
allVars == <<poolVars, modelsVars>>

\* What a request answered with: the list it found or fetched, or the table
\* of static models.
Replies == {"none", "dynamic", "static"}

ReaderPc == {"idle", "miss", "picked", "prepare", "fetch", "store",
             "fail", "done"}

NoAccount == -1

IdleReader == [pc |-> "idle", acct |-> NoAccount, reply |-> "none"]

Goes(r, pc) == reader' = [reader EXCEPT ![r].pc = pc]
AnswerWith(r, reply) ==
    reader' = [reader EXCEPT ![r].pc = "done", ![r].reply = reply]

Fresh == cache.ids /\ now - cache.fetched < ModelsTTL
Negative == cache.lastFail # Zero /\ now - cache.lastFail < FailCooldown

-----------------------------------------------------------------------------
(* fetchDynamicModels                                                      *)

\* Mutant of Look: the negative cache is consulted first.
Look_NegativeFirst(r) ==
    /\ Running
    /\ reader[r].pc = "idle"
    /\ \/ Negative /\ AnswerWith(r, "static")
       \/ ~Negative /\ Fresh /\ AnswerWith(r, "dynamic")
       \/ ~Negative /\ ~Fresh /\ Goes(r, "miss")
    /\ UNCHANGED <<poolVars, cache, fetchedAt>>

\* The look at the cache, under its read lock.
Look(r) ==
    /\ Running
    /\ reader[r].pc = "idle"
    /\ \/ Fresh /\ AnswerWith(r, "dynamic")
       \/ ~Fresh /\ Negative /\ AnswerWith(r, "static")
       \/ ~Fresh /\ ~Negative /\ Goes(r, "miss")
    /\ UNCHANGED <<poolVars, cache, fetchedAt>>

PickForModels(r) ==
    /\ reader[r].pc = "miss"
    /\ \E u \in Uids :
        /\ Pick({}, u)
        /\ reader' = [reader EXCEPT ![r].pc = "picked", ![r].acct = u]
    /\ UNCHANGED <<cache, fetchedAt>>

\* No account: the static table, and no failure is remembered.
PickNoneForModels(r) ==
    /\ reader[r].pc = "miss"
    /\ PickNone({})
    /\ AnswerWith(r, "static")
    /\ UNCHANGED <<poolVars, cache, fetchedAt>>

\* Pool.Status, after the pool's lock was given up.
CheckStatus(r) ==
    /\ Running
    /\ reader[r].pc = "picked"
    /\ LET u == reader[r].acct IN
       Goes(r, IF u \in DOMAIN entries /\ ~Healthy(entries[u], now)
               THEN "fail" ELSE "prepare")
    /\ UNCHANGED <<poolVars, cache, fetchedAt>>

PrepareForModels(r) ==
    /\ Running
    /\ reader[r].pc = "prepare"
    /\ Goes(r, "fetch")
    /\ UNCHANGED <<poolVars, cache, fetchedAt>>

\* Whatever prepareAccount says is wrong, a dead session too, it counts as an
\* error.
PrepareForModelsFails(r) ==
    /\ reader[r].pc = "prepare"
    /\ NoteError(reader[r].acct)
    /\ Goes(r, "fail")
    /\ UNCHANGED <<cache, fetchedAt>>

FetchWorks(r) ==
    /\ Running
    /\ reader[r].pc = "fetch"
    /\ Goes(r, "store")
    /\ UNCHANGED <<poolVars, cache, fetchedAt>>

FetchFails(r) ==
    /\ reader[r].pc = "fetch"
    /\ NoteError(reader[r].acct)
    /\ Goes(r, "fail")
    /\ UNCHANGED <<cache, fetchedAt>>

Store(r) ==
    /\ Running
    /\ reader[r].pc = "store"
    /\ cache' = [ids |-> TRUE, fetched |-> now, lastFail |-> Zero]
    /\ fetchedAt' = now
    /\ AnswerWith(r, "dynamic")
    /\ UNCHANGED poolVars

StoreFailure(r) ==
    /\ Running
    /\ reader[r].pc = "fail"
    /\ cache' = [cache EXCEPT !.lastFail = now]
    /\ AnswerWith(r, "static")
    /\ UNCHANGED <<poolVars, fetchedAt>>

-----------------------------------------------------------------------------
(* Specification                                                           *)

ReadingStep(r) ==
    \/ PickForModels(r) \/ PickNoneForModels(r) \/ CheckStatus(r)
    \/ PrepareForModels(r) \/ PrepareForModelsFails(r)
    \/ FetchWorks(r) \/ FetchFails(r)
    \/ Store(r) \/ StoreFailure(r)

ReaderReturns(r) ==
    /\ reader[r].pc = "done"
    /\ reader' = [reader EXCEPT ![r] = IdleReader]
    /\ UNCHANGED <<poolVars, cache, fetchedAt>>

\* What else moves: the process starts, the clock ticks, and chat requests
\* find a session dead.
Around ==
    /\ \/ Boot \/ SyncToDir \/ Tick
       \/ \E u \in Uids : Disable(u)
    /\ UNCHANGED modelsVars

ModelsInit ==
    /\ Init
    /\ cache = [ids |-> FALSE, fetched |-> Zero, lastFail |-> Zero]
    /\ reader = [r \in Readers |-> IdleReader]
    /\ fetchedAt = Zero

ModelsNext ==
    \/ \E r \in Readers : Look(r) \/ ReadingStep(r) \/ ReaderReturns(r)
    \/ Around

ModelsSpec == ModelsInit /\ [][ModelsNext]_allVars

-----------------------------------------------------------------------------
(* Properties                                                              *)

\* Every variable of this module stays in its domain.
ModelsTypeOK ==
    /\ cache \in [ids : BOOLEAN, fetched : Nat, lastFail : Nat]
    /\ reader \in [Readers -> [pc : ReaderPc, acct : Uids \cup {NoAccount},
                               reply : Replies]]
    /\ fetchedAt \in Nat

\* The cache keeps its list for dynamicModelsTTL (handler.go:167): a request
\* that looks within that time of a successful fetch is answered with it, no
\* matter which other fetches, begun before or after, have failed since.
ListOutlivesFailures ==
    [][\A r \in Readers :
        (/\ reader[r].pc = "idle" /\ reader'[r].pc # "idle"
         /\ fetchedAt # Zero /\ now - fetchedAt < ModelsTTL)
            => reader'[r].reply = "dynamic"]_allVars
=============================================================================
