-------------------------------- MODULE Pool --------------------------------
(***************************************************************************)
(* The account pool (internal/pool/pool.go): the in-memory index of        *)
(* accounts with their cooldown/disable state machine, the state file, the *)
(* background flusher, and the life of the process that owns them.         *)
(*                                                                         *)
(* Every exported method of Pool runs under p.mu, so each is one action.   *)
(* The actions take the account (and what the caller decided) as           *)
(* parameters; Next calls them with every argument, and Gateway.tla        *)
(* extends this module and calls them the way the handlers do.             *)
(*                                                                         *)
(* Time is a natural number.  Zero is Go's zero time, in the past of every *)
(* reading of the clock.  MaxTime bounds the clock for TLC only.           *)
(***************************************************************************)
EXTENDS PickPolicy

CONSTANTS
    Uids,           \* the accounts that can exist, naturals
    Balances,       \* the balances the wallet endpoint may report
    ErrThreshold,   \* cooldown.err_threshold
    HardCooldown,   \* cooldown.hard_credit   (12h)
    SoftCooldown,   \* cooldown.soft_rate     (60s)
    ErrCooldown,    \* cooldown.err_cooldown  (10m)
    StateFile,      \* whether state_file is configured (stateFp # "")
    DiskFaults,     \* whether writing the state file may fail
    StartTime,      \* the clock when the model starts
    MaxTime         \* bound on the clock

ASSUME UidsAssumption == Uids \subseteq Nat
ASSUME BalancesAssumption == Balances \subseteq Int
ASSUME ErrThresholdAssumption == ErrThreshold \in Nat \ {0}
ASSUME CooldownAssumption ==
    /\ HardCooldown \in Nat \ {0}
    /\ SoftCooldown \in Nat \ {0}
    /\ ErrCooldown \in Nat \ {0}
ASSUME SwitchAssumption == StateFile \in BOOLEAN /\ DiskFaults \in BOOLEAN
ASSUME ClockAssumption ==
    /\ StartTime \in Nat /\ StartTime > Zero
    /\ MaxTime \in Nat /\ StartTime <= MaxTime

VARIABLES
    entries,   \* byUID: account |-> entry
    dirty,     \* dirty: a change not yet handed to the state file
    file,      \* the state file: account |-> stateAccount (no file: empty)
    now,       \* the clock
    proc,      \* "down", "loaded" (New returned), "running" (SyncToDir done)
    dir,       \* accounts with a credential file in auth_dir
    relogged   \* accounts logged in again since they were last disabled

poolVars == <<entries, dirty, file, now, proc, dir, relogged>>

-----------------------------------------------------------------------------
(* Entries                                                                 *)

Kinds == {"hard_credit", "soft_rate", "error_threshold"}
Reasons == {"", "no credit", "429", "consecutive errors", "session dead"}

Entry == [points : Int, errCount : Nat, coolKind : Kinds, until : Nat,
          disabled : BOOLEAN, reason : Reasons, lastUsed : Nat,
          auth : {"placeholder", "full"}]

\* What stateAccount keeps; lastUsed and the credential are not written.
StateAccount == [points : Int, errCount : Nat, coolKind : Kinds, until : Nat,
                 disabled : BOOLEAN, reason : Reasons]

\* &entry{a: a}: Go's zero values, and CoolHard is the zero CoolKind.
NewEntry == [points |-> 0, errCount |-> 0, coolKind |-> "hard_credit",
             until |-> Zero, disabled |-> FALSE, reason |-> "",
             lastUsed |-> Zero, auth |-> "full"]

\* An index or a state file without accounts.
NoAccounts == [u \in {} |-> NewEntry]

Cooling(e, t) == e.until # Zero /\ t < e.until
Healthy(e, t) == ~e.disabled /\ ~Cooling(e, t)

\* Mutant of Cooled: the kind and the reason are swapped.
Cooled_Swapped(e, kind, d, why) ==
    [e EXCEPT !.until = now + d, !.coolKind = why, !.reason = kind,
              !.errCount = 0]

Cooled(e, kind, d, why) ==
    [e EXCEPT !.until = now + d, !.coolKind = kind, !.reason = why,
              !.errCount = 0]

\* Mutant of Thawed: the reason is not cleared.
Thawed_KeepsReason(e) ==
    [e EXCEPT !.until = Zero, !.coolKind = "hard_credit", !.errCount = 0]

Thawed(e) ==
    [e EXCEPT !.until = Zero, !.coolKind = "hard_credit", !.reason = "",
              !.errCount = 0]

\* The reason and the duration the callers pass with each kind.
ReasonOf(kind) == CASE kind = "hard_credit"     -> "no credit"
                    [] kind = "soft_rate"       -> "429"
                    [] kind = "error_threshold" -> "consecutive errors"
DurationOf(kind) == CASE kind = "hard_credit"     -> HardCooldown
                      [] kind = "soft_rate"       -> SoftCooldown
                      [] kind = "error_threshold" -> ErrCooldown

-----------------------------------------------------------------------------
(* The state file                                                          *)

Persisted(e) == [points |-> e.points, errCount |-> e.errCount,
                 coolKind |-> e.coolKind, until |-> e.until,
                 disabled |-> e.disabled, reason |-> e.reason]

\* Mutant of Restored: load forgets that the account was disabled.
Restored_Enabled(s) == [points |-> s.points, errCount |-> s.errCount,
                        coolKind |-> s.coolKind, until |-> s.until,
                        disabled |-> FALSE, reason |-> s.reason,
                        lastUsed |-> Zero, auth |-> "placeholder"]

Restored(s) == [points |-> s.points, errCount |-> s.errCount,
                coolKind |-> s.coolKind, until |-> s.until,
                disabled |-> s.disabled, reason |-> s.reason,
                lastUsed |-> Zero, auth |-> "placeholder"]

\* saveLocked: write a temporary file and rename it; errors are dropped.
SaveLocked(es) ==
    \/ StateFile /\ file' = [u \in DOMAIN es |-> Persisted(es[u])]
    \/ (~StateFile \/ DiskFaults) /\ UNCHANGED file

-----------------------------------------------------------------------------
(* Operations of a running process                                         *)

Running == proc = "running"
UNCHANGED_Env == UNCHANGED <<now, proc, dir>>

\* Mutant of Update: dirty.Store(true) is missing.
Update_NotDirty(u, e) ==
    /\ IF u \in DOMAIN entries
       THEN entries' = [entries EXCEPT ![u] = e]
       ELSE UNCHANGED entries
    /\ UNCHANGED <<dirty, file>> /\ UNCHANGED_Env

\* The common shape of the setters: if the account is known, change its
\* entry and mark the pool dirty; otherwise do nothing.
Update(u, e) ==
    /\ IF u \in DOMAIN entries
       THEN entries' = [entries EXCEPT ![u] = e] /\ dirty' = TRUE
       ELSE UNCHANGED <<entries, dirty>>
    /\ UNCHANGED file /\ UNCHANGED_Env

SetPoints(u, p) ==
    /\ Running
    /\ Update(u, [entries[u] EXCEPT !.points = p])
    /\ UNCHANGED relogged

Cooldown(u, kind) ==
    /\ Running
    /\ Update(u, Cooled(entries[u], kind, DurationOf(kind), ReasonOf(kind)))
    /\ UNCHANGED relogged

Disable(u) ==
    /\ Running
    /\ Update(u, [entries[u] EXCEPT !.disabled = TRUE,
                                    !.reason = "session dead"])
    /\ relogged' = relogged \ {u}

ReenableAfterManual(u) ==
    /\ Running
    /\ Update(u, [Thawed(entries[u]) EXCEPT !.disabled = FALSE])
    /\ UNCHANGED relogged

\* Mutant of ReenableIfPoints: a balance enables a disabled account.
ReenableIfPoints_EvenDisabled(u, p) ==
    /\ Running
    /\ Update(u, [Thawed(entries[u]) EXCEPT !.points = p, !.disabled = FALSE])
    /\ UNCHANGED relogged

ReenableIfPoints(u, p) ==
    /\ Running
    /\ Update(u, IF entries[u].disabled
                 THEN [entries[u] EXCEPT !.points = p]
                 ELSE [Thawed(entries[u]) EXCEPT !.points = p])
    /\ UNCHANGED relogged

NoteError(u) ==
    /\ Running
    /\ Update(u, IF entries[u].errCount + 1 >= ErrThreshold
                 THEN Cooled(entries[u], "error_threshold", ErrCooldown,
                             "consecutive errors")
                 ELSE [entries[u] EXCEPT !.errCount = @ + 1])
    /\ UNCHANGED relogged

\* Mutant of NoteSuccess: an account that answered is enabled.
NoteSuccess_Enables(u) ==
    /\ Running
    /\ Update(u, [entries[u] EXCEPT !.errCount = 0, !.disabled = FALSE])
    /\ UNCHANGED relogged

\* successCount is not modelled: nothing reads it but /status.
NoteSuccess(u) ==
    /\ Running
    /\ Update(u, [entries[u] EXCEPT !.errCount = 0])
    /\ UNCHANGED relogged

Candidates(tried) ==
    {u \in DOMAIN entries \ tried : Healthy(entries[u], now)}

\* PickExcluding(tried) returns u.  It does not mark the pool dirty.
Pick(tried, u) ==
    /\ Running
    /\ Candidates(tried) # {}
    /\ u \in PickChoices(entries, now, Candidates(tried))
    /\ entries' = [entries EXCEPT ![u].lastUsed = now]
    /\ UNCHANGED <<dirty, file, relogged>> /\ UNCHANGED_Env

\* PickExcluding(tried) returns nil.
PickNone(tried) == Running /\ Candidates(tried) = {}

\* Mutant of Upserted: a known account keeps the credential it has.
Upserted_KeepsCredential(D) ==
    [u \in DOMAIN entries \cup D |->
        IF u \notin DOMAIN entries THEN NewEntry ELSE entries[u]]

\* upsertLocked on every account of D.
Upserted(D) ==
    [u \in DOMAIN entries \cup D |->
        IF u \notin DOMAIN entries THEN NewEntry
        ELSE IF u \in D THEN [entries[u] EXCEPT !.auth = "full"]
        ELSE entries[u]]

Add(u) ==
    /\ Running
    /\ u \in dir
    /\ entries' = Upserted({u})
    /\ UNCHANGED <<dirty, file, relogged>> /\ UNCHANGED_Env

-----------------------------------------------------------------------------
(* Flushing, and the life of the process                                   *)

\* Mutant of SwapAndSave: the flag is cleared and nothing is saved.
SwapAndSave_NoSave ==
    /\ dirty' = FALSE
    /\ UNCHANGED <<entries, file, relogged>> /\ UNCHANGED_Env

\* dirty.Swap(false), and saveLocked when it was set.
SwapAndSave ==
    /\ dirty' = FALSE
    /\ IF dirty THEN SaveLocked(entries) ELSE UNCHANGED file
    /\ UNCHANGED <<entries, relogged>> /\ UNCHANGED_Env

\* One tick of the flusher goroutine, which New starts.
FlushTick == proc # "down" /\ StateFile /\ SwapAndSave

Flush == Running /\ SwapAndSave

\* New: load the state file into an empty pool.
Boot ==
    /\ proc = "down"
    /\ proc' = "loaded"
    /\ entries' = IF StateFile
                  THEN [u \in DOMAIN file |-> Restored(file[u])]
                  ELSE NoAccounts
    /\ UNCHANGED <<dirty, file, now, dir, relogged>>

\* SyncToDir with the scan of auth_dir.  main calls it once, after New.
\* A removal saves the file without clearing dirty.
SyncToDir ==
    /\ proc = "loaded"
    /\ proc' = "running"
    /\ entries' = [u \in dir |-> Upserted(dir)[u]]
    /\ IF DOMAIN entries \subseteq dir THEN UNCHANGED file
                                       ELSE SaveLocked(entries')
    /\ UNCHANGED <<dirty, now, dir, relogged>>

\* The process ends (a crash, a kill, log.Fatalf or main's return): what
\* was in memory only is gone.
Stop ==
    /\ proc # "down"
    /\ proc' = "down"
    /\ entries' = NoAccounts
    /\ dirty' = FALSE
    /\ UNCHANGED <<file, now, dir, relogged>>

-----------------------------------------------------------------------------
(* The world around the process                                            *)

Tick ==
    /\ now < MaxTime
    /\ now' = now + 1
    /\ UNCHANGED <<entries, dirty, file, proc, dir, relogged>>

\* cmd/login writes the credential file of u (the operator logs in again).
Login(u) ==
    /\ dir' = dir \cup {u}
    /\ relogged' = relogged \cup {u}
    /\ UNCHANGED <<entries, dirty, file, now, proc>>

\* The operator deletes the credential file of u.
RemoveCredential(u) ==
    /\ u \in dir
    /\ dir' = dir \ {u}
    /\ UNCHANGED <<entries, dirty, file, now, proc, relogged>>

-----------------------------------------------------------------------------
(* Specification                                                           *)

Init ==
    /\ entries = NoAccounts
    /\ dirty = FALSE
    /\ file = NoAccounts
    /\ now = StartTime
    /\ proc = "down"
    /\ dir \in SUBSET Uids
    /\ relogged = {}

\* What a running server tells the pool.
Report(u) ==
    \/ \E p \in Balances : SetPoints(u, p) \/ ReenableIfPoints(u, p)
    \/ \E kind \in {"hard_credit", "soft_rate"} : Cooldown(u, kind)
    \/ Disable(u)
    \/ NoteError(u)
    \/ NoteSuccess(u)

\* The manual operation is for an operator: the server does not call it.
Setter(u) == Report(u) \/ ReenableAfterManual(u)

Next ==
    \/ \E u \in Uids :
        \/ Setter(u)
        \/ Add(u)
        \/ \E tried \in SUBSET Uids : Pick(tried, u)
        \/ Login(u)
        \/ RemoveCredential(u)
    \/ FlushTick \/ Flush
    \/ Boot \/ SyncToDir \/ Stop
    \/ Tick

Spec == Init /\ [][Next]_poolVars

-----------------------------------------------------------------------------
(* Properties                                                              *)

\* Every variable stays in its domain.
TypeOK ==
    /\ DOMAIN entries \subseteq Uids
    /\ entries \in [DOMAIN entries -> Entry]
    /\ dirty \in BOOLEAN
    /\ DOMAIN file \subseteq Uids
    /\ file \in [DOMAIN file -> StateAccount]
    /\ now \in Nat /\ now >= StartTime
    /\ proc \in {"down", "loaded", "running"}
    /\ dir \subseteq Uids
    /\ relogged \subseteq Uids

\* The errors recorded are fewer than the threshold that would have cooled
\* the account.  An account is free of deadlines and of reasons together,
\* unless it is disabled, when the reason stays.  With a deadline the reason
\* is the one of the cooldown kind beside it; disabled, it may also be the
\* one of the Disable that came after.
Coherent(e) ==
    /\ e.errCount < ErrThreshold
    /\ e.until = Zero =>
        e.reason = IF e.disabled THEN "session dead" ELSE ""
    /\ e.until # Zero =>
        \/ e.reason = ReasonOf(e.coolKind)
        \/ e.disabled /\ e.reason = "session dead"

\* The deadline, the kind and the reason of a cooldown are set and cleared
\* together: no interleaving of the setters, no flush and no restart leaves
\* the deadline of one cooldown beside the kind or the reason of another, or
\* a reason without a verdict, in memory or on disk.  `disabled' is a flag
\* of its own: Disable (pool.go:294) keeps the deadline and the kind there
\* are, and a Cooldown (pool.go:281) reported after it replaces its reason,
\* so that a disabled account may show the reason of a later 429.
AccountsCoherent ==
    /\ \A u \in DOMAIN entries : Coherent(entries[u])
    /\ \A u \in DOMAIN file : Coherent(file[u])

\* The state file says of every account of the pool what memory says; an
\* account the file does not know is still in its initial state.
SavedInFull ==
    \A u \in DOMAIN entries :
        Persisted(entries[u]) = IF u \in DOMAIN file
                                THEN file[u] ELSE Persisted(NewEntry)

\* The dirty flag is never clear while memory and the state file disagree:
\* Flush (pool.go:140) skips the write only when there is nothing to write,
\* and a crash at a moment the flag is clear loses nothing.  It holds through
\* setters, upserts, removals and restarts as long as the disk takes every
\* write; a failed write clears the flag all the same.
CleanMeansSaved == proc # "down" /\ StateFile /\ ~dirty => SavedInFull

\* Requests are only ever given accounts with a full credential: the
\* placeholders load() creates never survive into a running process.
RunningHasCredentials ==
    Running => \A u \in DOMAIN entries : entries[u].auth = "full"

\* While the process lives, a disabled account is enabled again by the
\* manual operation only: no cooldown, success, balance refresh, upsert or
\* flush does it.
DisabledIsSticky ==
    [][\A u \in DOMAIN entries \cap DOMAIN entries' :
        entries[u].disabled /\ ~entries'[u].disabled
            => ReenableAfterManual(u)]_poolVars

\* A disabled account is on disk as disabled some time later, unless it was
\* enabled or the process ended first (the flusher, README: "all of it is
\* written to data/state.json").
DisableReachesDisk ==
    \A u \in Uids :
        (u \in DOMAIN entries /\ entries[u].disabled)
            ~> \/ u \in DOMAIN file /\ file[u].disabled
               \/ u \notin DOMAIN entries
               \/ ~entries[u].disabled

-----------------------------------------------------------------------------
(* The abstract specification the pool implements                          *)

PhaseOf(u) ==
    IF u \notin DOMAIN entries THEN "absent"
    ELSE IF entries[u].disabled THEN "disabled"
    ELSE IF Cooling(entries[u], now) THEN "cooling" ELSE "ready"

SavedOf(u) ==
    IF u \notin DOMAIN file THEN "absent"
    ELSE IF file[u].disabled THEN "disabled" ELSE "enabled"

Life == INSTANCE AccountLifecycle
            WITH Accounts <- Uids,
                 phase <- [u \in Uids |-> PhaseOf(u)],
                 saved <- [u \in Uids |-> SavedOf(u)]

\* Seen through what an account may be used for and what of it outlives the
\* process, the pool is AccountLifecycle: setters, picks, the clock, flushes
\* that fail or work, boots and crashes are its steps or change nothing.
ImplementsLifecycle == Life!LifeSpec

-----------------------------------------------------------------------------
(* What the repository says and the code does not do.                      *)

\* README.md:117 says that after logging in again, restarting the server
\* enables the account.
RestartEnables ==
    [][SyncToDir => \A u \in dir \cap relogged :
        ~entries'[u].disabled]_poolVars
=============================================================================
