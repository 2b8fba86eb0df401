----------------------------- MODULE PoolProofs -----------------------------
(***************************************************************************)
(* Theorems about Pool.tla, for any accounts, balances, thresholds,        *)
(* durations and clock bound, on a disk that may fail; the last one is     *)
(* that the pool implements AccountLifecycle.tla.                          *)
(***************************************************************************)
EXTENDS Pool, TLAPS

USE DEF Zero

-----------------------------------------------------------------------------
(* Lemmas about entries                                                    *)

\* What the callers pass with a cooldown kind.
LEMMA KindFacts ==
    ASSUME NEW kind \in Kinds
    PROVE  /\ ReasonOf(kind) \in Reasons \ {""}
           /\ DurationOf(kind) \in Nat \ {0}
  <1>1. CASE kind = "hard_credit"
    BY <1>1, CooldownAssumption DEF Reasons, ReasonOf, DurationOf
  <1>2. CASE kind = "soft_rate"
    BY <1>2, CooldownAssumption DEF Reasons, ReasonOf, DurationOf
  <1>3. CASE kind = "error_threshold"
    BY <1>3, CooldownAssumption DEF Reasons, ReasonOf, DurationOf
  <1> QED BY <1>1, <1>2, <1>3 DEF Kinds

\* Starting a cooldown keeps the type of an entry.
LEMMA CooledType ==
    ASSUME NEW e \in Entry, now \in Nat,
           NEW kind \in Kinds, NEW d \in Nat, NEW why \in Reasons
    PROVE  Cooled(e, kind, d, why) \in Entry
  <1>1. now + d \in Nat
    OBVIOUS
  <1> DEFINE t == now + d
  <1>2. t \in Nat
    BY <1>1
  <1> HIDE DEF t
  <1>3. [e EXCEPT !.until = t, !.coolKind = kind, !.reason = why,
                  !.errCount = 0] \in Entry
    BY <1>2 DEF Entry
  <1> QED BY <1>3 DEF Cooled, t

\* So do ending one, saving and creating an entry.
LEMMA EntryTypes ==
    ASSUME NEW e \in Entry
    PROVE  Thawed(e) \in Entry /\ Persisted(e) \in StateAccount
  BY DEF Entry, StateAccount, Kinds, Reasons, Thawed, Persisted

\* A new account has a well-typed entry.
LEMMA NewEntryType == NewEntry \in Entry
  BY DEF Entry, Kinds, Reasons, NewEntry

\* An account read from the state file has a well-typed entry.
LEMMA RestoredType ==
    ASSUME NEW s \in StateAccount
    PROVE  Restored(s) \in Entry
  BY DEF StateAccount, Restored, Entry

\* PickExcluding returns one of the candidates it collected.
LEMMA PickIsCandidate ==
    ASSUME NEW es, NEW t, NEW C
    PROVE  PickChoices(es, t, C) \subseteq C
  BY DEF PickChoices, Best, LeastRecentlyUsed, WeightedDraw, Drawn

-----------------------------------------------------------------------------
(* Type correctness                                                        *)

\* Setting the entry of a known account keeps the type invariant.
LEMMA UpdateType ==
    ASSUME TypeOK, NEW u, NEW e, Update(u, e), relogged' \subseteq Uids,
           u \in DOMAIN entries => e \in Entry
    PROVE  TypeOK'
  <1>1. CASE u \in DOMAIN entries
    <2>1. DOMAIN entries' = DOMAIN entries /\ dirty' = TRUE
      BY <1>1 DEF Update
    <2>2. entries' \in [DOMAIN entries' -> Entry]
      BY <1>1 DEF Update, TypeOK
    <2> QED BY <2>1, <2>2 DEF TypeOK, Update, UNCHANGED_Env
  <1>2. CASE u \notin DOMAIN entries
    BY <1>2 DEF TypeOK, Update, UNCHANGED_Env
  <1> QED BY <1>1, <1>2

\* What a save writes is a state file.
LEMMA SaveType ==
    ASSUME TypeOK, NEW es, DOMAIN es \subseteq Uids,
           es \in [DOMAIN es -> Entry], SaveLocked(es)
    PROVE  DOMAIN file' \subseteq Uids /\ file' \in [DOMAIN file' -> StateAccount]
  <1>1. CASE file' = [u \in DOMAIN es |-> Persisted(es[u])]
    <2>1. \A u \in DOMAIN es : Persisted(es[u]) \in StateAccount
      BY EntryTypes
    <2> QED BY <1>1, <2>1
  <1>2. CASE UNCHANGED file
    BY <1>2 DEF TypeOK
  <1> QED BY <1>1, <1>2 DEF SaveLocked

\* Upserting accounts of the credential directory keeps the entries typed.
LEMMA UpsertedType ==
    ASSUME TypeOK, NEW D \in SUBSET Uids
    PROVE  /\ DOMAIN Upserted(D) = DOMAIN entries \cup D
           /\ \A u \in DOMAIN entries \cup D : Upserted(D)[u] \in Entry
  <1>1. ASSUME NEW u \in DOMAIN entries
        PROVE  [entries[u] EXCEPT !.auth = "full"] \in Entry
    BY <1>1 DEF TypeOK, Entry
  <1>2. DOMAIN Upserted(D) = DOMAIN entries \cup D
    BY DEF Upserted
  <1>3. ASSUME NEW u \in DOMAIN entries \cup D
        PROVE  Upserted(D)[u] \in Entry
    <2>1. CASE u \notin DOMAIN entries
      BY <1>3, <2>1, NewEntryType DEF Upserted
    <2>2. CASE u \in DOMAIN entries /\ u \in D
      BY <2>2, <1>1 DEF Upserted
    <2>3. CASE u \in DOMAIN entries /\ u \notin D
      BY <2>3 DEF Upserted, TypeOK
    <2> QED BY <2>1, <2>2, <2>3
  <1> QED BY <1>2, <1>3

\* An index or a state file without accounts is well typed.
LEMMA NoAccountsType ==
    /\ DOMAIN NoAccounts = {}
    /\ NoAccounts \in [DOMAIN NoAccounts -> Entry]
    /\ NoAccounts \in [DOMAIN NoAccounts -> StateAccount]
  BY DEF NoAccounts

\* The pool starts well typed, with whatever credentials there are.
LEMMA InitType == Init => TypeOK
  <1> SUFFICES ASSUME Init PROVE TypeOK
    OBVIOUS
  <1>1. entries = NoAccounts /\ file = NoAccounts
    BY DEF Init
  <1>2. /\ DOMAIN entries \subseteq Uids
        /\ entries \in [DOMAIN entries -> Entry]
        /\ DOMAIN file \subseteq Uids
        /\ file \in [DOMAIN file -> StateAccount]
    BY <1>1, NoAccountsType
  <1>3. now \in Nat /\ now >= StartTime
    BY ClockAssumption DEF Init
  <1> QED BY <1>2, <1>3 DEF Init, TypeOK

\* Every operation, and every step of the world, keeps the types.
LEMMA NextType == TypeOK /\ [Next]_poolVars => TypeOK'
  <1> SUFFICES ASSUME TypeOK, [Next]_poolVars PROVE TypeOK'
    OBVIOUS
  <1>0. now \in Nat
    BY DEF TypeOK
  <1>e. ASSUME NEW u \in DOMAIN entries PROVE entries[u] \in Entry
    BY <1>e DEF TypeOK
  <1>1. ASSUME NEW u \in Uids, NEW p \in Balances, SetPoints(u, p)
        PROVE  TypeOK'
    <2>1. u \in DOMAIN entries => [entries[u] EXCEPT !.points = p] \in Entry
      BY <1>e, BalancesAssumption DEF Entry
    <2> QED BY <2>1, <1>1, UpdateType DEF SetPoints, TypeOK
  <1>2. ASSUME NEW u \in Uids, NEW p \in Balances, ReenableIfPoints(u, p)
        PROVE  TypeOK'
    <2>1. u \in DOMAIN entries => [entries[u] EXCEPT !.points = p] \in Entry
      BY <1>e, BalancesAssumption DEF Entry
    <2>2. ASSUME NEW e \in Entry PROVE [e EXCEPT !.points = p] \in Entry
      BY <2>2, BalancesAssumption DEF Entry
    <2>3. u \in DOMAIN entries =>
            [Thawed(entries[u]) EXCEPT !.points = p] \in Entry
      BY <1>e, EntryTypes, <2>2
    <2> QED BY <2>1, <2>3, <1>2, UpdateType DEF ReenableIfPoints, TypeOK
  <1>3. ASSUME NEW u \in Uids, NEW kind \in Kinds, Cooldown(u, kind)
        PROVE  TypeOK'
    <2>1. u \in DOMAIN entries =>
            Cooled(entries[u], kind, DurationOf(kind), ReasonOf(kind)) \in Entry
      BY <1>e, <1>0, KindFacts, CooledType
    <2> QED BY <2>1, <1>3, UpdateType DEF Cooldown, TypeOK
  <1>4. ASSUME NEW u \in Uids, Disable(u) PROVE TypeOK'
    <2>1. u \in DOMAIN entries =>
            [entries[u] EXCEPT !.disabled = TRUE, !.reason = "session dead"]
                \in Entry
      BY <1>e DEF Entry, Reasons
    <2> QED BY <2>1, <1>4, UpdateType DEF Disable, TypeOK
  <1>5. ASSUME NEW u \in Uids, ReenableAfterManual(u) PROVE TypeOK'
    <2>1. ASSUME NEW e \in Entry PROVE [e EXCEPT !.disabled = FALSE] \in Entry
      BY <2>1 DEF Entry
    <2>2. u \in DOMAIN entries =>
            [Thawed(entries[u]) EXCEPT !.disabled = FALSE] \in Entry
      BY <1>e, EntryTypes, <2>1
    <2> QED BY <2>2, <1>5, UpdateType DEF ReenableAfterManual, TypeOK
  <1>6. ASSUME NEW u \in Uids, NoteError(u) PROVE TypeOK'
    <2>1. u \in DOMAIN entries =>
            Cooled(entries[u], "error_threshold", ErrCooldown,
                   "consecutive errors") \in Entry
      BY <1>e, <1>0, CooledType, CooldownAssumption DEF Kinds, Reasons
    <2>2. u \in DOMAIN entries =>
            [entries[u] EXCEPT !.errCount = @ + 1] \in Entry
      BY <1>e DEF Entry
    <2> QED BY <2>1, <2>2, <1>6, UpdateType DEF NoteError, TypeOK
  <1>7. ASSUME NEW u \in Uids, NoteSuccess(u) PROVE TypeOK'
    <2>1. u \in DOMAIN entries => [entries[u] EXCEPT !.errCount = 0] \in Entry
      BY <1>e DEF Entry
    <2> QED BY <2>1, <1>7, UpdateType DEF NoteSuccess, TypeOK
  <1>8. ASSUME NEW u \in Uids, Add(u) PROVE TypeOK'
    <2>1. {u} \in SUBSET Uids
      BY <1>8
    <2>2. /\ DOMAIN Upserted({u}) = DOMAIN entries \cup {u}
          /\ \A v \in DOMAIN entries \cup {u} : Upserted({u})[v] \in Entry
      BY <2>1, UpsertedType
    <2>3. Upserted({u}) \in [DOMAIN entries \cup {u} -> Entry]
      BY <2>2 DEF Upserted
    <2> QED BY <2>2, <2>3, <1>8 DEF Add, TypeOK, UNCHANGED_Env
  <1>9. ASSUME NEW u \in Uids, NEW tried, Pick(tried, u) PROVE TypeOK'
    <2>1. u \in DOMAIN entries
      BY <1>9, PickIsCandidate DEF Pick, Candidates
    <2>2. [entries[u] EXCEPT !.lastUsed = now] \in Entry
      BY <2>1, <1>e, <1>0 DEF Entry
    <2>3. /\ DOMAIN entries' = DOMAIN entries
          /\ entries' = [entries EXCEPT ![u] =
                            [entries[u] EXCEPT !.lastUsed = now]]
      BY <1>9, <2>1 DEF Pick
    <2>4. entries' \in [DOMAIN entries' -> Entry]
      BY <2>2, <2>3 DEF TypeOK
    <2> QED BY <2>3, <2>4, <1>9 DEF Pick, TypeOK, UNCHANGED_Env
  <1>10. ASSUME SwapAndSave PROVE TypeOK'
    <2>1. DOMAIN file' \subseteq Uids /\ file' \in [DOMAIN file' -> StateAccount]
      BY <1>10, SaveType DEF SwapAndSave, TypeOK
    <2> QED BY <2>1, <1>10 DEF SwapAndSave, TypeOK, UNCHANGED_Env
  <1>11. ASSUME Boot PROVE TypeOK'
    <2>1. ASSUME NEW u \in DOMAIN file PROVE Restored(file[u]) \in Entry
      BY <2>1, RestoredType DEF TypeOK
    <2>2. DOMAIN entries' \subseteq Uids /\ entries' \in [DOMAIN entries' -> Entry]
      BY <2>1, <1>11 DEF Boot, TypeOK, NoAccounts
    <2> QED BY <2>2, <1>11 DEF Boot, TypeOK, NoAccounts
  <1>12. ASSUME SyncToDir PROVE TypeOK'
    <2>1. DOMAIN entries' = dir
      BY <1>12 DEF SyncToDir
    <2>2. entries' \in [DOMAIN entries' -> Entry]
      BY <1>12, UpsertedType DEF SyncToDir, TypeOK
    <2>3. DOMAIN file' \subseteq Uids /\ file' \in [DOMAIN file' -> StateAccount]
      BY <1>12, <2>1, <2>2, SaveType DEF SyncToDir, TypeOK
    <2> QED BY <2>1, <2>2, <2>3, <1>12 DEF SyncToDir, TypeOK
  <1>13. ASSUME Stop PROVE TypeOK'
    BY <1>13 DEF Stop, TypeOK, NoAccounts
  <1>14. ASSUME Tick PROVE TypeOK'
    BY <1>14, ClockAssumption DEF Tick, TypeOK
  <1>15. ASSUME NEW u \in Uids, Login(u) \/ RemoveCredential(u) PROVE TypeOK'
    BY <1>15 DEF Login, RemoveCredential, TypeOK
  <1>16. CASE UNCHANGED poolVars
    BY <1>16 DEF poolVars, TypeOK
  <1>17. ASSUME NEW u \in Uids, Setter(u) PROVE TypeOK'
    BY <1>1, <1>2, <1>3, <1>4, <1>5, <1>6, <1>7, <1>17 DEF Setter, Report, Kinds
  <1>18. FlushTick \/ Flush => SwapAndSave
    BY DEF FlushTick, Flush
  <1> QED
    BY <1>8, <1>9, <1>10, <1>11, <1>12, <1>13, <1>14, <1>15, <1>16, <1>17,
       <1>18 DEF Next

\* Every variable of the pool stays in its domain, for any accounts and any
\* number of steps.
THEOREM TypeCorrect == Spec => []TypeOK
  BY InitType, NextType, PTL DEF Spec

-----------------------------------------------------------------------------
(* Coherence of the accounts                                               *)

\* A threshold of errors is reached by errors only.
LEMMA ThresholdPositive == 0 < ErrThreshold
  BY ErrThresholdAssumption

\* An entry at rest (no deadline, no reason, no errors) is coherent.
LEMMA CalmCoherent ==
    ASSUME NEW e, e.errCount = 0, e.until = Zero, e.reason = "", ~e.disabled
    PROVE  Coherent(e)
  BY ThresholdPositive DEF Coherent

\* Changing the number of errors below the threshold keeps coherence.
LEMMA CountCoherent ==
    ASSUME NEW e, NEW f, Coherent(e), f.errCount < ErrThreshold,
           f.disabled = e.disabled, f.reason = e.reason,
           f.until = e.until, f.coolKind = e.coolKind
    PROVE  Coherent(f)
  BY DEF Coherent

\* A fresh cooldown is a coherent verdict whatever the entry was.
LEMMA CooledCoherent ==
    ASSUME now \in Nat, NEW e \in Entry, NEW kind \in Kinds
    PROVE  Coherent(Cooled(e, kind, DurationOf(kind), ReasonOf(kind)))
  <1> DEFINE c == Cooled(e, kind, DurationOf(kind), ReasonOf(kind))
  <1> DEFINE d == DurationOf(kind)
  <1>0. d \in Nat \ {0}
    BY KindFacts
  <1>1. now + d # Zero
    <2> HIDE DEF d
    <2> QED BY <1>0
  <1>2. /\ c.errCount = 0 /\ c.coolKind = kind
        /\ c.reason = ReasonOf(kind)
        /\ c.until = now + DurationOf(kind)
    BY DEF Cooled, Entry
  <1>3. ReasonOf(kind) # ""
    BY KindFacts
  <1> HIDE DEF c
  <1>4. Coherent(c)
    BY <1>1, <1>2, <1>3, ThresholdPositive DEF Coherent
  <1> QED BY <1>4 DEF c

\* Writing an entry and reading it back keep its story.
LEMMA PersistedCoherent ==
    ASSUME NEW e PROVE Coherent(e) <=> Coherent(Persisted(e))
  BY DEF Coherent, Persisted

\* Loading an account from the state file keeps its story.
LEMMA RestoredCoherent ==
    ASSUME NEW s PROVE Coherent(s) <=> Coherent(Restored(s))
  BY DEF Coherent, Restored

\* A new account has no verdict, which is coherent.
LEMMA NewEntryCoherent == Coherent(NewEntry)
  BY ErrThresholdAssumption DEF Coherent, NewEntry

\* A setter that leaves its account coherent leaves all of them so.
LEMMA UpdateCoherent ==
    ASSUME TypeOK, AccountsCoherent, NEW u, NEW e, Update(u, e),
           u \in DOMAIN entries => Coherent(e)
    PROVE  AccountsCoherent'
  <1>1. file' = file
    BY DEF Update
  <1>2. \A v \in DOMAIN entries' : Coherent(entries'[v])
    BY DEF Update, AccountsCoherent
  <1> QED BY <1>1, <1>2 DEF AccountsCoherent

\* A save of coherent entries leaves a coherent state file.
LEMMA SaveCoherent ==
    ASSUME AccountsCoherent, NEW es, SaveLocked(es),
           \A u \in DOMAIN es : Coherent(es[u])
    PROVE  \A u \in DOMAIN file' : Coherent(file'[u])
  BY PersistedCoherent DEF SaveLocked, AccountsCoherent

\* Upserting keeps or creates coherent entries.
LEMMA UpsertedCoherent ==
    ASSUME TypeOK, AccountsCoherent, NEW D
    PROVE  \A u \in DOMAIN entries \cup D : Coherent(Upserted(D)[u])
  <1> SUFFICES ASSUME NEW u \in DOMAIN entries \cup D
               PROVE  Coherent(Upserted(D)[u])
    OBVIOUS
  <1>1. CASE u \notin DOMAIN entries
    BY <1>1, NewEntryCoherent DEF Upserted
  <1>2. CASE u \in DOMAIN entries /\ u \in D
    <2>1. Coherent([entries[u] EXCEPT !.auth = "full"])
      BY <1>2 DEF TypeOK, Entry, AccountsCoherent, Coherent
    <2> QED BY <2>1, <1>2 DEF Upserted
  <1>3. CASE u \in DOMAIN entries /\ u \notin D
    BY <1>3 DEF Upserted, AccountsCoherent
  <1> QED BY <1>1, <1>2, <1>3

\* No account, no incoherent account.
LEMMA InitCoherent == Init => AccountsCoherent
  BY NoAccountsType DEF Init, AccountsCoherent

\* Every operation, flush, boot and crash keeps the accounts coherent.
LEMMA NextCoherent ==
    TypeOK /\ AccountsCoherent /\ [Next]_poolVars => AccountsCoherent'
  <1> SUFFICES ASSUME TypeOK, AccountsCoherent, [Next]_poolVars
               PROVE  AccountsCoherent'
    OBVIOUS
  <1>0. now \in Nat
    BY DEF TypeOK
  <1>e. ASSUME NEW u \in DOMAIN entries
        PROVE  entries[u] \in Entry /\ Coherent(entries[u])
    BY <1>e DEF TypeOK, AccountsCoherent
  <1>1. ASSUME NEW u, NEW p, SetPoints(u, p) PROVE AccountsCoherent'
    <2>1. u \in DOMAIN entries =>
            Coherent([entries[u] EXCEPT !.points = p])
      BY <1>e DEF Entry, Coherent
    <2> QED BY <2>1, <1>1, UpdateCoherent DEF SetPoints
  <1>2. ASSUME NEW u, NEW p, ReenableIfPoints(u, p) PROVE AccountsCoherent'
    <2>1. CASE u \in DOMAIN entries /\ entries[u].disabled
      <3>1. Coherent([entries[u] EXCEPT !.points = p])
        BY <1>e, <2>1 DEF Entry, Coherent
      <3> QED BY <3>1, <2>1, <1>2, UpdateCoherent DEF ReenableIfPoints
    <2>2. CASE u \in DOMAIN entries /\ ~entries[u].disabled
      <3> DEFINE c == [Thawed(entries[u]) EXCEPT !.points = p]
      <3>1. /\ c.errCount = 0 /\ c.until = Zero
            /\ c.reason = "" /\ ~c.disabled
        BY <1>e, <2>2 DEF Entry, Thawed
      <3>2. Coherent(c)
        <4> HIDE DEF c
        <4> QED BY <3>1, CalmCoherent
      <3> QED BY <3>2, <2>2, <1>2, UpdateCoherent DEF ReenableIfPoints
    <2>3. CASE u \notin DOMAIN entries
      BY <2>3, <1>2, UpdateCoherent DEF ReenableIfPoints
    <2> QED BY <2>1, <2>2, <2>3
  <1>3. ASSUME NEW u, NEW kind \in Kinds, Cooldown(u, kind)
        PROVE  AccountsCoherent'
    <2>1. u \in DOMAIN entries =>
            Coherent(Cooled(entries[u], kind, DurationOf(kind),
                            ReasonOf(kind)))
      BY <1>e, <1>0, CooledCoherent
    <2> QED BY <2>1, <1>3, UpdateCoherent DEF Cooldown
  <1>4. ASSUME NEW u, Disable(u) PROVE AccountsCoherent'
    <2>1. u \in DOMAIN entries =>
            Coherent([entries[u] EXCEPT !.disabled = TRUE,
                                        !.reason = "session dead"])
      BY <1>e DEF Entry, Coherent
    <2> QED BY <2>1, <1>4, UpdateCoherent DEF Disable
  <1>5. ASSUME NEW u, ReenableAfterManual(u) PROVE AccountsCoherent'
    <2> DEFINE c == [Thawed(entries[u]) EXCEPT !.disabled = FALSE]
    <2>1. u \in DOMAIN entries =>
            /\ c.errCount = 0 /\ c.until = Zero
            /\ c.reason = "" /\ ~c.disabled
      BY <1>e DEF Entry, Thawed
    <2>2. u \in DOMAIN entries => Coherent(c)
      <3> HIDE DEF c
      <3> QED BY <2>1, CalmCoherent
    <2> QED BY <2>2, <1>5, UpdateCoherent DEF ReenableAfterManual
  <1>6. ASSUME NEW u, NoteError(u) PROVE AccountsCoherent'
    <2>1. u \in DOMAIN entries =>
            Coherent(Cooled(entries[u], "error_threshold", ErrCooldown,
                            "consecutive errors"))
      BY <1>e, <1>0, CooledCoherent DEF Kinds, DurationOf, ReasonOf
    <2> DEFINE c == [entries[u] EXCEPT !.errCount = @ + 1]
    <2>2. u \in DOMAIN entries /\ ~(entries[u].errCount + 1 >= ErrThreshold) =>
            /\ c.errCount < ErrThreshold
            /\ c.disabled = entries[u].disabled /\ c.until = entries[u].until
            /\ c.reason = entries[u].reason
            /\ c.coolKind = entries[u].coolKind
      BY <1>e, ErrThresholdAssumption DEF Entry
    <2>3. u \in DOMAIN entries /\ ~(entries[u].errCount + 1 >= ErrThreshold)
            => Coherent(c)
      <3> HIDE DEF c
      <3> QED BY <2>2, <1>e, CountCoherent
    <2> QED BY <2>1, <2>3, <1>6, UpdateCoherent DEF NoteError
  <1>7. ASSUME NEW u, NoteSuccess(u) PROVE AccountsCoherent'
    <2> DEFINE c == [entries[u] EXCEPT !.errCount = 0]
    <2>1. u \in DOMAIN entries =>
            /\ c.errCount < ErrThreshold
            /\ c.disabled = entries[u].disabled /\ c.until = entries[u].until
            /\ c.reason = entries[u].reason
            /\ c.coolKind = entries[u].coolKind
      BY <1>e, ThresholdPositive DEF Entry
    <2>2. u \in DOMAIN entries => Coherent(c)
      <3> HIDE DEF c
      <3> QED BY <2>1, <1>e, CountCoherent
    <2> QED BY <2>2, <1>7, UpdateCoherent DEF NoteSuccess
  <1>8. ASSUME NEW u, Add(u) PROVE AccountsCoherent'
    <2>1. /\ entries' = Upserted({u}) /\ file' = file
          /\ DOMAIN entries' = DOMAIN entries \cup {u}
      BY <1>8 DEF Add, Upserted
    <2> QED BY <2>1, UpsertedCoherent DEF AccountsCoherent
  <1>9. ASSUME NEW u, NEW tried, Pick(tried, u) PROVE AccountsCoherent'
    <2>1. u \in DOMAIN entries
      BY <1>9, PickIsCandidate DEF Pick, Candidates
    <2>2. Coherent([entries[u] EXCEPT !.lastUsed = now])
      BY <2>1, <1>e DEF Entry, Coherent
    <2>3. /\ DOMAIN entries' = DOMAIN entries /\ file' = file
          /\ entries' = [entries EXCEPT ![u] =
                            [entries[u] EXCEPT !.lastUsed = now]]
      BY <1>9, <2>1 DEF Pick
    <2> QED BY <2>2, <2>3, <1>e DEF AccountsCoherent
  <1>10. ASSUME SwapAndSave PROVE AccountsCoherent'
    BY <1>10, SaveCoherent DEF SwapAndSave, AccountsCoherent
  <1>11. ASSUME Boot PROVE AccountsCoherent'
    <2>1. \A u \in DOMAIN entries' : Coherent(entries'[u])
      BY <1>11, RestoredCoherent, NoAccountsType DEF Boot, AccountsCoherent
    <2> QED BY <2>1, <1>11 DEF Boot, AccountsCoherent
  <1>12. ASSUME SyncToDir PROVE AccountsCoherent'
    <2>1. \A u \in DOMAIN entries' : Coherent(entries'[u])
      BY <1>12, UpsertedCoherent DEF SyncToDir
    <2>2. \A u \in DOMAIN file' : Coherent(file'[u])
      BY <2>1, <1>12, SaveCoherent DEF SyncToDir, AccountsCoherent
    <2> QED BY <2>1, <2>2 DEF AccountsCoherent
  <1>13. ASSUME Stop PROVE AccountsCoherent'
    BY <1>13, NoAccountsType DEF Stop, AccountsCoherent
  <1>14. ASSUME UNCHANGED <<entries, file>> PROVE AccountsCoherent'
    BY <1>14 DEF AccountsCoherent
  <1>15. ASSUME NEW u, Setter(u) PROVE AccountsCoherent'
    BY <1>1, <1>2, <1>3, <1>4, <1>5, <1>6, <1>7, <1>15 DEF Setter, Report, Kinds
  <1>16. FlushTick \/ Flush => SwapAndSave
    BY DEF FlushTick, Flush
  <1>17. Tick \/ UNCHANGED poolVars => UNCHANGED <<entries, file>>
    BY DEF Tick, poolVars
  <1>18. ASSUME NEW u, Login(u) \/ RemoveCredential(u)
         PROVE  UNCHANGED <<entries, file>>
    BY <1>18 DEF Login, RemoveCredential
  <1> QED
    BY <1>8, <1>9, <1>10, <1>11, <1>12, <1>13, <1>14, <1>15, <1>16, <1>17,
       <1>18 DEF Next

\* No interleaving of the pool's methods, flushes, crashes and restarts ever
\* mixes two verdicts in one account, in memory or in the state file.
THEOREM CoherenceHolds == Spec => []AccountsCoherent
  <1>1. Init => TypeOK /\ AccountsCoherent
    BY InitType, InitCoherent
  <1>2. (TypeOK /\ AccountsCoherent) /\ [Next]_poolVars
            => (TypeOK /\ AccountsCoherent)'
    BY NextType, NextCoherent
  <1> QED BY <1>1, <1>2, PTL DEF Spec

-----------------------------------------------------------------------------
(* Disabled accounts                                                       *)

\* No report of the server enables an account.
LEMMA ReportKeepsDisabled ==
    ASSUME TypeOK, NEW v, Report(v),
           NEW u \in DOMAIN entries, entries[u].disabled
    PROVE  u \in DOMAIN entries' /\ entries'[u].disabled
  <1>e. \A w \in DOMAIN entries : entries[w] \in Entry
    BY DEF TypeOK
  <1>u. ASSUME NEW e, Update(v, e),
               v \in DOMAIN entries /\ entries[v].disabled => e.disabled
        PROVE  u \in DOMAIN entries' /\ entries'[u].disabled
    BY <1>u DEF Update
  <1>1. ASSUME NEW p, SetPoints(v, p)
        PROVE  u \in DOMAIN entries' /\ entries'[u].disabled
    BY <1>1, <1>u, <1>e DEF SetPoints, Entry
  <1>2. ASSUME NEW p, ReenableIfPoints(v, p)
        PROVE  u \in DOMAIN entries' /\ entries'[u].disabled
    <2>1. v \in DOMAIN entries /\ entries[v].disabled =>
            [entries[v] EXCEPT !.points = p].disabled
      BY <1>e DEF Entry
    <2> QED BY <2>1, <1>2, <1>u DEF ReenableIfPoints
  <1>3. ASSUME NEW kind, Cooldown(v, kind)
        PROVE  u \in DOMAIN entries' /\ entries'[u].disabled
    BY <1>3, <1>u, <1>e DEF Cooldown, Cooled, Entry
  <1>4. ASSUME Disable(v)
        PROVE  u \in DOMAIN entries' /\ entries'[u].disabled
    BY <1>4, <1>u, <1>e DEF Disable, Entry
  <1>5. ASSUME NoteError(v)
        PROVE  u \in DOMAIN entries' /\ entries'[u].disabled
    <2>1. v \in DOMAIN entries /\ entries[v].disabled =>
            /\ Cooled(entries[v], "error_threshold", ErrCooldown,
                      "consecutive errors").disabled
            /\ [entries[v] EXCEPT !.errCount = @ + 1].disabled
      BY <1>e DEF Cooled, Entry
    <2> QED BY <2>1, <1>5, <1>u DEF NoteError
  <1>6. ASSUME NoteSuccess(v)
        PROVE  u \in DOMAIN entries' /\ entries'[u].disabled
    BY <1>6, <1>u, <1>e DEF NoteSuccess, Entry
  <1> QED BY <1>1, <1>2, <1>3, <1>4, <1>5, <1>6 DEF Report

\* A stopped process holds no accounts.
DownIsEmpty == proc = "down" => DOMAIN entries = {}

\* A process that is not running has no account in memory.
LEMMA DownIsEmptyHolds == Spec => []DownIsEmpty
  <1>1. Init => DownIsEmpty
    BY NoAccountsType DEF Init, DownIsEmpty
  <1>2. DownIsEmpty /\ [Next]_poolVars => DownIsEmpty'
    <2> SUFFICES ASSUME DownIsEmpty, [Next]_poolVars, proc' = "down"
                 PROVE  DOMAIN entries' = {}
      BY DEF DownIsEmpty
    <2>1. ASSUME NEW u, Setter(u) PROVE FALSE
      BY <2>1 DEF Setter, Report, SetPoints, ReenableIfPoints, Cooldown, Disable,
                  ReenableAfterManual, NoteError, NoteSuccess, Running,
                  Update, UNCHANGED_Env
    <2>2. ASSUME NEW u, Add(u) \/ \E tried \in SUBSET Uids : Pick(tried, u)
          PROVE  FALSE
      BY <2>2 DEF Add, Pick, Running, UNCHANGED_Env
    <2>3. ASSUME \/ FlushTick \/ Flush \/ Boot \/ SyncToDir PROVE FALSE
      BY <2>3 DEF FlushTick, Flush, SwapAndSave, Boot, SyncToDir, Running,
                  UNCHANGED_Env
    <2>4. ASSUME Stop PROVE DOMAIN entries' = {}
      BY <2>4, NoAccountsType DEF Stop
    <2>5. ASSUME \/ Tick \/ UNCHANGED poolVars
                 \/ \E u \in Uids : Login(u) \/ RemoveCredential(u)
          PROVE  DOMAIN entries' = {}
      BY <2>5 DEF Tick, poolVars, Login, RemoveCredential, DownIsEmpty
    <2> QED BY <2>1, <2>2, <2>3, <2>4, <2>5 DEF Next
  <1> QED BY <1>1, <1>2, PTL DEF Spec

\* While the process lives nothing but the manual operation enables an
\* account.
THEOREM StickyDisabled == Spec => DisabledIsSticky
  <1> DEFINE Step == \A u \in DOMAIN entries \cap DOMAIN entries' :
                        entries[u].disabled /\ ~entries'[u].disabled
                            => ReenableAfterManual(u)
  <1>1. TypeOK /\ DownIsEmpty /\ [Next]_poolVars => [Step]_poolVars
    <2> SUFFICES ASSUME TypeOK, DownIsEmpty, Next,
                        NEW u \in DOMAIN entries, u \in DOMAIN entries',
                        entries[u].disabled, ~entries'[u].disabled
                 PROVE  ReenableAfterManual(u)
      OBVIOUS
    <2>1. ASSUME NEW v, Setter(v) PROVE ReenableAfterManual(u)
      <3>1. ReenableAfterManual(v)
        BY <2>1, ReportKeepsDisabled DEF Setter
      <3>2. v = u
        BY <3>1 DEF ReenableAfterManual, Update
      <3> QED BY <3>1, <3>2
    <2>e. entries[u] \in Entry
      BY DEF TypeOK
    <2>2. \A D : u \in DOMAIN Upserted(D) => Upserted(D)[u].disabled
      BY <2>e DEF Upserted, Entry
    <2>3. ASSUME NEW v, Add(v) PROVE FALSE
      BY <2>3, <2>2 DEF Add
    <2>4. ASSUME NEW v, NEW tried, Pick(tried, v) PROVE FALSE
      BY <2>4, <2>e DEF Pick, Entry
    <2>5. ASSUME SyncToDir PROVE FALSE
      <3>1. u \in dir /\ entries'[u] = Upserted(dir)[u]
        BY <2>5 DEF SyncToDir
      <3>2. u \in DOMAIN Upserted(dir)
        BY <3>1 DEF Upserted
      <3> QED BY <3>1, <3>2, <2>2
    <2>6. ASSUME Stop PROVE FALSE
      BY <2>6, NoAccountsType DEF Stop
    <2>7. ASSUME Boot PROVE FALSE
      BY <2>7 DEF Boot, DownIsEmpty
    <2>8. ASSUME \/ SwapAndSave \/ Tick
                 \/ \E v \in Uids : Login(v) \/ RemoveCredential(v)
          PROVE  FALSE
      BY <2>8 DEF SwapAndSave, Tick, Login, RemoveCredential
    <2> QED BY <2>1, <2>3, <2>4, <2>5, <2>6, <2>7, <2>8
            DEF Next, FlushTick, Flush
  <1> QED BY <1>1, TypeCorrect, DownIsEmptyHolds, PTL
          DEF Spec, DisabledIsSticky

-----------------------------------------------------------------------------
(* Nothing unsaved behind a clear flag                                     *)

\* The inductive strengthening: the file knows no account the pool does not
\* know.  Without it an account could join with its initial state while the
\* file remembers another one.
CleanInv ==
    proc # "down" /\ StateFile =>
        DOMAIN file \subseteq DOMAIN entries /\ (~dirty => SavedInFull)

\* With a disk that takes every write, what a save leaves is what it saved.
LEMMA SavedExactly ==
    ASSUME ~DiskFaults, StateFile, NEW es, SaveLocked(es)
    PROVE  file' = [u \in DOMAIN es |-> Persisted(es[u])]
  BY DEF SaveLocked

\* A setter marks the pool dirty, or changes nothing.
LEMMA SetterClean ==
    ASSUME CleanInv, NEW v, Setter(v) PROVE CleanInv'
  <1>1. \E e : Update(v, e)
    BY DEF Setter, Report, SetPoints, ReenableIfPoints, Cooldown, Disable,
           ReenableAfterManual, NoteError, NoteSuccess
  <1>2. proc' = proc /\ file' = file
    BY <1>1 DEF Update, UNCHANGED_Env
  <1>3. CASE v \in DOMAIN entries
    BY <1>1, <1>2, <1>3 DEF Update, CleanInv
  <1>4. CASE v \notin DOMAIN entries
    BY <1>1, <1>2, <1>4 DEF Update, CleanInv, SavedInFull
  <1> QED BY <1>3, <1>4

\* Every step keeps CleanInv when the disk takes every write.
LEMMA NextClean ==
    ASSUME ~DiskFaults, TypeOK, CleanInv, [Next]_poolVars
    PROVE  CleanInv'
  <1>e. \A u \in DOMAIN entries : entries[u] \in Entry
    BY DEF TypeOK
  <1>f. \A e \in Entry : Persisted([e EXCEPT !.auth = "full"]) = Persisted(e)
    BY DEF Entry, Persisted
  <1>1. ASSUME NEW u, Add(u) PROVE CleanInv'
    <2> SUFFICES ASSUME StateFile PROVE CleanInv'
      BY DEF CleanInv
    <2>1. /\ proc = "running" /\ proc' = proc /\ file' = file /\ dirty' = dirty
          /\ entries' = Upserted({u})
          /\ DOMAIN entries' = DOMAIN entries \cup {u}
      BY <1>1 DEF Add, Running, UNCHANGED_Env, Upserted
    <2>2. ASSUME ~dirty, NEW v \in DOMAIN entries'
          PROVE  Persisted(entries'[v]) = IF v \in DOMAIN file
                                  THEN file[v] ELSE Persisted(NewEntry)
      <3>1. CASE v \notin DOMAIN entries
        BY <3>1, <2>1, <2>2 DEF CleanInv, Upserted
      <3>2. CASE v \in DOMAIN entries
        <4>1. Persisted(entries'[v]) = Persisted(entries[v])
          BY <3>2, <2>1, <1>e, <1>f DEF Upserted
        <4> QED BY <4>1, <3>2, <2>1, <2>2 DEF CleanInv, SavedInFull
      <3> QED BY <3>1, <3>2
    <2> QED BY <2>1, <2>2 DEF CleanInv, SavedInFull
  <1>2. ASSUME NEW u, NEW tried, Pick(tried, u) PROVE CleanInv'
    <2>1. u \in DOMAIN entries
      BY <1>2, PickIsCandidate DEF Pick, Candidates
    <2>2. Persisted([entries[u] EXCEPT !.lastUsed = now]) = Persisted(entries[u])
      BY <2>1, <1>e DEF Entry, Persisted
    <2>3. /\ entries' = [entries EXCEPT ![u] =
                            [entries[u] EXCEPT !.lastUsed = now]]
          /\ DOMAIN entries' = DOMAIN entries
          /\ proc' = proc /\ file' = file /\ dirty' = dirty
      BY <1>2, <2>1 DEF Pick, UNCHANGED_Env
    <2>4. \A v \in DOMAIN entries' :
              Persisted(entries'[v]) = Persisted(entries[v])
      BY <2>1, <2>2, <2>3
    <2> QED BY <2>3, <2>4 DEF CleanInv, SavedInFull
  <1>3. ASSUME SwapAndSave PROVE CleanInv'
    <2>1. entries' = entries /\ proc' = proc
      BY <1>3 DEF SwapAndSave, UNCHANGED_Env
    <2>2. CASE dirty /\ StateFile
      <3>1. file' = [u \in DOMAIN entries |-> Persisted(entries[u])]
        BY <1>3, <2>2, SavedExactly DEF SwapAndSave
      <3> QED BY <2>1, <3>1 DEF CleanInv, SavedInFull
    <2>3. CASE ~dirty
      BY <1>3, <2>1, <2>3 DEF SwapAndSave, CleanInv, SavedInFull
    <2>4. CASE ~StateFile
      BY <2>4 DEF CleanInv
    <2> QED BY <2>2, <2>3, <2>4
  <1>4. ASSUME Boot PROVE CleanInv'
    <2> SUFFICES ASSUME StateFile PROVE CleanInv'
      BY DEF CleanInv
    <2>1. /\ entries' = [u \in DOMAIN file |-> Restored(file[u])]
          /\ file' = file
      BY <1>4 DEF Boot
    <2>2. \A s \in StateAccount : Persisted(Restored(s)) = s
      BY DEF StateAccount, Persisted, Restored
    <2>3. \A u \in DOMAIN entries' : Persisted(entries'[u]) = file'[u]
      BY <2>1, <2>2 DEF TypeOK
    <2> QED BY <2>1, <2>3 DEF CleanInv, SavedInFull
  <1>5. ASSUME SyncToDir PROVE CleanInv'
    <2> SUFFICES ASSUME StateFile PROVE CleanInv'
      BY DEF CleanInv
    <2>1. /\ proc = "loaded" /\ dirty' = dirty /\ DOMAIN entries' = dir
          /\ \A u \in dir : entries'[u] = Upserted(dir)[u]
      BY <1>5 DEF SyncToDir
    <2>2. CASE DOMAIN entries \subseteq dir
      <3>1. file' = file /\ DOMAIN file \subseteq DOMAIN entries'
        BY <1>5, <2>1, <2>2 DEF SyncToDir, CleanInv
      <3>2. ASSUME ~dirty, NEW v \in dir
            PROVE  Persisted(entries'[v]) = IF v \in DOMAIN file
                                  THEN file[v] ELSE Persisted(NewEntry)
        <4>1. CASE v \notin DOMAIN entries
          BY <4>1, <2>1, <3>2 DEF CleanInv, Upserted
        <4>2. CASE v \in DOMAIN entries
          <5>1. Persisted(entries'[v]) = Persisted(entries[v])
            BY <4>2, <2>1, <1>e, <1>f DEF Upserted
          <5> QED BY <5>1, <4>2, <2>1, <3>2 DEF CleanInv, SavedInFull
        <4> QED BY <4>1, <4>2
      <3> QED BY <2>1, <3>1, <3>2 DEF CleanInv, SavedInFull
    <2>3. CASE ~(DOMAIN entries \subseteq dir)
      <3>1. SaveLocked(entries')
        BY <1>5, <2>3 DEF SyncToDir
      <3>2. file' = [u \in DOMAIN entries' |-> Persisted(entries'[u])]
        BY <3>1, SavedExactly
      <3> QED BY <3>2 DEF CleanInv, SavedInFull
    <2> QED BY <2>2, <2>3
  <1>6. ASSUME Stop PROVE CleanInv'
    BY <1>6 DEF Stop, CleanInv
  <1>7. ASSUME UNCHANGED <<entries, dirty, file, proc>> PROVE CleanInv'
    BY <1>7 DEF CleanInv, SavedInFull
  <1>8. Tick \/ UNCHANGED poolVars => UNCHANGED <<entries, dirty, file, proc>>
    BY DEF Tick, poolVars
  <1>9. ASSUME NEW u, Login(u) \/ RemoveCredential(u)
        PROVE  UNCHANGED <<entries, dirty, file, proc>>
    BY <1>9 DEF Login, RemoveCredential
  <1>10. FlushTick \/ Flush => SwapAndSave
    BY DEF FlushTick, Flush
  <1> QED
    BY SetterClean, <1>1, <1>2, <1>3, <1>4, <1>5, <1>6, <1>7, <1>8, <1>9,
       <1>10 DEF Next

\* On a disk that takes every write, a clear dirty flag means the state file
\* holds all the pool knows: Flush and the flusher skip nothing they should
\* write.
THEOREM CleanIsSaved == ASSUME ~DiskFaults PROVE Spec => []CleanMeansSaved
  <1>1. Init => CleanInv
    BY DEF Init, CleanInv
  <1>2. TypeOK /\ CleanInv /\ [Next]_poolVars => CleanInv'
    BY NextClean
  <1>3. CleanInv => CleanMeansSaved
    BY DEF CleanInv, CleanMeansSaved
  <1> QED BY <1>1, <1>2, <1>3, TypeCorrect, PTL DEF Spec

-----------------------------------------------------------------------------
(* Credentials                                                             *)

\* The setters, picks and flushes leave the credential of an account alone.
LEMMA NextCredentials ==
    TypeOK /\ RunningHasCredentials /\ [Next]_poolVars => RunningHasCredentials'
  <1> SUFFICES ASSUME TypeOK, RunningHasCredentials, [Next]_poolVars,
                      proc' = "running", NEW u \in DOMAIN entries'
               PROVE  entries'[u].auth = "full"
    BY DEF RunningHasCredentials, Running
  <1>e. \A v \in DOMAIN entries : entries[v] \in Entry
    BY DEF TypeOK
  <1>k. ASSUME Running, NEW v, NEW e, Update(v, e),
               v \in DOMAIN entries => e.auth = entries[v].auth
        PROVE  entries'[u].auth = "full"
    BY <1>k DEF Update, RunningHasCredentials
  <1>1. ASSUME NEW v, NEW p, SetPoints(v, p) PROVE entries'[u].auth = "full"
    BY <1>1, <1>k, <1>e DEF SetPoints, Entry
  <1>2. ASSUME NEW v, NEW p, ReenableIfPoints(v, p)
        PROVE  entries'[u].auth = "full"
    <2>1. v \in DOMAIN entries =>
            /\ [entries[v] EXCEPT !.points = p].auth = entries[v].auth
            /\ [Thawed(entries[v]) EXCEPT !.points = p].auth = entries[v].auth
      BY <1>e DEF Entry, Thawed
    <2> QED BY <2>1, <1>2, <1>k DEF ReenableIfPoints
  <1>3. ASSUME NEW v, NEW kind, Cooldown(v, kind)
        PROVE  entries'[u].auth = "full"
    BY <1>3, <1>k, <1>e DEF Cooldown, Cooled, Entry
  <1>4. ASSUME NEW v, Disable(v) PROVE entries'[u].auth = "full"
    BY <1>4, <1>k, <1>e DEF Disable, Entry
  <1>5. ASSUME NEW v, ReenableAfterManual(v) PROVE entries'[u].auth = "full"
    BY <1>5, <1>k, <1>e DEF ReenableAfterManual, Thawed, Entry
  <1>6. ASSUME NEW v, NoteError(v) PROVE entries'[u].auth = "full"
    <2>1. v \in DOMAIN entries =>
            /\ Cooled(entries[v], "error_threshold", ErrCooldown,
                      "consecutive errors").auth = entries[v].auth
            /\ [entries[v] EXCEPT !.errCount = @ + 1].auth = entries[v].auth
      BY <1>e DEF Entry, Cooled
    <2> QED BY <2>1, <1>6, <1>k DEF NoteError
  <1>7. ASSUME NEW v, NoteSuccess(v) PROVE entries'[u].auth = "full"
    BY <1>7, <1>k, <1>e DEF NoteSuccess, Entry
  <1>8. ASSUME NEW v, Add(v) PROVE entries'[u].auth = "full"
    BY <1>8, <1>e DEF Add, Upserted, NewEntry, Entry, RunningHasCredentials
  <1>9. ASSUME NEW v, NEW tried, Pick(tried, v) PROVE entries'[u].auth = "full"
    BY <1>9, <1>e DEF Pick, Entry, RunningHasCredentials
  <1>10. ASSUME SyncToDir PROVE entries'[u].auth = "full"
    BY <1>10, <1>e DEF SyncToDir, Upserted, NewEntry, Entry
  <1>11. ASSUME Boot \/ Stop PROVE FALSE
    BY <1>11 DEF Boot, Stop
  <1>12. ASSUME \/ SwapAndSave \/ Tick \/ UNCHANGED poolVars
                \/ \E v \in Uids : Login(v) \/ RemoveCredential(v)
         PROVE  entries'[u].auth = "full"
    BY <1>12 DEF SwapAndSave, Tick, poolVars, Login, RemoveCredential,
                 UNCHANGED_Env, RunningHasCredentials, Running
  <1>13. ASSUME NEW v, Setter(v) PROVE entries'[u].auth = "full"
    BY <1>1, <1>2, <1>3, <1>4, <1>5, <1>6, <1>7, <1>13 DEF Setter, Report
  <1>14. FlushTick \/ Flush => SwapAndSave
    BY DEF FlushTick, Flush
  <1> QED BY <1>8, <1>9, <1>10, <1>11, <1>12, <1>13, <1>14 DEF Next

\* A running process never serves a request with a placeholder credential.
THEOREM CredentialsComplete == Spec => []RunningHasCredentials
  <1>1. Init => RunningHasCredentials
    BY DEF Init, RunningHasCredentials, Running
  <1> QED BY <1>1, NextCredentials, TypeCorrect, PTL DEF Spec

-----------------------------------------------------------------------------
(* Phases of single accounts                                               *)

\* The phase of an account from its entry at a time.
PhaseAt(e, t) ==
    IF e.disabled THEN "disabled"
    ELSE IF Cooling(e, t) THEN "cooling" ELSE "ready"

\* PhaseOf by that name, before and after a step.
LEMMA PhaseOfEntry ==
    ASSUME NEW u
    PROVE  /\ PhaseOf(u) = IF u \in DOMAIN entries
                           THEN PhaseAt(entries[u], now) ELSE "absent"
           /\ PhaseOf(u)' = IF u \in DOMAIN entries'
                            THEN PhaseAt(entries'[u], now') ELSE "absent"
  BY DEF PhaseOf, PhaseAt

\* Only the deadline and the flag of an entry count.
LEMMA SamePhase ==
    ASSUME NEW e, NEW f, NEW t, e.disabled = f.disabled, e.until = f.until
    PROVE  PhaseAt(e, t) = PhaseAt(f, t)
  BY DEF PhaseAt, Cooling

\* A phase is one of four, and no account in the pool is absent.
LEMMA PhaseKinds ==
    ASSUME NEW e, NEW t
    PROVE  PhaseAt(e, t) \in {"ready", "cooling", "disabled"}
  BY DEF PhaseAt

\* An entry without a deadline is ready unless it is disabled.
LEMMA CalmPhase ==
    ASSUME NEW e, NEW t, e.until = Zero, ~e.disabled
    PROVE  PhaseAt(e, t) = "ready"
  BY DEF PhaseAt, Cooling

\* A cooldown makes an account that may be used rest, and leaves a disabled
\* one alone.
LEMMA CooledPhase ==
    ASSUME now \in Nat, NEW e \in Entry, NEW kind, NEW d \in Nat \ {0}, NEW why
    PROVE  PhaseAt(Cooled(e, kind, d, why), now) =
               IF e.disabled THEN "disabled" ELSE "cooling"
  <1> DEFINE t == now + d
             c == [e EXCEPT !.until = t, !.coolKind = kind, !.reason = why,
                            !.errCount = 0]
  <1>1. t > now /\ t # 0
    OBVIOUS
  <1> HIDE DEF t
  <1>2. c.until = t /\ c.disabled = e.disabled
    BY DEF Entry
  <1>3. PhaseAt(c, now) = IF e.disabled THEN "disabled" ELSE "cooling"
    BY <1>1, <1>2 DEF PhaseAt, Cooling, Zero
  <1> QED BY <1>3 DEF Cooled, t

-----------------------------------------------------------------------------
(* Steps of the abstract specification                                     *)

\* One account moves as the lifecycle allows, all others and the file stay.
LEMMA OneMoves ==
    ASSUME NEW v \in Uids, file' = file,
           \A u \in Uids \ {v} : PhaseOf(u)' = PhaseOf(u),
           \/ PhaseOf(v)' = PhaseOf(v)
           \/ PhaseOf(v) \in {"ready", "cooling"} /\ PhaseOf(v)' = "cooling"
           \/ PhaseOf(v) \in {"ready", "cooling"} /\ PhaseOf(v)' = "disabled"
           \/ PhaseOf(v) \in {"absent", "cooling", "disabled"}
              /\ PhaseOf(v)' = "ready"
    PROVE  [Life!LifeNext]_(Life!lifeVars)
  <1> DEFINE phase == [u \in Uids |-> PhaseOf(u)]
             phasep == [u \in Uids |-> PhaseOf(u)']
             saved == [u \in Uids |-> SavedOf(u)]
             savedp == [u \in Uids |-> SavedOf(u)']
  <1>1. savedp = saved
    BY DEF SavedOf
  <1>2. phasep = [phase EXCEPT ![v] = PhaseOf(v)']
    OBVIOUS
  <1>3. CASE PhaseOf(v)' = PhaseOf(v)
    <2>1. phasep = phase
      BY <1>3
    <2> QED BY <1>1, <2>1 DEF Life!lifeVars
  <1>4. CASE PhaseOf(v) \in {"ready", "cooling"} /\ PhaseOf(v)' = "cooling"
    BY <1>1, <1>2, <1>4 DEF Life!LifeNext, Life!Cool, Life!Enabled
  <1>5. CASE PhaseOf(v) \in {"ready", "cooling"} /\ PhaseOf(v)' = "disabled"
    BY <1>1, <1>2, <1>5 DEF Life!LifeNext, Life!Forbid, Life!Enabled
  <1>6. CASE PhaseOf(v) = "absent" /\ PhaseOf(v)' = "ready"
    BY <1>1, <1>2, <1>6 DEF Life!LifeNext, Life!Join
  <1>7. CASE PhaseOf(v) = "disabled" /\ PhaseOf(v)' = "ready"
    BY <1>1, <1>2, <1>7 DEF Life!LifeNext, Life!Pardon
  <1>8. CASE PhaseOf(v) = "cooling" /\ PhaseOf(v)' = "ready"
    <2>1. phasep = [u \in Uids |-> IF u \in {v} THEN "ready" ELSE phase[u]]
      BY <1>8
    <2>2. Life!Recover({v})
      BY <1>1, <1>8, <2>1 DEF Life!Recover
    <2>3. {v} \in SUBSET Uids
      OBVIOUS
    <2> QED BY <2>2, <2>3 DEF Life!LifeNext
  <1> QED BY <1>3, <1>4, <1>5, <1>6, <1>7, <1>8

\* An update of an entry moves no other account.
LEMMA UpdateMoves ==
    ASSUME NEW v \in Uids, NEW e, Update(v, e),
           v \in DOMAIN entries =>
               LET p == PhaseAt(entries[v], now)
                   q == PhaseAt(e, now)
               IN  \/ q = p
                   \/ p \in {"ready", "cooling"} /\ q \in {"cooling", "disabled"}
                   \/ p \in {"cooling", "disabled"} /\ q = "ready"
    PROVE  [Life!LifeNext]_(Life!lifeVars)
  <1>1. /\ now' = now /\ file' = file
        /\ DOMAIN entries' = DOMAIN entries
        /\ \A u \in DOMAIN entries :
            entries'[u] = IF u = v THEN e ELSE entries[u]
    BY DEF Update, UNCHANGED_Env
  <1>2. \A u \in Uids \ {v} : PhaseOf(u)' = PhaseOf(u)
    BY <1>1, PhaseOfEntry
  <1>3. CASE v \in DOMAIN entries
    <2>1. /\ PhaseOf(v) = PhaseAt(entries[v], now)
          /\ PhaseOf(v)' = PhaseAt(e, now)
      BY <1>1, <1>3, PhaseOfEntry
    <2> QED BY <1>1, <1>2, <1>3, <2>1, OneMoves
  <1>4. CASE v \notin DOMAIN entries
    <2>1. PhaseOf(v)' = PhaseOf(v)
      BY <1>1, <1>4, PhaseOfEntry
    <2> QED BY <1>1, <1>2, <2>1, OneMoves
  <1> QED BY <1>3, <1>4

\* The setters are moves of one account.
LEMMA SetterMoves ==
    ASSUME TypeOK, NEW v \in Uids, Setter(v)
    PROVE  [Life!LifeNext]_(Life!lifeVars)
  <1>n. now \in Nat
    BY DEF TypeOK
  <1>e. v \in DOMAIN entries => entries[v] \in Entry
    BY DEF TypeOK
  <1>p. \A t : v \in DOMAIN entries =>
            /\ PhaseAt(entries[v], t) \in {"ready", "cooling", "disabled"}
            /\ PhaseAt(entries[v], t) = "disabled" <=> entries[v].disabled
    BY <1>e DEF PhaseAt, Entry
  <1>t. v \in DOMAIN entries =>
            /\ Thawed(entries[v]) \in Entry
            /\ Thawed(entries[v]).until = Zero
            /\ Thawed(entries[v]).disabled = entries[v].disabled
    BY <1>e, EntryTypes DEF Thawed, Entry
  <1>1. ASSUME NEW p, SetPoints(v, p)
        PROVE  [Life!LifeNext]_(Life!lifeVars)
    <2> DEFINE e == [entries[v] EXCEPT !.points = p]
    <2>1. v \in DOMAIN entries =>
            e.until = entries[v].until /\ e.disabled = entries[v].disabled
      BY <1>e DEF Entry
    <2> QED BY <2>1, <1>1, SamePhase, UpdateMoves DEF SetPoints
  <1>2. ASSUME NEW p, ReenableIfPoints(v, p)
        PROVE  [Life!LifeNext]_(Life!lifeVars)
    <2> DEFINE e == [entries[v] EXCEPT !.points = p]
               f == [Thawed(entries[v]) EXCEPT !.points = p]
    <2>1. v \in DOMAIN entries =>
            /\ e.until = entries[v].until /\ e.disabled = entries[v].disabled
            /\ f.until = Zero /\ f.disabled = entries[v].disabled
      BY <1>e, <1>t DEF Entry
    <2>2. v \in DOMAIN entries /\ entries[v].disabled =>
            PhaseAt(e, now) = PhaseAt(entries[v], now)
      BY <2>1, SamePhase
    <2>3. v \in DOMAIN entries /\ ~entries[v].disabled =>
            PhaseAt(f, now) = "ready"
      BY <2>1, CalmPhase
    <2> HIDE DEF e, f
    <2>4. Update(v, IF entries[v].disabled THEN e ELSE f)
      BY <1>2 DEF ReenableIfPoints, e, f
    <2> QED BY <2>2, <2>3, <2>4, <1>p, UpdateMoves
  <1>3. ASSUME NEW kind \in Kinds, Cooldown(v, kind)
        PROVE  [Life!LifeNext]_(Life!lifeVars)
    <2> DEFINE e == Cooled(entries[v], kind, DurationOf(kind), ReasonOf(kind))
    <2>1. v \in DOMAIN entries =>
            PhaseAt(e, now) = IF entries[v].disabled
                              THEN "disabled" ELSE "cooling"
      BY <1>n, <1>e, CooledPhase, KindFacts
    <2> HIDE DEF e
    <2>2. Update(v, e)
      BY <1>3 DEF Cooldown, e
    <2> QED BY <2>1, <2>2, <1>p, UpdateMoves
  <1>4. ASSUME Disable(v)
        PROVE  [Life!LifeNext]_(Life!lifeVars)
    <2> DEFINE e == [entries[v] EXCEPT !.disabled = TRUE,
                                       !.reason = "session dead"]
    <2>1. v \in DOMAIN entries => e.disabled
      BY <1>e DEF Entry
    <2>2. v \in DOMAIN entries => PhaseAt(e, now) = "disabled"
      BY <2>1 DEF PhaseAt
    <2> HIDE DEF e
    <2>3. Update(v, e)
      BY <1>4 DEF Disable, e
    <2> QED BY <2>2, <2>3, <1>p, UpdateMoves
  <1>5. ASSUME ReenableAfterManual(v)
        PROVE  [Life!LifeNext]_(Life!lifeVars)
    <2> DEFINE e == [Thawed(entries[v]) EXCEPT !.disabled = FALSE]
    <2>1. v \in DOMAIN entries => e.until = Zero /\ ~e.disabled
      BY <1>t DEF Entry
    <2>2. v \in DOMAIN entries => PhaseAt(e, now) = "ready"
      BY <2>1, CalmPhase
    <2> HIDE DEF e
    <2>3. Update(v, e)
      BY <1>5 DEF ReenableAfterManual, e
    <2> QED BY <2>2, <2>3, <1>p, UpdateMoves
  <1>6. ASSUME NoteError(v)
        PROVE  [Life!LifeNext]_(Life!lifeVars)
    <2> DEFINE e == Cooled(entries[v], "error_threshold", ErrCooldown,
                           "consecutive errors")
               f == [entries[v] EXCEPT !.errCount = @ + 1]
    <2>1. v \in DOMAIN entries =>
            PhaseAt(e, now) = IF entries[v].disabled
                              THEN "disabled" ELSE "cooling"
      BY <1>n, <1>e, CooledPhase, CooldownAssumption
    <2>2. v \in DOMAIN entries =>
            f.until = entries[v].until /\ f.disabled = entries[v].disabled
      BY <1>e DEF Entry
    <2>3. v \in DOMAIN entries => PhaseAt(f, now) = PhaseAt(entries[v], now)
      BY <2>2, SamePhase
    <2> HIDE DEF e, f
    <2>4. Update(v, IF entries[v].errCount + 1 >= ErrThreshold THEN e ELSE f)
      BY <1>6 DEF NoteError, e, f
    <2> QED BY <2>1, <2>3, <2>4, <1>p, UpdateMoves
  <1>7. ASSUME NoteSuccess(v)
        PROVE  [Life!LifeNext]_(Life!lifeVars)
    <2> DEFINE e == [entries[v] EXCEPT !.errCount = 0]
    <2>1. v \in DOMAIN entries =>
            e.until = entries[v].until /\ e.disabled = entries[v].disabled
      BY <1>e DEF Entry
    <2> QED BY <2>1, <1>7, SamePhase, UpdateMoves DEF NoteSuccess
  <1> QED BY <1>1, <1>2, <1>3, <1>4, <1>5, <1>6, <1>7
          DEF Setter, Report, Kinds

-----------------------------------------------------------------------------
(* The steps that concern several accounts                                 *)

\* What the file has of an account, from its state there.
LEMMA SavedOfKept ==
    ASSUME NEW es, NEW t,
           file' = [u \in DOMAIN es |-> Persisted(es[u])], NEW u
    PROVE  SavedOf(u)' =
               Life!Kept(IF u \in DOMAIN es THEN PhaseAt(es[u], t) ELSE "absent")
  BY DEF SavedOf, Persisted, PhaseAt, Life!Kept, Life!Enabled

\* An account that joins is ready, one that is given its credential again
\* stays in its phase.
LEMMA UpsertedPhase ==
    ASSUME TypeOK, NEW D \in SUBSET Uids, NEW u \in DOMAIN Upserted(D)
    PROVE  PhaseAt(Upserted(D)[u], now) =
               IF u \in DOMAIN entries
               THEN PhaseAt(entries[u], now) ELSE "ready"
  <1>1. CASE u \in DOMAIN entries
    <2>1. entries[u] \in Entry
      BY <1>1 DEF TypeOK
    <2>2. /\ Upserted(D)[u].until = entries[u].until
          /\ Upserted(D)[u].disabled = entries[u].disabled
      BY <1>1, <2>1 DEF Upserted, Entry
    <2> QED BY <1>1, <2>2, SamePhase
  <1>2. CASE u \notin DOMAIN entries
    <2>1. Upserted(D)[u] = NewEntry
      BY <1>2 DEF Upserted
    <2>2. PhaseAt(NewEntry, now) = "ready"
      BY CalmPhase DEF NewEntry
    <2> QED BY <1>2, <2>1, <2>2
  <1> QED BY <1>1, <1>2

\* Add joins one account or changes no phase.
LEMMA AddMoves ==
    ASSUME TypeOK, NEW v \in Uids, Add(v)
    PROVE  [Life!LifeNext]_(Life!lifeVars)
  <1>1. /\ now' = now /\ file' = file /\ entries' = Upserted({v})
        /\ DOMAIN Upserted({v}) = DOMAIN entries \cup {v}
    BY UpsertedType DEF Add, UNCHANGED_Env
  <1>2. \A u \in Uids : PhaseOf(u)' =
            IF u = v /\ u \notin DOMAIN entries THEN "ready" ELSE PhaseOf(u)
    BY <1>1, UpsertedPhase, PhaseOfEntry
  <1>3. PhaseOf(v) = "absent" <=> v \notin DOMAIN entries
    BY PhaseOfEntry, PhaseKinds
  <1> QED BY <1>1, <1>2, <1>3, OneMoves

\* A pick changes no phase.
LEMMA PickMoves ==
    ASSUME TypeOK, NEW v \in Uids, NEW tried, Pick(tried, v)
    PROVE  [Life!LifeNext]_(Life!lifeVars)
  <1>1. /\ now' = now /\ file' = file
        /\ DOMAIN entries' = DOMAIN entries
        /\ \A u \in DOMAIN entries :
            /\ entries'[u].until = entries[u].until
            /\ entries'[u].disabled = entries[u].disabled
    BY DEF Pick, UNCHANGED_Env, TypeOK, Entry
  <1>2. \A u \in Uids : PhaseOf(u)' = PhaseOf(u)
    BY <1>1, SamePhase, PhaseOfEntry
  <1> QED BY <1>1, <1>2, OneMoves

\* Time ends cooldowns and nothing else.
LEMMA TickMoves ==
    ASSUME TypeOK, Tick
    PROVE  [Life!LifeNext]_(Life!lifeVars)
  <1> DEFINE S == {u \in Uids : PhaseOf(u) # PhaseOf(u)'}
             phase == [u \in Uids |-> PhaseOf(u)]
  <1>1. /\ now' = now + 1 /\ now \in Nat
        /\ file' = file /\ entries' = entries
    BY DEF Tick, TypeOK
  <1>2. ASSUME NEW u \in DOMAIN entries
        PROVE  \/ PhaseAt(entries[u], now + 1) = PhaseAt(entries[u], now)
               \/ /\ PhaseAt(entries[u], now) = "cooling"
                  /\ PhaseAt(entries[u], now + 1) = "ready"
    <2>1. entries[u].until \in Nat
      BY DEF TypeOK, Entry
    <2> QED BY <1>1, <2>1 DEF PhaseAt, Cooling
  <1>3. \A u \in S : PhaseOf(u) = "cooling" /\ PhaseOf(u)' = "ready"
    BY <1>1, <1>2, PhaseOfEntry
  <1>4. [u \in Uids |-> PhaseOf(u)'] =
            [u \in Uids |-> IF u \in S THEN "ready" ELSE phase[u]]
    BY <1>3
  <1>5. [u \in Uids |-> SavedOf(u)'] = [u \in Uids |-> SavedOf(u)]
    BY <1>1 DEF SavedOf
  <1>6. \A u \in S : phase[u] = "cooling"
    BY <1>3
  <1>7. Life!Recover(S)
    BY <1>4, <1>5, <1>6 DEF Life!Recover
  <1>8. S \in SUBSET Uids
    OBVIOUS
  <1> HIDE DEF S
  <1> QED BY <1>7, <1>8 DEF Life!LifeNext

\* A flush saves everything, or nothing.
LEMMA SaveMoves ==
    ASSUME TypeOK, SwapAndSave
    PROVE  [Life!LifeNext]_(Life!lifeVars)
  <1>1. entries' = entries /\ now' = now
    BY DEF SwapAndSave, UNCHANGED_Env
  <1>2. [u \in Uids |-> PhaseOf(u)'] = [u \in Uids |-> PhaseOf(u)]
    BY <1>1 DEF PhaseOf
  <1>3. CASE file' = file
    <2>1. [u \in Uids |-> SavedOf(u)'] = [u \in Uids |-> SavedOf(u)]
      BY <1>3 DEF SavedOf
    <2> QED BY <1>2, <2>1 DEF Life!lifeVars
  <1>4. CASE file' = [u \in DOMAIN entries |-> Persisted(entries[u])]
    <2>1. \A u \in Uids : SavedOf(u)' = Life!Kept(PhaseOf(u))
      BY <1>4, SavedOfKept, PhaseOfEntry
    <2>2. Life!Save
      BY <1>2, <2>1 DEF Life!Save
    <2> QED BY <2>2 DEF Life!LifeNext
  <1> QED BY <1>3, <1>4 DEF SwapAndSave, SaveLocked

\* Without a state file there is nothing to start from.
NoFileNoState == ~StateFile => DOMAIN file = {}

\* New brings back what was saved.
LEMMA BootMoves ==
    ASSUME TypeOK, DownIsEmpty, NoFileNoState, Boot
    PROVE  [Life!LifeNext]_(Life!lifeVars)
  <1>1. /\ file' = file /\ now' = now /\ DOMAIN entries = {}
        /\ DOMAIN entries' = DOMAIN file
        /\ \A u \in DOMAIN file : entries'[u] = Restored(file[u])
    BY NoAccountsType DEF Boot, DownIsEmpty, NoFileNoState
  <1>2. [u \in Uids |-> PhaseOf(u)] = [u \in Uids |-> "absent"]
    BY <1>1 DEF PhaseOf
  <1>3. \A u \in Uids :
            /\ PhaseOf(u)' \in {"absent", "ready", "cooling", "disabled"}
            /\ Life!Kept(PhaseOf(u)') = SavedOf(u)
    BY <1>1 DEF PhaseOf, SavedOf, Restored, Life!Kept, Life!Enabled
  <1>4. [u \in Uids |-> PhaseOf(u)'] \in [Uids -> Life!Phases]
    BY <1>3 DEF Life!Phases
  <1>5. [u \in Uids |-> SavedOf(u)'] = [u \in Uids |-> SavedOf(u)]
    BY <1>1 DEF SavedOf
  <1>6. Life!Restore
    BY <1>2, <1>3, <1>4, <1>5 DEF Life!Restore, Life!Nothing
  <1> QED BY <1>6 DEF Life!LifeNext

\* SyncToDir aligns the pool with the directory, and the file or not.
LEMMA SyncMoves ==
    ASSUME TypeOK, SyncToDir
    PROVE  [Life!LifeNext]_(Life!lifeVars)
  <1>1. /\ now' = now /\ DOMAIN entries' = dir /\ dir \in SUBSET Uids
        /\ \A u \in dir : entries'[u] = Upserted(dir)[u]
        /\ DOMAIN Upserted(dir) = DOMAIN entries \cup dir
    BY UpsertedType DEF SyncToDir, TypeOK
  <1>2. \A u \in Uids : PhaseOf(u)' =
            IF u \notin dir THEN "absent"
            ELSE IF u \in DOMAIN entries THEN PhaseOf(u) ELSE "ready"
    BY <1>1, UpsertedPhase, PhaseOfEntry
  <1>3. \A u \in Uids : PhaseOf(u) = "absent" <=> u \notin DOMAIN entries
    BY PhaseOfEntry, PhaseKinds
  <1>4. [u \in Uids |-> PhaseOf(u)'] =
            [u \in Uids |-> IF u \notin dir THEN "absent"
                            ELSE IF PhaseOf(u) = "absent" THEN "ready"
                            ELSE PhaseOf(u)]
    BY <1>2, <1>3
  <1>5. CASE file' = file
    <2>1. [u \in Uids |-> SavedOf(u)'] = [u \in Uids |-> SavedOf(u)]
      BY <1>5 DEF SavedOf
    <2>2. Life!Align(dir)
      BY <1>4, <2>1 DEF Life!Align
    <2> QED BY <1>1, <2>2 DEF Life!LifeNext
  <1>6. CASE file' = [u \in DOMAIN entries' |-> Persisted(entries'[u])]
    <2>1. \A u \in Uids : SavedOf(u)' = Life!Kept(PhaseOf(u)')
      BY <1>6, SavedOfKept, PhaseOfEntry
    <2>2. Life!Align(dir)
      BY <1>4, <2>1 DEF Life!Align
    <2> QED BY <1>1, <2>2 DEF Life!LifeNext
  <1> QED BY <1>5, <1>6 DEF SyncToDir, SaveLocked

\* A process that ends leaves the file.
LEMMA StopMoves ==
    ASSUME Stop
    PROVE  [Life!LifeNext]_(Life!lifeVars)
  <1>1. file' = file /\ DOMAIN entries' = {}
    BY NoAccountsType DEF Stop
  <1>2. [u \in Uids |-> PhaseOf(u)'] = [u \in Uids |-> "absent"]
    BY <1>1, PhaseOfEntry
  <1>3. [u \in Uids |-> SavedOf(u)'] = [u \in Uids |-> SavedOf(u)]
    BY <1>1 DEF SavedOf
  <1>4. Life!End
    BY <1>2, <1>3 DEF Life!End, Life!Nothing
  <1> QED BY <1>4 DEF Life!LifeNext

-----------------------------------------------------------------------------
(* The refinement                                                          *)

\* No save creates a file that is not configured.
LEMMA NoFileHolds == Spec => []NoFileNoState
  <1>1. Init => NoFileNoState
    BY NoAccountsType DEF Init, NoFileNoState
  <1>2. NoFileNoState /\ [Next]_poolVars => NoFileNoState'
    <2> SUFFICES ASSUME NoFileNoState, [Next]_poolVars, ~StateFile
                 PROVE  file' = file
      BY DEF NoFileNoState
    <2>1. ASSUME NEW u, Setter(u) PROVE file' = file
      BY <2>1 DEF Setter, Report, SetPoints, ReenableIfPoints, Cooldown,
                  Disable, ReenableAfterManual, NoteError, NoteSuccess, Update
    <2>2. ASSUME NEW u, Add(u) \/ \E tried : Pick(tried, u) PROVE file' = file
      BY <2>2 DEF Add, Pick
    <2>3. ASSUME SwapAndSave \/ SyncToDir PROVE file' = file
      BY <2>3 DEF SwapAndSave, SyncToDir, SaveLocked
    <2>4. ASSUME \/ Boot \/ Stop \/ Tick \/ UNCHANGED poolVars
                 \/ \E u \in Uids : Login(u) \/ RemoveCredential(u)
          PROVE  file' = file
      BY <2>4 DEF Boot, Stop, Tick, poolVars, Login, RemoveCredential
    <2> QED BY <2>1, <2>2, <2>3, <2>4 DEF Next, FlushTick, Flush
  <1> QED BY <1>1, <1>2, PTL DEF Spec

\* Every step of the pool is a step of the lifecycle or changes nothing.
LEMMA NextMoves ==
    ASSUME TypeOK, DownIsEmpty, NoFileNoState, [Next]_poolVars
    PROVE  [Life!LifeNext]_(Life!lifeVars)
  <1>1. ASSUME \/ UNCHANGED poolVars
               \/ \E u \in Uids : Login(u) \/ RemoveCredential(u)
        PROVE  [Life!LifeNext]_(Life!lifeVars)
    <2>1. UNCHANGED <<entries, file, now>>
      BY <1>1 DEF poolVars, Login, RemoveCredential
    <2>2. /\ [u \in Uids |-> PhaseOf(u)'] = [u \in Uids |-> PhaseOf(u)]
          /\ [u \in Uids |-> SavedOf(u)'] = [u \in Uids |-> SavedOf(u)]
      BY <2>1 DEF PhaseOf, SavedOf
    <2> QED BY <2>2 DEF Life!lifeVars
  <1>2. FlushTick \/ Flush => SwapAndSave
    BY DEF FlushTick, Flush
  <1> QED
    BY <1>1, <1>2, SetterMoves, AddMoves, PickMoves, TickMoves, SaveMoves,
       BootMoves, SyncMoves, StopMoves DEF Next

\* The pool implements the lifecycle: whatever setters, picks, flushes that
\* fail or work, crashes, restarts, sign-ins and removals do, an account is
\* never brought back by anything but the operator, its removal, or the end
\* of a process that had not saved it.
THEOREM PoolImplementsLifecycle == Spec => ImplementsLifecycle
  <1>1. Init => Life!LifeInit
    <2> SUFFICES ASSUME Init PROVE Life!LifeInit
      OBVIOUS
    <2>1. DOMAIN entries = {} /\ DOMAIN file = {}
      BY NoAccountsType DEF Init
    <2> QED BY <2>1 DEF Life!LifeInit, Life!Nothing, PhaseOf, SavedOf
  <1>2. TypeOK /\ DownIsEmpty /\ NoFileNoState /\ [Next]_poolVars
            => [Life!LifeNext]_(Life!lifeVars)
    BY NextMoves
  <1> QED BY <1>1, <1>2, TypeCorrect, DownIsEmptyHolds, NoFileHolds, PTL
          DEF Spec, ImplementsLifecycle, Life!LifeSpec
=============================================================================
