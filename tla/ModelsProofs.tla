---------------------------- MODULE ModelsProofs ----------------------------
(***************************************************************************)
(* Theorems about ModelsCache.tla, for any number of readers, any accounts *)
(* and any durations.                                                      *)
(***************************************************************************)
EXTENDS ModelsCache, PoolProofs

Reader == [pc : ReaderPc, acct : Uids \cup {NoAccount}, reply : Replies]

\* The cache holds a list exactly when a fetch succeeded, with the time of
\* the last one, whichever requests stored or failed since.
ModelsInv ==
    /\ TypeOK
    /\ ModelsTypeOK
    /\ cache.fetched = fetchedAt
    /\ cache.ids <=> fetchedAt # Zero

\* The steps of a request use the pool by its operations, and only Store
\* writes a list.
LEMMA ReaderStep ==
    ASSUME ModelsInv, NEW r \in Readers,
           Look(r) \/ ReadingStep(r) \/ ReaderReturns(r)
    PROVE  /\ [Next]_poolVars
           /\ reader' \in [Readers -> Reader]
           /\ \/ UNCHANGED <<cache, fetchedAt>>
              \/ /\ cache' = [ids |-> TRUE, fetched |-> now, lastFail |-> Zero]
                 /\ fetchedAt' = now
              \/ /\ cache' = [cache EXCEPT !.lastFail = now]
                 /\ UNCHANGED fetchedAt
  <1>r. reader \in [Readers -> Reader]
    BY DEF ModelsInv, ModelsTypeOK, Reader
  <1>g. \A pc \in ReaderPc : Goes(r, pc) => reader' \in [Readers -> Reader]
    BY <1>r DEF Goes, Reader
  <1>a. \A reply \in Replies :
            AnswerWith(r, reply) => reader' \in [Readers -> Reader]
    <2> SUFFICES ASSUME NEW reply \in Replies, AnswerWith(r, reply)
                 PROVE  reader' \in [Readers -> Reader]
      OBVIOUS
    <2>1. reader[r] \in Reader
      BY <1>r
    <2>2. [reader[r] EXCEPT !.pc = "done", !.reply = reply] \in Reader
      BY <2>1 DEF Reader, ReaderPc
    <2>3. reader' = [reader EXCEPT
                       ![r] = [reader[r] EXCEPT !.pc = "done", !.reply = reply]]
      BY <1>r DEF AnswerWith
    <2> QED BY <1>r, <2>2, <2>3, Zenon
  <1> USE DEF ReaderPc, Replies
  <1>1. CASE Look(r)
    BY <1>1, <1>g, <1>a DEF Look
  <1>2. CASE PickForModels(r)
    <2>1. PICK u \in Uids :
            /\ Pick({}, u)
            /\ reader' = [reader EXCEPT ![r].pc = "picked", ![r].acct = u]
      BY <1>2 DEF PickForModels
    <2>2. [Next]_poolVars
      BY <2>1 DEF Next
    <2>3. reader' \in [Readers -> Reader]
      BY <1>r, <2>1 DEF Reader
    <2> QED BY <1>2, <2>2, <2>3 DEF PickForModels
  <1>3. CASE PickNoneForModels(r)
    BY <1>3, <1>a DEF PickNoneForModels
  <1>4. CASE CheckStatus(r)
    BY <1>4, <1>g DEF CheckStatus
  <1>5. CASE PrepareForModels(r)
    BY <1>5, <1>g DEF PrepareForModels
  <1>n. ASSUME NoteError(reader[r].acct) PROVE [Next]_poolVars
    <2>1. CASE reader[r].acct \in Uids
      <3>1. Setter(reader[r].acct)
        BY <1>n DEF Setter, Report
      <3> QED BY <2>1, <3>1 DEF Next
    <2>2. CASE reader[r].acct \notin Uids
      <3>1. \E e : Update(reader[r].acct, e)
        BY <1>n DEF NoteError
      <3>2. DOMAIN entries \subseteq Uids
        BY DEF ModelsInv, TypeOK
      <3>3. UNCHANGED relogged
        BY <1>n DEF NoteError
      <3> QED BY <2>2, <3>1, <3>2, <3>3 DEF Update, UNCHANGED_Env, poolVars
    <2> QED BY <2>1, <2>2
  <1>6. CASE PrepareForModelsFails(r)
    BY <1>6, <1>g, <1>n DEF PrepareForModelsFails
  <1>7. CASE FetchWorks(r)
    BY <1>7, <1>g DEF FetchWorks
  <1>8. CASE FetchFails(r)
    BY <1>8, <1>g, <1>n DEF FetchFails
  <1>9. CASE Store(r)
    BY <1>9, <1>a DEF Store
  <1>10. CASE StoreFailure(r)
    BY <1>10, <1>a DEF StoreFailure
  <1>11. CASE ReaderReturns(r)
    BY <1>11, <1>r DEF ReaderReturns, Reader, IdleReader
  <1> QED BY <1>1, <1>2, <1>3, <1>4, <1>5, <1>6, <1>7, <1>8, <1>9, <1>10,
             <1>11 DEF ReadingStep

\* Whatever a request does, the clock ticks or the pool is told, the cache
\* keeps its list and its time.
LEMMA ModelsNextInv == ModelsInv /\ [ModelsNext]_allVars => ModelsInv'
  <1> SUFFICES ASSUME ModelsInv, [ModelsNext]_allVars PROVE ModelsInv'
    OBVIOUS
  <1>1. CASE \E r \in Readers : Look(r) \/ ReadingStep(r) \/ ReaderReturns(r)
    <2>1. TypeOK'
      BY <1>1, ReaderStep, NextType DEF ModelsInv
    <2>2. now \in Nat /\ now # Zero
      BY ClockAssumption DEF ModelsInv, TypeOK
    <2>3. reader' \in [Readers -> Reader]
      BY <1>1, ReaderStep
    <2>4. CASE UNCHANGED <<cache, fetchedAt>>
      BY <2>1, <2>3, <2>4 DEF ModelsInv, ModelsTypeOK, Reader
    <2>5. CASE /\ cache' = [ids |-> TRUE, fetched |-> now, lastFail |-> Zero]
               /\ fetchedAt' = now
      <3>1. \A z \in Nat : [ids |-> TRUE, fetched |-> now, lastFail |-> z]
                            \in [ids : BOOLEAN, fetched : Nat, lastFail : Nat]
        BY <2>2
      <3>2. 0 \in Nat
        OBVIOUS
      <3>3. cache' \in [ids : BOOLEAN, fetched : Nat, lastFail : Nat]
        BY <2>5, <3>1, <3>2, Zenon DEF Zero
      <3>4. cache'.ids = TRUE /\ cache'.fetched = now
        BY <2>5
      <3> QED BY <2>1, <2>2, <2>3, <2>5, <3>3, <3>4
              DEF ModelsInv, ModelsTypeOK, Reader
    <2>6. CASE cache' = [cache EXCEPT !.lastFail = now] /\ UNCHANGED fetchedAt
      BY <2>1, <2>2, <2>3, <2>6 DEF ModelsInv, ModelsTypeOK, Reader
    <2> QED BY <1>1, <2>4, <2>5, <2>6, ReaderStep
  <1>2. CASE Around \/ UNCHANGED allVars
    <2>1. UNCHANGED modelsVars
      BY <1>2 DEF Around, allVars
    <2>2. [Next]_poolVars
      <3>1. ASSUME NEW u \in Uids, Disable(u) PROVE Next
        <4>1. Setter(u)
          BY <3>1 DEF Setter, Report
        <4> QED BY <4>1 DEF Next
      <3>2. Boot \/ SyncToDir \/ Tick => Next
        BY DEF Next
      <3>3. UNCHANGED allVars => UNCHANGED poolVars
        BY DEF allVars
      <3> QED BY <1>2, <3>1, <3>2, <3>3 DEF Around
    <2>3. TypeOK'
      BY <2>2, NextType DEF ModelsInv
    <2> QED BY <2>1, <2>3 DEF ModelsInv, ModelsTypeOK, modelsVars
  <1> QED BY <1>1, <1>2 DEF ModelsNext

\* The server starts with an empty cache, so this holds from then on.
LEMMA ModelsInvHolds == ModelsSpec => []ModelsInv
  <1>1. ModelsInit => ModelsInv
    <2> SUFFICES ASSUME ModelsInit PROVE ModelsInv
      OBVIOUS
    <2>1. TypeOK
      BY InitType DEF ModelsInit
    <2>2. 0 \in Nat
      OBVIOUS
    <2>3. cache \in [ids : BOOLEAN, fetched : Nat, lastFail : Nat]
      BY <2>2, Zenon DEF ModelsInit, Zero
    <2>4. IdleReader \in Reader
      BY DEF IdleReader, Reader, ReaderPc, Replies
    <2> QED BY <2>1, <2>2, <2>3, <2>4
            DEF ModelsInit, ModelsInv, ModelsTypeOK, Reader
  <1> QED BY <1>1, ModelsNextInv, PTL DEF ModelsSpec

\* A list that was fetched serves every request for its time to live, no
\* matter how many fetches fail or finish meanwhile and in which order.
THEOREM ListOutlives == ModelsSpec => ListOutlivesFailures
  <1> DEFINE Step == \A r \in Readers :
        (/\ reader[r].pc = "idle" /\ reader'[r].pc # "idle"
         /\ fetchedAt # Zero /\ now - fetchedAt < ModelsTTL)
            => reader'[r].reply = "dynamic"
  <1>1. ModelsInv /\ [ModelsNext]_allVars => [Step]_allVars
    <2> SUFFICES ASSUME ModelsInv, ModelsNext, NEW r \in Readers,
                        reader[r].pc = "idle", reader'[r].pc # "idle",
                        fetchedAt # Zero, now - fetchedAt < ModelsTTL
                 PROVE  reader'[r].reply = "dynamic"
      OBVIOUS
    <2>r. reader \in [Readers -> Reader]
      BY DEF ModelsInv, ModelsTypeOK, Reader
    <2>1. Fresh
      BY DEF ModelsInv, Fresh
    <2>2. ~Around
      BY DEF Around, modelsVars
    <2>3. PICK s \in Readers : Look(s) \/ ReadingStep(s) \/ ReaderReturns(s)
      BY <2>2 DEF ModelsNext
    <2>4. s # r => reader'[r] = reader[r]
      BY <2>r, <2>3
         DEF Look, ReadingStep, ReaderReturns, PickForModels,
             PickNoneForModels, CheckStatus, PrepareForModels,
             PrepareForModelsFails, FetchWorks, FetchFails, Store,
             StoreFailure, Goes, AnswerWith
    <2>5. Look(r)
      BY <2>3, <2>4
         DEF ReadingStep, ReaderReturns, PickForModels, PickNoneForModels,
             CheckStatus, PrepareForModels, PrepareForModelsFails,
             FetchWorks, FetchFails, Store, StoreFailure
    <2>6. AnswerWith(r, "dynamic")
      BY <2>1, <2>5 DEF Look
    <2> QED BY <2>r, <2>6 DEF AnswerWith, Reader
  <1> QED BY <1>1, ModelsInvHolds, PTL DEF ModelsSpec, ListOutlivesFailures
=============================================================================
