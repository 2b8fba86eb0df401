-------------------------- MODULE CredentialsProofs --------------------------
(***************************************************************************)
(* Theorems about Credentials.tla, for any number of requests, tokens and  *)
(* sandboxes, with disk faults and sign-ins or without, and with saves of  *)
(* cmd/login that overlap with the server's where a theorem does not       *)
(* exclude them.                                                           *)
(***************************************************************************)
EXTENDS Credentials, TLAPS

-----------------------------------------------------------------------------
(* The inductive invariant                                                 *)

\* What the lock covers: whoever is in the middle of a refresh or of a save
\* holds it.
Critical == {"refreshing", "store", "write", "rename"}

LockHeld == \A w \in Workers : worker[w].pc \in Critical => lock = w

\* A refresh token and the access token it goes with.
Pair(a) == a.at <= issued /\ a.rt = partner[a.at]

\* The tokens in memory are a pair, except between the two assignments of
\* RefreshToken, where the other half is at hand.
MemoryPaired ==
    /\ partner[None] = None
    /\ mem.at <= issued
    /\ (\A w \in Workers : worker[w].pc # "store") => Pair(mem)
    /\ \A w \in Workers : worker[w].pc = "store" =>
           partner[mem.at] = IF worker[w].got = None THEN mem.rt
                                                     ELSE worker[w].got
    /\ \A w \in Workers : worker[w].pc = "refreshing" =>
           worker[w].got = mem.rt

\* Whatever is or comes into a file is a pair.  What the server saves are the
\* tokens in memory, and as long as nobody signs in so is what it renames.
SavedPaired ==
    /\ Pair(file.auth) /\ Pair(tmp.auth) /\ Pair(login.doc)
    /\ proc # "down" /\ ~signedIn => file.auth.at <= mem.at
    /\ \A w \in Workers : worker[w].pc = "write" =>
           worker[w].doc.at = mem.at /\ worker[w].doc.rt = mem.rt
    /\ ~signedIn => \A w \in Workers : worker[w].pc = "rename" =>
           tmp.auth.at = mem.at /\ tmp.auth.rt = mem.rt

\* cmd/login saves only after a sign-in, and at the same time as the server
\* only with Overlaps.  As long as the two saves are apart a rename brings
\* a file that was written.
Alone == ~Overlaps \/ ~signedIn

SavesApart ==
    /\ LoginSaves => signedIn
    /\ proc = "down" => ~ServerSaves
    /\ LoginSaves /\ ServerSaves => Overlaps
    /\ opened["server"] # "tmp" => ServerWrites /\ Overlaps /\ signedIn
    /\ opened["login"] # "tmp" => Overlaps
    /\ ~Overlaps \/ (proc # "down" /\ ~signedIn) => file.state = "whole"
    /\ Alone => \A w \in Workers :
           /\ worker[w].pc = "write" => tmp = Torn
           /\ worker[w].pc = "rename" => tmp.state = "whole"
    /\ ~Overlaps => /\ login.pc = "write" => tmp = Torn
                    /\ login.pc = "rename" => tmp.state = "whole"

\* As long as none was mislaid, the refresh token in memory is accepted.
SessionLives ==
    /\ \A w \in Workers :
           worker[w].pc \in {"lock", "refreshing", "store"} => mem.rt # None
    /\ proc # "down" /\ ~mislaid =>
           /\ (\A w \in Workers : worker[w].pc # "store") => mem.rt \in live
           /\ \A w \in Workers : worker[w].pc = "store" =>
                  IF worker[w].got = None THEN mem.rt \in live
                                          ELSE worker[w].got \in live
    /\ proc = "down" => ~disabled
    /\ LiveSessionNotCondemned

CredInv ==
    /\ CredTypeOK /\ SavesApart
    /\ LockHeld /\ MemoryPaired /\ SavedPaired /\ SessionLives

-----------------------------------------------------------------------------
(* Types                                                                   *)

\* What an idle goroutine carries is well typed.
LEMMA IdleType == NoAuth \in Auth /\ Idle \in Work
  BY CredBoundAssumption DEF NoAuth, SignedInAuth, Auth, Idle, Carrying, Work,
                             Tokens, Sandboxes, WorkerPc, None

\* So is what a goroutine carries that moves on.
LEMMA MoveType ==
    ASSUME CredTypeOK, NEW w \in Workers, NEW pc \in WorkerPc,
           NEW got \in Tokens \cup Sandboxes,
           pc \in {"refreshing", "store"} => got \in Tokens,
           pc \in {"fix", "id", "endpoint", "end"} => got \in Sandboxes,
           \/ Carry(w, pc, got)
           \/ Go(w, pc) /\ got = worker[w].got
           \/ Return(w)
    PROVE  worker' \in [Workers -> Work]
  <1>1. Carrying(pc, got) \in Work
    BY IdleType DEF Carrying, Work
  <1>2. worker \in [Workers -> Work]
    BY DEF CredTypeOK
  <1>3. CASE Carry(w, pc, got)
    BY <1>1, <1>2, <1>3 DEF Carry
  <1>4. CASE Go(w, pc) /\ got = worker[w].got
    <2>1. worker[w] \in Work
      BY <1>2
    <2>2. [worker[w] EXCEPT !.pc = pc] \in Work
      BY <1>4, <2>1 DEF Work
    <2> QED BY <1>2, <1>4, <2>2 DEF Go
  <1>5. CASE Return(w)
    BY IdleType, <1>2, <1>5 DEF Return
  <1> QED BY <1>3, <1>4, <1>5

\* What a goroutine carries, read from its place.
LEMMA CarriedType ==
    ASSUME CredTypeOK, NEW w \in Workers
    PROVE  /\ worker[w] \in Work
           /\ worker[w].got \in Tokens \cup Sandboxes
           /\ worker[w].pc \in WorkerPc
           /\ worker[w].pc \in {"refreshing", "store"} =>
                  worker[w].got \in Tokens
           /\ worker[w].pc \in {"fix", "id", "endpoint", "end"} =>
                  worker[w].got \in Sandboxes
           /\ worker[w].doc \in Auth /\ worker[w].next \in {"look", "idle"}
  BY DEF CredTypeOK, Work

\* Zero is no token and no sandbox, and the sandboxes found are sandboxes.
LEMMA NumberFacts ==
    ASSUME CredTypeOK
    PROVE  /\ None \in Tokens /\ None \in Sandboxes
           /\ Found \subseteq Sandboxes
           /\ mem.sb \in Sandboxes /\ mem.rt \in Tokens
           /\ issued < MaxIssued => issued + 1 \in Tokens
           /\ sandboxes < MaxSandboxes => sandboxes + 1 \in Sandboxes
  <1>1. /\ issued \in 0 .. MaxIssued /\ sandboxes \in 0 .. MaxSandboxes
        /\ mem \in Auth
    BY DEF CredTypeOK, Tokens, Sandboxes
  <1>2. mem.sb \in Sandboxes /\ mem.rt \in Tokens
    BY <1>1 DEF Auth
  <1>3. 1 .. sandboxes \subseteq Sandboxes
    BY <1>1, CredBoundAssumption DEF Sandboxes
  <1>4. Found \subseteq (1 .. sandboxes) \cup {None}
    BY DEF Found
  <1>5. /\ None \in Tokens /\ None \in Sandboxes
        /\ issued < MaxIssued => issued + 1 \in Tokens
        /\ sandboxes < MaxSandboxes => sandboxes + 1 \in Sandboxes
    BY <1>1, CredBoundAssumption DEF None, Tokens, Sandboxes
  <1> QED BY <1>2, <1>3, <1>4, <1>5

-----------------------------------------------------------------------------
(* Initial states                                                          *)

\* The first sign-in establishes the invariant.
LEMMA InitInv == CredInit => CredInv
  <1> SUFFICES ASSUME CredInit PROVE CredInv
    OBVIOUS
  <1> USE CredBoundAssumption
  <1>1. CredTypeOK
    <2>1. NoAuth \in Auth /\ Idle \in Work
      BY IdleType
    <2>2. PICK rt \in {None, 1} :
              /\ file = Whole(SignedInAuth(1, rt))
              /\ live = {rt} \ {None}
              /\ partner = [t \in Tokens |-> IF t = 1 THEN rt ELSE None]
      BY DEF CredInit
    <2>3. file \in Content /\ tmp \in Content
      BY <2>1, <2>2 DEF CredInit, Whole, Absent, Content, NoAuth,
                        SignedInAuth, Auth, Tokens, None
    <2>4. live \subseteq Tokens /\ partner \in [Tokens -> Tokens]
          /\ issued \in Tokens /\ sandboxes \in Sandboxes
      BY <2>2 DEF CredInit, Tokens, Sandboxes, None
    <2>5. /\ login \in [pc : {"idle", "write", "rename"}, doc : Auth]
          /\ opened \in [{"server", "login"} -> {"tmp", "file", "lost"}]
      BY <2>1 DEF CredInit, NoLogin, NowhereElse
    <2> QED BY <2>1, <2>3, <2>4, <2>5 DEF CredInit, CredTypeOK
  <1>2. LockHeld
    BY DEF CredInit, LockHeld, Critical, Idle, Carrying
  <1>3. MemoryPaired
    BY DEF CredInit, MemoryPaired, Pair, Idle, Carrying, NoAuth, SignedInAuth,
           None, Tokens
  <1>4. SavedPaired
    BY DEF CredInit, SavedPaired, Pair, Idle, Carrying, NoAuth, SignedInAuth,
           Whole, Absent, NoLogin, None, Tokens
  <1>5. SessionLives
    BY DEF CredInit, SessionLives, LiveSessionNotCondemned, Idle,
                       Carrying, None
  <1>6. SavesApart
    BY DEF CredInit, SavesApart, LoginSaves, ServerSaves, ServerWrites,
           NoLogin, NowhereElse, Idle, Carrying, Whole
  <1> QED BY <1>1, <1>2, <1>3, <1>4, <1>5, <1>6 DEF CredInv

-----------------------------------------------------------------------------
(* Steps keep the types                                                    *)

\* The steps of a refresh.
LEMMA RefreshType ==
    ASSUME CredTypeOK, NEW w \in Workers,
           \/ Begin(w) \/ CheckDue(w) \/ RefreshLock(w) \/ Refreshed(w)
           \/ StoreRefreshToken(w) \/ RefreshRefused(w) \/ RefreshFails(w)
    PROVE  CredTypeOK'
  <1> USE NumberFacts, CarriedType
  <1>w. /\ {"idle", "check", "look", "lock", "refreshing", "store", "save"}
                \subseteq WorkerPc
        /\ w \in Workers \cup {NoWorker} /\ NoWorker \in Workers \cup {NoWorker}
        /\ TRUE \in BOOLEAN
    BY DEF WorkerPc
  <1>g. ASSUME NEW rt, NEW replaced \in BOOLEAN, Grants(rt, replaced),
               rt \in Tokens
        PROVE  /\ issued' \in Tokens /\ live' \subseteq Tokens
               /\ partner' \in [Tokens -> Tokens]
    <2>1. issued' \in Tokens
      BY <1>g DEF Grants, CredTypeOK
    <2> QED BY <1>g, <2>1 DEF Grants, CredTypeOK
  <1>1. CASE Begin(w)
    BY <1>1, <1>w, MoveType DEF Begin, CredTypeOK, upstream, signing
  <1>2. CASE CheckDue(w)
    <2>1. worker' \in [Workers -> Work]
      BY <1>2, <1>w, MoveType DEF CheckDue
    <2>2. disabled' \in BOOLEAN
      BY <1>2, <1>w DEF CheckDue, CredTypeOK
    <2> QED BY <1>2, <2>1, <2>2 DEF CheckDue, CredTypeOK, upstream, signing
  <1>3. CASE RefreshLock(w)
    <2>1. worker' \in [Workers -> Work]
      BY <1>3, <1>w, MoveType DEF RefreshLock
    <2> QED BY <1>3, <1>w, <2>1 DEF RefreshLock, CredTypeOK, upstream, signing
  <1>4. CASE Refreshed(w)
    <2>1. PICK replaced \in BOOLEAN :
              /\ Grants(worker[w].got, replaced)
              /\ Carry(w, "store", IF replaced THEN issued' ELSE None)
      BY <1>4 DEF Refreshed
    <2>2. worker[w].got \in Tokens
      BY <2>1 DEF Grants, CredTypeOK
    <2>3. /\ issued' \in Tokens /\ live' \subseteq Tokens
          /\ partner' \in [Tokens -> Tokens]
      BY <1>g, <2>1, <2>2
    <2>4. worker' \in [Workers -> Work]
      BY <1>w, <2>1, <2>3, MoveType
    <2>5. mem' \in Auth
      BY <1>4, <2>3 DEF Refreshed, CredTypeOK, Auth
    <2> QED BY <1>4, <2>1, <2>3, <2>4, <2>5
            DEF Refreshed, Grants, CredTypeOK, signing
  <1>5. CASE StoreRefreshToken(w)
    <2>1. worker' \in [Workers -> Work]
      BY <1>5, <1>w, MoveType DEF StoreRefreshToken
    <2>2. mem' \in Auth
      BY <1>5 DEF StoreRefreshToken, At, CredTypeOK, Auth
    <2> QED BY <1>5, <1>w, <2>1, <2>2
            DEF StoreRefreshToken, CredTypeOK, upstream, signing
  <1>6. CASE RefreshRefused(w)
    <2>1. worker' \in [Workers -> Work]
      BY <1>6, <1>w, MoveType DEF RefreshRefused
    <2> QED BY <1>6, <1>w, <2>1
            DEF RefreshRefused, CredTypeOK, upstream, signing
  <1>7. CASE RefreshFails(w)
    <2>1. worker' \in [Workers -> Work]
      BY <1>7, <1>w, MoveType DEF RefreshFails
    <2>2. CASE UNCHANGED <<upstream, mislaid>>
      BY <1>7, <1>w, <2>1, <2>2 DEF RefreshFails, CredTypeOK, upstream, signing
    <2>3. CASE Grants(worker[w].got, TRUE) /\ mislaid' = TRUE
      <3>1. worker[w].got \in Tokens
        BY <2>3 DEF Grants, CredTypeOK
      <3>2. /\ issued' \in Tokens /\ live' \subseteq Tokens
            /\ partner' \in [Tokens -> Tokens]
        BY <1>g, <1>w, <2>3, <3>1
      <3> QED BY <1>7, <1>w, <2>1, <2>3, <3>2
              DEF RefreshFails, Grants, CredTypeOK, signing
    <2> QED BY <1>7, <2>2, <2>3 DEF RefreshFails
  <1> QED BY <1>1, <1>2, <1>3, <1>4, <1>5, <1>6, <1>7

\* The steps of EnsureSandbox.
LEMMA SandboxType ==
    ASSUME CredTypeOK, NEW w \in Workers,
           \/ Look(w) \/ FixEndpoint(w) \/ List(w) \/ ApplySandbox(w)
           \/ EnsureFails(w) \/ PutId(w) \/ PutEndpoint(w) \/ PutEnd(w)
           \/ HasId(w)
    PROVE  CredTypeOK'
  <1> USE NumberFacts, CarriedType
  <1>w. {"idle", "fix", "list", "apply", "relist", "id", "endpoint", "end",
         "hasId", "saveSandbox"} \subseteq WorkerPc
    BY DEF WorkerPc
  <1>1. CASE Look(w)
    <2>1. worker' \in [Workers -> Work]
      BY <1>1, <1>w, MoveType DEF Look
    <2> QED BY <1>1, <2>1 DEF Look, CredTypeOK, upstream, signing
  <1>2. CASE FixEndpoint(w)
    <2>1. worker' \in [Workers -> Work]
      BY <1>2, <1>w, MoveType DEF FixEndpoint
    <2>2. mem' \in Auth
      BY <1>2 DEF FixEndpoint, At, CredTypeOK, Auth
    <2> QED BY <1>2, <2>1, <2>2 DEF FixEndpoint, CredTypeOK, upstream, signing
  <1>3. CASE List(w)
    <2>1. worker' \in [Workers -> Work]
      BY <1>3, <1>w, MoveType DEF List
    <2> QED BY <1>3, <2>1 DEF List, CredTypeOK, upstream, signing
  <1>4. CASE ApplySandbox(w)
    <2>1. worker' \in [Workers -> Work]
      BY <1>4, <1>w, MoveType DEF ApplySandbox
    <2> QED BY <1>4, <2>1 DEF ApplySandbox, CredTypeOK, signing
  <1>5. CASE EnsureFails(w)
    <2>1. worker' \in [Workers -> Work]
      BY <1>5, <1>w, MoveType DEF EnsureFails
    <2> QED BY <1>5, <2>1 DEF EnsureFails, CredTypeOK, upstream, signing
  <1>6. CASE PutId(w)
    <2>1. worker' \in [Workers -> Work]
      BY <1>6, <1>w, MoveType DEF PutId, At
    <2>2. mem' \in Auth
      BY <1>6 DEF PutId, At, CredTypeOK, Auth
    <2> QED BY <1>6, <2>1, <2>2 DEF PutId, CredTypeOK, upstream, signing
  <1>7. CASE PutEndpoint(w)
    <2>1. worker' \in [Workers -> Work]
      BY <1>7, <1>w, MoveType DEF PutEndpoint, At
    <2>2. mem' \in Auth
      BY <1>7 DEF PutEndpoint, At, CredTypeOK, Auth
    <2> QED BY <1>7, <2>1, <2>2 DEF PutEndpoint, CredTypeOK, upstream, signing
  <1>8. CASE PutEnd(w)
    <2>1. worker' \in [Workers -> Work]
      BY <1>8, <1>w, MoveType DEF PutEnd
    <2>2. mem' \in Auth
      BY <1>8 DEF PutEnd, At, CredTypeOK, Auth
    <2> QED BY <1>8, <2>1, <2>2 DEF PutEnd, CredTypeOK, upstream, signing
  <1>9. CASE HasId(w)
    <2>1. worker' \in [Workers -> Work]
      BY <1>9, <1>w, MoveType DEF HasId
    <2> QED BY <1>9, <2>1 DEF HasId, CredTypeOK, upstream, signing
  <1> QED BY <1>1, <1>2, <1>3, <1>4, <1>5, <1>6, <1>7, <1>8, <1>9

\* The moves of a file: opening, writing, renaming, giving up.
LEMMA FileType ==
    ASSUME CredTypeOK, NEW who \in {"server", "login"},
           NEW other \in {"server", "login"}, NEW doc \in Auth,
           NEW otherWrites \in BOOLEAN, NEW otherSaves \in BOOLEAN,
           \/ OpenTmp(who) /\ file' = file
           \/ WriteDoc(who, doc)
           \/ RenameTmp(other, otherWrites)
           \/ GivesUp(who, otherSaves) /\ file' = file
    PROVE  /\ file' \in Content /\ tmp' \in Content
           /\ opened' \in [{"server", "login"} -> {"tmp", "file", "lost"}]
  <1>1. /\ Torn \in Content /\ Absent \in Content /\ Whole(doc) \in Content
        /\ file \in Content /\ tmp \in Content
        /\ opened \in [{"server", "login"} -> {"tmp", "file", "lost"}]
    BY IdleType DEF Torn, Absent, Whole, Content, CredTypeOK
  <1>2. \A c \in Content : Over(c, doc) \subseteq Content
    BY <1>1 DEF Over
  <1>3. CASE OpenTmp(who) /\ file' = file
    BY <1>1, <1>3 DEF OpenTmp
  <1>4. CASE WriteDoc(who, doc)
    BY <1>1, <1>2, <1>4 DEF WriteDoc
  <1>5. CASE RenameTmp(other, otherWrites)
    BY <1>1, <1>5 DEF RenameTmp
  <1>6. CASE GivesUp(who, otherSaves) /\ file' = file
    BY <1>1, <1>6 DEF GivesUp
  <1> QED BY <1>3, <1>4, <1>5, <1>6

\* The steps of SaveAtomic.
LEMMA SaveType ==
    ASSUME CredTypeOK, NEW w \in Workers,
           SaveLock(w) \/ SaveWrites(w) \/ SaveRenames(w) \/ SaveFails(w)
    PROVE  CredTypeOK'
  <1> USE NumberFacts, CarriedType
  <1>w. /\ {"look", "idle", "write", "rename"} \subseteq WorkerPc
        /\ TRUE \in BOOLEAN /\ FALSE \in BOOLEAN
        /\ (login.pc = "write") \in BOOLEAN /\ LoginSaves \in BOOLEAN
        /\ mem \in Auth /\ worker[w].doc \in Auth
    BY DEF WorkerPc, LoginSaves, CredTypeOK
  <1>r. ASSUME SaveReturns(w) PROVE worker' \in [Workers -> Work]
    BY <1>r, <1>w, MoveType DEF SaveReturns
  <1>1. CASE SaveLock(w)
    <2>1. Saving(mem, AfterSave(w)) \in Work
      BY <1>w DEF Saving, AfterSave, Work, CredTypeOK
    <2>2. worker' \in [Workers -> Work]
      BY <1>1, <2>1 DEF SaveLock, CredTypeOK
    <2>3. /\ file' \in Content /\ tmp' \in Content
          /\ opened' \in [{"server", "login"} -> {"tmp", "file", "lost"}]
      BY <1>1, <1>w, FileType DEF SaveLock
    <2> QED BY <1>1, <2>2, <2>3 DEF SaveLock, CredTypeOK, upstream
  <1>2. CASE SaveWrites(w)
    <2>1. worker' \in [Workers -> Work]
      BY <1>2, <1>w, MoveType DEF SaveWrites
    <2>2. /\ file' \in Content /\ tmp' \in Content
          /\ opened' \in [{"server", "login"} -> {"tmp", "file", "lost"}]
      BY <1>2, <1>w, FileType DEF SaveWrites
    <2> QED BY <1>2, <2>1, <2>2 DEF SaveWrites, CredTypeOK, upstream
  <1>3. CASE SaveRenames(w)
    <2>1. worker' \in [Workers -> Work] /\ lock' \in Workers \cup {NoWorker}
      BY <1>3, <1>r DEF SaveRenames, SaveReturns
    <2>2. /\ file' \in Content /\ tmp' \in Content
          /\ opened' \in [{"server", "login"} -> {"tmp", "file", "lost"}]
      BY <1>3, <1>w, FileType DEF SaveRenames
    <2> QED BY <1>3, <1>w, <2>1, <2>2 DEF SaveRenames, CredTypeOK, upstream
  <1>4. CASE SaveFails(w)
    <2>1. worker' \in [Workers -> Work] /\ lock' \in Workers \cup {NoWorker}
      BY <1>4, <1>r DEF SaveFails, SaveReturns
    <2>2. /\ file' \in Content /\ tmp' \in Content
          /\ opened' \in [{"server", "login"} -> {"tmp", "file", "lost"}]
      BY <1>4, <1>w, FileType DEF SaveFails
    <2> QED BY <1>4, <1>w, <2>1, <2>2 DEF SaveFails, CredTypeOK, upstream
  <1> QED BY <1>1, <1>2, <1>3, <1>4

\* The steps of cmd/login.
LEMMA LoginType ==
    ASSUME CredTypeOK, SignIn \/ LoginWrites \/ LoginRenames \/ LoginStops
    PROVE  CredTypeOK'
  <1> USE NumberFacts, IdleType
  <1>w. /\ TRUE \in BOOLEAN /\ mem \in Auth /\ login.doc \in Auth
        /\ ServerWrites \in BOOLEAN /\ ServerSaves \in BOOLEAN
        /\ login \in [pc : {"idle", "write", "rename"}, doc : Auth]
        /\ NoLogin \in [pc : {"idle", "write", "rename"}, doc : Auth]
    BY DEF CredTypeOK, NoLogin, ServerWrites, ServerSaves
  <1>1. CASE SignIn
    <2>1. issued' \in Tokens
      BY <1>1 DEF SignIn, CredTypeOK
    <2>2. /\ file' \in Content /\ tmp' \in Content
          /\ opened' \in [{"server", "login"} -> {"tmp", "file", "lost"}]
      BY <1>1, <1>w, FileType DEF SignIn
    <2>3. login' \in [pc : {"idle", "write", "rename"}, doc : Auth]
      BY <1>1, <2>1 DEF SignIn, SignedInAuth, Auth
    <2> QED BY <1>1, <2>1, <2>2, <2>3 DEF SignIn, CredTypeOK, process
  <1>2. CASE LoginWrites
    <2>1. /\ file' \in Content /\ tmp' \in Content
          /\ opened' \in [{"server", "login"} -> {"tmp", "file", "lost"}]
      BY <1>2, <1>w, FileType DEF LoginWrites
    <2>2. login' \in [pc : {"idle", "write", "rename"}, doc : Auth]
      BY <1>2, <1>w DEF LoginWrites
    <2> QED BY <1>2, <2>1, <2>2 DEF LoginWrites, CredTypeOK, process, upstream
  <1>3. CASE LoginRenames
    <2>1. /\ file' \in Content /\ tmp' \in Content
          /\ opened' \in [{"server", "login"} -> {"tmp", "file", "lost"}]
      BY <1>3, <1>w, FileType DEF LoginRenames
    <2> QED BY <1>3, <1>w, <2>1
            DEF LoginRenames, CredTypeOK, process, upstream
  <1>4. CASE LoginStops
    <2>1. /\ file' \in Content /\ tmp' \in Content
          /\ opened' \in [{"server", "login"} -> {"tmp", "file", "lost"}]
      BY <1>4, <1>w, FileType DEF LoginStops
    <2> QED BY <1>4, <1>w, <2>1 DEF LoginStops, CredTypeOK, process, upstream
  <1> QED BY <1>1, <1>2, <1>3, <1>4

\* Processes and time.
LEMMA WorldType ==
    ASSUME CredTypeOK,
           \/ \E kind \in {"server", "maintain"} : Start(kind)
           \/ End \/ TimePasses
    PROVE  CredTypeOK'
  <1> USE NumberFacts, IdleType
  <1>1. ASSUME NEW kind \in {"server", "maintain"}, Start(kind)
        PROVE  CredTypeOK'
    <2>1. Carrying("check", None) \in Work
      BY DEF Idle, Carrying, Work, WorkerPc
    <2>2. worker' \in [Workers -> Work]
      BY <1>1, <2>1 DEF Start
    <2>3. mem' \in Auth
      BY <1>1 DEF Start, Parsed, CredTypeOK, Content
    <2>4. mislaid' \in BOOLEAN /\ signedIn' \in BOOLEAN /\ due' \in BOOLEAN
      BY <1>1 DEF Start, LoginSaves, CredTypeOK
    <2> QED BY <1>1, <2>2, <2>3, <2>4 DEF Start, CredTypeOK, upstream
  <1>2. CASE End
    <2>1. /\ file' \in Content /\ tmp' \in Content
          /\ opened' \in [{"server", "login"} -> {"tmp", "file", "lost"}]
      BY <1>2, FileType DEF End, LoginSaves
    <2> QED BY <1>2, <2>1 DEF End, CredTypeOK, upstream
  <1>3. CASE TimePasses
    <2>1. 1 .. sandboxes \subseteq Sandboxes
      BY CredBoundAssumption DEF CredTypeOK, Sandboxes
    <2>2. expired' \subseteq Sandboxes /\ due' \in BOOLEAN
      BY <1>3, <2>1 DEF TimePasses, CredTypeOK
    <2> QED BY <1>3, <2>2 DEF TimePasses, CredTypeOK, process, signing
  <1> QED BY <1>1, <1>2, <1>3

\* Every step keeps the types.
LEMMA NextType == CredTypeOK /\ [CredNext]_credVars => CredTypeOK'
  <1> SUFFICES ASSUME CredTypeOK, [CredNext]_credVars PROVE CredTypeOK'
    OBVIOUS
  <1>1. CASE UNCHANGED credVars
    BY <1>1 DEF credVars, process, upstream, signing, CredTypeOK
  <1>2. CASE CredNext
    BY <1>2, RefreshType, SandboxType, SaveType, LoginType, WorldType
       DEF CredNext, Works, Locks
  <1> QED BY <1>1, <1>2

\* The credentials stay well typed.
THEOREM CredTypeCorrect == CredSpec => []CredTypeOK
  <1>1. CredInit => CredTypeOK
    BY InitInv DEF CredInv
  <1> QED BY <1>1, NextType, PTL DEF CredSpec

-----------------------------------------------------------------------------
(* Steps keep the invariant                                                *)

\* The moving goroutine is the only one whose place changes.
LEMMA MovedOne ==
    ASSUME CredTypeOK, NEW w \in Workers, NEW c,
           worker' = [worker EXCEPT ![w] = c]
    PROVE  /\ worker'[w] = c
           /\ \A v \in Workers \ {w} : worker'[v] = worker[v]
  BY DEF CredTypeOK

\* Go changes the place and nothing else.
LEMMA GoMoves ==
    ASSUME CredTypeOK, NEW w \in Workers, NEW pc, Go(w, pc)
    PROVE  /\ worker'[w].pc = pc
           /\ worker'[w].got = worker[w].got /\ worker'[w].doc = worker[w].doc
           /\ \A v \in Workers \ {w} : worker'[v] = worker[v]
  <1>1. worker[w] \in Work /\ worker \in [Workers -> Work]
    BY DEF CredTypeOK
  <1>2. worker'[w] = [worker[w] EXCEPT !.pc = pc]
    BY <1>1 DEF Go
  <1>3. worker[w] = [pc |-> worker[w].pc, got |-> worker[w].got,
                     doc |-> worker[w].doc, next |-> worker[w].next]
    BY <1>1 DEF Work
  <1>4. \A v \in Workers \ {w} : worker'[v] = worker[v]
    BY <1>1 DEF Go
  <1> QED BY <1>2, <1>3, <1>4

\* Carry and Return put the goroutine at one place with one thing.
LEMMA CarryMoves ==
    ASSUME CredTypeOK, NEW w \in Workers, NEW pc, NEW got, Carry(w, pc, got)
    PROVE  /\ worker'[w].pc = pc /\ worker'[w].got = got
           /\ \A v \in Workers \ {w} : worker'[v] = worker[v]
  <1>1. worker' = [worker EXCEPT ![w] = Carrying(pc, got)]
    BY DEF Carry
  <1>2. /\ worker'[w] = Carrying(pc, got)
        /\ \A v \in Workers \ {w} : worker'[v] = worker[v]
    BY <1>1, MovedOne
  <1> QED BY <1>2 DEF Carrying

LEMMA ReturnMoves ==
    ASSUME CredTypeOK, NEW w \in Workers, Return(w)
    PROVE  /\ worker'[w].pc = "idle"
           /\ \A v \in Workers \ {w} : worker'[v] = worker[v]
  <1>1. /\ worker'[w] = Idle
        /\ \A v \in Workers \ {w} : worker'[v] = worker[v]
    BY MovedOne DEF Return
  <1> QED BY <1>1 DEF Idle, Carrying

\* A step outside the lock that touches neither the tokens nor the file.
LEMMA PlainStep ==
    ASSUME CredInv, NEW w \in Workers,
           proc # "down", worker[w].pc \notin Critical,
           worker'[w].pc \notin Critical,
           worker'[w].pc = "lock" => mem.rt # None,
           \A v \in Workers \ {w} : worker'[v] = worker[v],
           mem'.at = mem.at, mem'.rt = mem.rt,
           disabled' => disabled \/ mem.rt = None,
           UNCHANGED <<proc, lock, file, tmp, issued, live, partner, mislaid,
                       login, signedIn>>
    PROVE  LockHeld' /\ MemoryPaired' /\ SavedPaired' /\ SessionLives'
  <1>1. LockHeld'
    BY DEF CredInv, LockHeld
  <1>2. MemoryPaired'
    BY DEF CredInv, MemoryPaired, Pair, Critical
  <1>3. SavedPaired'
    BY DEF CredInv, SavedPaired, Pair, Critical
  <1>4. SessionLives'
    BY DEF CredInv, SessionLives, LiveSessionNotCondemned, Critical
  <1> QED BY <1>1, <1>2, <1>3, <1>4

\* The steps of EnsureSandbox, the beginning and the test are such steps.
LEMMA PlainSteps ==
    ASSUME CredInv, NEW w \in Workers,
           \/ Begin(w) \/ CheckDue(w) \/ Look(w) \/ FixEndpoint(w) \/ List(w)
           \/ ApplySandbox(w) \/ EnsureFails(w) \/ PutId(w) \/ PutEndpoint(w)
           \/ PutEnd(w) \/ HasId(w)
    PROVE  LockHeld' /\ MemoryPaired' /\ SavedPaired' /\ SessionLives'
  <1> USE DEF CredInv
  <1>1. CASE Begin(w)
    BY <1>1, GoMoves, PlainStep DEF Begin, Critical, upstream, signing
  <1>2. CASE CheckDue(w)
    <2>1. /\ worker'[w].pc \in {"look", "lock", "idle"}
          /\ \A v \in Workers \ {w} : worker'[v] = worker[v]
          /\ worker'[w].pc = "lock" => mem.rt # None
          /\ disabled' => disabled \/ mem.rt = None
      BY <1>2, GoMoves, ReturnMoves DEF CheckDue
    <2> QED BY <1>2, <2>1, PlainStep
            DEF CheckDue, At, Critical, upstream, signing
  <1>3. CASE Look(w)
    <2>1. /\ worker'[w].pc \in {"fix", "list"}
          /\ \A v \in Workers \ {w} : worker'[v] = worker[v]
      BY <1>3, GoMoves, CarryMoves DEF Look
    <2> QED BY <1>3, <2>1, PlainStep DEF Look, At, Critical, upstream, signing
  <1>m. mem \in Auth
    BY DEF CredTypeOK
  <1>4. CASE FixEndpoint(w)
    <2>1. mem'.at = mem.at /\ mem'.rt = mem.rt
      BY <1>4, <1>m DEF FixEndpoint, Auth
    <2>2. /\ worker'[w].pc = "saveSandbox"
          /\ \A v \in Workers \ {w} : worker'[v] = worker[v]
      BY <1>4, CarryMoves DEF FixEndpoint
    <2> QED BY <1>4, <2>1, <2>2, PlainStep
            DEF FixEndpoint, At, Critical, upstream, signing
  <1>5. CASE List(w)
    <2>1. /\ worker'[w].pc \in {"id", "apply"}
          /\ \A v \in Workers \ {w} : worker'[v] = worker[v]
      BY <1>5, GoMoves, CarryMoves DEF List
    <2> QED BY <1>5, <2>1, PlainStep DEF List, At, Critical, upstream, signing
  <1>6. CASE ApplySandbox(w)
    BY <1>6, GoMoves, PlainStep DEF ApplySandbox, At, Critical, signing
  <1>7. CASE EnsureFails(w)
    BY <1>7, ReturnMoves, PlainStep
       DEF EnsureFails, At, Critical, upstream, signing
  <1>8. CASE PutId(w)
    <2>1. mem'.at = mem.at /\ mem'.rt = mem.rt
      BY <1>8, <1>m DEF PutId, Auth
    <2> QED BY <1>8, <2>1, GoMoves, PlainStep
            DEF PutId, At, Critical, upstream, signing
  <1>9. CASE PutEndpoint(w)
    <2>1. mem'.at = mem.at /\ mem'.rt = mem.rt
      BY <1>9, <1>m DEF PutEndpoint, Auth
    <2> QED BY <1>9, <2>1, GoMoves, PlainStep
            DEF PutEndpoint, At, Critical, upstream, signing
  <1>10. CASE PutEnd(w)
    <2>1. mem'.at = mem.at /\ mem'.rt = mem.rt
      BY <1>10, <1>m DEF PutEnd, Auth
    <2>2. /\ worker'[w].pc = "hasId"
          /\ \A v \in Workers \ {w} : worker'[v] = worker[v]
      BY <1>10, CarryMoves DEF PutEnd
    <2> QED BY <1>10, <2>1, <2>2, PlainStep
            DEF PutEnd, At, Critical, upstream, signing
  <1>11. CASE HasId(w)
    <2>1. /\ worker'[w].pc \in {"saveSandbox", "idle"}
          /\ \A v \in Workers \ {w} : worker'[v] = worker[v]
      BY <1>11, CarryMoves, ReturnMoves DEF HasId
    <2> QED BY <1>11, <2>1, PlainStep DEF HasId, At, Critical, upstream, signing
  <1> QED BY <1>1, <1>2, <1>3, <1>4, <1>5, <1>6, <1>7, <1>8, <1>9, <1>10,
         <1>11

\* Who holds the lock is alone in the middle of a refresh or of a save.
LEMMA HolderAlone ==
    ASSUME CredInv, NEW w \in Workers,
           lock = NoWorker \/ worker[w].pc \in Critical
    PROVE  \A v \in Workers \ {w} : worker[v].pc \notin Critical
  <1>1. lock = NoWorker => \A v \in Workers : lock # v
    BY WorkerAssumption
  <1>2. worker[w].pc \in Critical => lock = w
    BY DEF CredInv, LockHeld
  <1> QED BY <1>1, <1>2 DEF CredInv, LockHeld

\* The lock is taken for a refresh.
LEMMA RefreshLockInv ==
    ASSUME CredInv, NEW w \in Workers, RefreshLock(w)
    PROVE  LockHeld' /\ MemoryPaired' /\ SavedPaired' /\ SessionLives'
  <1>1. /\ proc # "down" /\ worker[w].pc = "lock" /\ lock = NoWorker
        /\ lock' = w /\ Carry(w, "refreshing", mem.rt)
        /\ UNCHANGED <<proc, mem, disabled, file, tmp, issued, live, partner,
                       mislaid, login, signedIn>>
    BY DEF RefreshLock, At, upstream, signing
  <1>2. /\ worker'[w].pc = "refreshing" /\ worker'[w].got = mem.rt
        /\ \A v \in Workers \ {w} : worker'[v] = worker[v]
    BY <1>1, CarryMoves DEF CredInv
  <1>3. \A v \in Workers \ {w} : worker[v].pc \notin Critical
    BY <1>1, HolderAlone
  <1>4. LockHeld'
    BY <1>1, <1>2, <1>3 DEF LockHeld
  <1>5. MemoryPaired'
    BY <1>1, <1>2, <1>3 DEF CredInv, MemoryPaired, Pair, Critical
  <1>6. SavedPaired'
    BY <1>1, <1>2, <1>3 DEF CredInv, SavedPaired, Pair, Critical
  <1>7. SessionLives'
    BY <1>1, <1>2, <1>3
       DEF CredInv, SessionLives, LiveSessionNotCondemned, Critical
  <1> QED BY <1>4, <1>5, <1>6, <1>7

\* The lock is given back without a change of the tokens.
LEMMA UnlockInv ==
    ASSUME CredInv, NEW w \in Workers,
           proc # "down", worker[w].pc \in {"refreshing", "write", "rename"},
           worker'[w].pc \in {"idle", "look"},
           \A v \in Workers \ {w} : worker'[v] = worker[v],
           lock' = NoWorker,
           disabled' => disabled \/ (/\ worker[w].pc = "refreshing"
                                     /\ worker[w].got \notin live),
           tmp' = tmp \/ tmp' = Absent,
           UNCHANGED <<proc, mem, file, issued, live, partner, mislaid, login,
                       signedIn>>
    PROVE  LockHeld' /\ MemoryPaired' /\ SavedPaired' /\ SessionLives'
  <1>1. \A v \in Workers \ {w} : worker[v].pc \notin Critical
    BY HolderAlone DEF Critical
  <1>2. LockHeld'
    BY <1>1 DEF LockHeld, Critical
  <1>3. MemoryPaired'
    BY <1>1 DEF CredInv, MemoryPaired, Pair, Critical
  <1>4. SavedPaired'
    <2>1. Pair(NoAuth)
      BY DEF CredInv, CredTypeOK, MemoryPaired, Pair, NoAuth, SignedInAuth,
             Tokens, None
    <2> QED BY <1>1, <2>1
            DEF CredInv, SavedPaired, Pair, Critical, Absent
  <1>5. worker[w].pc = "refreshing" /\ worker[w].got \notin live => mislaid
    <2>1. worker[w].pc = "refreshing" => worker[w].got = mem.rt
      BY DEF CredInv, MemoryPaired
    <2>2. ~mislaid => mem.rt \in live
      BY <1>1 DEF CredInv, SessionLives, Critical
    <2> QED BY <2>1, <2>2
  <1>6. SessionLives'
    BY <1>1, <1>5 DEF CredInv, SessionLives, LiveSessionNotCondemned, Critical
  <1> QED BY <1>2, <1>3, <1>4, <1>6

\* New tokens get a new number, so old pairs stay pairs.
LEMMA NewTokenKeepsPairs ==
    ASSUME CredTypeOK, SavedPaired, issued' = issued + 1,
           \A t \in 0 .. issued : partner'[t] = partner[t]
    PROVE  \A a \in Auth : Pair(a) =>
               a.at <= issued' /\ a.rt = partner'[a.at]
  <1>1. issued \in Nat /\ \A a \in Auth : a.at \in Nat
    BY DEF CredTypeOK, Tokens, Auth
  <1> QED BY <1>1 DEF Pair

\* What is in the files and on its way from cmd/login stays a pair.
LEMMA FilesKeepPairs ==
    ASSUME CredTypeOK, SavedPaired, issued' = issued + 1,
           \A t \in 0 .. issued : partner'[t] = partner[t],
           UNCHANGED <<file, tmp, login>>
    PROVE  Pair(file.auth)' /\ Pair(tmp.auth)' /\ Pair(login.doc)'
  <1>1. file.auth \in Auth /\ tmp.auth \in Auth /\ login.doc \in Auth
    BY DEF CredTypeOK, Content
  <1> QED BY <1>1, NewTokenKeepsPairs DEF SavedPaired, Pair

LEMMA GrantKeepsPairs ==
    ASSUME CredTypeOK, NEW rt, NEW replaced \in BOOLEAN, Grants(rt, replaced)
    PROVE  /\ issued' = issued + 1 /\ issued \in Nat
           /\ partner'[issued'] = IF replaced THEN issued' ELSE rt
           /\ \A t \in 0 .. issued : partner'[t] = partner[t]
           /\ rt \in live
           /\ replaced => issued' \in live'
           /\ ~replaced => live' = live
  <1>1. issued \in Nat /\ issued < MaxIssued /\ issued + 1 \in Tokens
    BY CredBoundAssumption DEF CredTypeOK, Tokens, Grants
  <1>2. partner \in [Tokens -> Tokens] /\ 0 .. issued \subseteq Tokens
    BY <1>1, CredBoundAssumption DEF CredTypeOK, Tokens
  <1>3. \A t \in 0 .. issued : t # issued + 1
    BY <1>1
  <1>4. /\ issued' = issued + 1
        /\ partner' = [partner EXCEPT ![issued'] =
                                 IF replaced THEN issued' ELSE rt]
        /\ rt \in live
        /\ live' = IF replaced THEN (live \ {rt}) \cup {issued'} ELSE live
    BY DEF Grants
  <1> QED BY <1>1, <1>2, <1>3, <1>4

\* RefreshToken has the new access token, and perhaps a refresh token at hand.
LEMMA RefreshedInv ==
    ASSUME CredInv, NEW w \in Workers, Refreshed(w)
    PROVE  LockHeld' /\ MemoryPaired' /\ SavedPaired' /\ SessionLives'
  <1>1. PICK replaced \in BOOLEAN :
            /\ Grants(worker[w].got, replaced)
            /\ Carry(w, "store", IF replaced THEN issued' ELSE None)
    BY DEF Refreshed
  <1>2. /\ proc # "down" /\ worker[w].pc = "refreshing"
        /\ mem' = [mem EXCEPT !.at = issued']
        /\ UNCHANGED <<proc, lock, disabled, file, tmp, mislaid, login,
                       signedIn>>
    BY DEF Refreshed, At, signing
  <1>3. /\ worker'[w].pc = "store"
        /\ worker'[w].got = IF replaced THEN issued' ELSE None
        /\ \A v \in Workers \ {w} : worker'[v] = worker[v]
    BY <1>1, CarryMoves DEF CredInv
  <1>4. /\ issued' = issued + 1 /\ issued \in Nat
        /\ partner'[issued'] = IF replaced THEN issued' ELSE worker[w].got
        /\ \A t \in 0 .. issued : partner'[t] = partner[t]
        /\ worker[w].got \in live
        /\ replaced => issued' \in live'
        /\ ~replaced => live' = live
    BY <1>1, GrantKeepsPairs DEF CredInv
  <1>5. \A v \in Workers \ {w} : worker[v].pc \notin Critical
    BY <1>2, HolderAlone DEF Critical
  <1>6. /\ mem'.at = issued' /\ mem'.rt = mem.rt /\ mem.at \in Nat
        /\ file.auth.at \in Nat
    BY <1>2 DEF CredInv, CredTypeOK, Auth, Content, Tokens
  <1>7. worker[w].got = mem.rt
    BY <1>2 DEF CredInv, MemoryPaired
  <1>8. issued' # None
    BY <1>4 DEF None
  <1>9. LockHeld'
    BY <1>2, <1>3 DEF CredInv, LockHeld, Critical
  <1>10. MemoryPaired'
    <2>1. (partner[None] = None)'
      BY <1>4 DEF CredInv, MemoryPaired, None
    <2>2. (mem.at <= issued)'
      BY <1>4, <1>6
    <2> QED BY <1>3, <1>4, <1>5, <1>6, <1>7, <1>8, <2>1, <2>2
            DEF MemoryPaired, Critical
  <1>11. SavedPaired'
    <2>1. /\ proc # "down" /\ ~signedIn => file.auth.at <= mem.at
          /\ mem.at <= issued
      BY DEF CredInv, SavedPaired, MemoryPaired
    <2>2. Pair(file.auth)' /\ Pair(tmp.auth)' /\ Pair(login.doc)'
      BY <1>2, <1>4, FilesKeepPairs DEF CredInv
    <2>3. (proc # "down" /\ ~signedIn => file.auth.at <= mem.at)'
      BY <1>2, <1>4, <1>6, <2>1
    <2> QED BY <1>3, <1>5, <2>2, <2>3 DEF SavedPaired, Critical
  <1>12. SessionLives'
    BY <1>2, <1>3, <1>4, <1>5, <1>6, <1>7, <1>8
       DEF CredInv, SessionLives, LiveSessionNotCondemned, Critical
  <1> QED BY <1>9, <1>10, <1>11, <1>12

\* The refresh token follows, and the tokens in memory are a pair again.
LEMMA StoreInv ==
    ASSUME CredInv, NEW w \in Workers, StoreRefreshToken(w)
    PROVE  LockHeld' /\ MemoryPaired' /\ SavedPaired' /\ SessionLives'
  <1>1. /\ proc # "down" /\ worker[w].pc = "store" /\ lock' = NoWorker
        /\ mem' = IF worker[w].got = None
                  THEN mem ELSE [mem EXCEPT !.rt = worker[w].got]
        /\ UNCHANGED <<proc, disabled, file, tmp, issued, live, partner,
                       mislaid, login, signedIn>>
    BY DEF StoreRefreshToken, At, upstream, signing
  <1>2. /\ worker'[w].pc = "save"
        /\ \A v \in Workers \ {w} : worker'[v] = worker[v]
    BY CarryMoves DEF StoreRefreshToken, CredInv
  <1>3. \A v \in Workers \ {w} : worker[v].pc \notin Critical
    BY <1>1, HolderAlone DEF Critical
  <1>4. /\ mem'.at = mem.at
        /\ mem'.rt = IF worker[w].got = None THEN mem.rt ELSE worker[w].got
    BY <1>1 DEF CredInv, CredTypeOK, Auth
  <1>5. mem.rt # None /\ mem'.rt # None
    BY <1>1, <1>4 DEF CredInv, SessionLives
  <1>6. LockHeld'
    BY <1>1, <1>2, <1>3 DEF LockHeld, Critical
  <1>7. MemoryPaired'
    BY <1>1, <1>2, <1>3, <1>4 DEF CredInv, MemoryPaired, Pair, Critical
  <1>8. SavedPaired'
    BY <1>1, <1>2, <1>3, <1>4 DEF CredInv, SavedPaired, Pair, Critical
  <1>9. SessionLives'
    BY <1>1, <1>2, <1>3, <1>4, <1>5
       DEF CredInv, SessionLives, LiveSessionNotCondemned, Critical
  <1> QED BY <1>6, <1>7, <1>8, <1>9

\* A refresh that fails: refused, not answered, or answered in vain.
LEMMA RefreshFailsInv ==
    ASSUME CredInv, NEW w \in Workers, RefreshRefused(w) \/ RefreshFails(w)
    PROVE  LockHeld' /\ MemoryPaired' /\ SavedPaired' /\ SessionLives'
  <1>1. /\ proc # "down" /\ worker[w].pc = "refreshing" /\ lock' = NoWorker
        /\ UNCHANGED <<proc, mem, file, tmp, login, signedIn>>
    BY DEF RefreshRefused, RefreshFails, At, signing
  <1>2. /\ worker'[w].pc \in {"idle", "look"}
        /\ \A v \in Workers \ {w} : worker'[v] = worker[v]
    BY CarryMoves, ReturnMoves DEF RefreshRefused, RefreshFails, CredInv
  <1>3. CASE RefreshRefused(w)
    BY <1>1, <1>2, <1>3, UnlockInv DEF RefreshRefused, upstream
  <1>4. CASE RefreshFails(w) /\ UNCHANGED <<upstream, mislaid>>
    <2>1. /\ disabled' => disabled
          /\ UNCHANGED <<issued, live, partner, mislaid>>
      BY <1>4 DEF RefreshFails, upstream
    <2>2. UNCHANGED <<proc, mem, file, tmp, issued, live, partner, mislaid,
                      login, signedIn>>
      BY <1>1, <2>1
    <2>3. worker[w].pc \in {"refreshing", "write", "rename"}
      BY <1>1
    <2> QED BY <1>1, <1>2, <2>1, <2>2, <2>3, UnlockInv
  <1>5. CASE RefreshFails(w) /\ Grants(worker[w].got, TRUE) /\ mislaid' = TRUE
    <2>1. /\ issued' = issued + 1 /\ issued \in Nat
          /\ \A t \in 0 .. issued : partner'[t] = partner[t]
      BY <1>5, GrantKeepsPairs DEF CredInv
    <2>2. \A v \in Workers \ {w} : worker[v].pc \notin Critical
      BY <1>1, HolderAlone DEF Critical
    <2>3. mem.at \in Nat /\ file.auth.at \in Nat
      BY DEF CredInv, CredTypeOK, Auth, Content, Tokens
    <2>4. LockHeld'
      BY <1>1, <1>2, <2>2 DEF LockHeld, Critical
    <2>5. MemoryPaired'
      <3>1. partner[None] = None /\ Pair(mem) /\ mem.at <= issued
        BY <1>1, <2>2 DEF CredInv, MemoryPaired, Critical
      <3>2. (partner[None] = None /\ Pair(mem) /\ mem.at <= issued)'
        BY <1>1, <2>1, <2>3, <3>1 DEF Pair, None
      <3> QED BY <1>2, <2>2, <3>2 DEF MemoryPaired, Critical
    <2>6. SavedPaired'
      <3>1. Pair(file.auth)' /\ Pair(tmp.auth)' /\ Pair(login.doc)'
        BY <1>1, <2>1, FilesKeepPairs DEF CredInv
      <3> QED BY <1>1, <1>2, <2>2, <3>1 DEF CredInv, SavedPaired, Critical
    <2>7. SessionLives'
      BY <1>1, <1>2, <1>5, <2>2
         DEF CredInv, SessionLives, LiveSessionNotCondemned, Critical
    <2> QED BY <2>4, <2>5, <2>6, <2>7
  <1> QED BY <1>3, <1>4, <1>5 DEF RefreshFails

\* What a write or a rename of either process leaves in the files is what was
\* there, or what is written, or nothing.
LEMMA FilesFrom ==
    ASSUME CredInv, NEW who \in {"server", "login"},
           NEW other \in {"server", "login"}, NEW doc, Pair(doc),
           NEW otherWrites, NEW otherSaves,
           \/ OpenTmp(who) /\ file' = file
           \/ WriteDoc(who, doc)
           \/ RenameTmp(other, otherWrites)
           \/ GivesUp(who, otherSaves) /\ file' = file
    PROVE  Pair(file'.auth) /\ Pair(tmp'.auth)
  <1>1. Pair(NoAuth)
    BY DEF CredInv, CredTypeOK, MemoryPaired, Pair, NoAuth, SignedInAuth,
           Tokens, None
  <1>2. Torn.auth = NoAuth /\ Absent.auth = NoAuth /\ Whole(doc).auth = doc
    BY DEF Torn, Absent, Whole
  <1>3. Pair(file.auth) /\ Pair(tmp.auth)
    BY DEF CredInv, SavedPaired
  <1>4. ASSUME NEW content, NEW new \in Over(content, doc)
        PROVE  Pair(new.auth)
    BY <1>1, <1>2 DEF Over
  <1>5. CASE OpenTmp(who) /\ file' = file
    BY <1>1, <1>2, <1>3, <1>5 DEF OpenTmp
  <1>6. CASE WriteDoc(who, doc)
    <2>1. file' \in Over(file, doc) \cup {file}
      BY <1>6 DEF WriteDoc
    <2>2. tmp' \in Over(tmp, doc) \cup {tmp}
      BY <1>6 DEF WriteDoc
    <2> QED BY <1>3, <1>4, <2>1, <2>2
  <1>7. CASE RenameTmp(other, otherWrites)
    BY <1>1, <1>2, <1>3, <1>7 DEF RenameTmp
  <1>8. CASE GivesUp(who, otherSaves) /\ file' = file
    BY <1>1, <1>2, <1>3, <1>8 DEF GivesUp
  <1> QED BY <1>5, <1>6, <1>7, <1>8

\* A save copies the tokens in memory: while it lasts the lock keeps them.
LEMMA SaveInv ==
    ASSUME CredInv, NEW w \in Workers,
           SaveLock(w) \/ SaveWrites(w) \/ SaveRenames(w) \/ SaveFails(w)
    PROVE  LockHeld' /\ MemoryPaired' /\ SavedPaired' /\ SessionLives'
  <1>1. /\ proc # "down"
        /\ UNCHANGED <<proc, mem, disabled, issued, live, partner, mislaid,
                       login, signedIn>>
    BY DEF SaveLock, SaveWrites, SaveRenames, SaveFails, At, upstream
  <1>2. \A v \in Workers \ {w} : worker[v].pc \notin Critical
    BY HolderAlone
       DEF SaveLock, SaveWrites, SaveRenames, SaveFails, At, Critical
  <1>p. worker[w].pc # "store" => Pair(mem)
    BY <1>2 DEF CredInv, MemoryPaired, Critical
  <1>d. Pair(login.doc)
    BY DEF CredInv, SavedPaired
  <1>3. CASE SaveLock(w)
    <2>1. worker'[w] = Saving(mem, AfterSave(w))
          /\ \A v \in Workers \ {w} : worker'[v] = worker[v]
      BY <1>3, MovedOne DEF SaveLock, CredInv
    <2>2. worker'[w].pc = "write" /\ worker'[w].doc = mem
      BY <2>1 DEF Saving
    <2>3. lock' = w /\ file' = file /\ worker[w].pc \notin Critical
      BY <1>3 DEF SaveLock, At, Critical
    <2>4. LockHeld'
      BY <1>2, <2>1, <2>3 DEF LockHeld
    <2>5. MemoryPaired'
      BY <1>1, <1>2, <2>1, <2>2, <2>3 DEF CredInv, MemoryPaired, Pair, Critical
    <2>6. SavedPaired'
      <3>1. Pair(file'.auth) /\ Pair(tmp'.auth)
        BY <1>3, <1>d, FilesFrom DEF SaveLock
      <3> QED BY <1>1, <1>2, <2>1, <2>2, <2>3, <3>1
              DEF CredInv, SavedPaired, Pair, Critical
    <2>7. SessionLives'
      BY <1>1, <1>2, <2>1, <2>2, <2>3
         DEF CredInv, SessionLives, LiveSessionNotCondemned, Critical
    <2> QED BY <2>4, <2>5, <2>6, <2>7
  <1>4. CASE SaveWrites(w)
    <2>1. /\ worker'[w].pc = "rename"
          /\ \A v \in Workers \ {w} : worker'[v] = worker[v]
      BY <1>4, GoMoves DEF SaveWrites, CredInv
    <2>2. /\ worker[w].pc = "write" /\ lock' = lock
          /\ WriteDoc("server", worker[w].doc)
          /\ worker[w].doc.at = mem.at /\ worker[w].doc.rt = mem.rt
      BY <1>4 DEF SaveWrites, At, CredInv, SavedPaired
    <2>3. ~signedIn => file' = file /\ tmp' = Whole(worker[w].doc)
      <3>1. ~signedIn => opened["server"] = "tmp" /\ tmp = Torn
        BY <2>2 DEF CredInv, SavesApart, Alone
      <3>2. Over(Torn, worker[w].doc) = {Whole(worker[w].doc)}
        BY DEF Over, Torn
      <3> QED BY <2>2, <3>1, <3>2 DEF WriteDoc
    <2>4. LockHeld'
      BY <1>2, <2>1, <2>2 DEF CredInv, LockHeld, Critical
    <2>5. MemoryPaired'
      BY <1>1, <1>2, <2>1, <2>2 DEF CredInv, MemoryPaired, Pair, Critical
    <2>6. SavedPaired'
      <3>1. Pair(worker[w].doc)
        BY <1>p, <2>2 DEF Pair
      <3>2. Pair(file'.auth) /\ Pair(tmp'.auth)
        BY <2>2, <3>1, FilesFrom
      <3>3. ~signedIn => tmp'.auth.at = mem.at /\ tmp'.auth.rt = mem.rt
        BY <2>2, <2>3 DEF Whole
      <3> QED BY <1>1, <1>2, <2>1, <2>2, <2>3, <3>2, <3>3
              DEF CredInv, SavedPaired, Pair, Critical
    <2>7. SessionLives'
      BY <1>1, <1>2, <2>1, <2>2
         DEF CredInv, SessionLives, LiveSessionNotCondemned, Critical
    <2> QED BY <2>4, <2>5, <2>6, <2>7
  <1>n. ASSUME SaveReturns(w), worker[w].pc \in Critical
        PROVE  /\ lock' = NoWorker /\ worker'[w].pc \in {"idle", "look"}
               /\ \A v \in Workers \ {w} : worker'[v] = worker[v]
    BY <1>n, CarryMoves, CarriedType DEF SaveReturns, CredInv
  <1>5. CASE SaveRenames(w)
    <2>1. /\ lock' = NoWorker /\ worker'[w].pc \in {"idle", "look"}
          /\ \A v \in Workers \ {w} : worker'[v] = worker[v]
      BY <1>5, <1>n DEF SaveRenames, At, Critical
    <2>2. worker[w].pc = "rename" /\ file' = tmp
      BY <1>5 DEF SaveRenames, RenameTmp, At
    <2>3. ~signedIn => tmp.auth.at = mem.at /\ tmp.auth.rt = mem.rt
      BY <2>2 DEF CredInv, SavedPaired
    <2>4. LockHeld'
      BY <1>2, <2>1 DEF LockHeld, Critical
    <2>5. MemoryPaired'
      BY <1>1, <1>2, <2>1, <2>2 DEF CredInv, MemoryPaired, Pair, Critical
    <2>6. SavedPaired'
      <3>1. Pair(file'.auth) /\ Pair(tmp'.auth)
        BY <1>5, <1>d, FilesFrom DEF SaveRenames
      <3>2. ~signedIn => (file.auth.at <= mem.at)'
        BY <1>1, <2>2, <2>3 DEF CredInv, CredTypeOK, Auth, Tokens
      <3> QED BY <1>1, <1>2, <2>1, <3>1, <3>2
              DEF CredInv, SavedPaired, Pair, Critical
    <2>7. SessionLives'
      BY <1>1, <1>2, <2>1, <2>2
         DEF CredInv, SessionLives, LiveSessionNotCondemned, Critical
    <2> QED BY <2>4, <2>5, <2>6, <2>7
  <1>6. CASE SaveFails(w)
    <2>1. /\ lock' = NoWorker /\ worker'[w].pc \in {"idle", "look"}
          /\ \A v \in Workers \ {w} : worker'[v] = worker[v]
      BY <1>6, <1>n DEF SaveFails, At, Critical
    <2>2. file' = file /\ (tmp' = tmp \/ tmp' = Absent)
      BY <1>6 DEF SaveFails, GivesUp
    <2>3. worker[w].pc \in {"refreshing", "write", "rename"}
      BY <1>6 DEF SaveFails, At
    <2>4. /\ disabled' => disabled
          /\ UNCHANGED <<proc, mem, file, issued, live, partner, mislaid,
                         login, signedIn>>
      BY <1>1, <2>2
    <2> QED BY <1>1, <2>1, <2>2, <2>3, <2>4, UnlockInv
  <1> QED BY <1>3, <1>4, <1>5, <1>6

\* The steps of cmd/login do not reach the memory of a process.
LEMMA LoginInv ==
    ASSUME CredInv, SignIn \/ LoginWrites \/ LoginRenames \/ LoginStops
    PROVE  LockHeld' /\ MemoryPaired' /\ SavedPaired' /\ SessionLives'
  <1> USE DEF CredInv
  <1>1. /\ signedIn'
        /\ UNCHANGED <<proc, mem, lock, worker, disabled, mislaid>>
    BY DEF SignIn, LoginWrites, LoginRenames, LoginStops, LoginSaves,
           SavesApart, process
  <1>2. LockHeld'
    BY <1>1 DEF LockHeld
  <1>d. Pair(login.doc)
    BY DEF SavedPaired
  <1>3. CASE SignIn
    <2>1. /\ issued < MaxIssued /\ issued' = issued + 1
          /\ live' = live \cup {issued'}
          /\ partner' = [partner EXCEPT ![issued'] = issued']
          /\ login' = [pc |-> "write", doc |-> SignedInAuth(issued', issued')]
          /\ file' = file /\ tmp' = Torn
      BY <1>3 DEF SignIn, OpenTmp
    <2>2. /\ issued \in Nat /\ issued + 1 \in Tokens
          /\ 0 .. issued \subseteq Tokens /\ mem.at \in Nat
      BY <2>1, CredBoundAssumption DEF CredTypeOK, Tokens, Auth
    <2>3. /\ \A t \in 0 .. issued : partner'[t] = partner[t]
          /\ partner'[issued'] = issued'
      <3>1. \A t \in 0 .. issued : t # issued + 1
        BY <2>2
      <3> QED BY <2>1, <2>2, <3>1 DEF CredTypeOK
    <2>4. MemoryPaired'
      <3>1. mem.at <= issued /\ mem.at \in 0 .. issued /\ None \in 0 .. issued
            /\ mem.at <= issued'
        BY <2>1, <2>2 DEF MemoryPaired, None
      <3>2. partner'[mem.at] = partner[mem.at] /\ partner'[None] = partner[None]
        BY <2>3, <3>1
      <3> QED BY <1>1, <2>1, <3>1, <3>2 DEF MemoryPaired, Pair
    <2>5. SavedPaired'
      <3>1. file.auth \in Auth /\ NoAuth \in Auth /\ Pair(file.auth)
            /\ Pair(NoAuth)
        BY IdleType DEF CredTypeOK, Content, SavedPaired, MemoryPaired, Pair,
                        NoAuth, SignedInAuth, Tokens, None
      <3>2. Pair(file.auth)' /\ Pair(tmp.auth)'
        <4>1. \A a \in Auth : Pair(a) =>
                  a.at <= issued' /\ a.rt = partner'[a.at]
          BY <2>1, <2>3, NewTokenKeepsPairs
        <4> QED BY <2>1, <3>1, <4>1 DEF Pair, Torn
      <3>3. Pair(login.doc)'
        BY <2>1, <2>2, <2>3 DEF Pair, SignedInAuth
      <3> QED BY <1>1, <3>2, <3>3 DEF SavedPaired
    <2>6. SessionLives'
      BY <1>1, <2>1 DEF SessionLives, LiveSessionNotCondemned
    <2> QED BY <1>2, <2>4, <2>5, <2>6
  <1>4. CASE LoginWrites \/ LoginRenames \/ LoginStops
    <2>1. UNCHANGED <<issued, live, partner>>
      BY <1>4 DEF LoginWrites, LoginRenames, LoginStops, upstream
    <2>2. Pair(file'.auth) /\ Pair(tmp'.auth)
      BY <1>4, <1>d, FilesFrom DEF LoginWrites, LoginRenames, LoginStops
    <2>3. Pair(login'.doc)
      <3>1. login'.doc = login.doc \/ login'.doc = NoAuth
        BY <1>4 DEF LoginWrites, LoginRenames, LoginStops, NoLogin, CredTypeOK
      <3> QED BY <1>d, <3>1 DEF CredTypeOK, MemoryPaired, Pair, NoAuth,
                                SignedInAuth, Tokens, None
    <2>4. MemoryPaired'
      BY <1>1, <2>1 DEF MemoryPaired, Pair
    <2>5. SavedPaired'
      BY <1>1, <2>1, <2>2, <2>3 DEF SavedPaired, Pair
    <2>6. SessionLives'
      BY <1>1, <2>1 DEF SessionLives, LiveSessionNotCondemned
    <2> QED BY <1>2, <2>4, <2>5, <2>6
  <1> QED BY <1>3, <1>4

\* Processes start and end, time passes.
LEMMA WorldInv ==
    ASSUME CredInv,
           \/ \E kind \in {"server", "maintain"} : Start(kind)
           \/ End \/ TimePasses
    PROVE  LockHeld' /\ MemoryPaired' /\ SavedPaired' /\ SessionLives'
  <1> USE DEF CredInv
  <1>1. ASSUME NEW kind \in {"server", "maintain"}, Start(kind)
        PROVE  LockHeld' /\ MemoryPaired' /\ SavedPaired' /\ SessionLives'
    <2>1. /\ proc = "down" /\ mem' = file.auth /\ proc' # "down"
          /\ mislaid' = (file.auth.rt \notin live)
          /\ UNCHANGED <<file, tmp, login, issued, live, partner>>
      BY <1>1 DEF Start, Parsed, upstream
    <2>2. \A w \in Workers : worker'[w].pc \in {"idle", "check"}
      BY <1>1 DEF Start, Idle, Carrying
    <2>3. ~disabled'
      BY <1>1 DEF Start, SessionLives
    <2>4. LockHeld'
      BY <2>2 DEF LockHeld, Critical
    <2>5. /\ Pair(file.auth)' /\ Pair(tmp.auth)' /\ Pair(login.doc)'
          /\ Pair(mem)'
      BY <2>1 DEF SavedPaired, Pair
    <2>6. MemoryPaired'
      BY <2>1, <2>2, <2>5 DEF MemoryPaired, Pair
    <2>7. SavedPaired'
      <3>1. file.auth.at <= file.auth.at
        BY DEF CredTypeOK, Content, Auth, Tokens
      <3> QED BY <2>1, <2>2, <2>5, <3>1 DEF SavedPaired
    <2>8. SessionLives'
      BY <2>1, <2>2, <2>3 DEF SessionLives, LiveSessionNotCondemned
    <2> QED BY <2>4, <2>6, <2>7, <2>8
  <1>2. CASE End
    <2>1. /\ proc' = "down" /\ mem' = NoAuth /\ ~disabled'
          /\ UNCHANGED <<file, login, issued, live, partner, mislaid, signedIn>>
      BY <1>2 DEF End, upstream
    <2>2. \A w \in Workers : worker'[w].pc = "idle"
      BY <1>2 DEF End, Idle, Carrying
    <2>3. LockHeld'
      BY <2>2 DEF LockHeld, Critical
    <2>4. MemoryPaired'
      <3>1. None <= issued
        BY DEF CredTypeOK, Tokens, None
      <3> QED BY <2>1, <2>2, <3>1
              DEF MemoryPaired, Pair, NoAuth, SignedInAuth
    <2>5. SavedPaired'
      <3>1. Pair(login.doc)
        BY DEF SavedPaired
      <3>2. Pair(file'.auth) /\ Pair(tmp'.auth)
        BY <1>2, <3>1, FilesFrom DEF End
      <3> QED BY <2>1, <2>2, <3>1, <3>2 DEF SavedPaired, Pair
    <2>6. SessionLives'
      BY <2>1, <2>2 DEF SessionLives, LiveSessionNotCondemned
    <2> QED BY <2>3, <2>4, <2>5, <2>6
  <1>3. CASE TimePasses
    <2>1. UNCHANGED <<proc, mem, lock, worker, disabled, file, tmp, login,
                      issued, live, partner, mislaid, signedIn>>
      BY <1>3 DEF TimePasses, process, signing
    <2> QED BY <2>1 DEF LockHeld, MemoryPaired, SavedPaired, SessionLives, Pair,
                        LiveSessionNotCondemned
  <1> QED BY <1>1, <1>2, <1>3

-----------------------------------------------------------------------------
(* The saves stay apart                                                    *)

Writing == {"write", "rename"}

\* A step of a goroutine that is not saving and does not begin to.
OutsideSave(w) ==
    \/ Begin(w) \/ CheckDue(w)
    \/ RefreshLock(w) \/ Refreshed(w) \/ StoreRefreshToken(w)
    \/ RefreshRefused(w) \/ RefreshFails(w)
    \/ Look(w) \/ FixEndpoint(w) \/ List(w) \/ ApplySandbox(w)
    \/ EnsureFails(w) \/ PutId(w) \/ PutEndpoint(w) \/ PutEnd(w) \/ HasId(w)

\* It leaves the files alone.
LEMMA OutsideSaveMoves ==
    ASSUME CredTypeOK, NEW w \in Workers, OutsideSave(w)
    PROVE  /\ proc # "down"
           /\ worker[w].pc \notin Writing /\ worker'[w].pc \notin Writing
           /\ \A v \in Workers \ {w} : worker'[v] = worker[v]
           /\ UNCHANGED <<proc, file, tmp, saveFailed, login, opened, signedIn>>
  <1>1. /\ proc # "down" /\ worker[w].pc \notin Writing
        /\ UNCHANGED <<proc, file, tmp, saveFailed, login, opened, signedIn>>
    BY DEF OutsideSave, Begin, CheckDue, RefreshLock, Refreshed,
           StoreRefreshToken, RefreshRefused, RefreshFails, Look, FixEndpoint,
           List, ApplySandbox, EnsureFails, PutId, PutEndpoint, PutEnd, HasId,
           At, Writing, signing
  <1>2. \E pc \in WorkerPc \ Writing :
            \/ Go(w, pc) \/ (\E got : Carry(w, pc, got)) \/ Return(w)
    <2>1. {"check", "look", "lock", "refreshing", "store", "save", "fix",
           "list", "id", "apply", "relist", "endpoint", "end", "hasId",
           "saveSandbox"} \subseteq WorkerPc \ Writing
      BY DEF WorkerPc, Writing
    <2>2. \E pc \in {"check", "look", "lock", "refreshing", "store", "save",
                     "fix", "list", "id", "apply", "relist", "endpoint", "end",
                     "hasId", "saveSandbox"} :
              \/ Go(w, pc) \/ (\E got : Carry(w, pc, got)) \/ Return(w)
      BY DEF OutsideSave, Begin, CheckDue, RefreshLock, Refreshed,
             StoreRefreshToken, RefreshRefused, RefreshFails, Look,
             FixEndpoint, List, ApplySandbox, EnsureFails, PutId, PutEndpoint,
             PutEnd, HasId
    <2> QED BY <2>1, <2>2
  <1>3. /\ worker'[w].pc \notin Writing
        /\ \A v \in Workers \ {w} : worker'[v] = worker[v]
    BY <1>2, GoMoves, CarryMoves, ReturnMoves DEF Writing
  <1> QED BY <1>1, <1>3

\* A step of the server's save.
LEMMA SaveApart ==
    ASSUME CredInv, NEW w \in Workers,
           SaveLock(w) \/ SaveWrites(w) \/ SaveRenames(w) \/ SaveFails(w)
    PROVE  SavesApart'
  <1> USE DEF CredInv
  <1>1. /\ proc # "down" /\ UNCHANGED <<proc, login, signedIn>>
    BY DEF SaveLock, SaveWrites, SaveRenames, SaveFails, At
  <1>2. \A v \in Workers \ {w} : worker[v].pc \notin Writing
    BY HolderAlone DEF SaveLock, SaveWrites, SaveRenames, SaveFails, At,
                       Critical, Writing
  <1>3. /\ LoginSaves => signedIn
        /\ LoginSaves /\ ServerSaves => Overlaps
        /\ opened["server"] # "tmp" => ServerWrites /\ Overlaps /\ signedIn
        /\ opened["login"] # "tmp" => Overlaps
        /\ ~Overlaps \/ ~signedIn => file.state = "whole"
        /\ ~Overlaps => /\ login.pc = "write" => tmp = Torn
                        /\ login.pc = "rename" => tmp.state = "whole"
        /\ opened \in [{"server", "login"} -> {"tmp", "file", "lost"}]
    BY <1>1 DEF SavesApart, CredTypeOK
  <1>4. CASE SaveLock(w)
    <2>1. /\ worker'[w] = Saving(mem, AfterSave(w))
          /\ \A v \in Workers \ {w} : worker'[v] = worker[v]
      BY <1>4, MovedOne DEF SaveLock
    <2>2. /\ worker'[w].pc = "write" /\ tmp' = Torn /\ file' = file
          /\ opened'["server"] = "tmp" /\ opened'["login"] = opened["login"]
          /\ LoginSaves => Overlaps
      BY <1>3, <1>4, <2>1 DEF SaveLock, OpenTmp, Saving
    <2> QED BY <1>1, <1>2, <1>3, <2>1, <2>2
            DEF SavesApart, Alone, LoginSaves, ServerSaves, ServerWrites,
                Writing
  <1>5. CASE SaveWrites(w)
    <2>1. /\ worker[w].pc = "write" /\ worker'[w].pc = "rename"
          /\ \A v \in Workers \ {w} : worker'[v] = worker[v]
      BY <1>5, GoMoves DEF SaveWrites, At
    <2>2. /\ WriteDoc("server", worker[w].doc)
          /\ opened'["server"] = "tmp" /\ opened'["login"] = opened["login"]
      BY <1>3, <1>5 DEF SaveWrites, WriteDoc
    <2>3. Alone => file' = file /\ tmp' = Whole(worker[w].doc)
      <3>1. Alone => opened["server"] = "tmp" /\ tmp = Torn
        BY <1>3, <2>1 DEF SavesApart, Alone
      <3>2. Over(Torn, worker[w].doc) = {Whole(worker[w].doc)}
        BY DEF Over, Torn
      <3> QED BY <2>2, <3>1, <3>2 DEF WriteDoc
    <2>4. ServerSaves
      BY <2>1 DEF ServerSaves
    <2> QED BY <1>1, <1>2, <1>3, <2>1, <2>2, <2>3, <2>4
            DEF SavesApart, Alone, LoginSaves, ServerSaves, ServerWrites,
                Writing, Whole
  <1>n. ASSUME SaveReturns(w), worker[w].pc \in Writing
        PROVE  /\ worker'[w].pc \in {"idle", "look"}
               /\ \A v \in Workers \ {w} : worker'[v] = worker[v]
    BY <1>n, CarryMoves, CarriedType DEF SaveReturns
  <1>m. worker[w].pc \in Writing => ServerSaves
    BY DEF ServerSaves, Writing
  <1>6. CASE SaveRenames(w)
    <2>1. /\ worker[w].pc = "rename" /\ worker'[w].pc \in {"idle", "look"}
          /\ \A v \in Workers \ {w} : worker'[v] = worker[v]
      BY <1>6, <1>n DEF SaveRenames, At, Writing
    <2>2. /\ file' = tmp /\ ~ServerWrites
          /\ opened'["server"] = opened["server"]
          /\ opened'["login"] # "tmp" =>
                 opened["login"] # "tmp" \/ login.pc = "write"
      BY <1>2, <1>3, <1>6, <2>1
         DEF SaveRenames, RenameTmp, ServerWrites, Writing
    <2>3. Alone => tmp.state = "whole"
      BY <2>1 DEF SavesApart
    <2> QED BY <1>1, <1>2, <1>3, <1>m, <2>1, <2>2, <2>3
            DEF SavesApart, Alone, LoginSaves, ServerSaves, ServerWrites,
                Writing
  <1>7. CASE SaveFails(w)
    <2>1. /\ worker[w].pc \in Writing /\ worker'[w].pc \in {"idle", "look"}
          /\ \A v \in Workers \ {w} : worker'[v] = worker[v]
      BY <1>7, <1>n DEF SaveFails, At, Writing
    <2>2. /\ file' = file
          /\ opened'["server"] = "tmp" /\ opened'["login"] = opened["login"]
      BY <1>3, <1>7 DEF SaveFails, GivesUp
    <2> QED BY <1>1, <1>2, <1>3, <1>m, <2>1, <2>2
            DEF SavesApart, Alone, LoginSaves, ServerSaves, ServerWrites,
                Writing
  <1> QED BY <1>4, <1>5, <1>6, <1>7

\* A step of cmd/login.
LEMMA LoginApart ==
    ASSUME CredInv, SignIn \/ LoginWrites \/ LoginRenames \/ LoginStops
    PROVE  SavesApart'
  <1> USE DEF CredInv
  <1>1. UNCHANGED <<proc, worker>>
    BY DEF SignIn, LoginWrites, LoginRenames, LoginStops, process
  <1>2. /\ LoginSaves => signedIn
        /\ proc = "down" => ~ServerSaves
        /\ LoginSaves /\ ServerSaves => Overlaps
        /\ opened["server"] # "tmp" => ServerWrites /\ Overlaps /\ signedIn
        /\ opened["login"] # "tmp" => Overlaps
        /\ ~Overlaps => /\ file.state = "whole"
                        /\ login.pc = "write" => tmp = Torn
                        /\ login.pc = "rename" => tmp.state = "whole"
        /\ opened \in [{"server", "login"} -> {"tmp", "file", "lost"}]
        /\ login \in [pc : {"idle", "write", "rename"}, doc : Auth]
    BY DEF SavesApart, CredTypeOK
  <1>3. ServerWrites => ServerSaves
    BY DEF ServerWrites, ServerSaves
  <1>4. CASE SignIn
    <2>1. /\ signedIn' /\ file' = file /\ tmp' = Torn /\ login'.pc = "write"
          /\ ServerSaves => Overlaps
          /\ opened'["server"] = opened["server"] /\ opened'["login"] = "tmp"
      BY <1>2, <1>4 DEF SignIn, OpenTmp
    <2> QED BY <1>1, <1>2, <2>1
            DEF SavesApart, Alone, LoginSaves, ServerSaves, ServerWrites
  <1>5. CASE LoginWrites
    <2>1. /\ signedIn' /\ login.pc = "write" /\ login'.pc = "rename"
          /\ WriteDoc("login", login.doc) /\ LoginSaves
          /\ opened'["server"] = opened["server"] /\ opened'["login"] = "tmp"
      BY <1>2, <1>5 DEF LoginWrites, LoginSaves, WriteDoc
    <2>2. ~Overlaps => file' = file /\ tmp' = Whole(login.doc)
      <3>1. Over(Torn, login.doc) = {Whole(login.doc)}
        BY DEF Over, Torn
      <3> QED BY <1>2, <2>1, <3>1 DEF WriteDoc
    <2> QED BY <1>1, <1>2, <2>1, <2>2
            DEF SavesApart, Alone, LoginSaves, ServerSaves, ServerWrites, Whole
  <1>6. CASE LoginRenames
    <2>1. /\ signedIn' /\ login.pc = "rename" /\ login'.pc = "idle"
          /\ LoginSaves /\ file' = tmp
          /\ opened'["login"] = opened["login"]
          /\ opened'["server"] # "tmp" => opened["server"] # "tmp" \/ ServerWrites
      BY <1>2, <1>6 DEF LoginRenames, LoginSaves, RenameTmp, NoLogin
    <2> QED BY <1>1, <1>2, <1>3, <2>1
            DEF SavesApart, Alone, LoginSaves, ServerSaves, ServerWrites
  <1>7. CASE LoginStops
    <2>1. /\ signedIn' /\ login'.pc = "idle" /\ LoginSaves /\ file' = file
          /\ opened'["server"] = opened["server"] /\ opened'["login"] = "tmp"
      BY <1>2, <1>7 DEF LoginStops, LoginSaves, GivesUp, NoLogin
    <2> QED BY <1>1, <1>2, <2>1
            DEF SavesApart, Alone, LoginSaves, ServerSaves, ServerWrites
  <1> QED BY <1>4, <1>5, <1>6, <1>7

\* Every step keeps the saves apart.
LEMMA ApartNext ==
    ASSUME CredInv, CredNext PROVE SavesApart'
  <1> USE DEF CredInv
  <1>1. ASSUME NEW w \in Workers, OutsideSave(w) PROVE SavesApart'
    <2>1. /\ proc # "down"
          /\ worker[w].pc \notin Writing /\ worker'[w].pc \notin Writing
          /\ \A v \in Workers \ {w} : worker'[v] = worker[v]
          /\ UNCHANGED <<proc, file, tmp, login, opened, signedIn>>
      BY <1>1, OutsideSaveMoves
    <2>2. ServerSaves' = ServerSaves /\ ServerWrites' = ServerWrites
      BY <2>1 DEF ServerSaves, ServerWrites, Writing
    <2>3. \A v \in Workers : worker'[v].pc \in Writing => worker'[v] = worker[v]
      BY <2>1
    <2> QED BY <2>1, <2>2, <2>3 DEF SavesApart, Alone, LoginSaves, Writing
  <1>2. ASSUME NEW kind \in {"server", "maintain"}, Start(kind)
        PROVE  SavesApart'
    <2>1. /\ proc = "down" /\ file.state = "whole" /\ signedIn' = LoginSaves
          /\ UNCHANGED <<file, tmp, login, opened>>
      BY <1>2 DEF Start, Loadable
    <2>2. \A w \in Workers : worker'[w].pc \in {"idle", "check"}
      BY <1>2 DEF Start, Idle, Carrying
    <2>3. ~ServerWrites
      BY <2>1 DEF SavesApart, ServerSaves, ServerWrites
    <2> QED BY <2>1, <2>2, <2>3
            DEF SavesApart, Alone, LoginSaves, ServerSaves, ServerWrites
  <1>3. CASE End
    <2>1. /\ proc' = "down" /\ UNCHANGED <<file, login, signedIn>>
          /\ LoginSaves => tmp' = tmp
          /\ opened'["server"] = "tmp" /\ opened'["login"] = opened["login"]
          /\ \A w \in Workers : worker'[w].pc = "idle"
      BY <1>3 DEF End, GivesUp, Idle, Carrying, CredTypeOK
    <2> QED BY <2>1
            DEF SavesApart, Alone, LoginSaves, ServerSaves, ServerWrites
  <1>4. CASE TimePasses
    <2>1. UNCHANGED <<proc, worker, file, tmp, login, opened, signedIn>>
      BY <1>4 DEF TimePasses, process, signing
    <2> QED BY <2>1
            DEF SavesApart, Alone, LoginSaves, ServerSaves, ServerWrites
  <1> QED BY <1>1, <1>2, <1>3, <1>4, SaveApart, LoginApart
          DEF CredNext, Works, Locks, OutsideSave

\* Every step keeps the invariant.
LEMMA NextInv == CredInv /\ [CredNext]_credVars => CredInv'
  <1> SUFFICES ASSUME CredInv, [CredNext]_credVars PROVE CredInv'
    OBVIOUS
  <1>1. CredTypeOK'
    BY NextType DEF CredInv
  <1>2. /\ LockHeld' /\ MemoryPaired' /\ SavedPaired' /\ SessionLives'
        /\ SavesApart'
    <2>1. CASE UNCHANGED credVars
      BY <2>1 DEF credVars, process, upstream, signing, CredInv, LockHeld,
                  MemoryPaired, SavedPaired, SessionLives, Pair, SavesApart,
                  Alone, LoginSaves, ServerSaves, ServerWrites,
                  LiveSessionNotCondemned
    <2>2. CASE CredNext
      <3>1. LockHeld' /\ MemoryPaired' /\ SavedPaired' /\ SessionLives'
        BY <2>2, PlainSteps, RefreshLockInv, RefreshedInv, StoreInv,
           RefreshFailsInv, SaveInv, LoginInv, WorldInv
           DEF CredNext, Works, Locks
      <3> QED BY <2>2, <3>1, ApartNext
    <2> QED BY <2>1, <2>2
  <1> QED BY <1>1, <1>2 DEF CredInv

\* The invariant holds in every reachable state.
LEMMA AlwaysInv == CredSpec => []CredInv
  BY InitInv, NextInv, PTL DEF CredSpec

-----------------------------------------------------------------------------
(* Theorems                                                                *)

\* The credential file parses at every moment, however saves, crashes and
\* sign-ins follow each other, as long as cmd/login does not save in the
\* middle of a save of the server: the lock keeps two saves of one process
\* from sharing the temporary file, and each of them cuts off what an earlier
\* one left in it.
THEOREM FileAlwaysParses == ~Overlaps /\ CredSpec => []FileParses
  <1>1. ~Overlaps /\ CredInv => FileParses
    BY DEF CredInv, SavesApart, FileParses
  <1>2. CASE ~Overlaps
    <2>1. CredInv => FileParses
      BY <1>1, <1>2
    <2> QED BY <2>1, AlwaysInv, PTL
  <1>3. CASE Overlaps
    BY <1>3
  <1> QED BY <1>2, <1>3

\* The access token and the refresh token in the file belong together: one
\* lock covers both assignments of RefreshToken and the reading of SaveAtomic.
THEOREM SavedTogether == CredSpec => []TokensSavedTogether
  <1>1. CredInv => TokensSavedTogether
    BY DEF CredInv, SavedPaired, Pair, TokensSavedTogether
  <1> QED BY <1>1, AlwaysInv, PTL

\* Refreshes of the same process never condemn the session they share: one
\* that is refused had lost its newest token before.
THEOREM SessionSurvives == CredSpec => []LiveSessionNotCondemned
  <1>1. CredInv => LiveSessionNotCondemned
    BY DEF CredInv, SessionLives
  <1> QED BY <1>1, AlwaysInv, PTL

\* While nobody signs in only a rename of the server changes the file, and it
\* brings the tokens in memory, which are at least as new.
LEMMA FileMovesOn ==
    CredInv /\ [CredNext]_credVars => (~signedIn => file'.auth.at >= file.auth.at)
  <1> SUFFICES ASSUME CredInv, [CredNext]_credVars, ~signedIn
               PROVE  file'.auth.at >= file.auth.at
    OBVIOUS
  <1>1. file.auth.at \in Nat /\ mem.at \in Nat
    BY DEF CredInv, CredTypeOK, Content, Auth, Tokens
  <1>2. CASE file' = file
    BY <1>1, <1>2
  <1>3. ASSUME NEW w \in Workers, SaveRenames(w)
        PROVE  file'.auth.at >= file.auth.at
    <2>1. /\ worker[w].pc = "rename" /\ proc # "down" /\ file' = tmp
      BY <1>3 DEF SaveRenames, RenameTmp, At
    <2> QED BY <1>1, <2>1 DEF CredInv, SavedPaired
  <1>4. \/ file' = file
        \/ \E w \in Workers : SaveRenames(w)
    <2>1. CASE UNCHANGED credVars
      BY <2>1 DEF credVars
    <2>2. CASE \E w \in Workers : OutsideSave(w)
      BY <2>2, OutsideSaveMoves DEF CredInv
    <2>3. CASE \E w \in Workers : SaveLock(w) \/ SaveFails(w)
      BY <2>3 DEF SaveLock, SaveFails
    <2>4. ASSUME NEW w \in Workers, SaveWrites(w) PROVE file' = file
      <3>1. opened["server"] = "tmp"
        BY DEF CredInv, SavesApart
      <3> QED BY <2>4, <3>1 DEF SaveWrites, WriteDoc
    <2>5. CASE (\E kind \in {"server", "maintain"} : Start(kind)) \/ End
               \/ TimePasses \/ SignIn
      BY <2>5 DEF Start, End, TimePasses, SignIn
    <2>6. CASE LoginWrites \/ LoginRenames \/ LoginStops
      <3>1. LoginSaves
        BY <2>6 DEF LoginWrites, LoginRenames, LoginStops, LoginSaves
      <3> QED BY <3>1 DEF CredInv, SavesApart
    <2> QED BY <2>1, <2>2, <2>3, <2>4, <2>5, <2>6
            DEF CredNext, Works, Locks, OutsideSave
  <1> QED BY <1>2, <1>3, <1>4

\* Tokens in the file are never replaced by older ones while nobody signs in
\* behind the back of the process.
THEOREM FileNeverGoesBack == CredSpec => TokensNeverGoBack
  <1>1. CredInv /\ [CredNext]_credVars =>
            [~signedIn => file'.auth.at >= file.auth.at]_credVars
    BY FileMovesOn
  <1> QED BY <1>1, AlwaysInv, PTL DEF CredSpec, TokensNeverGoBack
-----------------------------------------------------------------------------
(* What is quiet is saved                                                  *)

\* Whoever changed a field since it was last at rest goes on to save, the
\* tokens for sure, the sandbox if there is one then.
Owing == {"store", "save", "endpoint", "end", "hasId", "saveSandbox"}

SameTokens(a) == a.at = mem.at /\ a.rt = mem.rt

\* If nobody owes a save of tokens, the file has them, and if nobody owes one
\* of a sandbox, what is on its way to the file is what memory says and then
\* the file says so: unless a write is under way or the last one failed.
SyncInv ==
    LET quiet == /\ \A w \in Workers : worker[w].pc \notin Writing
                 /\ ~saveFailed
    IN  proc # "down" /\ ~signedIn =>
            /\ /\ \A w \in Workers : worker[w].pc \notin {"store", "save"}
               /\ quiet
               => SameTokens(file.auth)
            /\ /\ \A w \in Workers : worker[w].pc \notin Owing
               /\ mem.sb # None
               => /\ \A w \in Workers :
                         /\ worker[w].pc = "write" => worker[w].doc = mem
                         /\ worker[w].pc = "rename" => tmp.auth = mem
                  /\ quiet => file.auth = mem

\* A step that neither changes a token nor writes, and owes the sandbox that
\* it may have changed, or leaves none.
LEMMA SandboxStep ==
    ASSUME SyncInv, NEW w \in Workers,
           worker[w].pc \notin {"store", "save"} \cup Writing,
           worker'[w].pc \notin Writing,
           \/ worker'[w].pc \in Owing
           \/ mem' = mem /\ (worker[w].pc \notin Owing \/ mem.sb = None),
           \A v \in Workers \ {w} : worker'[v] = worker[v],
           mem'.at = mem.at, mem'.rt = mem.rt,
           UNCHANGED <<proc, file, tmp, saveFailed, signedIn>>
    PROVE  SyncInv'
  <1> SUFFICES ASSUME proc # "down", ~signedIn PROVE SyncInv'
    BY DEF SyncInv
  <1>q. ASSUME \A v \in Workers : worker'[v].pc \notin Writing
        PROVE  \A v \in Workers : worker[v].pc \notin Writing
    BY <1>q
  <1>1. ASSUME \A v \in Workers : worker'[v].pc \notin {"store", "save"},
               \A v \in Workers : worker'[v].pc \notin Writing, ~saveFailed'
        PROVE  SameTokens(file.auth)'
    <2>1. \A v \in Workers : worker[v].pc \notin {"store", "save"}
      BY <1>1
    <2> QED BY <1>1, <1>q, <2>1 DEF SyncInv, SameTokens
  <1>2. ASSUME \A v \in Workers : worker'[v].pc \notin Owing, mem'.sb # None
        PROVE  /\ mem' = mem /\ mem.sb # None
               /\ \A v \in Workers : worker[v].pc \notin Owing
    BY <1>2
  <1>3. \A v \in Workers : worker'[v].pc \in Writing => worker'[v] = worker[v]
    OBVIOUS
  <1> QED BY <1>1, <1>2, <1>3, <1>q DEF SyncInv, Writing

\* Every step keeps it.
LEMMA SyncNextInv ==
    CredInv /\ SyncInv /\ [CredNext]_credVars => SyncInv'
  <1> SUFFICES ASSUME CredInv, SyncInv, [CredNext]_credVars PROVE SyncInv'
    OBVIOUS
  <1>t. CredTypeOK
    BY DEF CredInv
  <1>m. mem \in Auth
    BY <1>t DEF CredTypeOK
  <1>1. ASSUME NEW w \in Workers, Refreshed(w) \/ StoreRefreshToken(w)
        PROVE  SyncInv'
    <2>1. worker'[w].pc \in {"store", "save"}
      BY <1>1, <1>t, CarryMoves DEF Refreshed, StoreRefreshToken
    <2> QED BY <2>1 DEF SyncInv, Owing
  <1>2. ASSUME NEW w \in Workers, OutsideSave(w),
               ~Refreshed(w), ~StoreRefreshToken(w)
        PROVE  SyncInv'
    <2>1. /\ worker[w].pc \notin Writing /\ worker'[w].pc \notin Writing
          /\ \A v \in Workers \ {w} : worker'[v] = worker[v]
          /\ UNCHANGED <<proc, file, tmp, saveFailed, signedIn>>
      BY <1>2, <1>t, OutsideSaveMoves
    <2>2. CASE FixEndpoint(w) \/ PutId(w) \/ PutEndpoint(w) \/ PutEnd(w)
      <3>1. /\ worker[w].pc \notin {"store", "save"}
            /\ worker'[w].pc \in Owing
        BY <1>t, <2>2, GoMoves, CarryMoves
           DEF FixEndpoint, PutId, PutEndpoint, PutEnd, At, Owing
      <3>2. mem'.at = mem.at /\ mem'.rt = mem.rt
        BY <1>m, <2>2 DEF FixEndpoint, PutId, PutEndpoint, PutEnd, Auth
      <3> QED BY <2>1, <3>1, <3>2, SandboxStep
    <2>3. CASE HasId(w)
      <3>1. /\ worker[w].pc \notin {"store", "save"} /\ mem' = mem
            /\ worker'[w].pc \in Owing \/ mem.sb = None
        BY <1>t, <2>3, CarryMoves DEF HasId, At, Owing
      <3> QED BY <2>1, <3>1, SandboxStep
    <2>4. CASE ~(\/ FixEndpoint(w) \/ PutId(w) \/ PutEndpoint(w) \/ PutEnd(w)
                 \/ HasId(w))
      <3>1. /\ worker[w].pc \notin {"store", "save"} \cup Owing /\ mem' = mem
        BY <1>2, <2>4
           DEF OutsideSave, Begin, CheckDue, RefreshLock, RefreshRefused,
               RefreshFails, Look, List, ApplySandbox, EnsureFails, At, Owing
      <3> QED BY <2>1, <3>1, SandboxStep
    <2> QED BY <2>2, <2>3, <2>4
  <1>3. ASSUME NEW w \in Workers,
               SaveLock(w) \/ SaveWrites(w) \/ SaveRenames(w) \/ SaveFails(w),
               ~signedIn
        PROVE  SyncInv'
    <2>1. proc # "down" /\ UNCHANGED <<proc, mem, signedIn>>
      BY <1>3 DEF SaveLock, SaveWrites, SaveRenames, SaveFails, At
    <2>2. \A v \in Workers \ {w} : worker[v].pc \notin Writing
      BY <1>3, HolderAlone DEF SaveLock, SaveWrites, SaveRenames, SaveFails, At,
                               Critical, Writing
    <2>3. CASE SaveLock(w)
      <3>1. /\ worker'[w] = Saving(mem, AfterSave(w))
            /\ \A v \in Workers \ {w} : worker'[v] = worker[v]
        BY <2>3, <1>t, MovedOne DEF SaveLock
      <3>2. worker'[w].pc = "write" /\ worker'[w].doc = mem
        BY <3>1 DEF Saving
      <3> QED BY <2>1, <2>2, <3>1, <3>2 DEF SyncInv, Writing
    <2>4. CASE SaveWrites(w)
      <3>1. /\ worker[w].pc = "write" /\ worker'[w].pc = "rename"
            /\ WriteDoc("server", worker[w].doc)
            /\ \A v \in Workers \ {w} : worker'[v] = worker[v]
        BY <2>4, <1>t, GoMoves DEF SaveWrites, At
      <3>2. opened["server"] = "tmp" /\ tmp = Torn
        BY <1>3, <3>1 DEF CredInv, SavesApart, Alone
      <3>3. tmp'.auth = worker[w].doc
        BY <3>1, <3>2 DEF WriteDoc, Over, Torn, Whole
      <3> QED BY <2>1, <2>2, <3>1, <3>3 DEF SyncInv, Writing, Owing
    <2>n. ASSUME SaveReturns(w), worker[w].pc \in Writing
          PROVE  /\ worker'[w].pc \in {"idle", "look"}
                 /\ \A v \in Workers \ {w} : worker'[v] = worker[v]
      BY <2>n, <1>t, CarryMoves, CarriedType DEF SaveReturns
    <2>5. CASE SaveRenames(w)
      <3>1. /\ worker[w].pc = "rename" /\ file' = tmp
            /\ worker'[w].pc \in {"idle", "look"}
            /\ \A v \in Workers \ {w} : worker'[v] = worker[v]
        BY <2>5, <2>n DEF SaveRenames, RenameTmp, At, Writing
      <3>2. tmp.auth.at = mem.at /\ tmp.auth.rt = mem.rt
        BY <1>3, <3>1 DEF CredInv, SavedPaired
      <3> QED BY <2>1, <2>2, <3>1, <3>2 DEF SyncInv, SameTokens, Writing, Owing
    <2>6. CASE SaveFails(w)
      <3>1. /\ worker[w].pc \in Writing /\ saveFailed' = TRUE
            /\ worker'[w].pc \in {"idle", "look"}
            /\ \A v \in Workers \ {w} : worker'[v] = worker[v]
        BY <2>6, <2>n DEF SaveFails, At, Writing
      <3> QED BY <2>1, <2>2, <3>1 DEF SyncInv, Writing, Owing
    <2> QED BY <1>3, <2>3, <2>4, <2>5, <2>6
  <1>4. ASSUME NEW w \in Workers,
               SaveLock(w) \/ SaveWrites(w) \/ SaveRenames(w) \/ SaveFails(w),
               signedIn
        PROVE  SyncInv'
    BY <1>4 DEF SaveLock, SaveWrites, SaveRenames, SaveFails, SyncInv
  <1>5. ASSUME NEW kind \in {"server", "maintain"}, Start(kind)
        PROVE  SyncInv'
    <2>1. /\ mem' = file.auth /\ file' = file
          /\ \A w \in Workers : worker'[w].pc \in {"idle", "check"}
      BY <1>5 DEF Start, Parsed, Idle, Carrying
    <2> QED BY <2>1 DEF SyncInv, SameTokens, Writing
  <1>6. CASE End \/ SignIn
    BY <1>6 DEF End, SignIn, SyncInv
  <1>7. CASE LoginWrites \/ LoginRenames \/ LoginStops
    <2>1. LoginSaves /\ signedIn' = signedIn
      BY <1>7 DEF LoginWrites, LoginRenames, LoginStops, LoginSaves
    <2> QED BY <2>1 DEF CredInv, SavesApart, SyncInv
  <1>8. CASE TimePasses \/ UNCHANGED credVars
    <2>1. UNCHANGED <<process, file, tmp, signedIn>>
      BY <1>8 DEF TimePasses, credVars, signing
    <2> QED BY <2>1 DEF process, SyncInv, SameTokens
  <1> QED BY <1>1, <1>2, <1>3, <1>4, <1>5, <1>6, <1>7, <1>8
          DEF CredNext, Works, Locks, OutsideSave

\* A process that rests has its tokens in the file, and its sandbox when it
\* has one: whoever changed a field, with the lock or without, saves after
\* it, and a save that was taken over by a change is followed by another.
\* Nobody signs in meanwhile; whether saves overlap otherwise does not matter.
THEOREM QuietIsSaved == CredSpec => []QuietMeansSaved
  <1>1. CredInit => SyncInv
    BY DEF CredInit, SyncInv
  <1>2. CredInv /\ SyncInv => QuietMeansSaved
    BY DEF CredInv, SavesApart, SyncInv, SameTokens, QuietMeansSaved, Owing,
           Writing
  <1> QED BY <1>1, <1>2, SyncNextInv, AlwaysInv, PTL DEF CredSpec
=============================================================================
