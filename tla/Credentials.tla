----------------------------- MODULE Credentials -----------------------------
(***************************************************************************)
(* The credential of one account: the Auth that the requests and the       *)
(* scheduler of a process share (internal/auth/auth.go), its lock, its     *)
(* file, and the calls that change it (RefreshToken and EnsureSandbox of   *)
(* internal/upstream/client.go, as prepareAccount of the handler and       *)
(* RunMaintenanceNow of the scheduler make them).                          *)
(*                                                                         *)
(* RefreshToken and SaveAtomic hold the lock for as long as they run, the  *)
(* HTTP call and the writing of the file included.  EnsureSandbox, the     *)
(* test whether a refresh is due and everything else take no lock, so      *)
(* every access of EnsureSandbox to a field is a step of its own.          *)
(*                                                                         *)
(* A token is the number of the refresh or sign-in that issued it.  Of a   *)
(* sandbox the id, the endpoint and the end of its life are cached apart:  *)
(* each field says which sandbox it is of.  The base address inside an     *)
(* endpoint is the same for all sandboxes of an account and is left out.   *)
(*                                                                         *)
(* cmd/login is a process of its own.  It saves with SaveAtomic too, that  *)
(* is through the same <file>.tmp, and Auth.mu is nothing to it.           *)
(***************************************************************************)
EXTENDS Integers

CONSTANTS
    Requests,      \* requests that may prepare the account at the same time
    Scheduler,     \* the maintenance goroutine
    NoWorker,
    DiskFaults,    \* whether a write of the file may fail
    SignIns,       \* whether cmd/login may sign in while a server runs
    Overlaps,      \* whether it may save while the server does
    MaxIssued,     \* bound on tokens issued
    MaxSandboxes   \* bound on sandboxes applied for

Workers == Requests \cup {Scheduler}

ASSUME WorkerAssumption == NoWorker \notin Workers /\ Scheduler \notin Requests
ASSUME FaultAssumption ==
    DiskFaults \in BOOLEAN /\ SignIns \in BOOLEAN /\ Overlaps \in BOOLEAN
ASSUME CredBoundAssumption == MaxIssued \in Nat \ {0} /\ MaxSandboxes \in Nat

None == 0
Bare == -1   \* an endpoint without the id of a sandbox

VARIABLES
    proc,      \* what runs: "down", the "server" or one "maintain" round
    mem,       \* the Auth in the memory of the process
    lock,      \* who holds Auth.mu
    worker,    \* each goroutine: where it is and what it carries
    file,      \* the credential file
    tmp,       \* <file>.tmp
    login,     \* cmd/login: where its save is, and the document
    opened,    \* where the file is now that a process opened as <file>.tmp
    due,       \* the expiry date in memory is within the refresh window
    disabled,  \* the pool was told that the session is dead
    saveFailed,\* the last write failed
    issued,    \* upstream: tokens issued so far
    live,      \* upstream: refresh tokens that are accepted
    sandboxes, \* upstream: sandboxes there are: 1, 2 ... in order of age
    expired,   \* upstream: sandboxes whose time is over
    partner,   \* history: the refresh token that goes with an access token
    mislaid,   \* history: the newest token never reached the file
    signedIn   \* history: someone signed in since the process started

upstream == <<issued, live, sandboxes, expired, partner>>
process == <<proc, mem, lock, worker, disabled, saveFailed>>
signing == <<login, opened, signedIn>>
credVars == <<process, file, tmp, due, upstream, mislaid, signing>>

Tokens == 0 .. MaxIssued
Sandboxes == 0 .. MaxSandboxes

Auth == [at : Tokens, rt : Tokens, sb : Sandboxes,
         ep : Sandboxes \cup {Bare}, end : Sandboxes]
SignedInAuth(at, rt) ==
    [at |-> at, rt |-> rt, sb |-> None, ep |-> None, end |-> None]
NoAuth == SignedInAuth(None, None)

\* A file is absent, torn (opened for writing and not written yet) or whole.
Absent == [state |-> "absent", auth |-> NoAuth]
Torn == [state |-> "torn", auth |-> NoAuth]
Whole(a) == [state |-> "whole", auth |-> a]

WorkerPc == {"idle", "check", "lock", "refreshing", "store", "save", "look",
             "fix", "list", "apply", "relist", "id", "endpoint", "end",
             "hasId", "saveSandbox", "write", "rename"}

\* got: a token or a sandbox an answer carried; doc: what is being saved, and
\* where to go from there.
Carrying(pc, got) ==
    [pc |-> pc, got |-> got, doc |-> NoAuth, next |-> "idle"]
Saving(doc, next) ==
    [pc |-> "write", got |-> None, doc |-> doc, next |-> next]
Idle == Carrying("idle", None)

At(w, pc) == proc # "down" /\ worker[w].pc = pc
Go(w, pc) == worker' = [worker EXCEPT ![w].pc = pc]
Carry(w, pc, got) == worker' = [worker EXCEPT ![w] = Carrying(pc, got)]
Return(w) == worker' = [worker EXCEPT ![w] = Idle]

\* Between the opening of <file>.tmp and the end of SaveAtomic.
ServerSaves == \E w \in Workers : worker[w].pc \in {"write", "rename"}
ServerWrites == \E w \in Workers : worker[w].pc = "write"
LoginSaves == login.pc # "idle"

\* cmd/login is not saving, or between opening its file and writing to it.
NoLogin == [pc |-> "idle", doc |-> NoAuth]
NowhereElse == [server |-> "tmp", login |-> "tmp"]

-----------------------------------------------------------------------------
(* Refresh                                                                 *)

\* A request has been given the account, or the scheduler's round reaches
\* it.  Neither happens to a disabled account.
Begin(w) ==
    /\ proc = "server" /\ worker[w].pc = "idle" /\ ~disabled
    /\ Go(w, "check")
    /\ UNCHANGED <<proc, mem, lock, disabled, saveFailed, file, tmp, due,
                   upstream, mislaid, signing>>

\* NeedsRefresh, without the lock.  Without a refresh token a request reports
\* a dead session and the scheduler goes on.
CheckDue(w) ==
    /\ At(w, "check")
    /\ \/ ~due /\ Go(w, "look") /\ UNCHANGED disabled
       \/ due /\ mem.rt # None /\ Go(w, "lock") /\ UNCHANGED disabled
       \/ due /\ mem.rt = None
          /\ IF w = Scheduler THEN Go(w, "look") /\ UNCHANGED disabled
                              ELSE Return(w) /\ disabled' = TRUE
    /\ UNCHANGED <<proc, mem, lock, saveFailed, file, tmp, due, upstream,
                   mislaid, signing>>

\* Mutant of RefreshLock: the refresh does not take the lock.
RefreshLock_Unlocked(w) ==
    /\ At(w, "lock")
    /\ Carry(w, "refreshing", mem.rt)
    /\ UNCHANGED <<proc, mem, lock, disabled, saveFailed, file, tmp, due,
                   upstream, mislaid, signing>>

\* The lock is taken, and the refresh token read and sent under it.
RefreshLock(w) ==
    /\ At(w, "lock") /\ lock = NoWorker
    /\ lock' = w
    /\ Carry(w, "refreshing", mem.rt)
    /\ UNCHANGED <<proc, mem, disabled, saveFailed, file, tmp, due, upstream,
                   mislaid, signing>>

\* The upstream accepts the token and issues an access token and, perhaps, a
\* refresh token that replaces it.
Grants(rt, replaced) ==
    /\ rt \in live /\ issued < MaxIssued
    /\ issued' = issued + 1
    /\ live' = IF replaced THEN (live \ {rt}) \cup {issued'} ELSE live
    /\ partner' = [partner EXCEPT ![issued'] = IF replaced THEN issued' ELSE rt]
    /\ UNCHANGED <<sandboxes, expired>>

\* RefreshToken takes the access token over, then the refresh token if there
\* is one.
Refreshed(w) ==
    /\ At(w, "refreshing")
    /\ \E replaced \in BOOLEAN :
        /\ Grants(worker[w].got, replaced)
        /\ Carry(w, "store", IF replaced THEN issued' ELSE None)
    /\ mem' = [mem EXCEPT !.at = issued']
    /\ UNCHANGED <<proc, lock, disabled, saveFailed, file, tmp, due, mislaid,
                   signing>>

StoreRefreshToken(w) ==
    /\ At(w, "store")
    /\ mem' = IF worker[w].got = None THEN mem
                                      ELSE [mem EXCEPT !.rt = worker[w].got]
    /\ lock' = NoWorker
    /\ Carry(w, "save", None)
    /\ UNCHANGED <<proc, disabled, saveFailed, file, tmp, due, upstream,
                   mislaid, signing>>

\* Mutant of RefreshRefused: the early return forgets the lock.
RefreshRefused_KeepsLock(w) ==
    /\ At(w, "refreshing")
    /\ worker[w].got \notin live
    /\ disabled' = TRUE
    /\ Return(w)
    /\ UNCHANGED <<proc, mem, lock, saveFailed, file, tmp, due, upstream,
                   mislaid, signing>>

\* The token was replaced before: not logged in, a dead session.  Both
\* callers disable the account and leave it.
RefreshRefused(w) ==
    /\ At(w, "refreshing")
    /\ worker[w].got \notin live
    /\ lock' = NoWorker
    /\ disabled' = TRUE
    /\ Return(w)
    /\ UNCHANGED <<proc, mem, saveFailed, file, tmp, due, upstream, mislaid,
                   signing>>

\* Any other failure: a request gives the account up, the scheduler goes on.
\* The upstream may have replaced the token before the answer was lost.
RefreshFails(w) ==
    /\ At(w, "refreshing")
    /\ \/ UNCHANGED <<upstream, mislaid>>
       \/ Grants(worker[w].got, TRUE) /\ mislaid' = TRUE
    /\ lock' = NoWorker
    /\ IF w = Scheduler THEN Carry(w, "look", None) ELSE Return(w)
    /\ UNCHANGED <<proc, mem, disabled, saveFailed, file, tmp, due, signing>>

-----------------------------------------------------------------------------
(* EnsureSandbox, without the lock                                         *)

Usable(s) == s = None \/ s \notin expired

\* The cached sandbox is used if it has not ended (no end counts as none).
Look(w) ==
    /\ At(w, "look")
    /\ IF mem.sb # None /\ mem.ep # None /\ Usable(mem.end)
       THEN Carry(w, "fix", mem.sb) ELSE Go(w, "list")
    /\ UNCHANGED <<proc, mem, lock, disabled, saveFailed, file, tmp, due,
                   upstream, mislaid, signing>>

\* The endpoint is rewritten for the cached id, whatever it was.
FixEndpoint(w) ==
    /\ At(w, "fix")
    /\ mem' = [mem EXCEPT !.ep = worker[w].got]
    /\ Carry(w, "saveSandbox", None)
    /\ UNCHANGED <<proc, lock, disabled, saveFailed, file, tmp, due, upstream,
                   mislaid, signing>>

\* The first of the list that has not ended, or else the first of all; the
\* order is the upstream's.  An entry without an id gives way to any that has
\* not ended.
Found ==
    LET running == (1 .. sandboxes) \ expired
    IN  IF running = {} THEN (1 .. sandboxes) \cup {None} ELSE running

\* ListSandboxes: one is chosen, or none is there and one is applied for.
List(w) ==
    /\ At(w, "list") \/ At(w, "relist")
    /\ \/ \E s \in Found : Carry(w, "id", s)
       \/ sandboxes = 0 /\ At(w, "list") /\ Go(w, "apply")
    /\ UNCHANGED <<proc, mem, lock, disabled, saveFailed, file, tmp, due,
                   upstream, mislaid, signing>>

ApplySandbox(w) ==
    /\ At(w, "apply")
    /\ sandboxes < MaxSandboxes
    /\ sandboxes' = sandboxes + 1
    /\ Go(w, "relist")
    /\ UNCHANGED <<proc, mem, lock, disabled, saveFailed, file, tmp, due,
                   issued, live, expired, partner, mislaid, signing>>

\* A call fails, or the list is still empty: neither caller saves then.
EnsureFails(w) ==
    /\ At(w, "list") \/ At(w, "apply") \/ At(w, "relist")
    /\ Return(w)
    /\ UNCHANGED <<proc, mem, lock, disabled, saveFailed, file, tmp, due,
                   upstream, mislaid, signing>>

PutId(w) ==
    /\ At(w, "id")
    /\ mem' = [mem EXCEPT !.sb = worker[w].got]
    /\ Go(w, "endpoint")
    /\ UNCHANGED <<proc, lock, disabled, saveFailed, file, tmp, due, upstream,
                   mislaid, signing>>

PutEndpoint(w) ==
    /\ At(w, "endpoint")
    /\ mem' = [mem EXCEPT !.ep = IF worker[w].got = None THEN Bare
                                                        ELSE worker[w].got]
    /\ Go(w, "end")
    /\ UNCHANGED <<proc, lock, disabled, saveFailed, file, tmp, due, upstream,
                   mislaid, signing>>

\* Mutant of PutEnd: what was found is not saved.
PutEnd_Unsaved(w) ==
    /\ At(w, "end")
    /\ mem' = [mem EXCEPT !.end = worker[w].got]
    /\ Return(w)
    /\ UNCHANGED <<proc, lock, disabled, saveFailed, file, tmp, due, upstream,
                   mislaid, signing>>

PutEnd(w) ==
    /\ At(w, "end")
    /\ mem' = [mem EXCEPT !.end = worker[w].got]
    /\ Carry(w, "hasId", None)
    /\ UNCHANGED <<proc, lock, disabled, saveFailed, file, tmp, due, upstream,
                   mislaid, signing>>

\* The id is read back from the Auth.  Without one EnsureSandbox fails, with
\* its fields written, and neither caller saves.
HasId(w) ==
    /\ At(w, "hasId")
    /\ IF mem.sb # None THEN Carry(w, "saveSandbox", None) ELSE Return(w)
    /\ UNCHANGED <<proc, mem, lock, disabled, saveFailed, file, tmp, due,
                   upstream, mislaid, signing>>

-----------------------------------------------------------------------------
(* SaveAtomic                                                              *)

\* Mutant of AfterSave: after a save comes the same save.
AfterSave_Again(w) == worker[w].pc

\* After the first save EnsureSandbox follows; after the second the account
\* is prepared (waking the sandbox changes nothing here).
AfterSave(w) == IF worker[w].pc = "save" THEN "look" ELSE "idle"

\* The temporary file is there or not, and a process that has it open sees
\* its content cut off.
OpenTmp(who) ==
    /\ tmp' = Torn
    /\ opened' = [opened EXCEPT ![who] = "tmp"]

\* What a write leaves in a file: the document, or the document and the tail
\* of a longer one that another process wrote since the file was opened.
Over(content, doc) ==
    {Whole(doc)} \cup
    IF content.state = "whole" /\ content.auth # doc THEN {Torn} ELSE {}

\* The write goes to the file that was opened, wherever it is by now.
WriteDoc(who, doc) ==
    /\ tmp' \in IF opened[who] = "tmp" THEN Over(tmp, doc) ELSE {tmp}
    /\ file' \in IF opened[who] = "file" THEN Over(file, doc) ELSE {file}
    /\ opened' = [opened EXCEPT ![who] = "tmp"]

\* The rename takes along the file that `other' may be writing to, and
\* drops the one that was there.
RenameTmp(other, otherWrites) ==
    /\ tmp.state # "absent"
    /\ file' = tmp
    /\ tmp' = Absent
    /\ opened' = IF ~otherWrites THEN opened
                 ELSE [opened EXCEPT ![other] = IF @ = "tmp" THEN "file"
                                                             ELSE "lost"]

\* A save ends before its rename.  The temporary file stays, but is cut off
\* when it is next opened: unless the other process has it open too, it
\* counts as absent.
GivesUp(who, otherSaves) ==
    /\ tmp' = IF otherSaves THEN tmp ELSE Absent
    /\ opened' = [opened EXCEPT ![who] = "tmp"]

\* Mutant of SaveLock: the file itself is opened for writing.
SaveLock_InPlace(w) ==
    /\ At(w, "save") \/ At(w, "saveSandbox")
    /\ lock = NoWorker
    /\ Overlaps \/ ~LoginSaves
    /\ lock' = w
    /\ worker' = [worker EXCEPT ![w] = Saving(mem, AfterSave(w))]
    /\ file' = Torn
    /\ UNCHANGED <<proc, mem, disabled, saveFailed, tmp, due, upstream,
                   mislaid, signing>>

\* Mutant of SaveLock: the lock is not taken.
SaveLock_Unlocked(w) ==
    /\ At(w, "save") \/ At(w, "saveSandbox")
    /\ Overlaps \/ ~LoginSaves
    /\ worker' = [worker EXCEPT ![w] = Saving(mem, AfterSave(w))]
    /\ OpenTmp("server")
    /\ UNCHANGED <<proc, mem, lock, disabled, saveFailed, file, due, upstream,
                   mislaid, login, signedIn>>

\* The lock is taken, the document made, the temporary file opened.
SaveLock(w) ==
    /\ At(w, "save") \/ At(w, "saveSandbox")
    /\ lock = NoWorker
    /\ Overlaps \/ ~LoginSaves
    /\ lock' = w
    /\ worker' = [worker EXCEPT ![w] = Saving(mem, AfterSave(w))]
    /\ OpenTmp("server")
    /\ UNCHANGED <<proc, mem, disabled, saveFailed, file, due, upstream,
                   mislaid, login, signedIn>>

SaveWrites(w) ==
    /\ At(w, "write")
    /\ WriteDoc("server", worker[w].doc)
    /\ Go(w, "rename")
    /\ UNCHANGED <<proc, mem, lock, disabled, saveFailed, due, upstream,
                   mislaid, login, signedIn>>

SaveReturns(w) ==
    /\ lock' = NoWorker
    /\ Carry(w, worker[w].next, None)

SaveRenames(w) ==
    /\ At(w, "rename")
    /\ RenameTmp("login", login.pc = "write")
    /\ saveFailed' = FALSE
    /\ SaveReturns(w)
    /\ UNCHANGED <<proc, mem, disabled, due, upstream, mislaid, login,
                   signedIn>>

\* The write or the rename fails, the rename also for want of a temporary
\* file; the error is logged or dropped.
SaveFails(w) ==
    /\ At(w, "write") \/ At(w, "rename")
    /\ DiskFaults \/ (At(w, "rename") /\ tmp.state = "absent")
    /\ saveFailed' = TRUE
    /\ SaveReturns(w)
    /\ GivesUp("server", LoginSaves)
    /\ UNCHANGED <<proc, mem, disabled, file, due, upstream, mislaid, login,
                   signedIn>>

-----------------------------------------------------------------------------
(* cmd/login                                                               *)

\* It gets new tokens and begins to save them.  The sandbox it may save with
\* them is left out: a server that finds none in the file looks it up itself.
SignIn ==
    /\ ~LoginSaves
    /\ proc = "down" \/ SignIns
    /\ Overlaps \/ ~ServerSaves
    /\ issued < MaxIssued
    /\ issued' = issued + 1
    /\ live' = live \cup {issued'}
    /\ partner' = [partner EXCEPT ![issued'] = issued']
    /\ login' = [pc |-> "write", doc |-> SignedInAuth(issued', issued')]
    /\ OpenTmp("login")
    /\ signedIn' = TRUE
    /\ UNCHANGED <<process, file, due, sandboxes, expired, mislaid>>

LoginWrites ==
    /\ login.pc = "write"
    /\ WriteDoc("login", login.doc)
    /\ login' = [login EXCEPT !.pc = "rename"]
    /\ UNCHANGED <<process, due, upstream, mislaid, signedIn>>

LoginRenames ==
    /\ login.pc = "rename"
    /\ RenameTmp("server", ServerWrites)
    /\ login' = NoLogin
    /\ UNCHANGED <<process, due, upstream, mislaid, signedIn>>

\* It fails, or is stopped.
LoginStops ==
    /\ LoginSaves
    /\ login' = NoLogin
    /\ GivesUp("login", ServerSaves)
    /\ UNCHANGED <<process, file, due, upstream, mislaid, signedIn>>

-----------------------------------------------------------------------------
(* Processes and the world                                                 *)

\* LoadDir skips a file that does not parse.
Loadable == file.state = "whole"

\* Parse takes over each field that SaveAtomic wrote.
Parsed == file.auth

\* The server, or cmd/maintain while no server runs, loads the credential.
\* cmd/maintain does one round.  The expiry date is that of a sign-in since
\* the last start, or the one it was.
Start(kind) ==
    /\ proc = "down" /\ Loadable
    /\ proc' = kind
    /\ mem' = Parsed
    /\ worker' = [w \in Workers |-> IF kind = "maintain" /\ w = Scheduler
                                    THEN Carrying("check", None) ELSE Idle]
    /\ mislaid' = (Parsed.rt \notin live)
    /\ due' \in {due} \cup (IF signedIn THEN {FALSE} ELSE {})
    /\ signedIn' = LoginSaves
    /\ UNCHANGED <<lock, disabled, saveFailed, file, tmp, upstream, login,
                   opened>>

\* The process ends at any point, by a signal or a crash.
End ==
    /\ proc # "down"
    /\ proc' = "down"
    /\ mem' = NoAuth
    /\ lock' = NoWorker
    /\ worker' = [w \in Workers |-> Idle]
    /\ disabled' = FALSE /\ saveFailed' = FALSE
    /\ GivesUp("server", LoginSaves)
    /\ UNCHANGED <<file, due, upstream, mislaid, login, signedIn>>

\* Time passes: the tokens come due and stay due (no refresh moves the
\* expiry date), sandboxes end.
TimePasses ==
    /\ \/ ~due /\ due' = TRUE /\ UNCHANGED expired
       \/ /\ UNCHANGED due
          /\ \E s \in 1 .. sandboxes :
              s \notin expired /\ expired' = expired \cup {s}
    /\ UNCHANGED <<process, file, tmp, issued, live, sandboxes, partner,
                   mislaid, signing>>

-----------------------------------------------------------------------------
(* Specification                                                           *)

\* Someone signed in; a refresh token may be missing from the file.
CredInit ==
    /\ proc = "down" /\ mem = NoAuth /\ lock = NoWorker
    /\ worker = [w \in Workers |-> Idle]
    /\ disabled = FALSE /\ saveFailed = FALSE
    /\ \E rt \in {None, 1} :
        /\ file = Whole(SignedInAuth(1, rt))
        /\ live = {rt} \ {None}
        /\ partner = [t \in Tokens |-> IF t = 1 THEN rt ELSE None]
    /\ tmp = Absent /\ login = NoLogin /\ opened = NowhereElse
    /\ due = FALSE
    /\ issued = 1 /\ sandboxes = 0 /\ expired = {}
    /\ mislaid = FALSE /\ signedIn = FALSE

\* What a goroutine does next, once it may.
Works(w) ==
    \/ CheckDue(w)
    \/ Refreshed(w) \/ StoreRefreshToken(w) \/ RefreshRefused(w)
    \/ RefreshFails(w)
    \/ Look(w) \/ FixEndpoint(w) \/ List(w) \/ ApplySandbox(w)
    \/ EnsureFails(w) \/ PutId(w) \/ PutEndpoint(w) \/ PutEnd(w) \/ HasId(w)
    \/ SaveWrites(w) \/ SaveRenames(w) \/ SaveFails(w)

Locks(w) == RefreshLock(w) \/ SaveLock(w)

CredNext ==
    \/ \E w \in Workers : Begin(w) \/ Works(w) \/ Locks(w)
    \/ \E kind \in {"server", "maintain"} : Start(kind)
    \/ End
    \/ SignIn \/ LoginWrites \/ LoginRenames \/ LoginStops
    \/ TimePasses

CredSpec == CredInit /\ [][CredNext]_credVars

\* Every call ends (client.HTTP has a timeout), so a goroutine that waits for
\* no lock goes on.
FairCredSpec ==
    /\ CredSpec
    /\ \A w \in Workers : WF_credVars(Works(w))

-----------------------------------------------------------------------------
(* Properties                                                              *)

\* A goroutine carries a token or a sandbox, as the place says.
Work == {c \in [pc : WorkerPc, got : Tokens \cup Sandboxes, doc : Auth,
                next : {"look", "idle"}] :
            /\ c.pc \in {"refreshing", "store"} => c.got \in Tokens
            /\ c.pc \in {"fix", "id", "endpoint", "end"} => c.got \in Sandboxes}
Content == [state : {"absent", "torn", "whole"}, auth : Auth]

\* Every variable stays in its domain.
CredTypeOK ==
    /\ proc \in {"down", "server", "maintain"}
    /\ mem \in Auth
    /\ lock \in Workers \cup {NoWorker}
    /\ worker \in [Workers -> Work]
    /\ file \in Content /\ tmp \in Content
    /\ login \in [pc : {"idle", "write", "rename"}, doc : Auth]
    /\ opened \in [{"server", "login"} -> {"tmp", "file", "lost"}]
    /\ due \in BOOLEAN /\ disabled \in BOOLEAN /\ saveFailed \in BOOLEAN
    /\ mislaid \in BOOLEAN /\ signedIn \in BOOLEAN
    /\ issued \in Tokens /\ live \subseteq Tokens
    /\ sandboxes \in Sandboxes /\ expired \subseteq Sandboxes
    /\ partner \in [Tokens -> Tokens]

\* The credential file can be read at every moment, whenever a process is
\* killed and whatever temporary file an earlier one left (auth.go:108: it is
\* written back atomically, by a temporary file and a rename).  With Overlaps
\* it is not so: both processes write to one temporary file, and the rename
\* of one of them takes along what the other has not written yet.
FileParses == file.state = "whole"

\* The file never has the access token of one refresh and the refresh token
\* of another (auth.go:110, README: a lock against half-updated tokens).
TokensSavedTogether ==
    file.state = "whole" => file.auth.rt = partner[file.auth.at]

\* What is in the file is never replaced by older tokens, in whatever order
\* the goroutines refresh and save, unless someone signed in while the
\* process runs: the process knows nothing of it and writes its own tokens
\* over the new ones with the next request.
TokensNeverGoBack ==
    [][~signedIn => file'.auth.at >= file.auth.at]_credVars

\* When no goroutine is at work on the account, its file has the tokens of
\* memory, unless the last write failed or someone signed in meanwhile: a
\* process that ends then loses no session.  It has the sandbox too, unless
\* memory has none: EnsureSandbox writes what an answer without an id says
\* into the Auth, and neither caller saves that.
QuietMeansSaved ==
    /\ proc # "down" /\ \A w \in Workers : worker[w].pc = "idle"
    /\ ~saveFailed /\ ~signedIn
    => /\ file.state = "whole"
       /\ file.auth.at = mem.at /\ file.auth.rt = mem.rt
       /\ mem.sb # None => file.auth = mem

\* A session is found dead only if its newest refresh token was lost before:
\* the answer that carried it never came, or the process ended between the
\* refresh and the save.  Requests and scheduler that refresh at the same
\* time do not use up each other's token.
LiveSessionNotCondemned ==
    disabled => mislaid \/ mem.rt = None

\* Whoever takes the lock gives it back, on every path, although it is held
\* across a call of the upstream and across the writing of the file: nobody
\* waits for it for good (RefreshToken, SaveAtomic; a deadlock otherwise).
LockGivenBack == lock # NoWorker ~> lock = NoWorker
=============================================================================
