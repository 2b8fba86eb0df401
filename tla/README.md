# A verification project for autoclaw2api

autoclaw2api is a gateway: it offers an OpenAI-compatible API and answers each
request with one of several AutoClaw accounts. It picks an account from a pool,
talks to that account's cloud sandbox over one of two channels, and learns from
each answer whether the account may be used again, must rest, or is dead.

This directory holds TLA+ modules for that program, the TLC configurations that
check them, and TLAPS proofs about every part that is modelled: the account pool
and its pick policy, the server built on it, the credentials, the model list, the
relay converter and session, and the OpenAI channel. Paths in this file are
relative to `src/`.

## The system

| Part | State | Operations | Hard about it |
|---|---|---|---|
| Account pool, `internal/pool/pool.go` | index of accounts (points, errors, cooldown, disabled, reason, last use), dirty flag, state file | `Add`, `SyncToDir`, `PickExcluding`, `SetPoints`, `Cooldown`, `Disable`, `ReenableAfterManual`, `ReenableIfPoints`, `NoteError`, `NoteSuccess`, `Flush`, flusher goroutine, `load` | verdicts of concurrent requests overwrite each other; crash before a flush; failed writes; placeholder credentials after a restart |
| Pick policy (same file) | none | sort, cut to 5, 100 ms window, weighted draw, least recently used | ties, zero and negative balances, all accounts just used |
| Chat handler, `internal/server/handler.go` | per request: accounts tried, channel, what was written | rotation, `prepareAccount`, `chatViaOpenAI`, `chatViaRelay` | many error branches, a verdict owed for each, one answer owed to the client, clients that leave |
| Models endpoint (same file) | `dynamicModelsCache` | `fetchDynamicModels` | look under a read lock, fetch without, write under a lock |
| Scheduler, `internal/scheduler/scheduler.go` | snapshot of the pool | `RunMaintenanceNow` | acts on a snapshot and on balances read before other requests' verdicts |
| Relay converter, `internal/upstream/relay.go` | last text, tools seen, done | `run`, `handleFrame`, emitters | snapshots in several event forms, other runs on the same stream, errors amid a stream |
| Relay session, `relay.go`, `relay_ws.go`, `wsclient.go` | WebSocket, message being put together, event stream, run id | `ChatRelay`, `dialWS`, `wsAuthInject`, `NextMessage`, `writeFrames` | events before `agent/send` answers, fragments and control frames, missing deadlines |
| OpenAI channel and SSE, `openai.go`, `sse.go` | answer being aggregated | `ChatOpenAI`, `Aggregate`, `Stream`, `WriteSingleChunkSSE` | partial streams, tool calls in mixed fragments |
| Classification, `classify.go` | none | `Classify` | markers before statuses |
| Credentials, `internal/auth/auth.go`, `upstream/client.go` | one shared `Auth` per account and its file | `RefreshToken`, `EnsureSandbox`, `SaveAtomic`, `LoadDir` | fields read and written without the lock, two processes on one file |
| Process, `cmd/server/main.go` | goroutines | start, signal, shutdown | the flush happens before the handlers end |
| Tools, `cmd/login`, `cmd/maintain`, `cmd/credit` | files | sign in, one maintenance round, report | they share files with the server |

How they interact: handlers, models requests and the scheduler all call the one
pool; each of its methods holds `p.mu`, so a call is atomic and everything
between two calls, the upstream calls above all, is not. The flusher and the end
of the process meet the pool through its state file; `cmd/login` and the
operator meet it through the credential directory, which is scanned once, at
start. A handler drives the relay converter, which writes to the client itself:
so the client has read part of an answer before the handler knows whether the
attempt worked.

What makes each part correct:

- pool: deadline, kind and reason of a cooldown belong together; a dead account
  stays dead as long as the process lives, and in the file; what is not marked
  dirty is on disk; what a restart brings back is what was saved.
- pick policy: it is the documented draw, and it spreads load.
- handler: one answer per request, one verdict per attempt, an end to every
  request whose client and WebSocket let it end.
- scheduler: it never revives an account that was found dead meanwhile.
- models endpoint: a fetched list lives out its time; a failure is not repeated.
- converter: each token and each tool call exactly once, in order, one ending,
  nothing of a run that can be told apart from its own.
- session and channels: no event of the run is missed, a retry appends nothing to
  an answer already begun, aggregating loses nothing.
- credentials: the file always parses (unless two processes save at once), its
  tokens belong together and never go back, concurrent refreshes do not use up
  each other's token.

`PROJECT.json` lists the hazards behind these, each with its line.

## Modules

| Module | Models | Checked by |
|---|---|---|
| `PickPolicy` | how `PickExcluding` chooses, as operators on sets | `MCPickPolicy` |
| `Pool` (extends `PickPolicy`) | the pool, its file, flusher, process and credential directory | `MCPool` |
| `AccountLifecycle` | abstract: what an account may be used for, and what of that outlives the process | as a property of `Pool` |
| `Classification` | what a refused call becomes: `Classify` and the envelopes it is applied to | `MCGateway`, through `Gateway` |
| `Responses` | abstract: the contract between the handler's rotation and an attempt, as attempts and answers begun | as a property of `ChatAttempt` and of `Gateway` |
| `Gateway` (extends `Pool`, `Classification`) | concurrent chat requests and the scheduler over the pool | `MCGateway` |
| `ModelsCache` (extends `Pool`) | concurrent requests for the model list over the pool | `MCModels` |
| `RelayConverter` (extends `Sse`) | the converter, fed by a gateway and read by a client that may leave | `MCChatAttempt`, `MCRelay` |
| `WsClient` | frames written and messages read, as operators | `MCChatAttempt` |
| `Sse` | `Aggregate`, `WriteSingleChunkSSE`, as operators | `MCChatAttempt` |
| `RelaySession` (extends `RelayConverter`, `WsClient`) | `ChatRelay`: WebSocket, event stream, `agent/send`, run | `MCChatAttempt` |
| `ChatAttempt` (extends `RelaySession`) | one attempt of the handler: both channels and what the client gets | `MCChatAttempt` |
| `Credentials` | one `Auth` shared by goroutines, its lock, its file, refresh and sandbox | `MCCredentials` |
| `PoolProofs` (extends `Pool`) | theorems about the pool; the refinement of `AccountLifecycle` | TLAPS |
| `PickProofs` (extends `MCPickPolicy`: picks in a row, and the loops of the code) | theorems about the pick policy | TLAPS |
| `GatewayProofs` (extends `Gateway`, `PoolProofs`) | theorems about the server | TLAPS |
| `FoldFacts` | what a fold computes, for an operator that is a parameter of the module | TLAPS |
| `RelayProofs` (extends `RelayConverter`) | theorems about the converter | TLAPS |
| `ChatProofs` (extends `ChatAttempt`, `RelayProofs`) | theorems about the WebSocket client, the session, `Aggregate` and the OpenAI channel | TLAPS |
| `CredentialsProofs`, `ModelsProofs` | theorems about `Credentials` and `ModelsCache` | TLAPS |

`Gateway` and `ChatAttempt` are two views of one attempt: `Gateway` has many
requests over one pool and knows of an attempt which step it is in and how it
ends; `ChatAttempt` has one attempt with its data. What the two must agree on is
`Responses`, and both implement it.

### Responses

Of each request: whether it is between attempts, in one over the OpenAI channel,
in one over the relay channel, or returned; how many answers were begun; whether the
client left. An answer begins only if it is the first or the client is gone
(`Answers`), the next account is tried only if nothing was written or the client is
gone (`Rotates`), and `ChatRelay` reports a success only of an answer (`EndsRelay`).
The OpenAI channel owes no answer, since a refusal there writes none
(`EndsOpenAI`, and the finding of `gateway_unanswered`). `Gateway!ResponseOf` reads
this off a handler, `ChatAttempt!Outcome` off one attempt, for which "between" is an
attempt that returned an error. `Responses` has no fairness: that requests end is
said where the steps are.

### Pool

`entries` is `byUID`, `dirty` the atomic flag, `file` the content of the state
file. `proc` is where `main` is: `loaded` after `pool.New`, `running` after
`SyncToDir`. `dir` is the set of accounts with a credential file. Each method is
one action because it holds `p.mu` throughout; `Update` is what the setters have
in common: nothing for an unknown account, the new entry and the dirty flag for a
known one. `Pick` and `Add` do not set the flag, as in the code. `SaveLocked`
either replaces the file (temporary file and rename) or, if the disk may fail,
leaves it and says nothing. `relogged` is history: who signed in since being
disabled.

`disabled` is a flag beside the cooldown: `Disable` (`pool.go:294`) keeps deadline
and kind, and a `Cooldown` that another request reports after it replaces the
reason. So a dead account may show the reason and the deadline of a later 429, and
`AccountsCoherent` says only that deadline, kind and reason of one cooldown stay
together.

Time is a natural number; the zero time is 0 and lies before every clock reading.
`successCount`, `lastErr` and `lastSuccess` are left out: they are shown by
`/status` and read by nothing else.

### Gateway

A handler's `pc` names the call it is in. Steps end at upstream calls; the pool
calls are the actions of `Pool`, so `Verdict` is the if-else chain that follows
each failure. `PrepareFails`, `OpenAITransportFails` and `RelayFails` are the
three places of it. `OpenAIRefuses` is `return true, st, &upstream.Error{...}`,
whose error the caller drops. `RelayFirstChunk` separates a relay attempt that has
written from one that has not; only a client that left makes a later write fail.
`FallBackToRelay` belongs to mode auto alone: `NewHandler` sets `AutoRelayFallback`
to `Mode == "auto"` (`handler.go:65`), whatever `main.go:53` says, so in mode openai an
endpoint that is not enabled is a refusal as any other.
`answers` counts answers begun, `verdicts` the calls that report an attempt.
The scheduler's `todo` is its `List` snapshot. `dead` and `promised` are history
for the properties.

### Classification

A response is its status, the code of its envelope and which families of markers
its text names. `Classify` keeps the order of the code: code, text, status.
`UserAPIError` and `RelayAPIError` are the error paths of `doJSON` and
`doRelayJSON`. `PrepareKinds` and `RelayKinds` are what the two fallible parts of
an attempt can fail with, and `Gateway` draws its failures from them.

### ModelsCache

`Look` is what happens under the read lock; then one step for each of `Pick`,
`Status`, `prepareAccount`, `FetchModels`, and the locked write. `Around` lets
the clock tick and chat requests disable accounts meanwhile.

### RelayConverter

Text is a sequence of tokens since `emitText` compares prefixes. The emitters and
handlers are functions from converter to converter, named as in the code, so a
frame is one application of `HandleFrame`. `Deliver` lets the client take all
chunks written for a frame, or fail at any of them. The gateway is outside the
repository: it tells one answer in the event forms that `handleChat`,
`handleAgent` and `handleAgentStream` understand and that
`docs/reverse-notes.md` describes, repeats itself, ends the run in any form, more
than once, and mixes in the runs of other requests, which share the session when
they name no user (`relay.go:78`). Their events carry their run's id, or only the
session, like those of the run itself. `handle` takes every event that names only
the session (`relay.go:421`), so such an event may add to the answer, end it or fail
it: `strayed` remembers that there was one, and what the properties say of the
content is said of streams without.

### WsClient, Sse

Of a frame written, the length and its encoding count, so `WriteFrames` maps the
length of a text to frames and `DecodeLength` reads a header back. Of a frame read,
FIN, opcode and a payload of pieces: `NextMessage` takes one frame and is at the
top, within fragments, has a message, or is at the end. `WriteFrames` sets FIN on
every frame, as the code does, and `FirstMessage` is what a reader that goes by FIN
takes for the message: for a text beyond 128 KiB its first fragment. A line of a stream is
`[DONE]` or a chunk with one thing in it; `Aggregate` folds `Absorb` over them, and
`MergeToolCallDelta` puts the fragments of a call together by its index.

### RelaySession

`pc` is where `ChatRelay` is: dialling, TLS, upgrade, `auth.inject`, then the HTTP
calls of `CallOrder` and the run. The server of the WebSocket may send its verdict
and other documents whole or in fragments, with control frames between them, and
close. The gateway may start the run before `agent/send` answers and tell an event
then, which reaches us only if the event stream is open (`early`). The call may
answer without a run id, fail with the run started, or fail without. Nothing is
read from the WebSocket once the device is online, so its state is dropped.

### ChatAttempt

Starts in `openai` (modes auto and openai) or in `start` (mode relay). The endpoint
fails, is not enabled (which leads to `start` in mode auto only), refuses, streams
increments with tool calls in fragments, or answers with one completion of up to
two calls. `body` keeps what was sent and what the client got; `Line` is `Stream`
writing a line, which may fail because the client left, or `Aggregate` reading it.
A completion is read whole, and for a client that wants a stream its chunk and
`[DONE]` are written in a step of their own (`CompletionWritten`), which may fail.

### Credentials

One account: those of different accounts share nothing. Goroutines are the
requests and the scheduler. `RefreshToken` and `SaveAtomic` hold `Auth.mu`
throughout, the HTTP call and the writing included, and have a step per write;
`NeedsRefresh` and `EnsureSandbox` take no lock, so each access is a step. An answer
may lack the sandbox id: then the fields are written, `HasId` fails, and neither
caller saves (`client.go:426`). A token is the number of the refresh or sign-in that
issued it; the upstream may replace the refresh token with each refresh, and the
answer may be lost. `Start` is the server or one `cmd/maintain` round, one of them at
a time.

`cmd/login` is a process beside them, and saves in the same three steps: `SignIn`
opens `<file>.tmp`, `LoginWrites`, `LoginRenames`; it may be stopped in between. `file`
and `tmp` are absent, torn or whole, and `opened` says where the file that a process
opened as `<file>.tmp` is by now: still there, renamed to the credential file by the
other process, or lost. `Overlaps` says whether both may save at once. Without it
every save finds the temporary file to itself; with it the run `login_overlap` shows
what happens.

## Runs

Passing:

| Run | Instance | Shows |
|---|---|---|
| `pick_policy` | 4 accounts, points -1..1, top 3, window 2, 3 instants | the policy is the loops of the code (`MatchesReference`); the draw is by points; no pick inside the window unless all candidates are |
| `pool` | 1 account, threshold 2, 3 instants, failing disk | types, coherence, credentials, disabled is sticky; `Pool` implements `AccountLifecycle` |
| `gateway_relay` | 2 requests, 2 accounts, relay mode, clients leave | every request that ends was answered; one verdict per attempt |
| `gateway_restart` | 1 request, scheduler, auto mode, state file on a disk that works, restarts, sign-ins, clients leave | never two answers nor two reports, over the fallback; the contract of `Responses` is kept; an account found dead is not served again, one dead on disk not by a later process unless someone signed in; a clear dirty flag means the file is up to date; a disabled account reaches the disk; maintenance rounds and requests end |
| `models_cache` | 2 requests, 1 account, list lives 3, failures 2, 6 instants | a list lives out its time whatever fails |
| `chat_attempt` | mode auto, 2 tokens, text up to 3, 2 tools in 2 pieces, 4 events, 6 lines, completions of 2 calls, `auth.inject` of lengths on both sides of each limit, failing runs, other requests' events with and without a run id, events before the answer of `agent/send`, no run id | each token and call once and in order, streamed or aggregated, on both channels; one ending, one `[DONE]`; a failure is told; the verdict of `auth.inject` is heard; an attempt keeps the contract of `Responses`, so what is retried wrote nothing; attempts end unless the WebSocket or the client holds them |
| `credentials` | 1 request and scheduler, 2 tokens, 1 sandbox, answers without an id, failing disk, crashes, `cmd/maintain`, sign-ins that do not overlap a save | the file parses, its tokens match and never go back; a live session is not condemned; when nothing runs, the tokens are saved, and the sandbox if there is one; the lock is given back |

Why these bounds are enough: the pool's methods read and write one account, so one
account exhausts their interleavings, and the second is there where accounts meet
(a rotation); what is proved (below) holds for any number anyway. A request and
the scheduler are the two roles that can hold a stale view of one account, and two
requests (`gateway_relay`, `gateway_cooldown_shortened`) those that report on it
at once. The threshold 2 is the least with a count that can be below it. Durations
keep the order soft <= error < hard, and the clock outlasts the longest one in
`pool`, where that matters. Four events hold any of these with an end: text and a
call, a repeated snapshot, an event of another request before and after the
answer's, two ends in a row. Six lines hold a call, another call, a fragment for
each in either order, the finish reason and `[DONE]`. Two tokens are the one
signed in with and one that replaces it, by a refresh or a sign-in; `0` is no
token; two goroutines are all that can hold and await one lock. One sandbox, or an
answer without an id, leaves fields old, new or empty; fields of two sandboxes are
in the theorem (`QuietIsSaved`), not in the run. Symmetry is used for requests and
readers only, which nothing orders, and in no run with liveness.

Deadlock is checked in every run but those of `ChatAttempt` and of
`RelayConverter` alone, where an attempt that has ended stays so.

Violated, each stating what a comment or document of the repository says
(`PROJECT.json`, findings, quotes the line):

| Run | What TLC finds |
|---|---|
| `gateway_unanswered` | a refusal on the OpenAI channel returns `handled` with nothing written: the client gets an empty 200 (and the pool is not told, so 402 and 429 there cool nothing) |
| `gateway_cooldown_shortened` | a 429 seen by a concurrent request replaces the 12 h cooldown by 60 s |
| `pool_restart_enables` | signing in again and restarting does not enable an account |
| `login_overlap` | `cmd/login` and the server save at once through one `<file>.tmp`: one renames what the other has cut off, and the credential does not parse |
| `relay_increments` | with increments, repeated tokens are lost |

`AnsweredWhenDone` and `EveryAttemptJudged` hold in relay mode, where they are
proved, and fail on the OpenAI channel; `TextIsTheAnswer` holds for snapshots and fails for increments.

The models also contain these departures from what the repository says, which no
run of their own demonstrates:

- `pool.go:143` clears the dirty flag before it saves and drops the error, so after
  a failed write nothing is written until the next change. `CleanMeansSaved` is
  stated for a disk that works (`DiskFaults = FALSE`).
- `pool.go:156` says `SyncToDir` keeps the state of accounts that vanish; it saves
  the file without them.
- `pool.go:320` thaws an account whose balance is zero, and the balance that thaws
  one may have been read before the account ran out (`MaintPoints`, then `Verdict`,
  then `MaintThaw`).
- `relay.go:130` says `ChatRelay` fails only before it has written; a write that
  fails later is an error too (`RelayWriteFails`) and the rotation goes on. Only a
  client that left makes a write fail, so no one reads the second answer
  (`ImplementsResponses`, `AtMostOneAnswer`). An answer of `agent/send` that is lost
  makes the rotation run the request again, although the first run may go on.
- `relay.go:581` says an error ends the answer as usual; `emitError` leaves `done`
  unset and more chunks may follow, which is why the half of
  `DoneEndsTheAnswer` about `stop` speaks of runs that do not fail.
- `relay.go:413` filters events by run and session; one that names only the session
  is nobody's in particular and is taken (`TellForeign`, `strayed`).
- `relay.go:357` says a transport error has come out elsewhere; a broken stream is
  reported as a complete answer (`StreamEnds`).
- `handler.go:187` counts a dead session as an error where README.md:117 says the
  account is disabled; and requests that looked at the model cache before a
  failure still ask the upstream after it.
- `relay.go:147` brings the device online at best effort, so that the WebSocket does
  not hold the request; TLS and `wsAuthInject` have no deadline for a peer that keeps
  silent (`AttemptEnds` excepts them, as `RequestsFinish` excepts `ChatRelay`).
- Without a run id from `agent/send` the converter drops every event that carries
  one, the run's own included; and `run` reads on after the run's end until the
  stream ends.
- `wsclient.go` sets FIN on each fragment it writes and takes a close frame within
  a fragmented message for data. The first bites only above 128 KiB, where a server
  reads the first fragment as the message, against the comment at `wsclient.go:172`:
  `FramesDecode` says that the text is one message up to there.
- `sse.go:244` promises `[DONE]` after a read error too; `Stream` returns at 272
  before it. `WriteSingleChunkSSE` always finishes with `stop` and drops the
  reasoning (`OpenAIAnswerKept` leaves these out), and it copies the calls without an
  index (`sse.go:216`): a reader that takes a missing index for zero, as `Aggregate`
  does, makes one call of two. `OpenAIAnswerKept` says what is written, and what such
  a reader has when there is one call.
- `main.go:53` turns the fallback on, and `handler.go:65` off again in mode openai.
  `NotEnabled` is asked before
  `Classify`, so a 404 with a marker of a dead session falls back.
- An answer of the upstream without a sandbox id is written into the `Auth` and not
  saved (`client.go:426`): file and memory differ until the next request that gets
  one.
- A `Cooldown` after a `Disable` gives a dead account the reason of the cooldown.
- A crash between `RefreshToken` and `SaveAtomic`, or a failed save before one,
  loses a replaced refresh token, and the next process is signed out (`mislaid`).
- `ExpiresAt` is never moved (`docs/reverse-notes.md:44` has the lifetime): once due,
  each request refreshes.
- `EnsureSandbox` writes three fields without the lock: a save in between stores a
  half, two goroutines may mix theirs, and two requests may apply for two
  sandboxes. Only the run's single sandbox keeps mixtures out of the instance.
  `QuietMeansSaved` is about moments when none is at work.
- Every request saves the credential that the process loaded: over what `cmd/login`
  wrote since (`TokensNeverGoBack` excepts it).
- A comment at `scheduler.go:60` has cooling accounts skip the token refresh; only
  disabled ones are skipped. README.md has the scheduler wake sandboxes; it does
  not.

## Fairness

`FairGatewaySpec` asks that a handler and a maintenance round that have started
take their next step, and that the flusher's ticker, which never stops while the
process lives, comes. Every HTTP call ends because `client.HTTP` has a positive
timeout (`config.go` makes it so) that covers the body. Two places are excepted
(`MovesOn`): a handler in `ChatRelay`, whose WebSocket may wait without a deadline, and
one that writes an answer to a client that stays, since the server has no
`WriteTimeout` (`main.go:79`) and a client that does not read holds the write. Error
responses are counted as written: they are a few hundred bytes, because messages
are cut, and fit the buffers of a response.

`FairChatSpec` asks the same of one attempt (`Progress`): HTTP calls and streams end,
dialling and the upgrade have a deadline, TLS and `wsAuthInject` have none, and steps
that write to a client who stays (`Writing`) are not among them. `AttemptEnds` then has
two parts: an attempt ends unless the WebSocket or the client holds it for good; and
if writes return, the WebSocket is all that can.

`FairCredSpec` asks it of each goroutine that does not wait for the lock: that the
lock is given back follows from there, and no fairness is asked of taking it.
Nothing is assumed of
new requests, of the clock, of clients, of events, or of the upstream's answers.

## Proofs

`PoolProofs` proves, for every set of accounts, every threshold, every duration
and any length of time, from the named assumptions on the constants:

- `TypeCorrect`: `Spec => []TypeOK`. `TypeOK` is inductive. One step per action;
  the setters share `UpdateType`, saves `SaveType`, upserts `UpsertedType`.
- `CoherenceHolds`: `Spec => []AccountsCoherent`. Inductive relative to `TypeOK`.
  It speaks of the file as well as of memory because a boot reads back what was
  saved: without the half about the file `Boot` could not be proved. It says of a
  disabled account that its reason is that of its cooldown or the dead session, not
  which came last.
- `StickyDisabled`: `Spec => DisabledIsSticky`. An action property; it needs that
  a process that is down has no accounts in memory (`DownIsEmpty`), since `Boot`
  replaces the whole index.
- `CleanIsSaved`: `Spec => []CleanMeansSaved` if `DiskFaults` is false. The
  inductive invariant `CleanInv` adds what holds while the process is down or has
  only loaded: the flag is clear and memory is exactly the file, from which
  `SyncToDir` adds and removes accounts without making a file entry wrong.
- `CredentialsComplete`: `Spec => []RunningHasCredentials`.

It also proves `PoolImplementsLifecycle`: `Spec => ImplementsLifecycle`, on a disk
that may fail. Setters are moves of one account (`UpdateMoves`), the clock is
`Recover` of all whose deadline it passes, a flush is `Save` or nothing, `Boot` is
`Restore`, `SyncToDir` is `Align`. It needs `DownIsEmpty`, since `Restore` starts
from nothing, and that no file is made that is not configured.

`PickProofs` proves, for any finite set of accounts, any balances and any window:

- `DrawIsFair`: `MCSpec => []DrawnByPoints`. `TotalPoints` adds up in whichever order
  `CHOOSE` takes the accounts, so the sums of all subsets are shown to exist
  (`SumsExist`), to agree (`SumsAgree`) and to let any account be added first
  (`SumsAdd`). Then an account is drawn by the numbers from the points of those
  before it, as many as it has points (`DrawnInside`).
- `PicksSpread`: `MCSpec => SpreadsWithinWindow`, an action property.
- `PolicyIsLoops`: `MCSpec => []MatchesReference`. `MCPickPolicy` has the code loop by
  loop: each loop over the slice is a fold of its body, `sort.Slice` a permutation
  into the order of `less`. That such a list exists, for any finite number of
  candidates, is shown by induction on their number; the cut of that list is `Best`,
  the fold of each loop is an instance of `FoldFacts`, and the scan for a random
  number `r` carries `r` in what it folds.

`GatewayProofs` proves, for any number of requests and accounts, every mode and
`MaxRotate`, with restarts and clients that leave:

- `GatewayTypeCorrect`, `OneAnswer`, `JudgedOnce`, and for mode relay
  `RelayJudgesAll` and `RelayAnswers`. The invariant `GatewayInv` says of each request
  by itself what it needs (`Sound`, `SoundInRelay`): its answers by where it is, its
  verdicts as the size of `tried` less the attempt under way. A handler changes only
  its own request, so no invariant relates two. That an attempt counts once rests
  on `PickExcluding` never returning an account of `tried` (`PickIsCandidate`).
- `GatewayImplementsPool`: every step is one operation of the pool or none (`Uses`).
  It holds by how `Gateway` is built, of the actions of `Pool`, and is no finding about
  the code; with it the theorems about the pool hold in the server: `GatewayCleanIsSaved`,
  `GatewayImplementsLifecycle`.
- `DeadStaysAway`: what requests or scheduler found dead is disabled in the pool as
  long as the process runs (`DeadInv`), since no report of the server enables an
  account (`UseKeepsDisabled`), and a pick takes none that is disabled.
- `SavedStaysAway`: the property excepts accounts signed in to since, which
  README.md:117 says are enabled again; the proof has no need of the exception.
  Memory never says less of a disabled account than the file (`SavedInv`). Between
  `New` and `SyncToDir` memory must have every account of the file, or one could
  join anew in its initial state.
- `RotationEnds`, `RoundEnds`: the safety half of `RequestsFinish` and
  `MaintenanceFinishes`. `StepsLeft` counts five steps for each account a request may
  still try, and one; every step of its handler lowers it and no step of anyone
  raises it until the slot takes another request. `MaintLeft` does the same for a
  round with six steps for each account of its snapshot; that the snapshot is finite
  is the hypothesis that `Uids` is. What they leave to fairness is only that a handler
  or round that can take its step takes it.
- `RotationKeepsResponses`: `GatewaySpec => KeepsResponses`, in every mode, which
  `gateway_restart` checks for one request.
- `ContractGivesOneAnswer`: `KeepsResponses => []AtMostOneAnswer`. The contract alone,
  without the accounts and verdicts of `GatewayInv`, is enough for one answer.

`CredentialsProofs` proves, for any number of requests, tokens and sandboxes:
`CredTypeCorrect`, `FileAlwaysParses`, `SavedTogether`, `SessionSurvives`,
`FileNeverGoesBack`, `QuietIsSaved`. `FileAlwaysParses` has the hypothesis `~Overlaps`:
then one process at most is between opening and renaming the temporary file
(`SavesApart`), and what it renames it has written. The others hold with `Overlaps` too:
a file that is torn has no tokens to be wrong. The invariant `CredInv` says who is between the lock's taking and
giving back (`LockHeld`), that tokens in memory, in a document being saved and in
the file are pairs of one refresh (`MemoryPaired`, `SavedPaired`), that a document
on its way to the file is what memory holds and that the file is never ahead of
memory, and that the token in memory is accepted unless it was lost (`SessionLives`).
`QuietIsSaved` (`QuietMeansSaved`) adds `SyncInv`: as long as no goroutine is between a
change and its save, whatever is on its way to the file is what memory says, and
so is the file when nothing is on its way.

`ModelsProofs` proves `ListOutlives`, for any number of readers: the cache has a list
exactly when a fetch succeeded, with the time of the last.

`FoldFacts` is what makes the rest provable. The chunks of a stream, the parts of a
content array, the lines `Aggregate` reads and the bytes of a length are all folds
(`FoldLeft`), and theorems with an operator as a parameter cannot be used. So the
operator is a constant of the module, each fold of the models is an INSTANCE of it,
and induction is stated for sets of numbers instead of predicates (`Induction`, from
the well-foundedness of the numbers). `FoldAppend` gives the step, `FoldInto` an
invariant of a whole fold, `FoldConcat` cuts one in two. A lemma says of each model
operator that it is its fold.

`RelayProofs` proves, for any tokens, calls and bounds:

- `StreamIsRight`: `RelaySpec => [](DoneEndsTheAnswer /\ ToolsAnnouncedOnce /\
  FailureIsTold)`. Each emitter keeps `Sound` (what was emitted ends once, its calls are
  numbered, what was seen is what was announced), so each handler does, so each
  event form of the gateway does. `RelayInv` relates converter and gateway: as long
  as the client is there, the calls announced are those called (`Follows`); after it
  left, what was written is a beginning of that (`Kept`, which survives a cut).
- `TextIsRight`: `RelaySpec => []TextIsTheAnswer` if the gateway tells snapshots
  (`~Incremental`). It needs that the last text is a beginning of the answer, and
  all of it after an event that tells it (`Caught`). With increments it is false,
  which `relay_increments` shows.

`ChatProofs` proves, for any tokens, calls, lengths and bounds:

- `VerdictHeard`, `FramesRead` (of a text beyond 128 KiB only that its frames are
  read and carry all of it). `WsInv` says that the reader has the half of a document
  that the server has sent of it, whatever control frames came between. That a
  length is read as it was written needs the eight bytes put together, and the sum
  of the lengths needs induction over the frames.
- `DoneIsLast`, `CallsAnnouncedOnce`, `FailuresTold`, `RetryWritesNothing`, and for
  snapshots `NothingIsMissed`. `SessionInv` extends `RelayInv` to the calls before the
  stream: nothing is written before the run is read (`Idle`), and what was told
  before `agent/send` answered waits, as one text event, in a stream that is open
  (`Waits`, `LinkInv`), which is what the order of the two calls is for. What they
  say of text, calls and failures is about streams that no event of another request
  without a run id strayed into.
- `BufferIsRight`, for snapshots: `Aggregate` collects of any output with numbered calls
  what a client puts together of it (`Collected`, by `FoldFacts` over `Absorb`).
  `sortInts` returns the indexes from zero in order (`IndexesInOrder`).
- `AnswerIsKept`, `EndsOnce`: `BodyInv` says, of a body that streams, that what was sent
  collects to the answer told so far, in every mix of fragments, and that the
  client has what was sent. Of a completion `CompletionInv` says which chunk is made of
  it: its calls have no index, so that collected by index they are one at most,
  and written they are all there, in order.
- `AttemptTyped`: `ChatSpec => []ChatTypeOK`.
- `AttemptKeepsContract`: `ChatSpec => ImplementsResponses`. Each step of an attempt is
  a step of `Responses` or leaves it alone. It needs the invariants above and that
  what was begun stays begun: every emitter, handler and delivery, cut short or not,
  only adds to what the client has (`Further` in `RelayProofs`). `RetryWritesNothing` is
  the invariant of the same fact, about an attempt that returned an error.

Together: an attempt with its data keeps the contract, the rotation of concurrent
requests keeps it and takes nothing else of an attempt, and the contract gives one
answer.

The models were put into a form that can be reasoned about where they were not:
the cases of `Handle`, `NextMessage` and `Classify` exclude each other, loops are folds of
one named step, and `InOrder` says what `sortInts` returns.

Every invariant, action property and refinement that a passing run checks is also a
theorem. Model-checked only is liveness: `AttemptEnds`, `RequestsFinish`,
`MaintenanceFinishes`, `DisableReachesDisk`, `LockGivenBack`. It rests on fairness and on
`ENABLED`, which the prover has not. Of the second and third, the descent that the
argument needs is proved (`RotationEnds`, `RoundEnds`).

## Not modelled

- Two processes on the same files at the same time, beyond a sign-in: nothing in
  the code keeps them apart, and the outcome is whatever the file system does.
- Tool calls without an id, increments and snapshots in one run, and events older
  than the last: outside what `docs/reverse-notes.md` says the gateway sends.
- The order of `Flush`, `Shutdown` and handlers still running: a process may end at
  any point in the models, which covers it for what must survive; what a handler
  reports after the last flush is lost, as with a crash.
- Signatures, headers and URLs, the rewriting of the request body, masking and TLS,
  wording, logs and usage numbers: data no state depends on.
- Configuration parsing, the interactive sign-in, `cmd/credit`, `/status` and
  `/healthz`: pure I/O or reads only.

What could still be added: a model of two processes on one credential directory,
once the code says how they are kept apart; events older than the last, once a
document says that the gateway sends them.
