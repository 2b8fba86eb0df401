----------------------------- MODULE ChatAttempt -----------------------------
(***************************************************************************)
(* What one attempt of the chat handler on one account writes to the       *)
(* client (chatViaOpenAI and chatViaRelay of internal/server/handler.go):  *)
(* the OpenAI channel first, unless the mode is "relay", and in mode       *)
(* "auto" the relay channel (RelaySession.tla) if that endpoint is not     *)
(* enabled.  Gateway.tla has the same attempt as a few outcomes; here are  *)
(* the data.                                                               *)
(*                                                                         *)
(* The OpenAI endpoint tells its answer in increments, a tool call in      *)
(* fragments that name its index, or all at once as one JSON completion.   *)
(***************************************************************************)
EXTENDS RelaySession

CONSTANTS
    Mode,       \* cfg.Mode: "auto", "openai" or "relay"
    MaxPieces,  \* bound on the fragments of a call's arguments
    MaxLines    \* bound on the lines of one body

ASSUME ModeAssumption == Mode \in {"auto", "openai", "relay"}
ASSUME BodyAssumption == MaxPieces \in Nat /\ MaxLines \in Nat

\* The body of the OpenAI endpoint's answer: its style, the lines sent (for a
\* completion, those made of it) and the lines the client got, the fragments
\* of arguments sent for each call, the reason told, and how it ended.
VARIABLE body

chatVars == <<attemptVars, body>>

Styles == {"none", "refused", "sse", "json"}
NoBody == [style |-> "none", sent |-> <<>>, got |-> <<>>, pieces |-> <<>>,
           reason |-> "stop", end |-> "open"]

-----------------------------------------------------------------------------
(* ChatOpenAI                                                              *)

\* A transport error: the next account.
OpenAIFails ==
    /\ pc = "openai"
    /\ Fails
    /\ UNCHANGED <<cv, writeErr, gateway, ws, link, early, wantStream, body>>

\* The endpoint is not enabled: the relay channel (AutoRelayFallback is set in
\* mode "auto" only; in mode "openai" this is an error status as any other).
OpenAINotEnabled ==
    /\ Mode = "auto" /\ pc = "openai"
    /\ pc' = "start"
    /\ UNCHANGED <<relayVars, ws, link, early, wantStream, body>>

\* Any other error status, and a completion that cannot be read, ends the
\* request, and nothing is written.
OpenAIRefused ==
    /\ pc = "openai"
    /\ pc' = "done"
    /\ body' = [body EXCEPT !.style = "refused", !.end = "eof"]
    /\ UNCHANGED <<relayVars, ws, link, early, wantStream>>

OpenAIAccepted ==
    /\ pc = "openai"
    /\ pc' = "body"
    /\ body' = [body EXCEPT !.style = "sse"]
    /\ UNCHANGED <<relayVars, ws, link, early, wantStream>>

-----------------------------------------------------------------------------
(* A stream                                                                *)

\* Stream writes each line to the client, until a write fails; Aggregate
\* keeps it.
Line(b, line) ==
    /\ pc = "body" /\ Len(body.sent) < MaxLines
    /\ \/ /\ body' = [b EXCEPT !.sent = Append(@, line),
                               !.got = IF wantStream THEN Append(@, line) ELSE @]
          /\ UNCHANGED pc
       \/ /\ wantStream
          /\ body' = [b EXCEPT !.sent = Append(@, line), !.end = "left"]
          /\ pc' = "done"
    /\ UNCHANGED <<cv, writeErr, result, frames, strayed, ws, link, early,
                   wantStream>>

BodyText ==
    /\ phase = "going" /\ Len(said) < MaxText
    /\ \E t \in Tokens :
        /\ said' = Append(said, t)
        /\ Line(body, TextChunk(<<t>>))
    /\ UNCHANGED <<called, phase>>

\* A call begins under the next index; fragments of the calls' arguments
\* follow in any order between the calls.
BodyCall ==
    /\ phase = "going"
    /\ \E id \in ToolIds \ ToSet(called) :
        /\ called' = Append(called, id)
        /\ Line([body EXCEPT !.pieces = Append(@, 0)],
                ToolChunk(Len(called), id, <<>>))
    /\ UNCHANGED <<said, phase>>

BodyArguments ==
    /\ pc = "body" /\ phase = "going"
    /\ \E i \in DOMAIN called :
        /\ body.pieces[i] < MaxPieces
        /\ Line([body EXCEPT !.pieces[i] = @ + 1],
                ToolChunk(i - 1, NoId, <<body.pieces[i] + 1>>))
    /\ UNCHANGED <<said, called, phase>>

BodyStop ==
    /\ phase = "going"
    /\ phase' = "ended"
    /\ \E reason \in {"stop", "tool_calls"}, usage \in BOOLEAN :
           Line([body EXCEPT !.reason = reason], StopChunk(reason, usage))
    /\ UNCHANGED <<said, called>>

SawDone == \E i \in DOMAIN body.sent : body.sent[i] = DoneLine

BodyDone ==
    /\ phase = "ended" /\ ~SawDone
    /\ Line(body, DoneLine)
    /\ UNCHANGED <<said, called, phase>>

\* Mutant of BodyEnds: the end is written without a look at what was.
BodyEnds_Always ==
    /\ pc = "body"
    /\ body' = [body EXCEPT !.end = "eof",
                            !.got = IF wantStream THEN Append(@, DoneLine)
                                    ELSE @]
    /\ pc' = "done"
    /\ UNCHANGED <<relayVars, ws, link, early, wantStream>>

\* At its end a stream without [DONE] is given one; a stream that breaks, or
\* runs into the timeout of client.HTTP, is left as it is (Stream), or
\* answered with 502 (Aggregate).
BodyEnds ==
    /\ pc = "body"
    /\ \/ body' = [body EXCEPT !.end = "eof",
                               !.got = IF wantStream /\ ~SawDone
                                       THEN Append(@, DoneLine) ELSE @]
       \/ body' = [body EXCEPT !.end = "broken"]
    /\ pc' = "done"
    /\ UNCHANGED <<relayVars, ws, link, early, wantStream>>

-----------------------------------------------------------------------------
(* One completion                                                          *)

MaxCalls == 2   \* bound on the calls of a completion

Completions ==
    [text : BoundedSeq(Tokens, MaxText), reasoning : BOOLEAN,
     calls : {[i \in DOMAIN ids |-> [id |-> ids[i], args |-> <<1>>]] :
                 ids \in {s \in BoundedSeq(ToolIds, MaxCalls) : IsInjective(s)}},
     reason : {"stop", "tool_calls"}, usage : BOOLEAN]

\* A JSON completion is read whole.  It goes to the client as it is, or as a
\* stream.
OpenAICompletion ==
    /\ pc = "openai"
    /\ pc' = IF wantStream THEN "write" ELSE "done"
    /\ \E full \in Completions :
        /\ said' = full.text
        /\ called' = [i \in DOMAIN full.calls |-> full.calls[i].id]
        /\ body' = [body EXCEPT
                       !.style = "json", !.reason = full.reason,
                       !.end = IF wantStream THEN "open" ELSE "eof",
                       !.pieces = [i \in DOMAIN full.calls |-> 1],
                       !.sent = SingleChunk(full)]
    /\ UNCHANGED <<cv, writeErr, result, phase, frames, strayed, ws, link,
                   early, wantStream>>

\* WriteSingleChunkSSE writes the chunk and then [DONE]; its error is dropped.
CompletionWritten ==
    /\ pc = "write"
    /\ pc' = "done"
    /\ \/ body' = [body EXCEPT !.end = "eof", !.got = body.sent]
       \/ \E got \in {<<>>, Front(body.sent)} :
              body' = [body EXCEPT !.end = "left", !.got = got]
    /\ UNCHANGED <<relayVars, ws, link, early, wantStream>>

-----------------------------------------------------------------------------
(* Specification                                                           *)

\* Mode "relay" goes straight to the relay channel.
ChatInit ==
    /\ SessionInit
    /\ pc = IF Mode = "relay" THEN "start" ELSE "openai"
    /\ wantStream \in BOOLEAN
    /\ body = NoBody

OpenAICall == OpenAIFails \/ OpenAINotEnabled \/ OpenAIRefused
              \/ OpenAIAccepted \/ OpenAICompletion

BodyLine == BodyText \/ BodyCall \/ BodyArguments \/ BodyStop \/ BodyDone

ChatNext ==
    \/ OpenAICall \/ BodyLine \/ BodyEnds \/ CompletionWritten
    \/ SessionNext /\ UNCHANGED body

ChatSpec == ChatInit /\ [][ChatNext]_chatVars

\* The steps that write to the client, or that come after a write which may
\* not have returned: the server sets no WriteTimeout (cmd/server/main.go:79),
\* so a write lasts until the client takes it or leaves.
Writing ==
    /\ wantStream /\ ~writeErr
    /\ \/ BodyEnds \/ CompletionWritten
       \/ ReadEarly /\ UNCHANGED body
       \/ early = <<>> /\ Converts(StreamEnds) /\ UNCHANGED <<early, body>>

\* What comes to an end by itself: calls and streams of client.HTTP, which
\* has a timeout, dialling and the upgrade, which have a deadline.  TLS and
\* wsAuthInject have none.
Progress ==
    \/ OpenAICall
    \/ ~wantStream /\ BodyEnds
    \/ /\ UNCHANGED body
       /\ \/ NothingToSend \/ Begin \/ InjectEnds \/ HttpCalls
          \/ pc # "tls" /\ (Connects \/ ConnectFails)
          \/ (~wantStream \/ writeErr) /\ ReadEarly
          \/ /\ ~wantStream \/ writeErr
             /\ early = <<>> /\ Converts(StreamEnds) /\ UNCHANGED early

FairChatSpec == ChatSpec /\ WF_chatVars(Progress)

-----------------------------------------------------------------------------
(* Properties                                                              *)

\* Every variable stays in its domain.
ChatTypeOK ==
    /\ SessionTypeOK
    /\ pc \in SessionPc \cup {"openai", "body", "write"}
    /\ body.style \in Styles /\ body.end \in {"open", "eof", "broken", "left"}
    /\ Len(body.pieces) <= Len(called)

\* What the client makes of the answer of the OpenAI channel.
Received == Aggregate(IF wantStream THEN body.got ELSE body.sent)

\* The answer of the OpenAI channel reaches the client as the endpoint told
\* it, aggregated or not: text, finish reason, and the calls with all of
\* their arguments, however their fragments are mixed.  Of a completion made
\* into a stream the text and all the calls are written, in order, with their
\* arguments, and not the reason.  The calls are written without an index
\* (sse.go:216), so a client that collects them as Aggregate does, which
\* takes a missing index for zero, has them apart only if there is one at
\* most: it makes one call of two.
OpenAIAnswerKept ==
    /\ body.style \in {"sse", "json"} /\ body.end = "eof"
    /\ body.style = "sse" \/ wantStream
    => LET told == [i \in DOMAIN called |->
                      [id |-> called[i],
                       args |-> [n \in 1 .. body.pieces[i] |-> n]]]
           written == ToolChunks(body.got)
       IN  /\ Received.text = said
           /\ body.style = "sse" \/ Len(called) <= 1 => Received.calls = told
           /\ body.style = "json" =>
                  told = [i \in DOMAIN written |->
                             [id |-> written[i].id, args |-> written[i].args]]
           /\ body.style = "sse" => Received.reason = body.reason

\* A stream that ends, ends with one [DONE] (sse.go:244).  One that breaks
\* need not, although sse.go:244 promises it there too.
OneDone ==
    wantStream /\ body.end = "eof" /\ body.style # "refused" =>
        \A i \in DOMAIN body.got :
            body.got[i] = DoneLine <=> i = Len(body.got)

\* The attempt as the rotation sees it.  Without a stream the answer is
\* written at the end, at once.
WrittenToClient ==
    IF wantStream THEN cv.out # <<>> \/ body.got # <<>>
    ELSE pc = "done" /\ (result = "nil" \/ body.style \in {"sse", "json"})

Outcome ==
    [at |-> CASE pc \in {"openai", "body", "write"} -> "openai"
              [] pc = "done" -> IF result = "error" THEN "between" ELSE "over"
              [] OTHER -> "relay",
     answers |-> IF WrittenToClient THEN 1 ELSE 0,
     gone |-> writeErr \/ body.end = "left"]

Attempt == INSTANCE Responses
               WITH Requests <- {1}, response <- [r \in {1} |-> Outcome]

\* One attempt, chunk by chunk, keeps the contract the rotation rests on.
ImplementsResponses == Attempt!ResponsesSpec

\* An attempt comes to an end, unless the other side keeps silent.  Such sides
\* are two: the server of the WebSocket, for which ChatRelay waits without a
\* deadline, although the device is to be brought online at best effort and
\* the request not to be held up by it (relay.go:143-147); and a client that
\* stays and does not take what is written to it.  If writes to the client
\* return, the WebSocket is all that can hold the attempt.
AttemptEnds ==
    LET heldBySocket == <>[](pc \in {"tls", "inject"})
        heldByClient == <>[](wantStream /\ pc \in {"body", "write", "run"})
    IN  /\ <>(pc = "done") \/ heldBySocket \/ heldByClient
        /\ WF_chatVars(Writing) => <>(pc = "done") \/ heldBySocket
=============================================================================
