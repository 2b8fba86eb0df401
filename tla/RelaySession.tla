---------------------------- MODULE RelaySession -----------------------------
(***************************************************************************)
(* One request over the relay channel (ChatRelay of internal/upstream/     *)
(* relay.go): the device is brought online over a WebSocket (WsClient.tla) *)
(* if that can be done, the event stream is opened, agent/send starts the  *)
(* run, and the events are converted (RelayConverter.tla) into a stream    *)
(* for the client, or into a buffer that chatViaRelay aggregates (Sse.tla).*)
(*                                                                         *)
(* The WebSocket, once the device is online, is only kept open: nothing is *)
(* read from it, so its state is dropped from the model then.  The events  *)
(* the gateway tells before agent/send has answered wait in the open       *)
(* stream; one is enough to tell whether the stream was open in time.      *)
(***************************************************************************)
EXTENDS RelayConverter, WsClient

CONSTANT InjectLengths   \* the lengths auth.inject may have, in bytes

ASSUME LengthAssumption == InjectLengths \subseteq Nat \ {0}

VARIABLES
    pc,          \* where the request is
    ws,          \* the WebSocket while the device is brought online
    link,        \* the event stream is open; the gateway has started the run
    early,       \* events in the stream before run reads it
    wantStream   \* the client asked for a stream

sessionVars == <<pc, ws, link, early, wantStream>>
attemptVars == <<relayVars, sessionVars>>

SessionPc == {"start", "dial", "tls", "upgrade", "inject", "events", "send",
              "run", "done"}

\* sent: the frames of auth.inject, length bytes of text in all; part: the
\* document of which the server has sent the first fragment only; told: the
\* verdict the server has sent whole.
NoWs == [state |-> "none", length |-> 0, sent |-> <<>>, rd |-> NoMessage,
         part |-> <<>>, told |-> "none"]

Fails == result' = "error" /\ pc' = "done"

-----------------------------------------------------------------------------
(* The WebSocket, best effort                                              *)

\* Mutant of CallOrder: the run is started before anybody listens.
CallOrder_SendFirst == <<"send", "events", "run">>

\* The HTTP calls in order: listening comes first, so that no event is missed.
CallOrder == <<"events", "send", "run">>

FirstCall == CallOrder[1]
CallAfter(p) == CallOrder[1 + CHOOSE i \in 1 .. 2 : CallOrder[i] = p]

\* No endpoint, or no user text in the body: an error before any call.
NothingToSend ==
    /\ pc = "start"
    /\ Fails
    /\ UNCHANGED <<cv, writeErr, gateway, ws, link, early, wantStream>>

\* An endpoint that names no sandbox has no WebSocket.
Begin ==
    /\ pc = "start"
    /\ pc' \in {"dial", FirstCall}
    /\ UNCHANGED <<relayVars, ws, link, early, wantStream>>

\* dialWS: the connection, TLS, and the upgrade, which is refused without 101
\* and the right accept key.  TLS has no deadline.
Connects ==
    /\ \/ pc = "dial" /\ pc' = "tls" /\ UNCHANGED ws
       \/ pc = "tls" /\ pc' = "upgrade" /\ UNCHANGED ws
       \/ /\ pc = "upgrade" /\ pc' = "inject"
          /\ \E n \in InjectLengths :
                 ws' = [NoWs EXCEPT !.state = "waits", !.length = n,
                                    !.sent = WriteFrames(n)]
    /\ UNCHANGED <<relayVars, link, early, wantStream>>

\* Mutant of ConnectFails: the connection is tried again.
ConnectFails_Again ==
    /\ pc \in {"dial", "tls", "upgrade"}
    /\ pc' = "dial"
    /\ UNCHANGED <<relayVars, ws, link, early, wantStream>>

\* Without the device the calls are made all the same.
ConnectFails ==
    /\ pc \in {"dial", "tls", "upgrade"}
    /\ pc' = FirstCall
    /\ UNCHANGED <<relayVars, ws, link, early, wantStream>>

\* wsAuthInject waits in NextMessage, which takes a frame and returns or goes
\* on.  A message that says nothing is forgotten.
Heard(f) ==
    LET rd == NextMessage(ws.rd, f)
    IN  [ws EXCEPT !.rd = IF rd.at = "message" THEN NoMessage ELSE rd,
                   !.state = AfterMessage(rd)]

ServerSends(f, part, told) ==
    /\ pc = "inject" /\ ws.state = "waits"
    /\ ws' = [Heard(f) EXCEPT !.part = part, !.told = told]
    /\ UNCHANGED <<relayVars, pc, link, early, wantStream>>

\* The server sends its verdict and other documents, whole or in fragments,
\* with control frames anywhere between them, and may close at any frame.
Documents == {InjectOk, InjectError, <<"other1", "other2">>}
Closed == <<"closed">>
Verdict(doc) == CASE doc = InjectOk -> "ok"
                  [] doc = InjectError -> "error"
                  [] OTHER -> "none"

ServerControls ==
    /\ ws.part # Closed
    /\ \/ \E op \in {"ping", "pong"} :
              ServerSends(Frame(TRUE, op, <<op>>), ws.part, ws.told)
       \/ ServerSends(Frame(TRUE, "close", <<"close">>), Closed, ws.told)

ServerTells ==
    \/ /\ ws.part = <<>>
       /\ \E doc \in Documents :
          \/ ServerSends(Frame(TRUE, "text", doc), <<>>, Verdict(doc))
          \/ ServerSends(Frame(TRUE, "binary", doc), <<>>, "none")
          \/ ServerSends(Frame(FALSE, "text", <<Head(doc)>>), doc, "none")
    \/ /\ ws.part \in Documents
       /\ ServerSends(Frame(TRUE, "continuation", Tail(ws.part)), <<>>,
                      Verdict(ws.part))

\* A read fails, or the 25 s have passed when a message is looked at.
InjectGivesUp ==
    /\ pc = "inject" /\ ws.state = "waits"
    /\ ws' = [ws EXCEPT !.state = "failed"]
    /\ UNCHANGED <<relayVars, pc, link, early, wantStream>>

\* Online or not, the HTTP calls follow.
InjectEnds ==
    /\ pc = "inject" /\ ws.state \in {"online", "failed"}
    /\ ws' = NoWs
    /\ pc' = FirstCall
    /\ UNCHANGED <<relayVars, link, early, wantStream>>

-----------------------------------------------------------------------------
(* The calls                                                               *)

\* openRelayEvents.
EventsOpen ==
    /\ pc = "events"
    /\ link' = [link EXCEPT !.open = TRUE]
    /\ pc' = CallAfter("events")
    /\ UNCHANGED <<relayVars, ws, early, wantStream>>

\* The gateway takes agent/send and starts the run: its first event may come
\* before the answer of the call.
RunStarts ==
    /\ pc = "send" /\ ~link.started
    /\ link' = [link EXCEPT !.started = TRUE]
    /\ UNCHANGED <<relayVars, pc, ws, early, wantStream>>

TellEarly ==
    /\ link.started /\ pc # "run" /\ result = "running"
    /\ said = <<>>
    /\ \E own \in Owners, t \in Tokens :
        /\ said' = <<t>>
        /\ \E ev \in TextEvents(own, said', <<>>) :
               early' = IF link.open THEN <<ev>> ELSE <<>>
    /\ UNCHANGED <<cv, writeErr, result, called, phase, frames, strayed, pc,
                   ws, link, wantStream>>

\* agent/send answers, with the run's id or without (extractRunID).
SendAnswers ==
    /\ pc = "send" /\ link.started
    /\ \E id \in {RunID, NoRun} : cv' = NewConverter(id)
    /\ pc' = CallAfter("send")
    /\ UNCHANGED <<writeErr, result, gateway, ws, link, early, wantStream>>

\* A call is refused or gets no answer; the run may have been started.
CallFails ==
    /\ pc \in {"events", "send"}
    /\ Fails
    /\ UNCHANGED <<cv, writeErr, gateway, ws, link, early, wantStream>>

-----------------------------------------------------------------------------
(* run                                                                     *)

\* Without a stream the converter writes to a buffer, which takes it all.
Converts(step) ==
    /\ pc = "run"
    /\ step
    /\ ~wantStream => ~writeErr'
    /\ pc' = IF result' = "running" THEN "run" ELSE "done"
    /\ UNCHANGED <<ws, link, wantStream>>

ReadEarly ==
    /\ early # <<>>
    /\ Converts(Receive(Head(early)))
    /\ early' = <<>>
    /\ UNCHANGED <<said, called, phase, strayed>>

Read == early = <<>> /\ Converts(RelayNext) /\ UNCHANGED early

-----------------------------------------------------------------------------
(* Specification                                                           *)

SessionInit ==
    /\ Fresh(NoRun)
    /\ ws = NoWs
    /\ link = [open |-> FALSE, started |-> FALSE]
    /\ early = <<>>

HttpCalls == EventsOpen \/ RunStarts \/ SendAnswers \/ CallFails

SessionNext ==
    \/ NothingToSend \/ Begin \/ Connects \/ ConnectFails
    \/ ServerControls \/ ServerTells \/ InjectGivesUp \/ InjectEnds
    \/ HttpCalls \/ TellEarly
    \/ ReadEarly \/ Read

-----------------------------------------------------------------------------
(* Properties                                                              *)

SessionTypeOK ==
    /\ RelayTypeOK
    /\ link \in [open : BOOLEAN, started : BOOLEAN]
    /\ Len(early) <= 1
    /\ wantStream \in BOOLEAN
    /\ ws.state \in {"none", "waits", "online", "failed"}
    /\ ws.told \in {"none", "ok", "error"}
    /\ ws.rd.at \in {"top", "fragments", "eof"}

\* wsAuthInject reports the verdict the server gave, and no other: it is
\* found in fragments, between other messages, and with pings in the middle
\* (NextMessage puts each message together whole).
InjectHearsTheVerdict ==
    /\ ws.state = "online" <=> ws.told = "ok"
    /\ ws.told = "error" => ws.state = "failed"

\* The server reads every frame of auth.inject at the length it was written
\* with, the frames carry all of the text, and a text of at most MaxPayload
\* bytes is one message, the whole of it.  A longer one is cut into frames
\* that each end a message (every frame has FIN, wsclient.go:207), so what is
\* to be one message (wsclient.go:172) is read as its first MaxPayload bytes
\* and stray continuations.
FramesDecode ==
    ws.sent # <<>> =>
    /\ \A i \in DOMAIN ws.sent :
          LET header == ws.sent[i].length IN
          /\ LengthBytes(header.code) = Len(header.bytes)
          /\ DecodeLength(header) \in 1 .. MaxPayload
    /\ LengthRead(ws.sent) = ws.length
    /\ ws.length <= MaxPayload =>
          LengthRead(FirstMessage(ws.sent)) = ws.length

\* No event of the run is missed, not even one told before agent/send has
\* answered: once the converter has caught up, the client has all of the
\* answer (relay.go:146: the event stream is opened first).
ClientHearsTheRun ==
    early = <<>> /\ (pc = "run" \/ result = "nil") => TextIsTheAnswer

\* A request that is to be tried on another account has written nothing to
\* the client, or has no client any more (relay.go:130): the handler rotates
\* on every error of ChatRelay and appends the next answer.
RetryIsHarmless == result = "error" => cv.out = <<>> \/ writeErr

\* What chatViaRelay answers without a stream: the aggregated buffer has the
\* text and the calls the gateway told, in their order, and ends with "stop".
BufferIsTheAnswer ==
    /\ ~wantStream /\ result = "nil"
    /\ phase # "failed" /\ ~strayed /\ cv.runID # NoRun
    =>  LET full == Aggregate(cv.out)
        IN  /\ full.text = said /\ full.reason = "stop"
            /\ full.calls = [i \in DOMAIN called |->
                                [id |-> called[i], args |-> <<called[i]>>]]
=============================================================================
