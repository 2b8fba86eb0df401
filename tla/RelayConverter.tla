--------------------------- MODULE RelayConverter ---------------------------
(***************************************************************************)
(* The converter of the relay channel (internal/upstream/relay.go): run    *)
(* reads the gateway's event stream frame by frame and writes OpenAI       *)
(* chunks to the client, until the stream ends.                            *)
(*                                                                         *)
(* Text is a sequence of tokens, because the converter turns cumulative    *)
(* snapshots into increments by comparing prefixes.  An event is what      *)
(* handleFrame finds in a frame: its class, its owner and its payload.     *)
(*                                                                         *)
(* The gateway is outside the repository: it is modelled from the events   *)
(* the converter handles and docs/reverse-notes.md section 5 describes.    *)
(* It tells the growth of one answer in any of the event forms, may tell   *)
(* the same thing again in another form, and interleaves events of other   *)
(* runs of the same session.  All requests without a user share one        *)
(* session, and an event that names only the session is anybody's.         *)
(***************************************************************************)
EXTENDS Sse

CONSTANTS
    Tokens,        \* what text is made of
    ToolIds,       \* ids the gateway gives to tool calls
    RunID,         \* the run agent/send started
    OtherRun,      \* another run of the same session
    NoRun,         \* the event carries no runId
    Incremental,   \* whether text events carry increments, not snapshots
    MayFail,       \* whether the gateway may report that the run failed
    MaxText,       \* bound on the length of the answer
    MaxFrames      \* bound on the frames of one stream

ASSUME RunAssumption == RunID # NoRun /\ OtherRun # RunID /\ OtherRun # NoRun
ASSUME StyleAssumption == Incremental \in BOOLEAN /\ MayFail \in BOOLEAN
ASSUME BoundAssumption == MaxText \in Nat /\ MaxFrames \in Nat

\* Tokens of other runs and of error messages, told apart from the answer's.
ForeignToken == "foreign"
ErrorToken == "error"
ASSUME TokenAssumption == {ForeignToken, ErrorToken} \cap Tokens = {}

VARIABLES
    cv,        \* the relayConverter, and what the client received from it
    writeErr,  \* a write to the client failed
    result,    \* "running", or what run returned: "nil" or "error"
    said,      \* gateway: the answer so far
    called,    \* gateway: the tool calls made so far, in order
    phase,     \* gateway: the run is "going", has "ended" or has "failed"
    frames,    \* gateway: frames sent
    strayed    \* history: an event of another run named only the session

gateway == <<said, called, phase, frames, strayed>>
relayVars == <<cv, writeErr, result, gateway>>

-----------------------------------------------------------------------------
(* The emitters                                                            *)

Write(c, chunk) == [c EXCEPT !.out = Append(@, chunk)]

\* Mutant of EmitText: every snapshot is sent whole.
EmitText_Whole(c, text) ==
    IF text = <<>> \/ text = c.lastText THEN c
    ELSE Write([c EXCEPT !.lastText = text], TextChunk(text))

\* emitText: what text adds to the last one if it extends it, all of it
\* otherwise.
EmitText(c, text) ==
    IF text = <<>> \/ text = c.lastText THEN c
    ELSE LET delta == IF IsPrefix(c.lastText, text)
                      THEN SubSeq(text, Len(c.lastText) + 1, Len(text))
                      ELSE text
         IN  Write([c EXCEPT !.lastText = text], TextChunk(delta))

\* Mutant of EmitToolUse: seenTools is not consulted.
EmitToolUse_Unseen(c, id) ==
    Write([c EXCEPT !.toolSeq = @ + 1], ToolChunk(c.toolSeq, id, <<id>>))

\* Mutant of EmitToolUse: the index is off by one.
EmitToolUse_OffByOne(c, id) ==
    IF id \in c.seenTools THEN c
    ELSE Write([c EXCEPT !.seenTools = @ \cup {id}, !.toolSeq = @ + 1],
               ToolChunk(c.toolSeq - 1, id, <<id>>))

\* emitToolUse for a call with an id (without one the id is made from the
\* name and toolSeq, and is not modelled).
EmitToolUse(c, id) ==
    IF id \in c.seenTools THEN c
    ELSE Write([c EXCEPT !.seenTools = @ \cup {id}, !.toolSeq = @ + 1],
               ToolChunk(c.toolSeq, id, <<id>>))

\* Mutant of Finish: not idempotent.
Finish_Again(c) == Write([c EXCEPT !.done = TRUE], DoneLine)

Finish(c) == IF c.done THEN c ELSE Write([c EXCEPT !.done = TRUE], DoneLine)

EmitUsageAndDone(c, usage) == Finish(Write(c, StopChunk("stop", usage)))

\* Mutant of EmitError: the answer is ended without the message.
EmitError_Silent(c, msg) == Write(c, StopChunk("stop", FALSE))

\* The message goes out as content; done stays as it is.  payloadMsg always
\* finds a message.
EmitError(c, msg) == Write(EmitText(c, msg), StopChunk("stop", FALSE))

-----------------------------------------------------------------------------
(* The handlers                                                            *)

\* One part of a content array, or the one text of a content string.
EmitPart(c, part) ==
    CASE part.type = "text"     -> EmitText(c, part.text)
      [] part.type = "thinking" -> Write(c, ThinkingChunk)
      [] part.type = "tool_use" -> EmitToolUse(c, part.id)

EmitContentParts(c, parts) == FoldLeft(EmitPart, c, parts)
EmitToolUses(c, ids) == FoldLeft(EmitToolUse, c, ids)

HandleChat(c, p) ==
    IF p.state = "error" THEN EmitError(c, p.text)
    ELSE IF ~p.message THEN
        IF p.state = "final" /\ p.usage THEN EmitUsageAndDone(c, TRUE) ELSE c
    ELSE LET told == EmitToolUses(EmitContentParts(c, p.content), p.tools)
         IN  IF p.state = "final" THEN EmitUsageAndDone(told, p.usage)
                                  ELSE told

HandleAgent(c, p) ==
    CASE p.stream = "assistant" -> EmitContentParts(c, p.content)
      [] p.stream = "tool" /\ p.phase = "start" -> EmitToolUse(c, p.id)
      [] p.stream = "lifecycle" /\ p.phase = "end" ->
             EmitUsageAndDone(c, p.usage)
      [] \/ p.stream = "lifecycle" /\ p.phase = "error"
         \/ p.stream = "error" -> EmitError(c, p.text)
      [] OTHER -> c

\* Any other type, a call without a name too, may have a message.
HandleAgentStream(c, p) ==
    CASE p.type = "error"     -> EmitError(c, p.text)
      [] p.type = "done"      -> EmitUsageAndDone(c, p.usage)
      [] p.type = "text"      -> EmitText(c, p.text)
      [] p.type = "thinking"  -> Write(c, ThinkingChunk)
      [] p.type = "tool_call" -> EmitToolUse(c, p.id)
      [] p.type = "message"   -> EmitContentParts(c, p.content)
      [] OTHER -> c

\* Mutant of Mine: the session is enough.
Mine_AnyRunOfSession(c, ev) == ev.session \/ ev.run = c.runID

\* An event names the run, if that is known, or names the session and no run.
Mine(c, ev) ==
    \/ ev.run # NoRun /\ ev.run = c.runID
    \/ ev.run = NoRun /\ ev.session

Handle(c, ev) ==
    IF ~Mine(c, ev) THEN c
    ELSE CASE ev.event = "chat"   -> HandleChat(c, ev.payload)
           [] ev.event = "agent"  -> HandleAgent(c, ev.payload)
           [] ev.event = "stream" -> HandleAgentStream(c, ev.payload)
           [] OTHER               -> c

\* Mutant of HandleFrame: done is not looked at.
HandleFrame_EvenDone(c, ev) == Handle(c, ev)

HandleFrame(c, ev) == IF c.done THEN c ELSE Handle(c, ev)

-----------------------------------------------------------------------------
(* What the gateway sends                                                  *)

Event(class, owner, p) ==
    [event |-> class, run |-> owner.run, session |-> owner.session,
     payload |-> p]

\* Events carry the id of their run or the session, or both.
Owners == {[run |-> RunID, session |-> FALSE],
           [run |-> RunID, session |-> TRUE],
           [run |-> NoRun, session |-> TRUE]}
Others == {[run |-> OtherRun, session |-> TRUE],
           [run |-> NoRun, session |-> TRUE]}

Text(t) == [type |-> "text", text |-> t]
Calls(ids) == [i \in DOMAIN ids |-> [type |-> "tool_use", id |-> ids[i]]]

ChatMessage(st, content, ids, u) ==
    [state |-> st, message |-> TRUE, content |-> content, tools |-> ids,
     usage |-> u]

\* The ways to tell the text t, the calls ids made so far.
TextEvents(own, t, ids) ==
    {Event("chat", own, ChatMessage("delta", <<Text(t)>>, ids, FALSE)),
     Event("chat", own, ChatMessage("delta",
         <<[type |-> "thinking"], Text(t)>> \o Calls(ids), <<>>, FALSE)),
     Event("agent", own, [stream |-> "assistant",
                          content |-> <<Text(t)>> \o Calls(ids)]),
     Event("agent", own, [stream |-> "assistant", content |-> <<Text(t)>>]),
     Event("stream", own, [type |-> "text", text |-> t]),
     Event("stream", own, [type |-> "message",
                           content |-> <<Text(t)>> \o Calls(ids)])}

\* The ways to tell one call.
ToolEvents(own, id) ==
    {Event("agent", own, [stream |-> "tool", phase |-> "start", id |-> id]),
     Event("stream", own, [type |-> "tool_call", id |-> id])}

\* What changes nothing: phases, results of tools, thinking, noise.
QuietEvents(own) ==
    {Event("stream", own, [type |-> "phase"]),
     Event("stream", own, [type |-> "thinking"]),
     Event("agent", own, [stream |-> "tool", phase |-> "result"]),
     Event("health", own, <<>>)}

\* The ways to end the run; a chat event repeats the whole answer.
EndEvents(own, t, ids) ==
    {Event("chat", own, ChatMessage("final", <<Text(t)>>, ids, u)) :
        u \in BOOLEAN}
    \cup {Event("chat", own, [state |-> "final", message |-> FALSE,
                              usage |-> TRUE]),
          Event("agent", own, [stream |-> "lifecycle", phase |-> "end",
                               usage |-> TRUE]),
          Event("stream", own, [type |-> "done", usage |-> FALSE])}

ErrorEvents(own) ==
    {Event("chat", own, [state |-> "error", text |-> <<ErrorToken>>]),
     Event("agent", own, [stream |-> "lifecycle", phase |-> "error",
                          text |-> <<ErrorToken>>]),
     Event("stream", own, [type |-> "error", text |-> <<ErrorToken>>])}

ForeignEvents(own) ==
    TextEvents(own, <<ForeignToken>>, <<>>) \cup EndEvents(own, <<>>, <<>>)
    \cup (IF MayFail THEN ErrorEvents(own) ELSE {})
    \cup UNION {ToolEvents(own, id) : id \in ToolIds}

-----------------------------------------------------------------------------
(* run: one frame after the other, then finish                             *)

\* The converter did what makes it  after ; the client took all it wrote, or
\* the first k of the chunks and no more.
Deliver(after) ==
    \/ cv' = after /\ UNCHANGED writeErr
    \/ \E k \in 0 .. Len(after.out) - Len(cv.out) - 1 :
        /\ cv' = [after EXCEPT !.out = SubSeq(@, 1, Len(cv.out) + k)]
        /\ writeErr' = TRUE

\* After a failed write the stream is read on and nothing is written.
Receive(ev) ==
    /\ result = "running" /\ frames < MaxFrames
    /\ frames' = frames + 1
    /\ IF writeErr THEN UNCHANGED <<cv, writeErr>>
                   ELSE Deliver(HandleFrame(cv, ev))
    /\ UNCHANGED result

\* The answer grows by a token, or is told again.
TellText ==
    /\ phase = "going"
    /\ \E own \in Owners :
       \/ \E t \in Tokens :
            /\ Len(said) < MaxText
            /\ said' = Append(said, t)
            /\ \E ev \in TextEvents(own, IF Incremental THEN <<t>> ELSE said',
                                    called) : Receive(ev)
       \/ ~Incremental /\ UNCHANGED said
            /\ \E ev \in TextEvents(own, said, called) : Receive(ev)
    /\ UNCHANGED <<called, phase, strayed>>

TellTool ==
    /\ phase = "going"
    /\ \E own \in Owners, id \in ToolIds :
        /\ called' = IF id \in ToSet(called) THEN called
                                             ELSE Append(called, id)
        /\ \E ev \in ToolEvents(own, id) : Receive(ev)
    /\ UNCHANGED <<said, phase, strayed>>

TellNothing ==
    /\ \E own \in Owners : \E ev \in QuietEvents(own) : Receive(ev)
    /\ UNCHANGED <<said, called, phase, strayed>>

\* The end of the run, perhaps told more than once.
TellEnd ==
    /\ phase \in {"going", "ended"}
    /\ phase' = "ended"
    /\ \E own \in Owners : \E ev \in EndEvents(own, said, called) : Receive(ev)
    /\ UNCHANGED <<said, called, strayed>>

\* The run failed; lifecycle and chat events may both say so, and a final
\* chat event may still follow.
TellError ==
    /\ MayFail
    /\ phase' = "failed"
    /\ phase # "ended"
    /\ \E own \in Owners :
       \E ev \in ErrorEvents(own) \cup
            IF phase = "failed" THEN EndEvents(own, said, called) ELSE {} :
           Receive(ev)
    /\ UNCHANGED <<said, called, strayed>>

\* Another request's run, which ends and fails on its own.
TellForeign ==
    /\ \E own \in Others :
        /\ strayed' = (strayed \/ own.run = NoRun)
        /\ \E ev \in ForeignEvents(own) : Receive(ev)
    /\ UNCHANGED <<said, called, phase>>

\* Mutant of StreamEnds: a read error is returned.
StreamEnds_ReadError ==
    /\ result = "running"
    /\ IF writeErr THEN UNCHANGED <<cv, writeErr>> ELSE Deliver(Finish(cv))
    /\ result' \in IF writeErr' THEN {"error"} ELSE {"nil", "error"}
    /\ UNCHANGED gateway

\* The stream ends or breaks (a reset, the timeout of client.HTTP): finish,
\* and run returns the write error.  A read error is dropped.
StreamEnds ==
    /\ result = "running"
    /\ IF writeErr THEN UNCHANGED <<cv, writeErr>> ELSE Deliver(Finish(cv))
    /\ result' = IF writeErr' THEN "error" ELSE "nil"
    /\ UNCHANGED gateway

-----------------------------------------------------------------------------
(* Specification                                                           *)

\* newRelayConverter, for the run whose id agent/send answered with.
NewConverter(id) == [runID |-> id, lastText |-> <<>>, toolSeq |-> 0,
                     seenTools |-> {}, done |-> FALSE, out |-> <<>>]

Fresh(id) ==
    /\ cv = NewConverter(id)
    /\ writeErr = FALSE
    /\ result = "running"
    /\ said = <<>> /\ called = <<>> /\ phase = "going"
    /\ frames = 0 /\ strayed = FALSE

RelayInit == Fresh(RunID)

RelayNext ==
    \/ TellText \/ TellTool \/ TellNothing \/ TellEnd \/ TellError
    \/ TellForeign
    \/ StreamEnds

RelaySpec == RelayInit /\ [][RelayNext]_relayVars

-----------------------------------------------------------------------------
(* Properties                                                              *)

Texts == Seq(Tokens \cup {ForeignToken, ErrorToken})

Chunk == [kind : {"content"}, text : Texts]
         \cup [kind : {"reasoning", "[DONE]"}]
         \cup [kind : {"tool"}, index : Nat, id : ToolIds,
               args : {<<id>> : id \in ToolIds}]
         \cup [kind : {"stop"}, reason : {"stop"}, usage : BOOLEAN]

\* Every variable stays in its domain.
RelayTypeOK ==
    /\ cv.runID \in {RunID, NoRun}
    /\ cv.lastText \in Texts /\ cv.toolSeq \in Nat
    /\ cv.seenTools \subseteq ToolIds /\ cv.done \in BOOLEAN
    /\ cv.out \in Seq(Chunk)
    /\ writeErr \in BOOLEAN
    /\ result \in {"running", "nil", "error"}
    /\ said \in Seq(Tokens) /\ called \in Seq(ToolIds)
    /\ phase \in {"going", "ended", "failed"}
    /\ frames \in 0 .. MaxFrames /\ strayed \in BOOLEAN

\* "[DONE]" ends the answer (run: exactly one is written): nothing is
\* written after it, however often the end is reported, and run returns nil
\* only when the client got it.  Once the answer is marked finished ("stop"),
\* nothing else follows, unless the run failed, or perhaps one of another
\* request that was taken for it: emitError marks the end without setting
\* done, and later events are still written.
DoneEndsTheAnswer ==
    /\ \A i \in DOMAIN cv.out : cv.out[i].kind = "[DONE]" => i = Len(cv.out)
    /\ result = "nil" => cv.out # <<>> /\ Last(cv.out) = DoneLine
    /\ phase # "failed" /\ ~strayed =>
           \A i \in DOMAIN cv.out : cv.out[i].kind = "stop" =>
               \A j \in i + 1 .. Len(cv.out) : cv.out[j].kind = "[DONE]"

\* The client gets the answer, each token once and in order, whichever forms
\* the gateway mixes and however often it repeats a snapshot, and nothing of
\* the other runs whose events carry their id (relay.go:413).  An event of
\* another request that names only the session they share is taken for one
\* of the run (relay.go:421), and nothing is said of the text after it.
\* relay.go:495 says so of a gateway that sends increments too, where it does
\* not hold.  After a failure the content also has the error message; while
\* the run's id is unknown, events that carry it are dropped and the client
\* gets less.
TextIsTheAnswer ==
    phase # "failed" /\ ~writeErr /\ ~strayed =>
        IF cv.runID = NoRun THEN IsPrefix(ContentOf(cv.out), said)
                            ELSE ContentOf(cv.out) = said

\* Every tool call is announced once, under consecutive indexes from zero in
\* the order of the calls, although snapshots and tool events all tell it;
\* and no other, unless an event of another request was taken for the run's.
ToolsAnnouncedOnce ==
    LET announced == ToolChunks(cv.out) IN
    /\ \A i \in DOMAIN announced : announced[i].index = i - 1
    /\ \A i, j \in DOMAIN announced :
           announced[i].id = announced[j].id => i = j
    /\ ~writeErr /\ ~strayed /\ cv.runID # NoRun =>
           [i \in DOMAIN announced |-> announced[i].id] = called

\* When the gateway reports that the run failed, the client is told (there
\* is no other way: the handler takes the account and the answer for good),
\* unless the end of another request's run was taken for the run's before.
FailureIsTold ==
    phase = "failed" /\ ~writeErr /\ ~strayed /\ cv.runID # NoRun =>
        ErrorToken \in ToSet(ContentOf(cv.out))
=============================================================================
