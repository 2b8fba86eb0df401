--------------------------------- MODULE Sse ---------------------------------
(***************************************************************************)
(* Streams of chat completion chunks (internal/upstream/sse.go): Aggregate *)
(* makes one completion of a stream, WriteSingleChunkSSE a stream of one   *)
(* completion.  Both channels use them, on what the gateway or the relay   *)
(* converter wrote.                                                        *)
(*                                                                         *)
(* A line is [DONE] or a chunk.  A chunk carries one thing: text (a         *)
(* sequence of tokens), reasoning, a fragment of a tool call, or the       *)
(* reason why the answer is finished.                                      *)
(***************************************************************************)
EXTENDS Integers, FiniteSets, SequencesExt

TextChunk(t) == [kind |-> "content", text |-> t]
ThinkingChunk == [kind |-> "reasoning"]
StopChunk(reason, usage) ==
    [kind |-> "stop", reason |-> reason, usage |-> usage]
DoneLine == [kind |-> "[DONE]"]

\* A fragment of the tool call with this index: NoId if it has no id, and the
\* part of the arguments it brings.
NoId == "no id"
ToolChunk(i, id, args) ==
    [kind |-> "tool", index |-> i, id |-> id, args |-> args]

\* The completion Aggregate starts from; calls by index.
NoCalls == [i \in {} |-> [id |-> NoId, args |-> <<>>]]
Empty == [text |-> <<>>, reasoning |-> FALSE, calls |-> NoCalls,
          reason |-> "stop", usage |-> FALSE]

\* Mutant of MergeToolCallDelta: the arguments are taken over, not appended.
MergeToolCallDelta_Replaces(call, c) ==
    [id |-> IF c.id = NoId THEN call.id ELSE c.id,
     args |-> IF c.args = <<>> THEN call.args ELSE c.args]

\* mergeToolCallDelta: the id is taken over, the arguments are appended.
MergeToolCallDelta(call, c) ==
    [id |-> IF c.id = NoId THEN call.id ELSE c.id,
     args |-> call.args \o c.args]

Merged(calls, c) ==
    LET call == IF c.index \in DOMAIN calls THEN calls[c.index]
                ELSE [id |-> NoId, args |-> <<>>]
    IN  [i \in DOMAIN calls \cup {c.index} |->
            IF i = c.index THEN MergeToolCallDelta(call, c) ELSE calls[i]]

\* One line of the stream.
Absorb(acc, line) ==
    CASE line.kind = "content" -> [acc EXCEPT !.text = @ \o line.text]
      [] line.kind = "reasoning" -> [acc EXCEPT !.reasoning = TRUE]
      [] line.kind = "tool" -> [acc EXCEPT !.calls = Merged(@, line)]
      [] line.kind = "stop" -> [acc EXCEPT !.reason = line.reason,
                                           !.usage = @ \/ line.usage]
      [] OTHER -> acc

\* The elements of a finite set of numbers, the least first.
InOrder(S) ==
    [n \in 1 .. Cardinality(S) |->
        CHOOSE i \in S : Cardinality({j \in S : j < i}) = n - 1]

\* Mutant of Completion: the highest index first.
Completion_Backwards(acc) ==
    LET order == Reverse(InOrder(DOMAIN acc.calls))
    IN  [text |-> acc.text, reasoning |-> acc.reasoning,
         calls |-> [n \in DOMAIN order |-> acc.calls[order[n]]],
         reason |-> acc.reason, usage |-> acc.usage]

\* The calls in the order of their indexes (sortInts).
Completion(acc) ==
    LET order == InOrder(DOMAIN acc.calls)
    IN  [text |-> acc.text, reasoning |-> acc.reasoning,
         calls |-> [n \in DOMAIN order |-> acc.calls[order[n]]],
         reason |-> acc.reason, usage |-> acc.usage]

Absorbed(lines) == FoldLeft(Absorb, Empty, lines)

Aggregate(lines) == Completion(Absorbed(lines))

\* WriteSingleChunkSSE, its one chunk taken apart.  The reasoning is dropped
\* and the reason is always "stop"; the calls of a completion carry no index,
\* which Aggregate reads as zero.
SingleChunk(full) ==
    <<TextChunk(full.text)>>
    \o [n \in DOMAIN full.calls |->
            ToolChunk(0, full.calls[n].id, full.calls[n].args)]
    \o <<StopChunk("stop", full.usage), DoneLine>>

\* What a client that puts the content deltas together has, and the calls
\* announced to it.
AddText(text, line) ==
    IF line.kind = "content" THEN text \o line.text ELSE text
AddCall(calls, line) ==
    IF line.kind = "tool" THEN Append(calls, line) ELSE calls

ContentOf(lines) == FoldLeft(AddText, <<>>, lines)
ToolChunks(lines) == FoldLeft(AddCall, <<>>, lines)
=============================================================================
