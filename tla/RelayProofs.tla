----------------------------- MODULE RelayProofs -----------------------------
(***************************************************************************)
(* Theorems about RelayConverter.tla, for any tokens, calls, events and    *)
(* bounds: what the converter writes of a run of the gateway, whichever    *)
(* events tell it and in whatever order they come.  The text, the calls    *)
(* and the content arrays are folds; FoldFacts.tla says what those are.    *)
(***************************************************************************)
EXTENDS RelayConverter, TLAPS

Parts == INSTANCE FoldFacts WITH Op <- EmitPart
Uses == INSTANCE FoldFacts WITH Op <- EmitToolUse
Told == INSTANCE FoldFacts WITH Op <- AddText
Announced == INSTANCE FoldFacts WITH Op <- AddCall

-----------------------------------------------------------------------------
(* Folds                                                                   *)

\* The text and the calls of an output are those of one chunk less, and of
\* that chunk.
LEMMA ContentIsFold == \A s : ContentOf(s) = Told!Fold(<<>>, s)
  BY DEF ContentOf, Told!Fold, Told!FoldLeft, FoldLeft,
         Told!MapThenFoldSet, MapThenFoldSet, Told!Max, Max

\* One chunk more, in the text ...
LEMMA ContentFold ==
  /\ ContentOf(<<>>) = <<>>
  /\ \A out \in Seq(Chunk), x \in Chunk :
        ContentOf(Append(out, x)) = AddText(ContentOf(out), x)
  <1>1. ASSUME NEW out \in Seq(Chunk), NEW x \in Chunk
        PROVE  Told!Fold(<<>>, Append(out, x)) = AddText(Told!Fold(<<>>, out), x)
    BY Told!FoldAppend, Zenon
  <1> QED BY <1>1, ContentIsFold, Told!FoldEmpty, Zenon

\* ToolChunks is the fold of AddCall.
LEMMA ToolIsFold == \A s : ToolChunks(s) = Announced!Fold(<<>>, s)
  BY DEF ToolChunks, Announced!Fold, Announced!FoldLeft, FoldLeft,
         Announced!MapThenFoldSet, MapThenFoldSet, Announced!Max, Max

\* ... and in the calls.
LEMMA ToolFold ==
  /\ ToolChunks(<<>>) = <<>>
  /\ \A out \in Seq(Chunk), x \in Chunk :
        ToolChunks(Append(out, x)) = AddCall(ToolChunks(out), x)
  <1>1. ASSUME NEW out \in Seq(Chunk), NEW x \in Chunk
        PROVE  Announced!Fold(<<>>, Append(out, x))
                  = AddCall(Announced!Fold(<<>>, out), x)
    BY Announced!FoldAppend, Zenon
  <1> QED BY <1>1, ToolIsFold, Announced!FoldEmpty, Zenon

\* The parts of a content array are emitted one after the other, and what every
\* part keeps all of them keep.
LEMMA PartsFold == \A d, s : EmitContentParts(d, s) = Parts!Fold(d, s)
  BY DEF EmitContentParts, Parts!Fold, Parts!FoldLeft, FoldLeft,
         Parts!MapThenFoldSet, MapThenFoldSet, Parts!Max, Max

\* Emitting no part, one part, and one array after another.
LEMMA NoPart == ASSUME NEW c PROVE EmitContentParts(c, <<>>) = c
  BY PartsFold, Parts!FoldEmpty, Zenon

LEMMA OnePart == ASSUME NEW c, NEW p PROVE EmitContentParts(c, <<p>>) = EmitPart(c, p)
  BY PartsFold, Parts!FoldSingle, Zenon

LEMMA MoreParts ==
  ASSUME NEW c, NEW P, NEW s \in Seq(P), NEW t \in Seq(P)
  PROVE  EmitContentParts(c, s \o t) = EmitContentParts(EmitContentParts(c, s), t)
  <1>1. Parts!Fold(c, s \o t) = Parts!Fold(Parts!Fold(c, s), t)
    BY Parts!FoldConcat, Zenon
  <1> QED BY <1>1, PartsFold, Zenon

\* What EmitPart keeps of a converter is kept through a whole array.
LEMMA PartsKeep ==
  ASSUME NEW P, NEW I, NEW s \in Seq(P), NEW c \in I,
         \A d \in I, p \in P : EmitPart(d, p) \in I
  PROVE  EmitContentParts(c, s) \in I
  <1>1. Parts!Fold(c, s) \in I
    BY Parts!FoldInto, Zenon
  <1> QED BY <1>1, PartsFold, Zenon

\* So are the calls.
LEMMA UsesKeep ==
  ASSUME NEW P, NEW I, NEW s \in Seq(P), NEW c \in I,
         \A d \in I, id \in P : EmitToolUse(d, id) \in I
  PROVE  EmitToolUses(c, s) \in I
  <1>1. EmitToolUses(c, s) = Uses!Fold(c, s)
    BY DEF EmitToolUses, Uses!Fold, Uses!FoldLeft, FoldLeft,
           Uses!MapThenFoldSet, MapThenFoldSet, Uses!Max, Max
  <1>2. Uses!Fold(c, s) \in I
    BY Uses!FoldInto, Zenon
  <1> QED BY <1>1, <1>2, Zenon

\* Emitting no call.
LEMMA NoUse == ASSUME NEW c PROVE EmitToolUses(c, <<>>) = c
  <1>1. EmitToolUses(c, <<>>) = Uses!Fold(c, <<>>)
    BY DEF EmitToolUses, Uses!Fold, Uses!FoldLeft, FoldLeft,
           Uses!MapThenFoldSet, MapThenFoldSet, Uses!Max, Max
  <1> QED BY <1>1, Uses!FoldEmpty, Zenon

-----------------------------------------------------------------------------
(* What the output is made of                                              *)

Announcements == [kind : {"tool"}, index : Nat, id : ToolIds,
                  args : {<<id>> : id \in ToolIds}]

\* Only content adds to the text, only announcements add calls.
LEMMA ChunkKinds ==
  ASSUME NEW x \in Chunk
  PROVE  /\ x.kind = "content" => x.text \in Texts
         /\ x.kind = "tool" => x \in Announcements
         /\ x.kind # "content" => \A s : AddText(s, x) = s
         /\ x.kind # "tool" => \A s : AddCall(s, x) = s
  BY DEF Chunk, Announcements, AddText, AddCall

\* The text of an output is a text ...
LEMMA ContentType == \A out \in Seq(Chunk) : ContentOf(out) \in Texts
  <1>1. ASSUME NEW out \in Seq(Chunk) PROVE Told!Fold(<<>>, out) \in Texts
    <2>1. <<>> \in Texts
      BY DEF Texts
    <2>2. \A s \in Texts, x \in Chunk : AddText(s, x) \in Texts
      <3> SUFFICES ASSUME NEW s \in Texts, NEW x \in Chunk
                   PROVE  AddText(s, x) \in Texts
        OBVIOUS
      <3>1. CASE x.kind = "content"
        BY <3>1, ChunkKinds DEF AddText, Texts
      <3>2. CASE x.kind # "content"
        BY <3>2, ChunkKinds
      <3> QED BY <3>1, <3>2
    <2> QED BY <2>1, <2>2, Told!FoldInto, Zenon
  <1> QED BY <1>1, ContentIsFold, Zenon

\* ... and its calls are announcements.
LEMMA ToolType == \A out \in Seq(Chunk) : ToolChunks(out) \in Seq(Announcements)
  <1>1. ASSUME NEW out \in Seq(Chunk)
        PROVE  Announced!Fold(<<>>, out) \in Seq(Announcements)
    <2>1. <<>> \in Seq(Announcements)
      OBVIOUS
    <2>2. \A s \in Seq(Announcements), x \in Chunk :
             AddCall(s, x) \in Seq(Announcements)
      BY ChunkKinds DEF AddCall
    <2> QED BY <2>1, <2>2, Announced!FoldInto, Zenon
  <1> QED BY <1>1, ToolIsFold, Zenon

\* What one more chunk adds.
LEMMA OneMore ==
  ASSUME NEW out \in Seq(Chunk), NEW x \in Chunk
  PROVE  /\ x.kind = "content" =>
               ContentOf(Append(out, x)) = ContentOf(out) \o x.text
         /\ x.kind # "content" => ContentOf(Append(out, x)) = ContentOf(out)
         /\ x.kind = "tool" =>
               ToolChunks(Append(out, x)) = Append(ToolChunks(out), x)
         /\ x.kind # "tool" => ToolChunks(Append(out, x)) = ToolChunks(out)
  BY ContentFold, ToolFold DEF AddText, AddCall

\* The calls of a prefix are a prefix of the calls.
Begins(s, t) == Len(s) <= Len(t) /\ \A i \in 1 .. Len(s) : s[i] = t[i]

LEMMA FewerCalls ==
  ASSUME NEW u \in Seq(Chunk), NEW out \in Seq(Chunk), Begins(u, out)
  PROVE  Begins(ToolChunks(u), ToolChunks(out))
  <1> DEFINE T == {s \in Seq(Chunk) : \A v \in Seq(Chunk) :
                      Begins(v, s) => Begins(ToolChunks(v), ToolChunks(s))}
  <1>1. <<>> \in T
    <2>1. \A v \in Seq(Chunk) : Begins(v, <<>>) => v = <<>>
      BY DEF Begins
    <2>2. Begins(ToolChunks(<<>>), ToolChunks(<<>>))
      BY ToolFold DEF Begins
    <2> QED BY <2>1, <2>2
  <1>2. ASSUME NEW s \in Seq(Chunk), NEW x \in Chunk, s \in T
        PROVE  Append(s, x) \in T
    <2> DEFINE t == Append(s, x)
    <2>1. /\ t \in Seq(Chunk) /\ Len(t) = Len(s) + 1 /\ Len(s) \in Nat
          /\ x.kind = "tool" => ToolChunks(t) = Append(ToolChunks(s), x)
          /\ x.kind # "tool" => ToolChunks(t) = ToolChunks(s)
          /\ \A i \in 1 .. Len(s) : t[i] = s[i]
      BY OneMore
    <2> HIDE DEF t
    <2>2. ToolChunks(s) \in Seq(Announcements) /\ ToolChunks(t) \in Seq(Announcements)
      BY <2>1, ToolType
    <2>3. Begins(ToolChunks(s), ToolChunks(t))
      <3>1. CASE x.kind = "tool"
        <4>1. x \in Announcements
          BY <3>1, ChunkKinds
        <4> QED BY <2>1, <2>2, <3>1, <4>1 DEF Begins
      <3>2. CASE x.kind # "tool"
        BY <2>1, <2>2, <3>2 DEF Begins
      <3> QED BY <3>1, <3>2
    <2>4. ASSUME NEW v \in Seq(Chunk), Begins(v, t)
          PROVE  Begins(ToolChunks(v), ToolChunks(t))
      <3>1. CASE Len(v) = Len(t)
        <4>1. v = t
          BY <2>1, <2>4, <3>1 DEF Begins
        <4> QED BY <2>2, <4>1 DEF Begins
      <3>2. CASE Len(v) # Len(t)
        <4>1. Begins(v, s)
          BY <2>1, <2>4, <3>2 DEF Begins
        <4>2. Begins(ToolChunks(v), ToolChunks(s))
          BY <1>2, <4>1
        <4>3. ToolChunks(v) \in Seq(Announcements)
          BY ToolType
        <4> QED BY <2>2, <2>3, <4>2, <4>3 DEF Begins
      <3> QED BY <3>1, <3>2
    <2> QED BY <2>1, <2>4 DEF t
  <1>3. \A s \in Seq(Chunk) : s \in T
    <2> HIDE DEF T
    <2> QED BY <1>1, <1>2, Announced!SeqInduction, Zenon
  <1> QED BY <1>3

-----------------------------------------------------------------------------
(* What the converter keeps                                                *)

Converter == [runID : {RunID, NoRun}, lastText : Texts, toolSeq : Nat,
              seenTools : SUBSET ToolIds, done : BOOLEAN, out : Seq(Chunk)]

Numbered(calls) ==
  /\ \A i \in 1 .. Len(calls) : /\ calls[i].index = i - 1
                                /\ calls[i].args = <<calls[i].id>>
  /\ \A i, j \in 1 .. Len(calls) : calls[i].id = calls[j].id => i = j

DoneLast(out) == \A i \in 1 .. Len(out) : out[i].kind = "[DONE]" => i = Len(out)
NoDone(out) == \A i \in 1 .. Len(out) : out[i].kind # "[DONE]"
NoStop(out) == \A i \in 1 .. Len(out) : out[i].kind # "stop"

\* All of what was emitted was written.
Sound(c) ==
  /\ c \in Converter
  /\ ~c.done => NoDone(c.out)
  /\ c.done => c.out # <<>> /\ c.out[Len(c.out)] = DoneLine /\ DoneLast(c.out)
  /\ Numbered(ToolChunks(c.out))
  /\ c.toolSeq = Len(ToolChunks(c.out))
  /\ c.seenTools = {ToolChunks(c.out)[i].id : i \in DOMAIN ToolChunks(c.out)}
  /\ ToSet(c.lastText) \subseteq ToSet(ContentOf(c.out))

\* What was begun stays begun.
Further(c, d) == c.out # <<>> => d.out # <<>>

\* An emitter that ends nothing made d of c.
Plainly(c, d) ==
  /\ Sound(d) /\ ~d.done
  /\ Further(c, d)
  /\ d.runID = c.runID
  /\ NoStop(c.out) => NoStop(d.out)
  /\ ToSet(ContentOf(c.out)) \subseteq ToSet(ContentOf(d.out))

\* Emitters that end nothing compose ...
LEMMA PlainlyTransitive ==
  ASSUME NEW c, NEW d, NEW e, Plainly(c, d), Plainly(d, e)
  PROVE  Plainly(c, e)
  BY DEF Plainly, Further

\* ... and doing nothing is one.
LEMMA PlainlyReflexive ==
  ASSUME NEW c, Sound(c), ~c.done
  PROVE  Plainly(c, c)
  BY DEF Plainly, Further

\* A snapshot is the last one and what it adds.
LEMMA Delta ==
  ASSUME NEW s \in Texts, NEW t \in Texts, IsPrefix(s, t), NEW delta,
         delta = SubSeq(t, Len(s) + 1, Len(t))
  PROVE  delta \in Texts /\ s \o delta = t
  <1>1. Len(s) <= Len(t) /\ Len(s) \in Nat /\ Len(t) \in Nat
    BY DEF IsPrefix, Texts
  <1>2. \A i \in 1 .. Len(s) : s[i] = t[i]
    <2>1. \A i \in 1 .. Len(s) : /\ SubSeq(s, 1, Len(s))[i] = s[i]
                                 /\ SubSeq(t, 1, Len(s))[i] = t[i]
      BY <1>1 DEF Texts
    <2> QED BY <2>1 DEF IsPrefix
  <1>3. /\ delta \in Texts /\ Len(delta) = Len(t) - Len(s)
        /\ \A i \in 1 .. Len(delta) : delta[i] = t[Len(s) + i]
    BY <1>1 DEF Texts
  <1>4. /\ s \o delta \in Texts /\ Len(s \o delta) = Len(t)
        /\ \A i \in 1 .. Len(t) :
              (s \o delta)[i] = IF i <= Len(s) THEN s[i] ELSE delta[i - Len(s)]
    BY <1>1, <1>3 DEF Texts
  <1>5. \A i \in 1 .. Len(t) : (s \o delta)[i] = t[i]
    BY <1>1, <1>2, <1>3, <1>4
  <1> DEFINE u == s \o delta
  <1> HIDE DEF u
  <1>6. u = t
    BY <1>1, <1>4, <1>5 DEF Texts, u
  <1> QED BY <1>3, <1>6 DEF u

\* The tokens of two texts, one after the other.
LEMMA SetOfConcat ==
  ASSUME NEW s \in Texts, NEW t \in Texts
  PROVE  /\ s \o t \in Texts
         /\ ToSet(s \o t) = ToSet(s) \cup ToSet(t)
  <1>1. s \o t \in Texts
    BY DEF Texts
  <1>2. ToSet(s \o t) \subseteq ToSet(s) \cup ToSet(t)
    BY DEF Texts, ToSet
  <1>3. ToSet(s) \subseteq ToSet(s \o t)
    BY DEF Texts, ToSet
  <1>4. ToSet(t) \subseteq ToSet(s \o t)
    <2> SUFFICES ASSUME NEW i \in DOMAIN t PROVE t[i] \in ToSet(s \o t)
      BY DEF ToSet
    <2>1. Len(s) + i \in DOMAIN (s \o t) /\ (s \o t)[Len(s) + i] = t[i]
      BY DEF Texts
    <2> QED BY <2>1 DEF ToSet
  <1> QED BY <1>1, <1>2, <1>3, <1>4

-----------------------------------------------------------------------------
(* What the emitters do                                                    *)

\* The fields of a converter that wrote a chunk,
LEMMA WriteShape ==
  ASSUME NEW c \in Converter, NEW x \in Chunk, NEW d, d = Write(c, x)
  PROVE  /\ d \in Converter /\ d.out = Append(c.out, x)
         /\ d.runID = c.runID /\ d.lastText = c.lastText
         /\ d.toolSeq = c.toolSeq /\ d.seenTools = c.seenTools
         /\ d.done = c.done
  <1> DEFINE o == Append(c.out, x)
  <1>1. o \in Seq(Chunk) /\ d = [c EXCEPT !.out = o]
    BY DEF Converter, Write
  <1> HIDE DEF o
  <1>2. /\ d \in Converter /\ d.out = o
        /\ d.runID = c.runID /\ d.lastText = c.lastText
        /\ d.toolSeq = c.toolSeq /\ d.seenTools = c.seenTools
        /\ d.done = c.done
    BY <1>1 DEF Converter
  <1> QED BY <1>2 DEF o

\* that took a text for its last one,
LEMMA TextShape ==
  ASSUME NEW c \in Converter, NEW t \in Texts, NEW d, d = [c EXCEPT !.lastText = t]
  PROVE  /\ d \in Converter /\ d.lastText = t
         /\ d.runID = c.runID /\ d.out = c.out
         /\ d.toolSeq = c.toolSeq /\ d.seenTools = c.seenTools
         /\ d.done = c.done
  BY DEF Converter

Counted(c, id) == [c EXCEPT !.seenTools = @ \cup {id}, !.toolSeq = @ + 1]

\* and that counted a new call.
LEMMA CallShape ==
  ASSUME NEW c \in Converter, NEW id \in ToolIds, NEW d, d = Counted(c, id)
  PROVE  /\ d \in Converter /\ d.lastText = c.lastText
         /\ d.runID = c.runID /\ d.out = c.out
         /\ d.toolSeq = c.toolSeq + 1 /\ d.seenTools = c.seenTools \cup {id}
         /\ d.done = c.done
  <1> DEFINE seen == c.seenTools \cup {id}
             n == c.toolSeq + 1
  <1>1. /\ seen \in SUBSET ToolIds /\ n \in Nat
        /\ d = [c EXCEPT !.seenTools = seen, !.toolSeq = n]
    BY DEF Converter, Counted
  <1> HIDE DEF seen, n
  <1>2. /\ d \in Converter /\ d.lastText = c.lastText
        /\ d.runID = c.runID /\ d.out = c.out
        /\ d.toolSeq = n /\ d.seenTools = seen /\ d.done = c.done
    BY <1>1 DEF Converter
  <1> QED BY <1>2 DEF seen, n

\* d is c with one chunk more.
Adds(c, d, x) ==
  /\ d \in Converter /\ d.out = Append(c.out, x)
  /\ d.runID = c.runID /\ d.done = c.done

LEMMA KindsAdded ==
  ASSUME NEW out \in Seq(Chunk), NEW x \in Chunk
  PROVE  /\ NoDone(out) /\ x.kind # "[DONE]" => NoDone(Append(out, x))
         /\ NoStop(out) /\ x.kind # "stop" => NoStop(Append(out, x))
         /\ NoDone(out) => DoneLast(Append(out, x))
  <1> DEFINE o == Append(out, x)
  <1>1. /\ Len(out) \in Nat /\ Len(o) = Len(out) + 1 /\ o[Len(out) + 1] = x
        /\ \A i \in 1 .. Len(out) : o[i] = out[i]
    OBVIOUS
  <1> HIDE DEF o
  <1>2. NoDone(out) /\ x.kind # "[DONE]" => NoDone(o)
    BY <1>1 DEF NoDone
  <1>3. NoStop(out) /\ x.kind # "stop" => NoStop(o)
    BY <1>1 DEF NoStop
  <1>4. NoDone(out) => DoneLast(o)
    BY <1>1 DEF NoDone, DoneLast
  <1> QED BY <1>2, <1>3, <1>4 DEF o

\* A chunk that is neither a call nor the end.
LEMMA SimpleAdded ==
  ASSUME NEW c, Sound(c), ~c.done, NEW x \in Chunk, NEW d, Adds(c, d, x),
         x.kind \in {"content", "reasoning"},
         d.toolSeq = c.toolSeq, d.seenTools = c.seenTools,
         ToSet(d.lastText) \subseteq ToSet(ContentOf(d.out)),
         ToSet(ContentOf(c.out)) \subseteq ToSet(ContentOf(d.out))
  PROVE  Plainly(c, d) /\ ToolChunks(d.out) = ToolChunks(c.out)
  <1>1. c.out \in Seq(Chunk) /\ d.out = Append(c.out, x) /\ d \in Converter
    BY DEF Sound, Converter, Adds
  <1>2. x.kind # "[DONE]" /\ x.kind # "stop" /\ x.kind # "tool"
    OBVIOUS
  <1>3. ToolChunks(d.out) = ToolChunks(c.out)
    BY <1>1, <1>2, OneMore, Zenon
  <1>4. NoDone(d.out) /\ (NoStop(c.out) => NoStop(d.out))
    BY <1>1, <1>2, KindsAdded, Zenon DEF Sound
  <1>5. ~d.done /\ d.runID = c.runID
    BY DEF Adds
  <1>6. Sound(d)
    BY <1>1, <1>3, <1>4, <1>5, Zenon DEF Sound
  <1>7. Further(c, d)
    BY <1>1 DEF Further
  <1> QED BY <1>3, <1>4, <1>5, <1>6, <1>7, Zenon DEF Plainly

\* emitText writes part of the text, and keeps the text.
Wrote(c, text, part) == Write([c EXCEPT !.lastText = text], TextChunk(part))

LEMMA TextWritten ==
  ASSUME NEW c, Sound(c), ~c.done, NEW text \in Texts, NEW part \in Texts,
         ToSet(text) \subseteq ToSet(ContentOf(c.out)) \cup ToSet(part)
  PROVE  LET d == Wrote(c, text, part)
         IN  /\ Plainly(c, d) /\ ToolChunks(d.out) = ToolChunks(c.out)
             /\ d.lastText = text /\ ContentOf(d.out) = ContentOf(c.out) \o part
  <1> DEFINE d == Wrote(c, text, part)
             x == TextChunk(part)
             e == [c EXCEPT !.lastText = text]
  <1>1. x \in Chunk /\ x.kind = "content" /\ x.text = part
    BY DEF TextChunk, Chunk
  <1>2. c \in Converter /\ c.out \in Seq(Chunk)
    BY DEF Sound, Converter
  <1>3. /\ e \in Converter /\ e.lastText = text
        /\ e.runID = c.runID /\ e.out = c.out
        /\ e.toolSeq = c.toolSeq /\ e.seenTools = c.seenTools
        /\ e.done = c.done
    BY <1>2, TextShape
  <1>4. d = Write(e, x)
    BY DEF Wrote
  <1> HIDE DEF d, e, x
  <1>5. /\ d \in Converter /\ d.out = Append(e.out, x)
        /\ d.runID = e.runID /\ d.lastText = e.lastText
        /\ d.toolSeq = e.toolSeq /\ d.seenTools = e.seenTools
        /\ d.done = e.done
    BY <1>1, <1>3, <1>4, WriteShape, Zenon
  <1>6. d.out = Append(c.out, x) /\ Adds(c, d, x)
    BY <1>3, <1>5 DEF Adds
  <1>7. ContentOf(d.out) = ContentOf(c.out) \o part
    BY <1>1, <1>2, <1>6, OneMore, Zenon
  <1>8. ToSet(ContentOf(d.out)) = ToSet(ContentOf(c.out)) \cup ToSet(part)
    BY <1>2, <1>7, ContentType, SetOfConcat, Zenon
  <1>9. d.lastText = text /\ d.toolSeq = c.toolSeq /\ d.seenTools = c.seenTools
    BY <1>3, <1>5
  <1>10. x.kind \in {"content", "reasoning"}
    BY <1>1
  <1>11. Plainly(c, d) /\ ToolChunks(d.out) = ToolChunks(c.out)
    BY <1>1, <1>6, <1>8, <1>9, <1>10, SimpleAdded, Zenon
  <1> QED BY <1>7, <1>9, <1>11 DEF d

\* emitText: of an answer that grows, exactly what is new is written.
LEMMA TextEmitted ==
  ASSUME NEW c, Sound(c), ~c.done, NEW text \in Texts
  PROVE  LET d == EmitText(c, text)
         IN  /\ Plainly(c, d)
             /\ ToolChunks(d.out) = ToolChunks(c.out)
             /\ text # <<>> => d.lastText = text
             /\ ContentOf(c.out) = c.lastText /\ IsPrefix(c.lastText, text) =>
                   d.lastText = text /\ ContentOf(d.out) = text
  <1> DEFINE d == EmitText(c, text)
  <1>1. c.lastText \in Texts /\ c.out \in Seq(Chunk)
    BY DEF Sound, Converter
  <1>2. CASE text = <<>> \/ text = c.lastText
    <2>1. d = c
      BY <1>2 DEF EmitText
    <2>2. IsPrefix(c.lastText, <<>>) => c.lastText = <<>>
      BY <1>1 DEF IsPrefix, Texts
    <2> HIDE DEF d
    <2>3. Plainly(c, d)
      BY <2>1, PlainlyReflexive
    <2>4. ContentOf(c.out) = c.lastText /\ IsPrefix(c.lastText, text) =>
             d.lastText = text /\ ContentOf(d.out) = text
      BY <1>2, <2>1, <2>2
    <2> QED BY <1>2, <2>1, <2>3, <2>4 DEF d
  <1>3. CASE ~(text = <<>> \/ text = c.lastText)
    <2> DEFINE rest == SubSeq(text, Len(c.lastText) + 1, Len(text))
    <2>1. CASE IsPrefix(c.lastText, text)
      <3>1. rest \in Texts /\ c.lastText \o rest = text
        BY <1>1, <2>1, Delta
      <3>2. d = Wrote(c, text, rest)
        BY <1>3, <2>1 DEF EmitText, Wrote
      <3> HIDE DEF rest, d
      <3>3. ToSet(text) \subseteq ToSet(ContentOf(c.out)) \cup ToSet(rest)
        <4>1. ToSet(text) = ToSet(c.lastText) \cup ToSet(rest)
          BY <1>1, <3>1, SetOfConcat
        <4> QED BY <4>1 DEF Sound
      <3>4. /\ Plainly(c, d) /\ ToolChunks(d.out) = ToolChunks(c.out)
            /\ d.lastText = text /\ ContentOf(d.out) = ContentOf(c.out) \o rest
        BY <3>1, <3>2, <3>3, TextWritten
      <3> QED BY <3>1, <3>4 DEF d
    <2>2. CASE ~IsPrefix(c.lastText, text)
      <3>1. d = Wrote(c, text, text)
        BY <1>3, <2>2 DEF EmitText, Wrote
      <3> HIDE DEF d
      <3>2. ToSet(text) \subseteq ToSet(ContentOf(c.out)) \cup ToSet(text)
        OBVIOUS
      <3>3. /\ Plainly(c, d) /\ ToolChunks(d.out) = ToolChunks(c.out)
            /\ d.lastText = text
        BY <3>1, <3>2, TextWritten
      <3> QED BY <2>2, <3>3 DEF d
    <2> QED BY <2>1, <2>2
  <1> QED BY <1>2, <1>3

\* emitThinking.
LEMMA ThinkingEmitted ==
  ASSUME NEW c, Sound(c), ~c.done
  PROVE  LET d == Write(c, ThinkingChunk)
         IN  /\ Plainly(c, d)
             /\ ToolChunks(d.out) = ToolChunks(c.out)
             /\ d.lastText = c.lastText /\ ContentOf(d.out) = ContentOf(c.out)
  <1> DEFINE d == Write(c, ThinkingChunk)
             x == ThinkingChunk
  <1>1. c.out \in Seq(Chunk) /\ c \in Converter
    BY DEF Sound, Converter
  <1>2. x \in Chunk /\ x.kind = "reasoning"
    BY DEF ThinkingChunk, Chunk
  <1>3. d = Write(c, x)
    OBVIOUS
  <1> HIDE DEF d, x
  <1>4. /\ d \in Converter /\ d.out = Append(c.out, x)
        /\ d.runID = c.runID /\ d.lastText = c.lastText
        /\ d.toolSeq = c.toolSeq /\ d.seenTools = c.seenTools
        /\ d.done = c.done
    BY <1>1, <1>2, <1>3, WriteShape, Zenon
  <1>5. Adds(c, d, x)
    BY <1>4 DEF Adds
  <1>6. x.kind \in {"content", "reasoning"} /\ x.kind # "content"
    BY <1>2
  <1>7. ContentOf(d.out) = ContentOf(c.out)
    BY <1>1, <1>2, <1>4, <1>6, OneMore, Zenon
  <1>8. /\ ToSet(d.lastText) \subseteq ToSet(ContentOf(d.out))
        /\ ToSet(ContentOf(c.out)) \subseteq ToSet(ContentOf(d.out))
    BY <1>4, <1>7 DEF Sound
  <1>9. Plainly(c, d) /\ ToolChunks(d.out) = ToolChunks(c.out)
    BY <1>2, <1>4, <1>5, <1>6, <1>8, SimpleAdded, Zenon
  <1> QED BY <1>4, <1>7, <1>9 DEF d

\* A new call comes under the next index.
LEMMA OneMoreCall ==
  ASSUME NEW calls \in Seq(Announcements), NEW x \in Announcements,
         Numbered(calls), x.index = Len(calls), x.args = <<x.id>>,
         \A i \in DOMAIN calls : calls[i].id # x.id
  PROVE  /\ Numbered(Append(calls, x))
         /\ Len(Append(calls, x)) = Len(calls) + 1
         /\ {Append(calls, x)[i].id : i \in DOMAIN Append(calls, x)}
               = {calls[i].id : i \in DOMAIN calls} \cup {x.id}
  <1> DEFINE more == Append(calls, x)
  <1>1. /\ Len(more) = Len(calls) + 1 /\ Len(calls) \in Nat
        /\ more[Len(calls) + 1] = x
        /\ \A i \in 1 .. Len(calls) : more[i] = calls[i]
        /\ DOMAIN more = 1 .. Len(calls) + 1 /\ DOMAIN calls = 1 .. Len(calls)
    OBVIOUS
  <1> HIDE DEF more
  <1>2. \A i \in 1 .. Len(more) : i \in 1 .. Len(calls) \/ i = Len(calls) + 1
    BY <1>1
  <1>3. Numbered(more)
    <2>1. ASSUME NEW i \in 1 .. Len(more)
          PROVE  more[i].index = i - 1 /\ more[i].args = <<more[i].id>>
      <3>1. CASE i \in 1 .. Len(calls)
        BY <1>1, <3>1 DEF Numbered
      <3>2. CASE i = Len(calls) + 1
        BY <1>1, <3>2
      <3> QED BY <1>2, <3>1, <3>2
    <2>2. ASSUME NEW i \in 1 .. Len(more), NEW j \in 1 .. Len(more),
                 more[i].id = more[j].id
          PROVE  i = j
      <3>1. CASE i \in 1 .. Len(calls) /\ j \in 1 .. Len(calls)
        BY <1>1, <2>2, <3>1 DEF Numbered
      <3>2. CASE i = Len(calls) + 1 \/ j = Len(calls) + 1
        BY <1>1, <1>2, <2>2, <3>2
      <3> QED BY <1>2, <3>1, <3>2
    <2> QED BY <2>1, <2>2 DEF Numbered
  <1>4. {more[i].id : i \in DOMAIN more}
           = {calls[i].id : i \in DOMAIN calls} \cup {x.id}
    <2>1. ASSUME NEW i \in DOMAIN more
          PROVE  more[i].id \in {calls[j].id : j \in DOMAIN calls} \cup {x.id}
      BY <1>1, <1>2
    <2>2. ASSUME NEW i \in DOMAIN calls
          PROVE  calls[i].id \in {more[j].id : j \in DOMAIN more}
      BY <1>1
    <2>3. x.id \in {more[j].id : j \in DOMAIN more}
      <3>1. Len(calls) + 1 \in DOMAIN more
        BY <1>1
      <3> QED BY <1>1, <3>1
    <2> QED BY <2>1, <2>2, <2>3
  <1> QED BY <1>1, <1>3, <1>4 DEF more

\* emitToolUse.
LEMMA CallEmitted ==
  ASSUME NEW c, Sound(c), ~c.done, NEW id \in ToolIds
  PROVE  LET d == EmitToolUse(c, id)
         IN  /\ Plainly(c, d)
             /\ d.lastText = c.lastText /\ ContentOf(d.out) = ContentOf(c.out)
             /\ id \in c.seenTools => d = c
             /\ id \notin c.seenTools => \E x \in Announcements :
                   x.id = id /\ ToolChunks(d.out) = Append(ToolChunks(c.out), x)
  <1> DEFINE d == EmitToolUse(c, id)
  <1>1. CASE id \in c.seenTools
    BY <1>1, PlainlyReflexive DEF EmitToolUse
  <1>2. CASE id \notin c.seenTools
    <2> DEFINE x == ToolChunk(c.toolSeq, id, <<id>>)
               calls == ToolChunks(c.out)
               e == Counted(c, id)
    <2>1. /\ c \in Converter /\ c.out \in Seq(Chunk) /\ c.toolSeq \in Nat
      BY DEF Sound, Converter
    <2>2. /\ x \in Announcements /\ x \in Chunk /\ x.kind = "tool"
          /\ x.index = c.toolSeq /\ x.id = id /\ x.args = <<id>>
      BY <2>1 DEF ToolChunk, Announcements, Chunk
    <2>3. d = Write(e, x)
      BY <1>2 DEF EmitToolUse, Counted
    <2>4. /\ e \in Converter /\ e.lastText = c.lastText
          /\ e.runID = c.runID /\ e.out = c.out
          /\ e.toolSeq = c.toolSeq + 1 /\ e.seenTools = c.seenTools \cup {id}
          /\ e.done = c.done
      BY <2>1, CallShape
    <2>5. /\ Numbered(calls) /\ c.toolSeq = Len(calls)
          /\ c.seenTools = {calls[i].id : i \in DOMAIN calls}
          /\ NoDone(c.out) /\ ToSet(c.lastText) \subseteq ToSet(ContentOf(c.out))
      BY DEF Sound
    <2>6. calls \in Seq(Announcements)
      BY <2>1, ToolType
    <2> HIDE DEF e, x, d
    <2>7. /\ d \in Converter /\ d.out = Append(e.out, x)
          /\ d.runID = e.runID /\ d.lastText = e.lastText
          /\ d.toolSeq = e.toolSeq /\ d.seenTools = e.seenTools
          /\ d.done = e.done
      BY <2>2, <2>3, <2>4, WriteShape, Zenon
    <2>8. /\ d.out = Append(c.out, x) /\ d.runID = c.runID
          /\ d.lastText = c.lastText /\ d.done = c.done
          /\ d.toolSeq = c.toolSeq + 1 /\ d.seenTools = c.seenTools \cup {id}
      BY <2>4, <2>7
    <2>9. x.kind # "content" /\ x.kind # "[DONE]" /\ x.kind # "stop"
      BY <2>2
    <2>10. /\ ContentOf(d.out) = ContentOf(c.out)
           /\ ToolChunks(d.out) = Append(calls, x)
           /\ NoDone(d.out) /\ (NoStop(c.out) => NoStop(d.out))
      BY <2>1, <2>2, <2>5, <2>8, <2>9, OneMore, KindsAdded, Zenon
    <2> HIDE DEF calls
    <2>11. \A i \in DOMAIN calls : calls[i].id # x.id
      BY <1>2, <2>2, <2>5
    <2>12. /\ Numbered(Append(calls, x))
           /\ Len(Append(calls, x)) = Len(calls) + 1
           /\ {Append(calls, x)[i].id : i \in DOMAIN Append(calls, x)}
                 = {calls[i].id : i \in DOMAIN calls} \cup {x.id}
      <3>1. x.index = Len(calls) /\ x.args = <<x.id>>
        BY <2>2, <2>5
      <3> QED BY <2>2, <2>5, <2>6, <2>11, <3>1, OneMoreCall, Zenon
    <2> DEFINE more == Append(calls, x)
    <2> HIDE DEF more
    <2>13. /\ ToolChunks(d.out) = more /\ Numbered(more)
           /\ d.toolSeq = Len(more)
           /\ d.seenTools = {more[i].id : i \in DOMAIN more}
      BY <2>2, <2>5, <2>8, <2>10, <2>12, Zenon DEF more
    <2>14. /\ ToSet(d.lastText) \subseteq ToSet(ContentOf(d.out))
           /\ ToSet(ContentOf(c.out)) \subseteq ToSet(ContentOf(d.out))
      BY <2>5, <2>8, <2>10, Zenon
    <2>15. Sound(d) /\ ~d.done
      BY <2>7, <2>8, <2>10, <2>13, <2>14, Zenon DEF Sound
    <2>16. Further(c, d)
      BY <2>1, <2>2, <2>8 DEF Further
    <2>17. Plainly(c, d)
      BY <2>8, <2>10, <2>14, <2>15, <2>16, Zenon DEF Plainly
    <2> QED BY <1>2, <2>2, <2>8, <2>10, <2>17, Zenon DEF d, calls
  <1> QED BY <1>1, <1>2

-----------------------------------------------------------------------------
(* What the handlers do                                                    *)

\* d is c after calls were told, and nothing else.
Calling(c, d, ids) ==
  /\ Plainly(c, d)
  /\ d.lastText = c.lastText /\ ContentOf(d.out) = ContentOf(c.out)
  /\ ToSet(ids) \subseteq c.seenTools => ToolChunks(d.out) = ToolChunks(c.out)

\* d is c after the text was told, and calls were.
Telling(c, d, text, ids) ==
  /\ Plainly(c, d)
  /\ ToSet(ids) \subseteq c.seenTools => ToolChunks(d.out) = ToolChunks(c.out)
  /\ ContentOf(c.out) = c.lastText /\ IsPrefix(c.lastText, text) =>
        d.lastText = text /\ ContentOf(d.out) = text

\* The calls seen are those announced.
LEMMA SameCalls ==
  ASSUME NEW c, NEW d, Sound(c), Sound(d), ToolChunks(d.out) = ToolChunks(c.out)
  PROVE  d.seenTools = c.seenTools
  BY DEF Sound

\* A call leaves the text as it is, through any number of calls.
LEMMA CallsKeep ==
  ASSUME NEW c, Sound(c), ~c.done, NEW d, Plainly(c, d),
         d.lastText = c.lastText, ContentOf(d.out) = ContentOf(c.out),
         NEW id \in ToolIds, NEW e, e = EmitToolUse(d, id)
  PROVE  Plainly(c, e) /\ e.lastText = c.lastText /\ ContentOf(e.out) = ContentOf(c.out)
  <1>1. Sound(d) /\ ~d.done
    BY DEF Plainly
  <1>2. /\ Plainly(d, e) /\ e.lastText = d.lastText
        /\ ContentOf(e.out) = ContentOf(d.out)
    BY <1>1, CallEmitted
  <1> QED BY <1>2, PlainlyTransitive, Zenon

\* A call that was announced is not announced again.
LEMMA KnownCall ==
  ASSUME NEW c, NEW id \in c.seenTools
  PROVE  EmitToolUse(c, id) = c
  BY DEF EmitToolUse

\* The calls in the toolCalls of a chat message.
LEMMA UsesEmitted ==
  ASSUME NEW c, Sound(c), ~c.done, NEW ids \in Seq(ToolIds)
  PROVE  Calling(c, EmitToolUses(c, ids), ids)
  <1> DEFINE I == {d \in Converter : Plainly(c, d) /\ d.lastText = c.lastText
                                     /\ ContentOf(d.out) = ContentOf(c.out)}
             e == EmitToolUses(c, ids)
  <1>1. c \in I
    BY PlainlyReflexive DEF Sound
  <1>2. ASSUME NEW d \in I, NEW id \in ToolIds PROVE EmitToolUse(d, id) \in I
    <2>1. LET f == EmitToolUse(d, id)
          IN  Plainly(c, f) /\ f.lastText = c.lastText
              /\ ContentOf(f.out) = ContentOf(c.out)
      BY <1>2, CallsKeep
    <2> QED BY <2>1 DEF Plainly, Sound
  <1>3. e \in I
    <2> HIDE DEF I
    <2> QED BY <1>1, <1>2, UsesKeep, Zenon
  <1>4. ToSet(ids) \subseteq c.seenTools => e = c
    <2> SUFFICES ASSUME ToSet(ids) \subseteq c.seenTools PROVE e = c
      OBVIOUS
    <2>1. ids \in Seq(c.seenTools)
      BY DEF ToSet
    <2>2. \A d \in {c}, id \in c.seenTools : EmitToolUse(d, id) \in {c}
      BY KnownCall
    <2>3. c \in {c}
      OBVIOUS
    <2>4. e \in {c}
      BY <2>1, <2>2, <2>3, UsesKeep, Zenon
    <2> QED BY <2>4
  <1> HIDE DEF e
  <1> QED BY <1>3, <1>4 DEF Calling, e

\* The calls in a content array.
CallParts == {[type |-> "tool_use", id |-> id] : id \in ToolIds}

LEMMA PartIsCall ==
  ASSUME NEW c, NEW p \in CallParts
  PROVE  p.id \in ToolIds /\ EmitPart(c, p) = EmitToolUse(c, p.id)
  BY DEF EmitPart, CallParts

\* They are emitted as the toolCalls are.
LEMMA CallsEmitted ==
  ASSUME NEW c, Sound(c), ~c.done, NEW ids \in Seq(ToolIds)
  PROVE  Calling(c, EmitContentParts(c, Calls(ids)), ids)
  <1> DEFINE I == {d \in Converter : Plainly(c, d) /\ d.lastText = c.lastText
                                     /\ ContentOf(d.out) = ContentOf(c.out)}
             e == EmitContentParts(c, Calls(ids))
  <1>1. c \in I
    BY PlainlyReflexive DEF Sound
  <1>2. ASSUME NEW d \in I, NEW p \in CallParts PROVE EmitPart(d, p) \in I
    <2>1. p.id \in ToolIds /\ EmitPart(d, p) = EmitToolUse(d, p.id)
      BY PartIsCall
    <2>2. LET f == EmitToolUse(d, p.id)
          IN  Plainly(c, f) /\ f.lastText = c.lastText
              /\ ContentOf(f.out) = ContentOf(c.out)
      BY <2>1, <1>2, CallsKeep
    <2> QED BY <2>1, <2>2 DEF Plainly, Sound
  <1>3. Calls(ids) \in Seq(CallParts)
    BY DEF Calls, CallParts
  <1>4. e \in I
    <2> HIDE DEF I
    <2> QED BY <1>1, <1>2, <1>3, PartsKeep, Zenon
  <1>5. ToSet(ids) \subseteq c.seenTools => e = c
    <2> SUFFICES ASSUME ToSet(ids) \subseteq c.seenTools PROVE e = c
      OBVIOUS
    <2> DEFINE P == {p \in CallParts : p.id \in c.seenTools}
    <2>1. Calls(ids) \in Seq(P)
      BY DEF Calls, CallParts, ToSet
    <2>2. \A d \in {c}, p \in P : EmitPart(d, p) \in {c}
      BY KnownCall, PartIsCall
    <2>3. c \in {c}
      OBVIOUS
    <2> HIDE DEF P
    <2>4. e \in {c}
      BY <2>1, <2>2, <2>3, PartsKeep, Zenon
    <2> QED BY <2>4
  <1> HIDE DEF e
  <1> QED BY <1>4, <1>5 DEF Calling, e

\* First the text, then the calls.
LEMMA TellThenCall ==
  ASSUME NEW c, NEW d, NEW e, NEW text, NEW ids, Sound(c),
         Plainly(c, d), ToolChunks(d.out) = ToolChunks(c.out),
         ContentOf(c.out) = c.lastText /\ IsPrefix(c.lastText, text) =>
            d.lastText = text /\ ContentOf(d.out) = text,
         Calling(d, e, ids)
  PROVE  Telling(c, e, text, ids)
  <1>1. Sound(d) /\ d.seenTools = c.seenTools
    BY SameCalls DEF Plainly
  <1>2. Plainly(c, e)
    BY PlainlyTransitive, Zenon DEF Calling
  <1> QED BY <1>1, <1>2 DEF Telling, Calling

\* Text and thinking in a content array.
LEMMA PartEmitted ==
  ASSUME NEW c, NEW t
  PROVE  /\ EmitPart(c, Text(t)) = EmitText(c, t)
         /\ EmitPart(c, [type |-> "thinking"]) = Write(c, ThinkingChunk)
  BY DEF EmitPart, Text

\* A content string, or an array of text.
LEMMA TextContent ==
  ASSUME NEW c, Sound(c), ~c.done, NEW text \in Texts
  PROVE  LET d == EmitContentParts(c, <<Text(text)>>)
         IN  /\ Telling(c, d, text, <<>>) /\ ToolChunks(d.out) = ToolChunks(c.out)
  <1>1. EmitContentParts(c, <<Text(text)>>) = EmitText(c, text)
    BY OnePart, PartEmitted, Zenon
  <1> QED BY <1>1, TextEmitted DEF Telling

\* An array of text and calls.
LEMMA TextAndCalls ==
  ASSUME NEW c, Sound(c), ~c.done, NEW text \in Texts, NEW ids \in Seq(ToolIds)
  PROVE  Telling(c, EmitContentParts(c, <<Text(text)>> \o Calls(ids)), text, ids)
  <1> DEFINE P == {Text(text)} \cup CallParts
             d == EmitContentParts(c, <<Text(text)>>)
             e == EmitContentParts(d, Calls(ids))
  <1>1. <<Text(text)>> \in Seq(P) /\ Calls(ids) \in Seq(P)
    BY DEF Calls, CallParts
  <1>2. EmitContentParts(c, <<Text(text)>> \o Calls(ids)) = e
    <2> DEFINE s == <<Text(text)>>
               t == Calls(ids)
    <2>1. s \in Seq(P) /\ t \in Seq(P)
      BY <1>1
    <2>2. EmitContentParts(c, s \o t) = EmitContentParts(EmitContentParts(c, s), t)
      <3> HIDE DEF P, s, t
      <3> QED BY <2>1, MoreParts
    <2> QED BY <2>2
  <1>3. Telling(c, d, text, <<>>) /\ ToolChunks(d.out) = ToolChunks(c.out)
    BY TextContent
  <1>4. Plainly(c, d) /\ Sound(d) /\ ~d.done
    BY <1>3 DEF Telling, Plainly
  <1> HIDE DEF d
  <1>5. Calling(d, e, ids)
    BY <1>4, CallsEmitted
  <1>6. Telling(c, e, text, ids)
    BY <1>3, <1>4, <1>5, TellThenCall, Zenon DEF Telling
  <1> QED BY <1>2, <1>6 DEF d

\* An array with thinking, too.
LEMMA ThoughtTextAndCalls ==
  ASSUME NEW c, Sound(c), ~c.done, NEW text \in Texts, NEW ids \in Seq(ToolIds)
  PROVE  Telling(c, EmitContentParts(c,
                       <<[type |-> "thinking"], Text(text)>> \o Calls(ids)), text, ids)
  <1> DEFINE thought == [type |-> "thinking"]
             P == {thought, Text(text)} \cup CallParts
             rest == <<Text(text)>> \o Calls(ids)
             b == EmitContentParts(c, <<thought>>)
             e == EmitContentParts(b, rest)
  <1>1. /\ <<thought>> \in Seq(P) /\ rest \in Seq(P)
        /\ <<thought, Text(text)>> \o Calls(ids) = <<thought>> \o rest
    BY DEF Calls, CallParts
  <1>2. b = Write(c, ThinkingChunk)
    BY OnePart, PartEmitted, Zenon
  <1>3. EmitContentParts(c, <<thought, Text(text)>> \o Calls(ids)) = e
    <2> DEFINE s == <<thought>>
    <2>1. s \in Seq(P) /\ rest \in Seq(P)
      BY <1>1
    <2>2. EmitContentParts(c, s \o rest) = EmitContentParts(EmitContentParts(c, s), rest)
      <3> HIDE DEF P, s, rest
      <3> QED BY <2>1, MoreParts
    <2> QED BY <1>1, <2>2
  <1>4. /\ Plainly(c, b) /\ ToolChunks(b.out) = ToolChunks(c.out)
        /\ b.lastText = c.lastText /\ ContentOf(b.out) = ContentOf(c.out)
    BY <1>2, ThinkingEmitted
  <1>5. Sound(b) /\ ~b.done
    BY <1>4 DEF Plainly
  <1> HIDE DEF b
  <1>6. Telling(b, e, text, ids)
    BY <1>5, TextAndCalls
  <1> HIDE DEF e
  <1>7. Telling(c, e, text, ids)
    <2>1. Plainly(c, e)
      BY <1>4, <1>6, PlainlyTransitive, Zenon DEF Telling
    <2>2. b.seenTools = c.seenTools
      BY <1>4, <1>5, SameCalls
    <2> QED BY <1>4, <1>6, <2>1, <2>2 DEF Telling
  <1> QED BY <1>3, <1>7 DEF thought

StopLast(out) ==
  \A i \in 1 .. Len(out) : out[i].kind = "stop" =>
     \A j \in i + 1 .. Len(out) : out[j].kind = "[DONE]"

\* d is c, ended.
Ending(c, d) ==
  /\ Sound(d) /\ d.done
  /\ d.runID = c.runID
  /\ NoStop(c.out) => StopLast(d.out)
  /\ d.lastText = c.lastText /\ ContentOf(d.out) = ContentOf(c.out)
  /\ ToolChunks(d.out) = ToolChunks(c.out)

\* A chunk that marks the end, as the last one or before [DONE].
LEMMA StopAdded ==
  ASSUME NEW c, Sound(c), ~c.done, NEW u \in BOOLEAN
  PROVE  LET d == Write(c, StopChunk("stop", u))
         IN  /\ Sound(d) /\ ~d.done /\ d.runID = c.runID
             /\ d.lastText = c.lastText /\ ContentOf(d.out) = ContentOf(c.out)
             /\ ToolChunks(d.out) = ToolChunks(c.out)
             /\ \E x \in Chunk : x.kind = "stop" /\ d.out = Append(c.out, x)
  <1> DEFINE x == StopChunk("stop", u)
             d == Write(c, x)
  <1>1. x \in Chunk /\ x.kind = "stop"
    BY DEF StopChunk, Chunk
  <1>2. c \in Converter /\ c.out \in Seq(Chunk)
    BY DEF Sound, Converter
  <1> HIDE DEF x
  <1>3. /\ d \in Converter /\ d.out = Append(c.out, x)
        /\ d.runID = c.runID /\ d.lastText = c.lastText
        /\ d.toolSeq = c.toolSeq /\ d.seenTools = c.seenTools
        /\ d.done = c.done
    BY <1>1, <1>2, WriteShape
  <1> HIDE DEF d
  <1>4. x.kind # "content" /\ x.kind # "tool" /\ x.kind # "[DONE]"
    BY <1>1
  <1>5. /\ ContentOf(d.out) = ContentOf(c.out)
        /\ ToolChunks(d.out) = ToolChunks(c.out)
    BY <1>1, <1>2, <1>3, <1>4, OneMore, Zenon
  <1>6. NoDone(c.out)
    BY DEF Sound
  <1>7. NoDone(d.out)
    BY <1>1, <1>2, <1>3, <1>4, <1>6, KindsAdded, Zenon
  <1>8. Sound(d)
    BY <1>3, <1>5, <1>7, Zenon DEF Sound
  <1> QED BY <1>1, <1>3, <1>5, <1>8 DEF d, x

\* finish.
LEMMA DoneAdded ==
  ASSUME NEW c, Sound(c), ~c.done
  PROVE  LET d == Finish(c)
         IN  /\ Sound(d) /\ d.done /\ d.runID = c.runID
             /\ d.lastText = c.lastText /\ ContentOf(d.out) = ContentOf(c.out)
             /\ ToolChunks(d.out) = ToolChunks(c.out)
             /\ d.out = Append(c.out, DoneLine)
  <1> DEFINE x == DoneLine
             e == [c EXCEPT !.done = TRUE]
             d == Finish(c)
  <1>1. x \in Chunk /\ x.kind = "[DONE]"
    BY DEF DoneLine, Chunk
  <1>2. c \in Converter /\ c.out \in Seq(Chunk)
    BY DEF Sound, Converter
  <1>3. /\ e \in Converter /\ e.out = c.out
        /\ e.runID = c.runID /\ e.lastText = c.lastText
        /\ e.toolSeq = c.toolSeq /\ e.seenTools = c.seenTools
    BY <1>2 DEF Converter
  <1>13. e.done = TRUE
    BY <1>2 DEF Converter
  <1>4. d = Write(e, x)
    BY DEF Finish
  <1> HIDE DEF e, x, d
  <1>5. /\ d \in Converter /\ d.out = Append(e.out, x)
        /\ d.runID = e.runID /\ d.lastText = e.lastText
        /\ d.toolSeq = e.toolSeq /\ d.seenTools = e.seenTools
        /\ d.done = e.done
    BY <1>1, <1>3, <1>4, WriteShape
  <1>6. /\ d.out = Append(c.out, x) /\ d.runID = c.runID
        /\ d.lastText = c.lastText /\ d.done
        /\ d.toolSeq = c.toolSeq /\ d.seenTools = c.seenTools
    BY <1>3, <1>5, <1>13
  <1>7. x.kind # "content" /\ x.kind # "tool"
    BY <1>1
  <1>8. /\ ContentOf(d.out) = ContentOf(c.out)
        /\ ToolChunks(d.out) = ToolChunks(c.out)
    BY <1>1, <1>2, <1>6, <1>7, OneMore, Zenon
  <1>9. NoDone(c.out)
    BY DEF Sound
  <1>10. DoneLast(d.out)
    BY <1>1, <1>2, <1>6, <1>9, KindsAdded, Zenon
  <1>11. d.out # <<>> /\ d.out[Len(d.out)] = x
    BY <1>1, <1>2, <1>6
  <1>12. Sound(d)
    BY <1>5, <1>6, <1>8, <1>10, <1>11 DEF Sound, x
  <1> QED BY <1>6, <1>8, <1>12 DEF d, x

\* The end marked by a chunk, or by [DONE] alone.
LEMMA StopThenDone ==
  ASSUME NEW out \in Seq(Chunk), NEW y \in Chunk, NoStop(out), y.kind = "[DONE]"
  PROVE  /\ StopLast(Append(out, y))
         /\ \A x \in Chunk : StopLast(Append(Append(out, x), y))
  <1> SUFFICES ASSUME NEW x \in Chunk
               PROVE  /\ StopLast(Append(out, y))
                      /\ StopLast(Append(Append(out, x), y))
    <2> y \in Chunk
      OBVIOUS
    <2> QED OBVIOUS
  <1> DEFINE o == Append(Append(out, x), y)
             p == Append(out, y)
  <1>1. /\ Len(out) \in Nat /\ Len(o) = Len(out) + 2
        /\ o[Len(out) + 2] = y
        /\ \A i \in 1 .. Len(out) : o[i] = out[i]
    OBVIOUS
  <1>2. /\ Len(p) = Len(out) + 1 /\ p[Len(out) + 1] = y
        /\ \A i \in 1 .. Len(out) : p[i] = out[i]
    OBVIOUS
  <1> HIDE DEF o, p
  <1>3. StopLast(o)
    <2> SUFFICES ASSUME NEW i \in 1 .. Len(o), o[i].kind = "stop",
                        NEW j \in i + 1 .. Len(o)
                 PROVE  o[j].kind = "[DONE]"
      BY DEF StopLast
    <2>1. i \notin 1 .. Len(out)
      BY <1>1 DEF NoStop
    <2>2. j = Len(out) + 2
      BY <1>1, <2>1
    <2> QED BY <1>1, <2>2
  <1>4. StopLast(p)
    BY <1>1, <1>2 DEF StopLast, NoStop
  <1> QED BY <1>3, <1>4 DEF o, p

\* emitUsageAndDone.
LEMMA UsageAndDone ==
  ASSUME NEW c, Sound(c), ~c.done, NEW u \in BOOLEAN
  PROVE  Ending(c, EmitUsageAndDone(c, u))
  <1> DEFINE b == Write(c, StopChunk("stop", u))
             d == EmitUsageAndDone(c, u)
  <1>1. /\ Sound(b) /\ ~b.done /\ b.runID = c.runID
        /\ b.lastText = c.lastText /\ ContentOf(b.out) = ContentOf(c.out)
        /\ ToolChunks(b.out) = ToolChunks(c.out)
        /\ \E x \in Chunk : x.kind = "stop" /\ b.out = Append(c.out, x)
    BY StopAdded
  <1>2. d = Finish(b)
    BY DEF EmitUsageAndDone
  <1> HIDE DEF b, d
  <1>3. /\ Sound(d) /\ d.done /\ d.runID = b.runID
        /\ d.lastText = b.lastText /\ ContentOf(d.out) = ContentOf(b.out)
        /\ ToolChunks(d.out) = ToolChunks(b.out)
        /\ d.out = Append(b.out, DoneLine)
    BY <1>1, <1>2, DoneAdded, Zenon
  <1>4. NoStop(c.out) => StopLast(d.out)
    <2>1. PICK x \in Chunk : x.kind = "stop" /\ b.out = Append(c.out, x)
      BY <1>1
    <2>2. c.out \in Seq(Chunk)
      BY DEF Sound, Converter
    <2>3. DoneLine \in Chunk /\ DoneLine.kind = "[DONE]"
      BY DEF DoneLine, Chunk
    <2> QED BY <1>3, <2>1, <2>2, <2>3, StopThenDone, Zenon
  <1>5. Ending(c, d)
    BY <1>1, <1>3, <1>4, Zenon DEF Ending
  <1> QED BY <1>5 DEF d

\* finish at the end of the stream.
LEMMA Finished ==
  ASSUME NEW c, Sound(c)
  PROVE  /\ c.done => Finish(c) = c
         /\ ~c.done => Ending(c, Finish(c))
  <1>1. CASE c.done
    BY <1>1 DEF Finish
  <1>2. CASE ~c.done
    <2> DEFINE d == Finish(c)
    <2>1. /\ Sound(d) /\ d.done /\ d.runID = c.runID
          /\ d.lastText = c.lastText /\ ContentOf(d.out) = ContentOf(c.out)
          /\ ToolChunks(d.out) = ToolChunks(c.out)
          /\ d.out = Append(c.out, DoneLine)
      BY <1>2, DoneAdded
    <2>2. c.out \in Seq(Chunk)
      BY DEF Sound, Converter
    <2>3. DoneLine \in Chunk /\ DoneLine.kind = "[DONE]"
      BY DEF DoneLine, Chunk
    <2> HIDE DEF d
    <2>4. NoStop(c.out) => StopLast(d.out)
      BY <2>1, <2>2, <2>3, StopThenDone, Zenon
    <2> QED BY <1>2, <2>1, <2>4 DEF Ending, d
  <1> QED BY <1>1, <1>2

\* emitError.
Failing(c, d, msg) ==
  /\ Sound(d) /\ ~d.done /\ d.out # <<>>
  /\ d.runID = c.runID
  /\ ToSet(ContentOf(c.out)) \subseteq ToSet(ContentOf(d.out))
  /\ msg # <<>> => ToSet(msg) \subseteq ToSet(ContentOf(d.out))
  /\ ToolChunks(d.out) = ToolChunks(c.out)

LEMMA ErrorEmitted ==
  ASSUME NEW c, Sound(c), ~c.done, NEW msg \in Texts
  PROVE  Failing(c, EmitError(c, msg), msg)
  <1> DEFINE b == EmitText(c, msg)
             d == EmitError(c, msg)
  <1>1. /\ Plainly(c, b) /\ ToolChunks(b.out) = ToolChunks(c.out)
        /\ msg # <<>> => b.lastText = msg
    BY TextEmitted
  <1> HIDE DEF b
  <1>2. \E f \in BOOLEAN : d = Write(b, StopChunk("stop", f))
    BY Zenon DEF EmitError, b
  <1>3. Sound(b) /\ ~b.done
    BY <1>1 DEF Plainly
  <1> HIDE DEF d
  <1>4. /\ Sound(d) /\ ~d.done /\ d.runID = b.runID
        /\ d.lastText = b.lastText /\ ContentOf(d.out) = ContentOf(b.out)
        /\ ToolChunks(d.out) = ToolChunks(b.out)
        /\ \E x \in Chunk : x.kind = "stop" /\ d.out = Append(b.out, x)
    BY <1>2, <1>3, StopAdded
  <1>5. d.out # <<>>
    <2>1. b.out \in Seq(Chunk)
      BY <1>3 DEF Sound, Converter
    <2> QED BY <1>4, <2>1
  <1>6. Failing(c, d, msg)
    BY <1>1, <1>4, <1>5 DEF Failing, Plainly, Sound
  <1> QED BY <1>6 DEF d

-----------------------------------------------------------------------------
(* What the frames do                                                      *)

\* Who may tell what: the run of the request is taken for it if its id is
\* known or not needed.
LEMMA OwnEvents ==
  ASSUME NEW c, c.runID = RunID, NEW own \in Owners, NEW ev,
         ev.run = own.run, ev.session = own.session
  PROVE  Mine(c, ev)
  BY RunAssumption DEF Owners, Mine

\* Events that carry the id of another run never are.
LEMMA OtherEvents ==
  ASSUME NEW c, c.runID \in {RunID, NoRun}, NEW ev, ev.run = OtherRun
  PROVE  ~Mine(c, ev)
  BY RunAssumption DEF Mine

\* The shapes of the events.
ChatDelta(ev, content, ids) ==
  /\ ev.event = "chat"
  /\ ev.payload.state = "delta" /\ ev.payload.message
  /\ ev.payload.content = content /\ ev.payload.tools = ids

TextForm(ev, t, ids) ==
  \/ ChatDelta(ev, <<Text(t)>>, ids)
  \/ ChatDelta(ev, <<[type |-> "thinking"], Text(t)>> \o Calls(ids), <<>>)
  \/ /\ ev.event = "agent" /\ ev.payload.stream = "assistant"
     /\ \/ ev.payload.content = <<Text(t)>> \o Calls(ids)
        \/ ev.payload.content = <<Text(t)>>
  \/ /\ ev.event = "stream" /\ ev.payload.type = "text"
     /\ ev.payload.text = t
  \/ /\ ev.event = "stream" /\ ev.payload.type = "message"
     /\ ev.payload.content = <<Text(t)>> \o Calls(ids)

\* Every event that tells the answer so far has one of the forms.
LEMMA TextShapes ==
  ASSUME NEW own, NEW t, NEW ids, NEW ev \in TextEvents(own, t, ids)
  PROVE  ev.run = own.run /\ ev.session = own.session /\ TextForm(ev, t, ids)
  <1> DEFINE a == <<Text(t)>>
             b == <<[type |-> "thinking"], Text(t)>> \o Calls(ids)
             d == <<Text(t)>> \o Calls(ids)
  <1>1. \/ ev = Event("chat", own, ChatMessage("delta", a, ids, FALSE))
        \/ ev = Event("chat", own, ChatMessage("delta", b, <<>>, FALSE))
        \/ ev = Event("agent", own, [stream |-> "assistant", content |-> d])
        \/ ev = Event("agent", own, [stream |-> "assistant", content |-> a])
        \/ ev = Event("stream", own, [type |-> "text", text |-> t])
        \/ ev = Event("stream", own, [type |-> "message", content |-> d])
    BY Zenon DEF TextEvents
  <1> HIDE DEF a, b, d
  <1>2. /\ ev.run = own.run /\ ev.session = own.session
        /\ \/ ChatDelta(ev, a, ids)
           \/ ChatDelta(ev, b, <<>>)
           \/ /\ ev.event = "agent" /\ ev.payload.stream = "assistant"
              /\ ev.payload.content = d \/ ev.payload.content = a
           \/ /\ ev.event = "stream" /\ ev.payload.type = "text"
              /\ ev.payload.text = t
           \/ /\ ev.event = "stream" /\ ev.payload.type = "message"
              /\ ev.payload.content = d
    BY <1>1 DEF Event, ChatMessage, ChatDelta
  <1> QED BY <1>2 DEF a, b, d, TextForm

\* A frame that is not looked at.
LEMMA NotHeard ==
  ASSUME NEW c, NEW ev, c.done \/ ~Mine(c, ev)
  PROVE  HandleFrame(c, ev) = c
  BY DEF HandleFrame, Handle

\* What HandleFrame does with the snapshot in a chat event,
LEMMA ChatHeard ==
  ASSUME NEW c, ~c.done, NEW ev, Mine(c, ev), NEW content, NEW ids,
         ChatDelta(ev, content, ids)
  PROVE  HandleFrame(c, ev) = EmitToolUses(EmitContentParts(c, content), ids)
  BY DEF HandleFrame, Handle, HandleChat, ChatDelta

\* in an agent event,
LEMMA AgentHeard ==
  ASSUME NEW c, ~c.done, NEW ev, Mine(c, ev),
         ev.event = "agent", ev.payload.stream = "assistant"
  PROVE  HandleFrame(c, ev) = EmitContentParts(c, ev.payload.content)
  BY DEF HandleFrame, Handle, HandleAgent

\* and in a stream event.
LEMMA StreamHeard ==
  ASSUME NEW c, ~c.done, NEW ev, Mine(c, ev), ev.event = "stream"
  PROVE  /\ ev.payload.type = "text" =>
               HandleFrame(c, ev) = EmitText(c, ev.payload.text)
         /\ ev.payload.type = "message" =>
               HandleFrame(c, ev) = EmitContentParts(c, ev.payload.content)
  BY DEF HandleFrame, Handle, HandleAgentStream

\* The answer so far is told.
LEMMA TextHeard ==
  ASSUME NEW c, Sound(c), ~c.done, NEW own, NEW text \in Texts,
         NEW ids \in Seq(ToolIds), NEW ev \in TextEvents(own, text, ids),
         Mine(c, ev)
  PROVE  Telling(c, HandleFrame(c, ev), text, ids)
  <1> DEFINE d == HandleFrame(c, ev)
             one == EmitContentParts(c, <<Text(text)>>)
             all == <<[type |-> "thinking"], Text(text)>> \o Calls(ids)
  <1>1. Telling(c, one, text, <<>>) /\ ToolChunks(one.out) = ToolChunks(c.out)
    BY TextContent
  <1>2. Telling(c, one, text, ids)
    BY <1>1 DEF Telling
  <1>3. CASE ChatDelta(ev, <<Text(text)>>, ids)
    <2>1. d = EmitToolUses(one, ids)
      BY <1>3, ChatHeard, Zenon
    <2>2. Sound(one) /\ ~one.done /\ Plainly(c, one)
      BY <1>1 DEF Telling, Plainly
    <2> HIDE DEF one, d
    <2>3. Calling(one, d, ids)
      BY <2>1, <2>2, UsesEmitted
    <2> QED BY <1>1, <2>2, <2>3, TellThenCall, Zenon DEF Telling, d
  <1>4. CASE ChatDelta(ev, all, <<>>)
    <2>1. d = EmitToolUses(EmitContentParts(c, all), <<>>)
      BY <1>4, ChatHeard, Zenon
    <2>2. d = EmitContentParts(c, all)
      BY <2>1, NoUse, Zenon
    <2> QED BY <2>2, ThoughtTextAndCalls
  <1>5. CASE /\ ev.event = "agent" /\ ev.payload.stream = "assistant"
             /\ \/ ev.payload.content = <<Text(text)>> \o Calls(ids)
                \/ ev.payload.content = <<Text(text)>>
    <2>1. \/ d = EmitContentParts(c, <<Text(text)>> \o Calls(ids))
          \/ d = one
      BY <1>5, AgentHeard
    <2> QED BY <1>2, <2>1, TextAndCalls
  <1>6. CASE /\ ev.event = "stream" /\ ev.payload.type = "text"
             /\ ev.payload.text = text
    <2>1. d = EmitText(c, text)
      BY <1>6, StreamHeard
    <2>2. d = one
      BY <2>1, OnePart, PartEmitted, Zenon
    <2> QED BY <1>2, <2>2
  <1>7. CASE /\ ev.event = "stream" /\ ev.payload.type = "message"
             /\ ev.payload.content = <<Text(text)>> \o Calls(ids)
    <2>1. d = EmitContentParts(c, <<Text(text)>> \o Calls(ids))
      BY <1>7, StreamHeard
    <2> QED BY <2>1, TextAndCalls
  <1>8. \/ ChatDelta(ev, <<Text(text)>>, ids)
        \/ ChatDelta(ev, all, <<>>)
        \/ /\ ev.event = "agent" /\ ev.payload.stream = "assistant"
           /\ \/ ev.payload.content = <<Text(text)>> \o Calls(ids)
              \/ ev.payload.content = <<Text(text)>>
        \/ /\ ev.event = "stream" /\ ev.payload.type = "text"
           /\ ev.payload.text = text
        \/ /\ ev.event = "stream" /\ ev.payload.type = "message"
           /\ ev.payload.content = <<Text(text)>> \o Calls(ids)
    <2>1. TextForm(ev, text, ids)
      BY TextShapes
    <2> QED BY <2>1, Zenon DEF TextForm
  <1> QED BY <1>3, <1>4, <1>5, <1>6, <1>7, <1>8, Zenon

\* One call is told.
LEMMA ToolHeard ==
  ASSUME NEW c, ~c.done, NEW own, NEW id, NEW ev \in ToolEvents(own, id), Mine(c, ev)
  PROVE  HandleFrame(c, ev) = EmitToolUse(c, id)
  <1>1. \/ /\ ev.event = "agent" /\ ev.payload.stream = "tool"
           /\ ev.payload.phase = "start" /\ ev.payload.id = id
        \/ /\ ev.event = "stream" /\ ev.payload.type = "tool_call"
           /\ ev.payload.id = id
    BY DEF ToolEvents, Event
  <1> QED BY <1>1 DEF HandleFrame, Handle, HandleAgent, HandleAgentStream

\* Nothing is told.
LEMMA NothingHeard ==
  ASSUME NEW c, ~c.done, NEW own, NEW ev \in QuietEvents(own), Mine(c, ev)
  PROVE  HandleFrame(c, ev) \in {c, Write(c, ThinkingChunk)}
  <1>1. \/ ev.event = "stream" /\ ev.payload.type \in {"phase", "thinking"}
        \/ /\ ev.event = "agent" /\ ev.payload.stream = "tool"
           /\ ev.payload.phase = "result"
        \/ ev.event = "health"
    BY DEF QuietEvents, Event
  <1> QED BY <1>1 DEF HandleFrame, Handle, HandleAgent, HandleAgentStream

\* The end is told, with the answer or without.
LEMMA EndHeard ==
  ASSUME NEW c, Sound(c), ~c.done, NEW own, NEW text \in Texts,
         NEW ids \in Seq(ToolIds), NEW ev \in EndEvents(own, text, ids),
         Mine(c, ev)
  PROVE  \E b : (b = c \/ Telling(c, b, text, ids)) /\ Ending(b, HandleFrame(c, ev))
  <1> DEFINE d == HandleFrame(c, ev)
             told == EmitToolUses(EmitContentParts(c, <<Text(text)>>), ids)
  <1>1. CASE \E u \in BOOLEAN :
                ev = Event("chat", own, ChatMessage("final", <<Text(text)>>, ids, u))
    <2> DEFINE one == EmitContentParts(c, <<Text(text)>>)
    <2>1. PICK u \in BOOLEAN :
             ev = Event("chat", own, ChatMessage("final", <<Text(text)>>, ids, u))
      BY <1>1
    <2>2. /\ ev.event = "chat" /\ ev.payload.state = "final" /\ ev.payload.message
          /\ ev.payload.content = <<Text(text)>> /\ ev.payload.tools = ids
          /\ ev.payload.usage = u
      BY <2>1 DEF Event, ChatMessage
    <2>3. d = EmitUsageAndDone(told, u)
      BY <2>2 DEF HandleFrame, Handle, HandleChat
    <2>4. Telling(c, one, text, <<>>) /\ ToolChunks(one.out) = ToolChunks(c.out)
      BY TextContent
    <2>5. Sound(one) /\ ~one.done /\ Plainly(c, one)
      BY <2>4 DEF Telling, Plainly
    <2>6. Calling(one, told, ids)
      BY <2>5, UsesEmitted
    <2>7. Telling(c, told, text, ids)
      <3> HIDE DEF one, told
      <3> QED BY <2>4, <2>5, <2>6, TellThenCall, Zenon DEF Telling
    <2>8. Sound(told) /\ ~told.done
      BY <2>7 DEF Telling, Plainly
    <2> HIDE DEF told, d
    <2>9. Ending(told, d)
      BY <2>3, <2>8, UsageAndDone
    <2> QED BY <2>7, <2>9 DEF d
  <1>2. CASE ~\E u \in BOOLEAN :
                ev = Event("chat", own, ChatMessage("final", <<Text(text)>>, ids, u))
    <2>1. \/ /\ ev.event = "chat" /\ ev.payload.state = "final"
             /\ ~ev.payload.message /\ ev.payload.usage
          \/ /\ ev.event = "agent" /\ ev.payload.stream = "lifecycle"
             /\ ev.payload.phase = "end" /\ ev.payload.usage \in BOOLEAN
          \/ /\ ev.event = "stream" /\ ev.payload.type = "done"
             /\ ev.payload.usage \in BOOLEAN
      <3> DEFINE p == [state |-> "final", message |-> FALSE, usage |-> TRUE]
                 q == [stream |-> "lifecycle", phase |-> "end", usage |-> TRUE]
                 r == [type |-> "done", usage |-> FALSE]
      <3>1. \/ ev = Event("chat", own, p)
            \/ ev = Event("agent", own, q)
            \/ ev = Event("stream", own, r)
        BY <1>2, Zenon DEF EndEvents
      <3>2. /\ p.state = "final" /\ ~p.message /\ p.usage
            /\ q.stream = "lifecycle" /\ q.phase = "end" /\ q.usage \in BOOLEAN
            /\ r.type = "done" /\ r.usage \in BOOLEAN
        OBVIOUS
      <3> HIDE DEF p, q, r
      <3> QED BY <3>1, <3>2 DEF Event
    <2>2. \E u \in BOOLEAN : d = EmitUsageAndDone(c, u)
      <3>1. CASE /\ ev.event = "chat" /\ ev.payload.state = "final"
                 /\ ~ev.payload.message /\ ev.payload.usage
        <4>1. d = EmitUsageAndDone(c, TRUE)
          BY <3>1, Zenon DEF HandleFrame, Handle, HandleChat
        <4> QED BY <4>1, Zenon
      <3>2. CASE /\ ev.event = "agent" /\ ev.payload.stream = "lifecycle"
                 /\ ev.payload.phase = "end" /\ ev.payload.usage \in BOOLEAN
        <4>1. d = EmitUsageAndDone(c, ev.payload.usage)
          BY <3>2 DEF HandleFrame, Handle, HandleAgent
        <4> QED BY <3>2, <4>1, Zenon
      <3>3. CASE /\ ev.event = "stream" /\ ev.payload.type = "done"
                 /\ ev.payload.usage \in BOOLEAN
        <4>1. d = EmitUsageAndDone(c, ev.payload.usage)
          BY <3>3 DEF HandleFrame, Handle, HandleAgentStream
        <4> QED BY <3>3, <4>1, Zenon
      <3> QED BY <2>1, <3>1, <3>2, <3>3
    <2>3. Ending(c, d)
      BY <2>2, UsageAndDone
    <2> QED BY <2>3
  <1> QED BY <1>1, <1>2

\* An error is told.
LEMMA ErrorHeard ==
  ASSUME NEW c, ~c.done, NEW own, NEW ev \in ErrorEvents(own), Mine(c, ev)
  PROVE  HandleFrame(c, ev) = EmitError(c, <<ErrorToken>>)
  <1> DEFINE msg == <<ErrorToken>>
  <1>1. \/ ev.event = "chat" /\ ev.payload.state = "error" /\ ev.payload.text = msg
        \/ /\ ev.event = "agent" /\ ev.payload.stream = "lifecycle"
           /\ ev.payload.phase = "error" /\ ev.payload.text = msg
        \/ ev.event = "stream" /\ ev.payload.type = "error" /\ ev.payload.text = msg
    BY DEF ErrorEvents, Event
  <1> HIDE DEF msg
  <1>2. HandleFrame(c, ev) = EmitError(c, msg)
    BY <1>1 DEF HandleFrame, Handle, HandleChat, HandleAgent, HandleAgentStream
  <1> QED BY <1>2 DEF msg

\* Whatever an event tells, and whoever sent it.
SomeEvent(own, ev) ==
  \/ \E text \in Texts, ids \in Seq(ToolIds) :
        ev \in TextEvents(own, text, ids) \/ ev \in EndEvents(own, text, ids)
  \/ \E id \in ToolIds : ev \in ToolEvents(own, id)
  \/ ev \in QuietEvents(own) \/ ev \in ErrorEvents(own)

\* What another run tells is such an event.
LEMMA ForeignIsSome ==
  ASSUME NEW own, NEW ev \in ForeignEvents(own)
  PROVE  SomeEvent(own, ev)
  <1>1. /\ <<ForeignToken>> \in Texts /\ <<>> \in Texts
        /\ <<>> \in Seq(ToolIds)
    BY DEF Texts
  <1>2. \/ ev \in TextEvents(own, <<ForeignToken>>, <<>>)
        \/ ev \in EndEvents(own, <<>>, <<>>)
        \/ \E id \in ToolIds : ev \in ToolEvents(own, id)
        \/ ev \in ErrorEvents(own)
    <2> DEFINE T == TextEvents(own, <<ForeignToken>>, <<>>)
               E == EndEvents(own, <<>>, <<>>)
               U == UNION {ToolEvents(own, id) : id \in ToolIds}
               X == ErrorEvents(own)
    <2>1. ev \in T \cup E \cup (IF MayFail THEN X ELSE {}) \cup U
      BY Zenon DEF ForeignEvents
    <2>2. ev \in U => \E id \in ToolIds : ev \in ToolEvents(own, id)
      OBVIOUS
    <2> HIDE DEF T, E, U, X
    <2>3. ev \in T \/ ev \in E \/ ev \in U \/ ev \in X
      BY <2>1
    <2> QED BY <2>2, <2>3, Zenon DEF T, E, X
  <1> QED BY <1>1, <1>2, Zenon DEF SomeEvent

\* An event carries what its owner puts into it.
LEMMA EventOwner ==
  ASSUME NEW own, NEW ev, SomeEvent(own, ev)
  PROVE  ev.run = own.run /\ ev.session = own.session
  <1>1. ASSUME NEW text, NEW ids, ev \in EndEvents(own, text, ids)
        PROVE  ev.run = own.run /\ ev.session = own.session
    BY <1>1 DEF EndEvents, Event
  <1>2. ASSUME NEW id, ev \in ToolEvents(own, id)
        PROVE  ev.run = own.run /\ ev.session = own.session
    BY <1>2 DEF ToolEvents, Event
  <1>3. ASSUME ev \in QuietEvents(own) \/ ev \in ErrorEvents(own)
        PROVE  ev.run = own.run /\ ev.session = own.session
    BY <1>3 DEF QuietEvents, ErrorEvents, Event
  <1> QED BY <1>1, <1>2, <1>3, TextShapes, Zenon DEF SomeEvent

\* It leaves a sound converter sound.
Goes(c, d) == Sound(d) /\ d.runID = c.runID /\ Further(c, d)

LEMMA AnyHeard ==
  ASSUME NEW c, Sound(c), NEW own, NEW ev, SomeEvent(own, ev)
  PROVE  Goes(c, HandleFrame(c, ev))
  <1> DEFINE d == HandleFrame(c, ev)
  <1>1. CASE c.done \/ ~Mine(c, ev)
    <2>1. d = c
      BY <1>1, NotHeard
    <2> QED BY <2>1 DEF Goes, Further
  <1>2. CASE ~c.done /\ Mine(c, ev)
    <2>1. ASSUME NEW text \in Texts, NEW ids \in Seq(ToolIds),
                 ev \in TextEvents(own, text, ids)
          PROVE  Goes(c, d)
      <3>1. Telling(c, d, text, ids)
        BY <1>2, <2>1, TextHeard, Zenon
      <3> QED BY <3>1 DEF Telling, Plainly, Goes
    <2>2. ASSUME NEW text \in Texts, NEW ids \in Seq(ToolIds),
                 ev \in EndEvents(own, text, ids)
          PROVE  Goes(c, d)
      <3>1. PICK b : (b = c \/ Telling(c, b, text, ids)) /\ Ending(b, d)
        BY <1>2, <2>2, EndHeard, Zenon
      <3>2. b.runID = c.runID
        BY <3>1 DEF Telling, Plainly
      <3>3. Sound(d) /\ d.done /\ d.runID = b.runID
        BY <3>1 DEF Ending
      <3> HIDE DEF d
      <3>4. Further(c, d)
        BY <3>3 DEF Sound, Further
      <3> QED BY <3>2, <3>3, <3>4 DEF Goes
    <2>3. ASSUME NEW id \in ToolIds, ev \in ToolEvents(own, id)
          PROVE  Goes(c, d)
      <3>1. d = EmitToolUse(c, id)
        BY <1>2, <2>3, ToolHeard, Zenon
      <3>2. Plainly(c, d)
        BY <1>2, <3>1, CallEmitted
      <3> QED BY <3>2 DEF Plainly, Goes
    <2>4. ASSUME ev \in QuietEvents(own)
          PROVE  Goes(c, d)
      <3>1. d = c \/ d = Write(c, ThinkingChunk)
        BY <1>2, <2>4, NothingHeard, Zenon
      <3>2. Plainly(c, d)
        BY <1>2, <3>1, ThinkingEmitted, PlainlyReflexive
      <3> QED BY <3>2 DEF Plainly, Goes
    <2>5. ASSUME ev \in ErrorEvents(own)
          PROVE  Goes(c, d)
      <3> DEFINE msg == <<ErrorToken>>
      <3>1. d = EmitError(c, msg)
        BY <1>2, <2>5, ErrorHeard, Zenon
      <3>2. msg \in Texts
        BY DEF Texts
      <3> HIDE DEF msg, d
      <3>3. Failing(c, d, msg)
        BY <1>2, <3>1, <3>2, ErrorEmitted
      <3> QED BY <3>3 DEF Failing, Further, Goes
    <2> HIDE DEF d
    <2>6. \/ \E text \in Texts, ids \in Seq(ToolIds) :
                \/ ev \in TextEvents(own, text, ids)
                \/ ev \in EndEvents(own, text, ids)
          \/ \E id \in ToolIds : ev \in ToolEvents(own, id)
          \/ ev \in QuietEvents(own) \/ ev \in ErrorEvents(own)
      BY DEF SomeEvent
    <2> QED BY <2>1, <2>2, <2>3, <2>4, <2>5, <2>6 DEF d
  <1> QED BY <1>1, <1>2

\* Another run's event that carries its id is not taken.
LEMMA ForeignHeard ==
  ASSUME NEW c, Sound(c), NEW own, own.run = OtherRun,
         NEW ev \in ForeignEvents(own)
  PROVE  HandleFrame(c, ev) = c
  <1>1. ev.run = OtherRun
    BY ForeignIsSome, EventOwner
  <1>2. c.runID \in {RunID, NoRun}
    BY DEF Sound, Converter
  <1> QED BY <1>1, <1>2, OtherEvents, NotHeard

-----------------------------------------------------------------------------
(* The converter and the gateway                                           *)

Names(calls) == [i \in DOMAIN calls |-> calls[i].id]

\* The converter c, all of whose output was written, after the gateway said s
\* and called l, in phase p.
Follows(c, s, l, p) ==
  /\ Sound(c)
  /\ p # "failed" => StopLast(c.out) /\ (~c.done => NoStop(c.out))
  /\ c.runID # NoRun => Names(ToolChunks(c.out)) = l
  /\ p = "failed" /\ c.runID # NoRun => ErrorToken \in ToSet(ContentOf(c.out))
  /\ ~Incremental /\ p # "failed" =>
        ContentOf(c.out) = c.lastText /\ IsPrefix(c.lastText, s)

\* It has told all of it.
CaughtUp(c, s, p) ==
  ~Incremental /\ p # "failed" /\ c.runID # NoRun => c.lastText = s

\* The answer of the gateway is a text, and so is each of its tokens.
LEMMA SaidIsText ==
  ASSUME NEW s \in Seq(Tokens)
  PROVE  /\ s \in Texts
         /\ \A t \in Tokens : <<t>> \in Texts /\ Append(s, t) \in Seq(Tokens)
  BY DEF Texts

\* No end at all is no end before the last chunk.
LEMMA NoStopIsLast == ASSUME NEW out, NoStop(out) PROVE StopLast(out)
  BY DEF NoStop, StopLast

\* The calls seen are the names announced.
LEMMA SeenNames ==
  ASSUME NEW c, Sound(c)
  PROVE  c.seenTools = ToSet(Names(ToolChunks(c.out)))
  BY DEF Sound, Names, ToSet

\* A longer answer begins with what the shorter one began with.
LEMMA PrefixGrows ==
  ASSUME NEW a \in Texts, NEW s \in Seq(Tokens), NEW t \in Tokens, IsPrefix(a, s)
  PROVE  IsPrefix(a, Append(s, t))
  <1> DEFINE r == Append(s, t)
  <1>1. /\ Len(a) <= Len(s) /\ Len(a) \in Nat /\ Len(s) \in Nat
        /\ SubSeq(a, 1, Len(a)) = SubSeq(s, 1, Len(a))
    BY DEF IsPrefix, Texts
  <1>2. /\ Len(r) = Len(s) + 1 /\ r \in Seq(Tokens)
        /\ \A i \in 1 .. Len(s) : r[i] = s[i]
    OBVIOUS
  <1> HIDE DEF r
  <1>3. SubSeq(r, 1, Len(a)) = SubSeq(s, 1, Len(a))
    <2>1. /\ SubSeq(r, 1, Len(a)) \in Seq(Tokens)
          /\ Len(SubSeq(r, 1, Len(a))) = Len(a)
      BY <1>1, <1>2
    <2>2. /\ SubSeq(s, 1, Len(a)) \in Seq(Tokens)
          /\ Len(SubSeq(s, 1, Len(a))) = Len(a)
      BY <1>1
    <2>3. \A i \in 1 .. Len(a) : SubSeq(r, 1, Len(a))[i] = SubSeq(s, 1, Len(a))[i]
      BY <1>1, <1>2
    <2> QED BY <2>1, <2>2, <2>3
  <1> QED BY <1>1, <1>2, <1>3 DEF IsPrefix, r

\* A text begins with itself, and with nothing.
LEMMA PrefixOfItself ==
  ASSUME NEW s \in Texts
  PROVE  IsPrefix(s, s) /\ IsPrefix(<<>>, s)
  BY DEF IsPrefix, Texts

\* The converter follows the gateway through each kind of event: through the
\* answer so far,
LEMMA FollowsText ==
  ASSUME NEW c, NEW s \in Seq(Tokens), NEW l \in Seq(ToolIds),
         Follows(c, s, l, "going"), ~c.done,
         NEW r \in Seq(Tokens), r = s \/ \E t \in Tokens : r = Append(s, t),
         NEW text \in Texts, ~Incremental => text = r,
         NEW own \in Owners, NEW ev \in TextEvents(own, text, l)
  PROVE  LET d == HandleFrame(c, ev)
         IN  /\ Follows(d, r, l, "going") /\ CaughtUp(d, r, "going")
             /\ ~d.done /\ d.runID = c.runID /\ Further(c, d)
  <1> DEFINE d == HandleFrame(c, ev)
  <1>1. Sound(c) /\ c.runID \in {RunID, NoRun} /\ c.lastText \in Texts
    BY DEF Follows, Sound, Converter
  <1>2. ~Incremental => IsPrefix(c.lastText, r)
    BY <1>1, PrefixGrows DEF Follows
  <1>3. CASE Mine(c, ev)
    <2>1. Telling(c, d, text, l)
      BY <1>1, <1>3, TextHeard, Zenon
    <2> HIDE DEF d
    <2>2. /\ Sound(d) /\ ~d.done /\ d.runID = c.runID /\ NoStop(d.out)
          /\ Further(c, d)
      BY <2>1 DEF Telling, Plainly, Follows
    <2>3. StopLast(d.out)
      BY <2>2, NoStopIsLast
    <2>4. c.runID # NoRun => Names(ToolChunks(d.out)) = l
      BY <1>1, <2>1, SeenNames DEF Telling, Follows
    <2>5. ~Incremental => d.lastText = r /\ ContentOf(d.out) = r
      BY <1>2, <2>1 DEF Telling, Follows
    <2>6. IsPrefix(r, r)
      BY SaidIsText, PrefixOfItself
    <2> QED BY <2>2, <2>3, <2>4, <2>5, <2>6 DEF Follows, CaughtUp, d
  <1>4. CASE ~Mine(c, ev)
    <2>1. d = c
      BY <1>4, NotHeard
    <2>2. c.runID = NoRun
      BY <1>1, <1>4, OwnEvents, TextShapes
    <2> HIDE DEF d
    <2> QED BY <1>2, <2>1, <2>2 DEF Follows, CaughtUp, Further, d
  <1> QED BY <1>3, <1>4

\* one call,
LEMMA FollowsTool ==
  ASSUME NEW c, NEW s \in Seq(Tokens), NEW l \in Seq(ToolIds),
         Follows(c, s, l, "going"), ~c.done, NEW id \in ToolIds,
         NEW own \in Owners, NEW ev \in ToolEvents(own, id),
         NEW m, m = IF id \in ToSet(l) THEN l ELSE Append(l, id)
  PROVE  LET d == HandleFrame(c, ev)
         IN  /\ Follows(d, s, m, "going")
             /\ CaughtUp(c, s, "going") => CaughtUp(d, s, "going")
             /\ ~d.done /\ d.runID = c.runID /\ Further(c, d)
  <1> DEFINE d == HandleFrame(c, ev)
  <1>1. Sound(c) /\ c.runID \in {RunID, NoRun} /\ c.out \in Seq(Chunk)
    BY DEF Follows, Sound, Converter
  <1>2. CASE Mine(c, ev)
    <2>1. d = EmitToolUse(c, id)
      BY <1>2, ToolHeard, Zenon
    <2>2. /\ Plainly(c, d)
          /\ d.lastText = c.lastText /\ ContentOf(d.out) = ContentOf(c.out)
          /\ id \in c.seenTools => d = c
          /\ id \notin c.seenTools => \E x \in Announcements :
                x.id = id /\ ToolChunks(d.out) = Append(ToolChunks(c.out), x)
      BY <1>1, <2>1, CallEmitted
    <2> HIDE DEF d
    <2>3. /\ Sound(d) /\ ~d.done /\ d.runID = c.runID /\ NoStop(d.out)
          /\ StopLast(d.out) /\ Further(c, d)
      BY <2>2, NoStopIsLast DEF Plainly, Follows
    <2>4. ASSUME c.runID # NoRun PROVE Names(ToolChunks(d.out)) = m
      <3>1. Names(ToolChunks(c.out)) = l /\ c.seenTools = ToSet(l)
        BY <1>1, <2>4, SeenNames DEF Follows
      <3>2. CASE id \in c.seenTools
        BY <2>2, <3>1, <3>2
      <3>3. CASE id \notin c.seenTools
        <4>1. PICK x \in Announcements :
                 x.id = id /\ ToolChunks(d.out) = Append(ToolChunks(c.out), x)
          BY <2>2, <3>3
        <4>2. ToolChunks(c.out) \in Seq(Announcements)
          BY <1>1, ToolType
        <4> DEFINE calls == ToolChunks(c.out)
        <4>3. Names(Append(calls, x)) = Append(Names(calls), id)
          <5>1. calls \in Seq(Announcements) /\ x.id = id
            BY <4>1, <4>2
          <5> HIDE DEF calls
          <5> QED BY <5>1 DEF Names
        <4> QED BY <3>1, <3>3, <4>1, <4>3
      <3> QED BY <3>2, <3>3
    <2> QED BY <2>2, <2>3, <2>4 DEF Follows, CaughtUp, d
  <1>3. CASE ~Mine(c, ev)
    <2>1. d = c
      BY <1>3, NotHeard
    <2>2. c.runID = NoRun
      <3>1. ev.run = own.run /\ ev.session = own.session
        BY DEF ToolEvents, Event
      <3> QED BY <1>1, <1>3, <3>1, OwnEvents
    <2> HIDE DEF d
    <2> QED BY <2>1, <2>2 DEF Follows, CaughtUp, Further, d
  <1> QED BY <1>2, <1>3

\* an event that tells nothing,
LEMMA FollowsNothing ==
  ASSUME NEW c, NEW s, NEW l, NEW p, Follows(c, s, l, p), CaughtUp(c, s, p),
         NEW own, NEW ev \in QuietEvents(own)
  PROVE  LET d == HandleFrame(c, ev)
         IN  /\ Follows(d, s, l, p) /\ CaughtUp(d, s, p)
             /\ (d.done <=> c.done) /\ d.runID = c.runID /\ Further(c, d)
  <1> DEFINE d == HandleFrame(c, ev)
             e == Write(c, ThinkingChunk)
  <1>1. CASE d = c
    BY <1>1 DEF Further
  <1>2. CASE ~c.done /\ d = e
    <2>1. Sound(c)
      BY DEF Follows
    <2>2. /\ Plainly(c, e) /\ ToolChunks(e.out) = ToolChunks(c.out)
          /\ e.lastText = c.lastText /\ ContentOf(e.out) = ContentOf(c.out)
      BY <1>2, <2>1, ThinkingEmitted
    <2> HIDE DEF e
    <2>3. /\ Sound(e) /\ ~e.done /\ e.runID = c.runID /\ Further(c, e)
          /\ NoStop(c.out) => NoStop(e.out) /\ StopLast(e.out)
      BY <2>2, NoStopIsLast DEF Plainly
    <2>4. Follows(e, s, l, p) /\ CaughtUp(e, s, p) /\ (e.done <=> c.done)
      BY <1>2, <2>2, <2>3 DEF Follows, CaughtUp
    <2> HIDE DEF d
    <2> QED BY <1>2, <2>3, <2>4 DEF d
  <1> QED BY <1>1, <1>2, NothingHeard, NotHeard

\* the end of the run,
LEMMA FollowsEnd ==
  ASSUME NEW c, NEW s \in Seq(Tokens), NEW l \in Seq(ToolIds),
         NEW p \in {"going", "ended", "failed"}, Follows(c, s, l, p),
         NEW q \in {"ended", "failed"}, p = "failed" <=> q = "failed",
         NEW own, NEW ev \in EndEvents(own, s, l)
  PROVE  LET d == HandleFrame(c, ev)
         IN  /\ Follows(d, s, l, q)
             /\ CaughtUp(c, s, p) => CaughtUp(d, s, q)
             /\ d.runID = c.runID /\ Further(c, d)
  <1> DEFINE d == HandleFrame(c, ev)
  <1>1. Sound(c) /\ s \in Texts
    BY SaidIsText DEF Follows
  <1>2. CASE c.done \/ ~Mine(c, ev)
    <2>1. d = c
      BY <1>2, NotHeard
    <2> HIDE DEF d
    <2> QED BY <2>1 DEF Follows, CaughtUp, Further, d
  <1>3. CASE ~c.done /\ Mine(c, ev)
    <2>1. PICK b : (b = c \/ Telling(c, b, s, l)) /\ Ending(b, d)
      BY <1>1, <1>3, EndHeard, Zenon
    <2> HIDE DEF d
    <2>2. /\ Sound(b) /\ ~b.done /\ b.runID = c.runID
          /\ NoStop(c.out) => NoStop(b.out)
          /\ ToSet(ContentOf(c.out)) \subseteq ToSet(ContentOf(b.out))
      BY <1>1, <1>3, <2>1 DEF Telling, Plainly
    <2>3. c.runID # NoRun => Names(ToolChunks(b.out)) = l
      <3>1. c.runID # NoRun => ToSet(l) = c.seenTools
        BY <1>1, SeenNames DEF Follows
      <3> QED BY <2>1, <3>1 DEF Follows, Telling
    <2>4. IsPrefix(s, s)
      BY <1>1, PrefixOfItself
    <2>5. ~Incremental /\ p # "failed" =>
             ContentOf(b.out) = b.lastText /\ IsPrefix(b.lastText, s)
      BY <2>1, <2>4 DEF Follows, Telling
    <2>6. CaughtUp(c, s, p) => CaughtUp(b, s, q)
      BY <2>1, <2>2 DEF CaughtUp, Follows, Telling
    <2>7. /\ Sound(d) /\ d.done /\ d.runID = b.runID
          /\ NoStop(b.out) => StopLast(d.out)
          /\ d.lastText = b.lastText /\ ContentOf(d.out) = ContentOf(b.out)
          /\ ToolChunks(d.out) = ToolChunks(b.out)
      BY <2>1 DEF Ending
    <2>8. Follows(d, s, l, q)
      <3>1. q # "failed" => StopLast(d.out)
        BY <1>3, <2>2, <2>7 DEF Follows
      <3>2. q = "failed" /\ c.runID # NoRun => ErrorToken \in ToSet(ContentOf(d.out))
        BY <2>2, <2>7 DEF Follows
      <3> QED BY <2>2, <2>3, <2>5, <2>7, <3>1, <3>2 DEF Follows
    <2>9. CaughtUp(b, s, q) => CaughtUp(d, s, q)
      BY <2>7 DEF CaughtUp
    <2>10. Further(c, d)
      BY <2>7 DEF Sound, Further
    <2> QED BY <2>2, <2>6, <2>7, <2>8, <2>9, <2>10 DEF d
  <1> QED BY <1>2, <1>3

\* an error,
LEMMA FollowsError ==
  ASSUME NEW c, NEW s, NEW l, NEW p, Follows(c, s, l, p),
         c.done => p = "failed",
         NEW own \in Owners, NEW ev \in ErrorEvents(own)
  PROVE  LET d == HandleFrame(c, ev)
         IN  Follows(d, s, l, "failed") /\ d.runID = c.runID /\ Further(c, d)
  <1> DEFINE d == HandleFrame(c, ev)
             msg == <<ErrorToken>>
  <1>1. Sound(c) /\ c.runID \in {RunID, NoRun}
    BY DEF Follows, Sound, Converter
  <1>2. CASE c.done
    <2>1. d = c
      BY <1>2, NotHeard
    <2> QED BY <1>2, <2>1 DEF Further
  <1>3. CASE ~c.done /\ ~Mine(c, ev)
    <2>1. d = c
      BY <1>3, NotHeard
    <2>2. c.runID = NoRun
      <3>1. ev.run = own.run /\ ev.session = own.session
        BY DEF ErrorEvents, Event
      <3> QED BY <1>1, <1>3, <3>1, OwnEvents
    <2> HIDE DEF d
    <2> QED BY <2>1, <2>2 DEF Follows, Further, d
  <1>4. CASE ~c.done /\ Mine(c, ev)
    <2>1. d = EmitError(c, msg)
      BY <1>4, ErrorHeard, Zenon
    <2>2. msg \in Texts /\ msg # <<>> /\ ErrorToken \in ToSet(msg)
      BY DEF Texts, ToSet
    <2> HIDE DEF msg, d
    <2>3. Failing(c, d, msg)
      BY <1>1, <1>4, <2>1, <2>2, ErrorEmitted
    <2>4. /\ Sound(d) /\ d.runID = c.runID /\ ErrorToken \in ToSet(ContentOf(d.out))
          /\ ToolChunks(d.out) = ToolChunks(c.out) /\ Further(c, d)
      BY <2>2, <2>3 DEF Failing, Further
    <2> QED BY <2>4 DEF Follows, d
  <1> QED BY <1>2, <1>3, <1>4

\* The end of the stream leaves a sound converter sound,
LEMMA FinishIsSound ==
  ASSUME NEW c, Sound(c)
  PROVE  LET d == Finish(c)
         IN  Sound(d) /\ d.done /\ d.runID = c.runID /\ Further(c, d)
  <1> DEFINE d == Finish(c)
  <1>1. CASE c.done
    <2>1. d = c
      BY <1>1, Finished
    <2> QED BY <1>1, <2>1 DEF Further
  <1>2. CASE ~c.done
    <2>1. Ending(c, d)
      BY <1>2, Finished
    <2> HIDE DEF d
    <2>2. Sound(d) /\ d.done /\ d.runID = c.runID
      BY <2>1 DEF Ending
    <2> QED BY <2>2 DEF Sound, Further, d
  <1> QED BY <1>1, <1>2

\* and the converter, told nothing, follows the gateway to it.
LEMMA FollowsFinish ==
  ASSUME NEW c, NEW s, NEW l, NEW p, Follows(c, s, l, p)
  PROVE  LET d == Finish(c)
         IN  /\ Follows(d, s, l, p) /\ d.done /\ d.runID = c.runID
             /\ CaughtUp(c, s, p) => CaughtUp(d, s, p)
             /\ Further(c, d)
  <1> DEFINE d == Finish(c)
  <1>1. Sound(c)
    BY DEF Follows
  <1>2. CASE c.done
    <2>1. d = c
      BY <1>1, <1>2, Finished
    <2> QED BY <1>2, <2>1 DEF Further
  <1>3. CASE ~c.done
    <2>1. Ending(c, d)
      BY <1>1, <1>3, Finished
    <2> HIDE DEF d
    <2>2. /\ Sound(d) /\ d.done /\ d.runID = c.runID
          /\ NoStop(c.out) => StopLast(d.out)
          /\ d.lastText = c.lastText /\ ContentOf(d.out) = ContentOf(c.out)
          /\ ToolChunks(d.out) = ToolChunks(c.out)
      BY <2>1 DEF Ending
    <2>3. p # "failed" => StopLast(d.out)
      BY <1>3, <2>2 DEF Follows
    <2>4. Further(c, d)
      BY <2>2 DEF Sound, Further
    <2> QED BY <2>2, <2>3, <2>4 DEF Follows, CaughtUp, d
  <1> QED BY <1>2, <1>3

-----------------------------------------------------------------------------
(* The invariant                                                           *)

\* What was written of a converter's output, all of it or not.
Kept(c) ==
  /\ c \in Converter
  /\ DoneLast(c.out) /\ Numbered(ToolChunks(c.out))

RelayInv ==
  /\ writeErr \in BOOLEAN
  /\ result \in {"running", "nil", "error"}
  /\ said \in Seq(Tokens) /\ called \in Seq(ToolIds)
  /\ phase \in {"going", "ended", "failed"}
  /\ frames \in 0 .. MaxFrames
  /\ strayed \in BOOLEAN
  /\ Kept(cv)
  /\ phase # "failed" /\ ~strayed => StopLast(cv.out)
  /\ ~writeErr => Sound(cv)
  /\ ~writeErr /\ ~strayed => Follows(cv, said, called, phase)
  /\ result = "running" /\ ~writeErr /\ ~strayed /\ phase = "going" => ~cv.done
  /\ result = "nil" => ~writeErr /\ cv.done

\* An output written whole is one.
LEMMA SoundIsKept == ASSUME NEW c, Sound(c) PROVE Kept(c)
  BY DEF Sound, Kept, NoDone, DoneLast

\* The calls of a shorter output are numbered as those of the longer one.
LEMMA FewerNumbered ==
  ASSUME NEW s \in Seq(Announcements), NEW t \in Seq(Announcements),
         Begins(s, t), Numbered(t)
  PROVE  Numbered(s)
  <1>1. \A i \in 1 .. Len(s) : i \in 1 .. Len(t) /\ s[i] = t[i]
    BY DEF Begins
  <1> QED BY <1>1 DEF Numbered

\* A part of the output was written.
Cut(c, n) == [c EXCEPT !.out = SubSeq(@, 1, n)]

LEMMA PartKept ==
  ASSUME NEW c, Kept(c), NEW n \in Nat, n < Len(c.out)
  PROVE  LET d == Cut(c, n)
         IN  /\ Kept(d) /\ d.runID = c.runID
             /\ StopLast(c.out) => StopLast(d.out)
  <1> DEFINE d == Cut(c, n)
             o == SubSeq(c.out, 1, n)
  <1>1. c \in Converter /\ c.out \in Seq(Chunk) /\ Len(c.out) \in Nat
    BY DEF Kept, Converter
  <1>2. /\ o \in Seq(Chunk) /\ Len(o) = n
        /\ \A i \in 1 .. n : o[i] = c.out[i]
    BY <1>1
  <1>3. d = [c EXCEPT !.out = o]
    BY <1>1 DEF Converter, Cut
  <1> HIDE DEF o, d
  <1>4. d \in Converter /\ d.out = o /\ d.runID = c.runID
    BY <1>1, <1>2, <1>3 DEF Converter
  <1>5. Begins(o, c.out)
    BY <1>1, <1>2 DEF Begins
  <1>6. Numbered(ToolChunks(o))
    <2>1. Begins(ToolChunks(o), ToolChunks(c.out))
      BY <1>1, <1>2, <1>5, FewerCalls
    <2>2. /\ ToolChunks(o) \in Seq(Announcements)
          /\ ToolChunks(c.out) \in Seq(Announcements)
      BY <1>1, <1>2, ToolType
    <2> QED BY <2>1, <2>2, FewerNumbered DEF Kept
  <1>7. DoneLast(o)
    BY <1>1, <1>2 DEF Kept, DoneLast
  <1>8. StopLast(c.out) => StopLast(o)
    BY <1>1, <1>2 DEF StopLast
  <1> QED BY <1>4, <1>6, <1>7, <1>8 DEF Kept, d

\* A cut is inside of what was emitted.
LEMMA Shorter ==
  ASSUME NEW m \in Nat, NEW n \in Nat, NEW k \in 0 .. n - m - 1
  PROVE  m + k \in Nat /\ m + k < n
  OBVIOUS

\* What the client has after a step that made d of the converter.
Written(d) ==
  /\ writeErr' \in BOOLEAN
  /\ Kept(cv') /\ cv'.runID = cv.runID
  /\ StopLast(d.out) => StopLast(cv'.out)
  /\ Further(cv, d) => Further(cv, cv')
  /\ ~writeErr' => cv' = d

LEMMA Delivered ==
  ASSUME Kept(cv), writeErr = FALSE, NEW d, Sound(d), d.runID = cv.runID, Deliver(d)
  PROVE  Written(d)
  <1>1. Kept(d)
    BY SoundIsKept
  <1>2. CASE cv' = d /\ writeErr' = writeErr
    BY <1>1, <1>2 DEF Written
  <1>3. CASE \E k \in 0 .. Len(d.out) - Len(cv.out) - 1 :
                /\ cv' = [d EXCEPT !.out = SubSeq(@, 1, Len(cv.out) + k)]
                /\ writeErr' = TRUE
    <2>1. PICK k \in 0 .. Len(d.out) - Len(cv.out) - 1 :
                /\ cv' = Cut(d, Len(cv.out) + k)
                /\ writeErr' = TRUE
      BY <1>3, Zenon DEF Cut
    <2>2. Len(cv.out) \in Nat /\ Len(d.out) \in Nat
      BY <1>1 DEF Kept, Converter
    <2>3. Len(cv.out) + k \in Nat /\ Len(cv.out) + k < Len(d.out)
      BY <2>2, Shorter
    <2> DEFINE n == Len(cv.out) + k
    <2> HIDE DEF n
    <2>4. /\ Kept(cv') /\ cv'.runID = d.runID
          /\ StopLast(d.out) => StopLast(cv'.out)
      BY <1>1, <2>1, <2>3, PartKept DEF n
    <2>5. Further(cv, cv')
      <3> SUFFICES ASSUME cv.out # <<>> PROVE cv'.out # <<>>
        BY DEF Further
      <3>1. Len(cv.out) >= 1 /\ n \in 1 .. Len(d.out)
        <4>1. cv.out \in Seq(Chunk)
          BY DEF Kept, Converter
        <4>2. Len(cv.out) >= 1
          BY <4>1
        <4> QED BY <2>2, <2>3, <4>2 DEF n
      <3>2. cv'.out = SubSeq(d.out, 1, n)
        BY <1>1, <2>1 DEF Cut, Kept, Converter, n
      <3>3. d.out \in Seq(Chunk)
        BY <1>1 DEF Kept, Converter
      <3> QED BY <3>1, <3>2, <3>3
    <2> QED BY <2>1, <2>4, <2>5 DEF Written
  <1> QED BY <1>2, <1>3 DEF Deliver

\* The client has been told all of the answer.
Caught == ~writeErr /\ ~strayed => CaughtUp(cv, said, phase)

\* A step of the stream keeps what the proofs need.
Keeps == /\ RelayInv' /\ cv'.runID = cv.runID /\ (Caught => Caught')
         /\ Further(cv, cv')

LEMMA FrameReceived ==
  ASSUME RelayInv, NEW own, NEW ev, SomeEvent(own, ev), Receive(ev),
         BoundAssumption,
         said' \in Seq(Tokens), called' \in Seq(ToolIds),
         phase' \in {"going", "ended", "failed"},
         phase = "failed" => phase' = "failed",
         strayed' \in BOOLEAN, strayed => strayed',
         ~writeErr /\ ~strayed' => LET d == HandleFrame(cv, ev)
                      IN  /\ Follows(d, said', called', phase')
                          /\ phase' = "going" => ~d.done
  PROVE  /\ RelayInv' /\ cv'.runID = cv.runID /\ result' = "running"
         /\ Further(cv, cv')
         /\ ~writeErr' => ~writeErr /\ cv' = HandleFrame(cv, ev)
  <1> DEFINE d == HandleFrame(cv, ev)
  <1>1. result = "running" /\ result' = "running" /\ frames' \in 0 .. MaxFrames
    BY DEF Receive, RelayInv, BoundAssumption
  <1>2. CASE writeErr
    <2>1. cv' = cv /\ writeErr' = writeErr
      BY <1>2 DEF Receive
    <2>2. phase' # "failed" /\ ~strayed' => StopLast(cv'.out)
      BY <2>1 DEF RelayInv
    <2> QED BY <1>1, <1>2, <2>1, <2>2 DEF RelayInv, Further
  <1>3. CASE ~writeErr
    <2>1. Deliver(d) /\ writeErr = FALSE /\ Kept(cv) /\ Sound(cv)
      BY <1>3 DEF Receive, RelayInv
    <2>2. Sound(d) /\ d.runID = cv.runID /\ Further(cv, d)
      BY <2>1, AnyHeard DEF Goes
    <2>3. ~strayed' => /\ Follows(d, said', called', phase')
                       /\ phase' = "going" => ~d.done
      BY <1>3
    <2> HIDE DEF d
    <2>4. phase' # "failed" /\ ~strayed' => StopLast(d.out)
      BY <2>3 DEF Follows
    <2>5. Written(d)
      BY <2>1, <2>2, Delivered
    <2>6. /\ writeErr' \in BOOLEAN /\ Kept(cv') /\ cv'.runID = cv.runID
          /\ phase' # "failed" /\ ~strayed' => StopLast(cv'.out)
          /\ ~writeErr' => cv' = d
          /\ Further(cv, cv')
      BY <2>2, <2>4, <2>5 DEF Written
    <2>7. /\ ~writeErr' => Sound(cv')
          /\ ~writeErr' /\ ~strayed' => /\ Follows(cv', said', called', phase')
                                        /\ phase' = "going" => ~cv'.done
      BY <2>2, <2>3, <2>6
    <2>8. RelayInv'
      <3>1. /\ result' \in {"running", "nil", "error"} /\ result' # "nil"
            /\ phase' \in {"going", "ended", "failed"}
            /\ frames' \in 0 .. MaxFrames
        BY <1>1
      <3>2. /\ ~writeErr' => Sound(cv')
            /\ ~writeErr' /\ ~strayed' => Follows(cv', said', called', phase')
            /\ ~writeErr' /\ ~strayed' /\ phase' = "going" => ~cv'.done
        BY <2>7
      <3> QED BY <2>6, <3>1, <3>2, Zenon DEF RelayInv
    <2> QED BY <1>1, <1>3, <2>6, <2>8 DEF d
  <1> QED BY <1>2, <1>3

\* Step by step: the answer so far,
LEMMA TellTextKeeps == ASSUME RelayInv, TellText PROVE Keeps
  <1>1. PICK own \in Owners, r \in Seq(Tokens), text \in Texts :
           /\ r = said \/ \E t \in Tokens : r = Append(said, t)
           /\ ~Incremental => text = r
           /\ said' = r
           /\ \E ev \in TextEvents(own, text, called) : Receive(ev)
    <2>1. said \in Seq(Tokens)
      BY DEF RelayInv
    <2>2. PICK own \in Owners :
             \/ \E t \in Tokens :
                  /\ said' = Append(said, t)
                  /\ \E ev \in TextEvents(own, IF Incremental THEN <<t>> ELSE said',
                                          called) : Receive(ev)
             \/ ~Incremental /\ said' = said
                  /\ \E ev \in TextEvents(own, said, called) : Receive(ev)
      BY Zenon DEF TellText
    <2>3. CASE \E t \in Tokens :
                  /\ said' = Append(said, t)
                  /\ \E ev \in TextEvents(own, IF Incremental THEN <<t>> ELSE said',
                                          called) : Receive(ev)
      <3>1. PICK t \in Tokens :
                  /\ said' = Append(said, t)
                  /\ \E ev \in TextEvents(own, IF Incremental THEN <<t>> ELSE said',
                                          called) : Receive(ev)
        BY <2>3
      <3>2. said' \in Seq(Tokens) /\ said' \in Texts /\ <<t>> \in Texts
        BY <2>1, <3>1, SaidIsText
      <3> QED BY <3>1, <3>2
    <2>4. CASE ~Incremental /\ said' = said
                  /\ \E ev \in TextEvents(own, said, called) : Receive(ev)
      BY <2>1, <2>4, SaidIsText
    <2> QED BY <2>2, <2>3, <2>4
  <1>2. PICK ev \in TextEvents(own, text, called) : Receive(ev)
    BY <1>1
  <1>3. /\ phase = "going" /\ phase' = phase /\ called' = called
        /\ strayed' = strayed /\ result = "running"
    BY <1>2 DEF TellText, Receive
  <1>4. /\ said \in Seq(Tokens) /\ called \in Seq(ToolIds)
        /\ strayed \in BOOLEAN
    BY DEF RelayInv
  <1>5. SomeEvent(own, ev)
    BY <1>1, <1>2, <1>4 DEF SomeEvent
  <1> DEFINE d == HandleFrame(cv, ev)
  <1>6. ASSUME ~writeErr, ~strayed
        PROVE  /\ Follows(d, r, called, "going") /\ CaughtUp(d, r, "going")
               /\ ~d.done /\ d.runID = cv.runID /\ Further(cv, d)
    <2>1. Follows(cv, said, called, "going") /\ ~cv.done
      BY <1>3, <1>6 DEF RelayInv
    <2> QED BY <1>1, <1>2, <1>4, <2>1, FollowsText
  <1> HIDE DEF d
  <1>7. /\ RelayInv' /\ cv'.runID = cv.runID /\ Further(cv, cv')
        /\ ~writeErr' => ~writeErr /\ cv' = d
    BY <1>1, <1>2, <1>3, <1>4, <1>6, <1>5, FrameReceived, BoundAssumption DEF d
  <1>8. Caught'
    BY <1>1, <1>3, <1>6, <1>7 DEF Caught
  <1> QED BY <1>7, <1>8 DEF Keeps

\* one call,
LEMMA TellToolKeeps == ASSUME RelayInv, TellTool PROVE Keeps
  <1>1. PICK own \in Owners, id \in ToolIds :
           /\ called' = IF id \in ToSet(called) THEN called ELSE Append(called, id)
           /\ \E ev \in ToolEvents(own, id) : Receive(ev)
    BY Zenon DEF TellTool
  <1>2. PICK ev \in ToolEvents(own, id) : Receive(ev)
    BY <1>1
  <1>3. /\ phase = "going" /\ phase' = phase /\ said' = said
        /\ strayed' = strayed /\ result = "running"
    BY <1>2 DEF TellTool, Receive
  <1>4. /\ strayed \in BOOLEAN
        /\ said \in Seq(Tokens) /\ called \in Seq(ToolIds)
        /\ called' \in Seq(ToolIds)
    BY <1>1 DEF RelayInv
  <1>5. SomeEvent(own, ev)
    BY <1>2 DEF SomeEvent
  <1> DEFINE d == HandleFrame(cv, ev)
  <1>6. ASSUME ~writeErr, ~strayed
        PROVE  /\ Follows(d, said, called', "going")
               /\ CaughtUp(cv, said, "going") => CaughtUp(d, said, "going")
               /\ ~d.done /\ d.runID = cv.runID /\ Further(cv, d)
    <2>1. Follows(cv, said, called, "going") /\ ~cv.done
      BY <1>3, <1>6 DEF RelayInv
    <2> QED BY <1>1, <1>2, <1>4, <2>1, FollowsTool
  <1> HIDE DEF d
  <1>7. /\ RelayInv' /\ cv'.runID = cv.runID /\ Further(cv, cv')
        /\ ~writeErr' => ~writeErr /\ cv' = d
    BY <1>1, <1>2, <1>3, <1>4, <1>6, <1>5, FrameReceived, BoundAssumption DEF d
  <1>8. Caught => Caught'
    BY <1>3, <1>6, <1>7 DEF Caught
  <1> QED BY <1>7, <1>8 DEF Keeps

\* an event that tells nothing,
LEMMA TellNothingKeeps == ASSUME RelayInv, Caught, TellNothing PROVE Keeps
  <1>1. PICK own \in Owners : \E ev \in QuietEvents(own) : Receive(ev)
    BY DEF TellNothing
  <1>2. PICK ev \in QuietEvents(own) : Receive(ev)
    BY <1>1
  <1>3. /\ said' = said /\ called' = called /\ phase' = phase
        /\ strayed' = strayed /\ result = "running"
    BY <1>2 DEF TellNothing, Receive
  <1>4. /\ strayed \in BOOLEAN
        /\ said \in Seq(Tokens) /\ called \in Seq(ToolIds)
        /\ phase \in {"going", "ended", "failed"}
    BY DEF RelayInv
  <1>5. SomeEvent(own, ev)
    BY <1>2 DEF SomeEvent
  <1> DEFINE d == HandleFrame(cv, ev)
  <1>6. ASSUME ~writeErr, ~strayed
        PROVE  /\ Follows(d, said, called, phase) /\ CaughtUp(d, said, phase)
               /\ phase = "going" => ~d.done
               /\ d.runID = cv.runID /\ Further(cv, d)
    <2>1. /\ Follows(cv, said, called, phase) /\ CaughtUp(cv, said, phase)
          /\ phase = "going" => ~cv.done
      BY <1>3, <1>6 DEF RelayInv, Caught
    <2> QED BY <1>2, <2>1, FollowsNothing
  <1> HIDE DEF d
  <1>7. /\ RelayInv' /\ cv'.runID = cv.runID /\ Further(cv, cv')
        /\ ~writeErr' => ~writeErr /\ cv' = d
    BY <1>2, <1>3, <1>4, <1>6, <1>5, FrameReceived, BoundAssumption DEF d
  <1>8. Caught'
    BY <1>3, <1>6, <1>7 DEF Caught
  <1> QED BY <1>7, <1>8 DEF Keeps

\* the end of the run,
LEMMA TellEndKeeps == ASSUME RelayInv, TellEnd PROVE Keeps
  <1>1. PICK own \in Owners : \E ev \in EndEvents(own, said, called) : Receive(ev)
    BY DEF TellEnd
  <1>2. PICK ev \in EndEvents(own, said, called) : Receive(ev)
    BY <1>1
  <1>3. /\ said' = said /\ called' = called /\ phase' = "ended"
        /\ phase \in {"going", "ended"} /\ strayed' = strayed
        /\ result = "running"
    BY <1>2 DEF TellEnd, Receive
  <1>4. /\ strayed \in BOOLEAN
        /\ said \in Seq(Tokens) /\ called \in Seq(ToolIds)
    BY DEF RelayInv
  <1>5. SomeEvent(own, ev)
    BY <1>2, <1>4, SaidIsText DEF SomeEvent
  <1> DEFINE d == HandleFrame(cv, ev)
  <1>6. ASSUME ~writeErr, ~strayed
        PROVE  /\ Follows(d, said, called, "ended")
               /\ CaughtUp(cv, said, phase) => CaughtUp(d, said, "ended")
               /\ d.runID = cv.runID /\ Further(cv, d)
    <2>1. Follows(cv, said, called, phase)
      BY <1>6 DEF RelayInv
    <2>2. phase \in {"going", "ended", "failed"} /\ phase # "failed"
      BY <1>3
    <2> QED BY <1>2, <1>4, <2>1, <2>2, FollowsEnd
  <1> HIDE DEF d
  <1>7. /\ RelayInv' /\ cv'.runID = cv.runID /\ Further(cv, cv')
        /\ ~writeErr' => ~writeErr /\ cv' = d
    BY <1>2, <1>3, <1>4, <1>6, <1>5, FrameReceived, BoundAssumption DEF d
  <1>8. Caught => Caught'
    BY <1>3, <1>6, <1>7 DEF Caught
  <1> QED BY <1>7, <1>8 DEF Keeps

\* an error,
LEMMA TellErrorKeeps == ASSUME RelayInv, TellError PROVE Keeps
  <1>1. PICK own \in Owners :
           \E ev \in ErrorEvents(own) \cup
              IF phase = "failed" THEN EndEvents(own, said, called) ELSE {} :
                 Receive(ev)
    BY Zenon DEF TellError
  <1>2. PICK ev : /\ \/ ev \in ErrorEvents(own)
                     \/ phase = "failed" /\ ev \in EndEvents(own, said, called)
                  /\ Receive(ev)
    BY <1>1
  <1>3. /\ said' = said /\ called' = called /\ phase' = "failed"
        /\ phase # "ended" /\ strayed' = strayed /\ result = "running"
    BY <1>2 DEF TellError, Receive
  <1>4. /\ strayed \in BOOLEAN
        /\ said \in Seq(Tokens) /\ called \in Seq(ToolIds)
        /\ phase \in {"going", "ended", "failed"}
    BY DEF RelayInv
  <1>5. SomeEvent(own, ev)
    BY <1>2, <1>4, SaidIsText DEF SomeEvent
  <1> DEFINE d == HandleFrame(cv, ev)
  <1>6. ASSUME ~writeErr, ~strayed
        PROVE  /\ Follows(d, said, called, "failed") /\ d.runID = cv.runID
               /\ Further(cv, d)
    <2>1. Follows(cv, said, called, phase) /\ (cv.done => phase = "failed")
      BY <1>3, <1>4, <1>6 DEF RelayInv
    <2>2. CASE ev \in ErrorEvents(own)
      BY <2>1, <2>2, FollowsError
    <2>3. CASE phase = "failed" /\ ev \in EndEvents(own, said, called)
      <3>1. /\ Follows(cv, said, called, "failed")
            /\ ev \in EndEvents(own, said, called)
        BY <2>1, <2>3
      <3> DEFINE p == "failed"
      <3>2. /\ p \in {"going", "ended", "failed"} /\ p \in {"ended", "failed"}
            /\ p = "failed" <=> p = "failed"
        OBVIOUS
      <3>3. Follows(cv, said, called, p)
        BY <3>1
      <3> HIDE DEF p
      <3>4. /\ Follows(d, said, called, p)
            /\ CaughtUp(cv, said, p) => CaughtUp(d, said, p)
            /\ d.runID = cv.runID /\ Further(cv, d)
        BY <1>4, <3>1, <3>2, <3>3, FollowsEnd
      <3> QED BY <3>4 DEF p
    <2> QED BY <1>2, <2>2, <2>3
  <1> HIDE DEF d
  <1>7. RelayInv' /\ cv'.runID = cv.runID /\ Further(cv, cv')
    BY <1>2, <1>3, <1>4, <1>6, <1>5, FrameReceived, BoundAssumption DEF d
  <1>8. Caught'
    BY <1>3 DEF Caught, CaughtUp
  <1> QED BY <1>7, <1>8 DEF Keeps

\* an event of another run,
LEMMA TellForeignKeeps == ASSUME RelayInv, TellForeign PROVE Keeps
  <1>1. PICK own \in Others :
           /\ strayed' = (strayed \/ own.run = NoRun)
           /\ \E ev \in ForeignEvents(own) : Receive(ev)
    BY DEF TellForeign
  <1>2. PICK ev \in ForeignEvents(own) : Receive(ev)
    BY <1>1
  <1>3. /\ said' = said /\ called' = called /\ phase' = phase
        /\ result = "running"
    BY <1>2 DEF TellForeign, Receive
  <1>4. /\ strayed \in BOOLEAN /\ strayed' \in BOOLEAN
        /\ strayed => strayed'
        /\ ~strayed' => ~strayed /\ own.run = OtherRun
        /\ said \in Seq(Tokens) /\ called \in Seq(ToolIds)
        /\ phase \in {"going", "ended", "failed"}
    <2>1. strayed \in BOOLEAN /\ strayed' = (strayed \/ own.run = NoRun)
      BY <1>1 DEF RelayInv
    <2>2. own.run = OtherRun \/ own.run = NoRun
      BY DEF Others
    <2>3. said \in Seq(Tokens) /\ called \in Seq(ToolIds)
      BY DEF RelayInv
    <2>4. phase \in {"going", "ended", "failed"}
      BY DEF RelayInv
    <2> QED BY <2>1, <2>2, <2>3, <2>4, Zenon
  <1>5. SomeEvent(own, ev)
    BY <1>2, ForeignIsSome
  <1> DEFINE d == HandleFrame(cv, ev)
  <1>6. ASSUME ~writeErr, ~strayed'
        PROVE  /\ d = cv /\ Follows(cv, said, called, phase)
               /\ phase = "going" => ~cv.done
    <2>1. /\ Follows(cv, said, called, phase)
          /\ phase = "going" => ~cv.done
      BY <1>3, <1>4, <1>6 DEF RelayInv
    <2>2. Sound(cv)
      BY <2>1 DEF Follows
    <2> QED BY <1>2, <1>4, <1>6, <2>1, <2>2, ForeignHeard
  <1> HIDE DEF d
  <1>7. /\ RelayInv' /\ cv'.runID = cv.runID /\ Further(cv, cv')
        /\ ~writeErr' => ~writeErr /\ cv' = d
    BY <1>2, <1>3, <1>4, <1>5, <1>6, FrameReceived, BoundAssumption DEF d
  <1>8. Caught => Caught'
    BY <1>3, <1>4, <1>6, <1>7 DEF Caught
  <1> QED BY <1>7, <1>8 DEF Keeps

\* and the end of the stream.
LEMMA StreamEndsKeeps == ASSUME RelayInv, StreamEnds PROVE Keeps
  <1>1. /\ said' = said /\ called' = called /\ phase' = phase /\ frames' = frames
        /\ strayed' = strayed
        /\ result' = IF writeErr' THEN "error" ELSE "nil"
    BY DEF StreamEnds, gateway
  <1>2. CASE writeErr
    <2>1. cv' = cv /\ writeErr' = writeErr
      BY <1>2 DEF StreamEnds
    <2> QED BY <1>1, <1>2, <2>1 DEF RelayInv, Caught, Keeps, Further
  <1>3. CASE ~writeErr
    <2> DEFINE d == Finish(cv)
    <2>1. /\ Deliver(d) /\ writeErr = FALSE /\ Kept(cv) /\ Sound(cv)
          /\ ~strayed => Follows(cv, said, called, phase)
      BY <1>3 DEF StreamEnds, RelayInv
    <2>2. Sound(d) /\ d.done /\ d.runID = cv.runID /\ Further(cv, d)
      BY <2>1, FinishIsSound
    <2>3. ~strayed =>
             /\ Follows(d, said, called, phase)
             /\ CaughtUp(cv, said, phase) => CaughtUp(d, said, phase)
      BY <2>1, FollowsFinish
    <2> HIDE DEF d
    <2>4. phase # "failed" /\ ~strayed => StopLast(d.out)
      BY <2>3 DEF Follows
    <2>5. Written(d)
      BY <2>1, <2>2, Delivered
    <2>6. /\ writeErr' \in BOOLEAN /\ Kept(cv') /\ cv'.runID = cv.runID
          /\ phase # "failed" /\ ~strayed => StopLast(cv'.out)
          /\ ~writeErr' => cv' = d
          /\ Further(cv, cv')
      BY <2>2, <2>4, <2>5 DEF Written
    <2>7. RelayInv'
      <3>1. /\ ~writeErr' => Sound(cv') /\ cv'.done
            /\ ~writeErr' /\ ~strayed' => Follows(cv', said', called', phase')
        BY <1>1, <2>2, <2>3, <2>6
      <3>2. /\ result' \in {"nil", "error"} /\ (result' = "nil" => ~writeErr')
            /\ result' # "running"
        BY <1>1, <2>6
      <3> QED BY <1>1, <2>6, <3>1, <3>2 DEF RelayInv
    <2>8. Caught => Caught'
      BY <1>1, <2>1, <2>3, <2>6 DEF Caught
    <2> QED BY <2>6, <2>7, <2>8 DEF Keeps
  <1> QED BY <1>2, <1>3

\* Every step of the stream keeps the invariant, and the client caught up.
LEMMA RelayStep == ASSUME RelayInv, Caught, RelayNext PROVE Keeps
  BY TellTextKeeps, TellToolKeeps, TellNothingKeeps, TellEndKeeps,
     TellErrorKeeps, TellForeignKeeps, StreamEndsKeeps, Zenon DEF RelayNext

\* A new converter has written nothing.
LEMMA NewFollows ==
  ASSUME NEW id \in {RunID, NoRun}, NEW s \in Seq(Tokens),
         NEW l, id = NoRun \/ l = <<>>, NEW p \in {"going", "ended"}
  PROVE  /\ Follows(NewConverter(id), s, l, p) /\ ~NewConverter(id).done
         /\ Kept(NewConverter(id)) /\ StopLast(NewConverter(id).out)
         /\ NewConverter(id).runID = id
         /\ NewConverter(id).out = <<>> /\ NewConverter(id).lastText = <<>>
  <1> DEFINE c == NewConverter(id)
  <1>1. <<>> \in Texts /\ <<>> \in Seq(Chunk)
    BY DEF Texts
  <1>2. /\ c.runID = id /\ c.lastText = <<>> /\ c.toolSeq = 0
        /\ c.seenTools = {} /\ ~c.done /\ c.out = <<>> /\ c \in Converter
    BY <1>1 DEF NewConverter, Converter
  <1> HIDE DEF c
  <1>3. ContentOf(c.out) = <<>> /\ ToolChunks(c.out) = <<>>
    BY <1>2, ContentFold, ToolFold
  <1>4. NoStop(<<>>) /\ StopLast(<<>>) /\ NoDone(<<>>) /\ Numbered(<<>>)
    BY DEF NoStop, StopLast, NoDone, Numbered
  <1>5. Sound(c)
    BY <1>2, <1>3, <1>4 DEF Sound, ToSet
  <1>6. IsPrefix(<<>>, s)
    BY SaidIsText, PrefixOfItself
  <1>7. Names(<<>>) = <<>>
    BY DEF Names
  <1>8. Follows(c, s, l, p)
    BY <1>2, <1>3, <1>4, <1>5, <1>6, <1>7 DEF Follows
  <1>9. Kept(c)
    BY <1>5, SoundIsKept
  <1> QED BY <1>2, <1>4, <1>8, <1>9 DEF c

\* So the invariant holds when the stream begins.
LEMMA FreshInv ==
  ASSUME NEW id \in {RunID, NoRun}, Fresh(id), BoundAssumption
  PROVE  RelayInv /\ Caught
  <1>1. /\ cv = NewConverter(id) /\ writeErr = FALSE /\ result = "running"
        /\ said = <<>> /\ called = <<>> /\ phase = "going" /\ frames = 0
        /\ strayed = FALSE
    BY DEF Fresh
  <1>2. /\ Follows(cv, said, called, phase) /\ ~cv.done /\ Kept(cv)
        /\ StopLast(cv.out) /\ cv.lastText = <<>>
    <2>1. <<>> \in Seq(Tokens) /\ "going" \in {"going", "ended"}
      OBVIOUS
    <2>2. Follows(NewConverter(id), <<>>, <<>>, "going")
      BY <2>1, NewFollows
    <2> QED BY <1>1, <2>1, <2>2, NewFollows
  <1>3. Caught
    BY <1>1, <1>2 DEF Caught, CaughtUp
  <1>4. said \in Seq(Tokens) /\ called \in Seq(ToolIds) /\ frames \in 0 .. MaxFrames
    BY <1>1 DEF BoundAssumption
  <1>5. /\ result = "running" /\ result # "nil" /\ writeErr \in BOOLEAN
        /\ result \in {"running", "nil", "error"}
        /\ phase \in {"going", "ended", "failed"} /\ strayed \in BOOLEAN
    BY <1>1
  <1>6. Sound(cv)
    BY <1>2 DEF Follows
  <1> QED BY <1>2, <1>3, <1>4, <1>5, <1>6, Zenon DEF RelayInv

-----------------------------------------------------------------------------
(* Theorems about the stream                                               *)

\* The invariant says that [DONE] is the last line,
LEMMA InvEnds == ASSUME RelayInv PROVE DoneEndsTheAnswer
  <1>1. cv.out \in Seq(Chunk)
    BY DEF RelayInv, Kept, Converter
  <1>2. \A i \in DOMAIN cv.out : cv.out[i].kind = "[DONE]" => i = Len(cv.out)
    BY <1>1 DEF RelayInv, Kept, DoneLast
  <1>3. result = "nil" => cv.out # <<>> /\ Last(cv.out) = DoneLine
    BY DEF RelayInv, Sound, Last
  <1>4. phase # "failed" /\ ~strayed =>
           \A i \in DOMAIN cv.out : cv.out[i].kind = "stop" =>
               \A j \in i + 1 .. Len(cv.out) : cv.out[j].kind = "[DONE]"
    BY <1>1 DEF RelayInv, StopLast
  <1> QED BY <1>2, <1>3, <1>4 DEF DoneEndsTheAnswer

\* that every call is announced once, under the next index,
LEMMA InvAnnounces == ASSUME RelayInv PROVE ToolsAnnouncedOnce
  <1> DEFINE announced == ToolChunks(cv.out)
  <1>1. announced \in Seq(Announcements)
    BY ToolType DEF RelayInv, Kept, Converter
  <1>2. Numbered(announced)
    BY DEF RelayInv, Kept
  <1>3. ~writeErr /\ ~strayed /\ cv.runID # NoRun => Names(announced) = called
    BY DEF RelayInv, Follows
  <1> HIDE DEF announced
  <1>4. /\ \A i \in DOMAIN announced : announced[i].index = i - 1
        /\ \A i, j \in DOMAIN announced :
               announced[i].id = announced[j].id => i = j
    BY <1>1, <1>2 DEF Numbered
  <1> QED BY <1>3, <1>4, Zenon DEF ToolsAnnouncedOnce, Names, announced

\* that a failure is told,
LEMMA InvFails == ASSUME RelayInv PROVE FailureIsTold
  BY DEF RelayInv, Follows, FailureIsTold

\* and that the text is the answer, where snapshots are told.
LEMMA InvTells == ASSUME RelayInv, Caught, ~Incremental PROVE TextIsTheAnswer
  BY DEF RelayInv, Caught, CaughtUp, Follows, TextIsTheAnswer

\* It holds in every state of a stream.
LEMMA RelayInvariance == RelaySpec => [](RelayInv /\ Caught)
  <1>1. RelayInit => RelayInv /\ Caught
    BY FreshInv, BoundAssumption DEF RelayInit
  <1>2. RelayInv /\ Caught /\ [RelayNext]_relayVars => (RelayInv /\ Caught)'
    <2>1. ASSUME RelayInv, Caught, RelayNext PROVE (RelayInv /\ Caught)'
      BY <2>1, RelayStep DEF Keeps
    <2>2. ASSUME RelayInv, Caught, UNCHANGED relayVars PROVE (RelayInv /\ Caught)'
      BY <2>2 DEF relayVars, gateway, RelayInv, Caught
    <2> QED BY <2>1, <2>2
  <1> QED BY <1>1, <1>2, PTL DEF RelaySpec

\* The stream the converter makes of any run of the gateway ends with "[DONE]"
\* and has nothing after it, whatever other requests' events it is sent, and
\* announces no call twice.  As long as none of those events names only the
\* session, it announces every call of the run, in order, and no other, and
\* tells the client of a failure.
THEOREM StreamIsRight ==
  RelaySpec => [](DoneEndsTheAnswer /\ ToolsAnnouncedOnce /\ FailureIsTold)
  <1>1. RelayInv => DoneEndsTheAnswer /\ ToolsAnnouncedOnce /\ FailureIsTold
    BY InvEnds, InvAnnounces, InvFails
  <1> QED BY <1>1, RelayInvariance, PTL

\* If the gateway tells snapshots, the text of the stream is the answer: no
\* token is missing or doubled, and none is of another run whose events carry
\* its id.  Once an event of another request has named only the session, which
\* the converter takes for one of the run's (relay.go:421), nothing is said of
\* the text any more.
THEOREM TextIsRight ==
  ASSUME ~Incremental
  PROVE  RelaySpec => []TextIsTheAnswer
  <1>1. RelayInv /\ Caught => TextIsTheAnswer
    BY InvTells
  <1> QED BY <1>1, RelayInvariance, PTL
=============================================================================
