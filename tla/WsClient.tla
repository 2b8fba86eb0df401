------------------------------ MODULE WsClient -------------------------------
(***************************************************************************)
(* The WebSocket client of the relay channel (internal/upstream/           *)
(* wsclient.go) and the loop that brings the device online with it         *)
(* (wsAuthInject of relay_ws.go).                                          *)
(*                                                                         *)
(* Of a frame written, what counts is its length and how the header says   *)
(* it; of a frame read, its FIN bit, its opcode and its payload, a         *)
(* sequence of pieces.  A message is whole when it has all its pieces, in  *)
(* order and nothing else.                                                 *)
(***************************************************************************)
EXTENDS Integers, SequencesExt

-----------------------------------------------------------------------------
(* Writing                                                                 *)

MaxPayload == 131072    \* maxPayload: 128 KiB

\* Mutant of EncodeLength: 126 is taken for a length of one byte.
EncodeLength_OffByOne(n) ==
    IF n <= 126 THEN [code |-> n, bytes |-> <<>>]
    ELSE IF n <= 65535 THEN [code |-> 126, bytes |-> <<n \div 256, n % 256>>]
    ELSE [code |-> 127,
          bytes |-> [i \in 1 .. 8 |-> IF i <= 4 THEN 0
                                      ELSE (n \div 256 ^ (8 - i)) % 256]]

\* The length code of the header and the bytes that follow it, big-endian.
EncodeLength(n) ==
    IF n < 126 THEN [code |-> n, bytes |-> <<>>]
    ELSE IF n <= 65535 THEN [code |-> 126, bytes |-> <<n \div 256, n % 256>>]
    ELSE [code |-> 127,
          bytes |-> [i \in 1 .. 8 |-> IF i <= 4 THEN 0
                                      ELSE (n \div 256 ^ (8 - i)) % 256]]

\* readFrame: the length a header says.
Shifted(n, byte) == 256 * n + byte
BigEndian(bytes) == FoldLeft(Shifted, 0, bytes)

DecodeLength(h) == IF h.code < 126 THEN h.code ELSE BigEndian(h.bytes)

\* How many bytes of length a reader of the code takes.
LengthBytes(code) == CASE code = 126 -> 2 [] code = 127 -> 8 [] OTHER -> 0

\* What a server reads: the frames of one message, up to one with FIN, and the
\* bytes of frames in all.
FirstMessage(frames) ==
    LET ends == {i \in DOMAIN frames : frames[i].fin}
    IN  SubSeq(frames, 1, CHOOSE i \in ends : \A j \in ends : i <= j)
LengthRead(frames) ==
    FoldLeft(+, 0, [i \in DOMAIN frames |-> DecodeLength(frames[i].length)])

\* writeFrameOnce: every frame has FIN set.
WriteFrameOnce(op, n) == [fin |-> TRUE, op |-> op, length |-> EncodeLength(n)]

\* writeFrames: a text of n bytes in frames of at most MaxPayload.
WriteFrames(n) ==
    LET count == IF n <= MaxPayload THEN 1
                 ELSE (n + MaxPayload - 1) \div MaxPayload
    IN  [i \in 1 .. count |->
            WriteFrameOnce(IF i = 1 THEN "text" ELSE "continuation",
                           IF i < count THEN MaxPayload
                           ELSE n - (count - 1) * MaxPayload)]

-----------------------------------------------------------------------------
(* Reading                                                                 *)

Frame(fin, op, data) == [fin |-> fin, op |-> op, data |-> data]

\* The reader of one message: between messages ("top"), in a fragmented one
\* ("fragments"), with a message ("message") or at the end ("eof").
NoMessage == [at |-> "top", op |-> "none", data |-> <<>>]

\* Mutant of NextMessage: within a message, a ping is taken for a fragment.
NextMessage_PingIsData(rd, f) ==
    CASE rd.at = "top" /\ f.op = "close" -> [rd EXCEPT !.at = "eof"]
      [] rd.at = "top" /\ f.op \in {"text", "binary"} ->
             [at |-> IF f.fin THEN "message" ELSE "fragments",
              op |-> f.op, data |-> f.data]
      [] rd.at = "fragments" ->
             [rd EXCEPT !.at = IF f.fin THEN "message" ELSE "fragments",
                        !.data = @ \o f.data]
      [] OTHER -> rd

\* NextMessage takes a frame.  Pings are answered, pongs and stray
\* continuations skipped; within a message every other frame, a close frame
\* too, is taken for the next fragment.
NextMessage(rd, f) ==
    CASE f.op \in {"ping", "pong"} -> rd
      [] rd.at = "top" /\ f.op = "close" -> [rd EXCEPT !.at = "eof"]
      [] rd.at = "top" /\ f.op \in {"text", "binary"} ->
             [at |-> IF f.fin THEN "message" ELSE "fragments",
              op |-> f.op, data |-> f.data]
      [] rd.at = "fragments" /\ f.op \notin {"ping", "pong"} ->
             [rd EXCEPT !.at = IF f.fin THEN "message" ELSE "fragments",
                        !.data = @ \o f.data]
      [] OTHER -> rd

\* The documents the loop tells apart, as the pieces they come in.
InjectOk == <<"ok1", "ok2">>
InjectError == <<"err1", "err2">>

\* wsAuthInject, when NextMessage returns: what it returns itself, or
\* "waits" for the next message (another type, or no JSON at all).
AfterMessage(rd) ==
    CASE rd.at = "eof" -> "failed"
      [] rd.at = "message" /\ rd.op = "text" /\ rd.data = InjectOk -> "online"
      [] rd.at = "message" /\ rd.op = "text" /\ rd.data = InjectError ->
             "failed"
      [] OTHER -> "waits"
=============================================================================
