----------------------------- MODULE ChatProofs ------------------------------
(***************************************************************************)
(* Theorems about ChatAttempt.tla and the modules it composes: the         *)
(* WebSocket of auth.inject, the session that makes the calls and relays   *)
(* the stream, Aggregate, and the body of the OpenAI channel, for any      *)
(* tokens, calls and bounds.                                               *)
(***************************************************************************)
EXTENDS ChatAttempt, RelayProofs, FiniteSetTheorems

-----------------------------------------------------------------------------
(* The frames of auth.inject                                               *)

Bytes == INSTANCE FoldFacts WITH Op <- Shifted
Totals == INSTANCE FoldFacts WITH Op <- +

\* One byte more.
LEMMA BigEndianFold ==
  /\ BigEndian(<<>>) = 0
  /\ \A s \in Seq(Nat), b \in Nat :
        BigEndian(Append(s, b)) = Shifted(BigEndian(s), b)
  <1>1. \A s : BigEndian(s) = Bytes!Fold(0, s)
    BY DEF BigEndian, Bytes!Fold, Bytes!FoldLeft, FoldLeft,
           Bytes!MapThenFoldSet, MapThenFoldSet, Bytes!Max, Max
  <1>2. Bytes!Fold(0, <<>>) = 0
    BY Bytes!FoldEmpty
  <1>3. ASSUME NEW s \in Seq(Nat), NEW b \in Nat
        PROVE  Bytes!Fold(0, Append(s, b)) = Shifted(Bytes!Fold(0, s), b)
    BY Bytes!FoldAppend, Zenon
  <1> QED BY <1>1, <1>2, <1>3, Zenon

Total(s) == FoldLeft(+, 0, s)

\* One length more in the sum.
LEMMA TotalFold ==
  /\ Total(<<>>) = 0
  /\ \A s \in Seq(Nat), n \in Nat : Total(Append(s, n)) = Total(s) + n
  <1>1. \A s : Total(s) = Totals!Fold(0, s)
    BY DEF Total, Totals!Fold, Totals!FoldLeft, FoldLeft,
           Totals!MapThenFoldSet, MapThenFoldSet, Totals!Max, Max
  <1>2. Totals!Fold(0, <<>>) = 0
    BY Totals!FoldEmpty
  <1>3. ASSUME NEW s \in Seq(Nat), NEW n \in Nat
        PROVE  Totals!Fold(0, Append(s, n)) = Totals!Fold(0, s) + n
    BY Totals!FoldAppend, Zenon
  <1> QED BY <1>1, <1>2, <1>3, Zenon

\* Bytes of a number, in the arithmetic the solver lacks.
LEMMA DivMod ==
  ASSUME NEW n \in Nat
  PROVE /\ n = 256 * (n \div 256) + (n % 256)
        /\ n \div 256 \in Nat
        /\ n % 256 \in Nat
  OBVIOUS

\* The powers of 256 that two and four bytes reach,
LEMMA Powers ==
  256 ^ 0 = 1 /\ 256 ^ 1 = 256 /\ 256 ^ 2 = 65536 /\ 256 ^ 3 = 16777216
  OBVIOUS

\* and division by them, a byte at a time.
LEMMA DivDiv ==
  ASSUME NEW n \in Nat
  PROVE /\ n \div 65536 = (n \div 256) \div 256
        /\ n \div 16777216 = (n \div 65536) \div 256
        /\ n \div 1 = n
  OBVIOUS

\* A length that fits in the seven bits of the code.
LEMMA ShortLength ==
  ASSUME NEW n \in Nat, n < 126
  PROVE  /\ DecodeLength(EncodeLength(n)) = n
         /\ LengthBytes(EncodeLength(n).code) = Len(EncodeLength(n).bytes)
  BY DEF DecodeLength, EncodeLength, LengthBytes

\* A number of two bytes,
LEMMA TwoBytes ==
  ASSUME NEW a \in Nat, NEW b \in Nat
  PROVE  BigEndian(<<a, b>>) = 256 * a + b
  <1>1. <<a, b>> = Append(<<a>>, b) /\ <<a>> = Append(<<>>, a)
    OBVIOUS
  <1>2. <<>> \in Seq(Nat) /\ <<a>> \in Seq(Nat)
    OBVIOUS
  <1>3. BigEndian(<<>>) = 0
    BY BigEndianFold
  <1>4. /\ BigEndian(Append(<<>>, a)) = Shifted(0, a)
        /\ BigEndian(Append(<<a>>, b)) = Shifted(BigEndian(<<a>>), b)
    BY <1>2, <1>3, BigEndianFold, Zenon
  <1>5. Shifted(0, a) = a /\ Shifted(a, b) = 256 * a + b
    BY DEF Shifted
  <1> QED BY <1>1, <1>4, <1>5

\* and one of eight, of which four are zero.
LEMMA EightBytes ==
  ASSUME NEW f, f \in [1 .. 8 -> Nat], \A i \in 1 .. 4 : f[i] = 0
  PROVE  BigEndian(f)
            = 256 * (256 * (256 * f[5] + f[6]) + f[7]) + f[8]
  <1> DEFINE s(k) == SubSeq(f, 1, k)
  <1>1. ASSUME NEW k \in 0 .. 7
        PROVE  /\ s(k) \in Seq(Nat) /\ f[k + 1] \in Nat
               /\ s(k + 1) = Append(s(k), f[k + 1])
    OBVIOUS
  <1>2. \A k \in 0 .. 7 :
           BigEndian(s(k + 1)) = 256 * BigEndian(s(k)) + f[k + 1]
    <2> SUFFICES ASSUME NEW k \in 0 .. 7
                 PROVE  BigEndian(s(k + 1)) = 256 * BigEndian(s(k)) + f[k + 1]
      OBVIOUS
    <2> HIDE DEF s
    <2>1. BigEndian(Append(s(k), f[k + 1]))
             = Shifted(BigEndian(s(k)), f[k + 1])
      BY <1>1, BigEndianFold, Zenon
    <2> QED BY <1>1, <2>1 DEF Shifted
  <1>3. s(0) = <<>> /\ s(8) = f
    OBVIOUS
  <1>4. BigEndian(<<>>) = 0
    BY BigEndianFold
  <1> DEFINE v(k) == BigEndian(s(k))
  <1> HIDE DEF s
  <1>5. \A k \in 0 .. 7 : v(k + 1) = 256 * v(k) + f[k + 1]
    BY <1>2
  <1>6. v(0) = 0
    BY <1>3, <1>4
  <1> HIDE DEF v
  <1>7. v(1) = 0 /\ v(2) = 0 /\ v(3) = 0 /\ v(4) = 0
    <2>1. v(0 + 1) = 256 * v(0) + f[0 + 1]
      BY <1>5
    <2>2. v(1 + 1) = 256 * v(1) + f[1 + 1]
      BY <1>5
    <2>3. v(2 + 1) = 256 * v(2) + f[2 + 1]
      BY <1>5
    <2>4. v(3 + 1) = 256 * v(3) + f[3 + 1]
      BY <1>5
    <2> QED BY <1>6, <2>1, <2>2, <2>3, <2>4
  <1>8. /\ v(4 + 1) = 256 * v(4) + f[4 + 1]
        /\ v(5 + 1) = 256 * v(5) + f[5 + 1]
        /\ v(6 + 1) = 256 * v(6) + f[6 + 1]
        /\ v(7 + 1) = 256 * v(7) + f[7 + 1]
    BY <1>5
  <1>9. v(5) = f[5] /\ v(6) = 256 * f[5] + f[6]
        /\ v(7) = 256 * (256 * f[5] + f[6]) + f[7]
        /\ v(8) = 256 * (256 * (256 * f[5] + f[6]) + f[7]) + f[8]
    BY <1>7, <1>8
  <1> QED BY <1>3, <1>9 DEF v

\* The reader decodes the length that the writer encoded.
LEMMA LengthKept ==
  ASSUME NEW n \in Nat, n <= MaxPayload
  PROVE  /\ DecodeLength(EncodeLength(n)) = n
         /\ LengthBytes(EncodeLength(n).code) = Len(EncodeLength(n).bytes)
  <1>1. CASE n < 126
    BY <1>1, ShortLength
  <1>2. CASE 126 <= n /\ n <= 65535
    <2>1. EncodeLength(n)
             = [code |-> 126, bytes |-> <<n \div 256, (n % 256)>>]
      BY <1>2 DEF EncodeLength
    <2>2. DecodeLength(EncodeLength(n))
             = BigEndian(<<n \div 256, (n % 256)>>)
      BY <2>1 DEF DecodeLength
    <2> QED BY <2>1, <2>2, TwoBytes, DivMod DEF LengthBytes
  <1>3. CASE 65535 < n
    <2> DEFINE f == [i \in 1 .. 8 |-> IF i <= 4 THEN 0
                                      ELSE (n \div 256 ^ (8 - i)) % 256]
    <2>1. EncodeLength(n) = [code |-> 127, bytes |-> f]
      BY <1>3 DEF EncodeLength
    <2>2. DecodeLength(EncodeLength(n)) = BigEndian(f)
      BY <2>1 DEF DecodeLength
    <2>3. /\ f[5] = (n \div 16777216) % 256 /\ f[6] = (n \div 65536) % 256
          /\ f[7] = (n \div 256) % 256 /\ f[8] = n % 256
      <3>1. 8 - 5 = 3 /\ 8 - 6 = 2 /\ 8 - 7 = 1 /\ 8 - 8 = 0
        OBVIOUS
      <3> QED BY <3>1, Powers, DivDiv
    <2>4. DOMAIN f = 1 .. 8 /\ Len(f) = 8
      OBVIOUS
    <2>5. \A i \in 1 .. 4 : f[i] = 0
      OBVIOUS
    <2>6. f[5] \in Nat /\ f[6] \in Nat /\ f[7] \in Nat /\ f[8] \in Nat
      BY <2>3
    <2>7. f \in [1 .. 8 -> Nat]
      <3>1. \A i \in 1 .. 8 : i = 1 \/ i = 2 \/ i = 3 \/ i = 4 \/ i = 5
                \/ i = 6 \/ i = 7 \/ i = 8
        OBVIOUS
      <3>2. \A i \in 1 .. 8 : f[i] \in Nat
        <4> HIDE DEF f
        <4> QED BY <3>1, <2>5, <2>6
      <3> QED BY <3>2
    <2> HIDE DEF f
    <2>8. BigEndian(f) = n
      <3>1. n <= 131072
        BY SMT DEF MaxPayload
      <3>2. n = 256 * (256 * (256 * f[5] + f[6]) + f[7]) + f[8]
        BY <2>3, <3>1, <1>3
      <3> QED BY <2>5, <2>7, <3>2, EightBytes
    <2> QED BY <2>1, <2>2, <2>4, <2>8 DEF LengthBytes
  <1> QED BY <1>1, <1>2, <1>3

\* The frames of a payload of any length: their lengths add up to it.
LEMMA FramesKept ==
  ASSUME NEW n \in Nat \ {0}
  PROVE  LET sent == WriteFrames(n)
             lengths == [i \in DOMAIN sent |-> DecodeLength(sent[i].length)]
         IN  /\ \A i \in DOMAIN sent :
                  /\ LengthBytes(sent[i].length.code) = Len(sent[i].length.bytes)
                  /\ lengths[i] \in 1 .. MaxPayload
             /\ Total(lengths) = n
  <1> DEFINE count == IF n <= MaxPayload THEN 1
                      ELSE (n + MaxPayload - 1) \div MaxPayload
             part(i) == IF i < count THEN MaxPayload
                        ELSE n - (count - 1) * MaxPayload
             sent == WriteFrames(n)
             lengths == [i \in DOMAIN sent |-> DecodeLength(sent[i].length)]
  <1>1. /\ count \in Nat /\ count >= 1
        /\ (count - 1) * MaxPayload < n /\ n <= count * MaxPayload
    BY SMT DEF MaxPayload
  <1>2. DOMAIN sent = 1 .. count
        /\ \A i \in 1 .. count : sent[i].length = EncodeLength(part(i))
    BY DEF WriteFrames, WriteFrameOnce
  <1> HIDE DEF count, sent
  <1>3. \A i \in 1 .. count : part(i) \in 1 .. MaxPayload
    <2> SUFFICES ASSUME NEW i \in 1 .. count
                 PROVE  part(i) \in 1 .. MaxPayload
      OBVIOUS
    <2>1. MaxPayload \in Nat /\ MaxPayload >= 1
      BY SMT DEF MaxPayload
    <2>2. CASE i < count
      BY <2>1, <2>2
    <2>3. CASE i = count
      <3>1. /\ n - (count - 1) * MaxPayload \in Nat
            /\ 1 <= n - (count - 1) * MaxPayload
            /\ n - (count - 1) * MaxPayload <= MaxPayload
        BY <1>1, SMT DEF MaxPayload
      <3> QED BY <2>1, <2>3, <3>1
    <2> QED BY <1>1, <2>2, <2>3
  <1>4. \A i \in 1 .. count :
           /\ DecodeLength(sent[i].length) = part(i)
           /\ LengthBytes(sent[i].length.code) = Len(sent[i].length.bytes)
    <2> SUFFICES ASSUME NEW i \in 1 .. count
                 PROVE  /\ DecodeLength(sent[i].length) = part(i)
                        /\ LengthBytes(sent[i].length.code)
                              = Len(sent[i].length.bytes)
      OBVIOUS
    <2>1. MaxPayload \in Nat
      BY SMT DEF MaxPayload
    <2>2. part(i) \in Nat /\ part(i) <= MaxPayload
      BY <1>3, <2>1
    <2> HIDE DEF part
    <2> QED BY <1>2, <2>2, LengthKept, Zenon
  <1>5. lengths = [i \in 1 .. count |-> part(i)]
    BY <1>2, <1>4
  <1>6. Total(lengths) = n
    <2> DEFINE full(k) == [i \in 1 .. k |-> MaxPayload]
               Right == {k \in Nat : Total(full(k)) = k * MaxPayload}
    <2>1. 0 \in Right
      <3>1. full(0) = <<>> /\ 0 * MaxPayload = 0
        BY SMT DEF MaxPayload
      <3> HIDE DEF full
      <3> QED BY <3>1, TotalFold
    <2>2. MaxPayload \in Nat /\ \A k \in Nat : full(k) \in Seq(Nat)
      <3>1. MaxPayload \in Nat
        BY SMT DEF MaxPayload
      <3> QED BY <3>1
    <2>3. ASSUME NEW k \in Nat, k \in Right PROVE k + 1 \in Right
      <3>1. full(k + 1) = Append(full(k), MaxPayload)
        OBVIOUS
      <3> HIDE DEF full
      <3>2. Total(Append(full(k), MaxPayload)) = Total(full(k)) + MaxPayload
        BY <2>2, TotalFold, Zenon
      <3>3. (k + 1) * MaxPayload = k * MaxPayload + MaxPayload
        BY SMT DEF MaxPayload
      <3>4. k + 1 \in Nat /\ Total(full(k)) = k * MaxPayload
        BY <2>3
      <3>5. Total(full(k + 1)) = (k + 1) * MaxPayload
        BY <3>1, <3>2, <3>3, <3>4
      <3> QED BY <3>4, <3>5
    <2> HIDE DEF Right
    <2>4. count - 1 \in Nat /\ count - 1 \in Right
      BY <1>1, <2>1, <2>3, Totals!Induction
    <2>5. lengths = Append(full(count - 1), n - (count - 1) * MaxPayload)
      <3>1. lengths = [i \in 1 .. count |-> part(i)]
        BY <1>5
      <3> HIDE DEF lengths
      <3> QED BY <1>1, <3>1
    <2>6. n - (count - 1) * MaxPayload \in Nat
      BY <1>1, SMT DEF MaxPayload
    <2> HIDE DEF full, lengths
    <2>7. Total(lengths) = Total(full(count - 1)) + (n - (count - 1) * MaxPayload)
      BY <2>2, <2>4, <2>5, <2>6, TotalFold, Zenon
    <2>8. Total(full(count - 1)) = (count - 1) * MaxPayload
      BY <2>4 DEF Right
    <2> QED BY <1>1, <2>2, <2>6, <2>7, <2>8, SMT DEF MaxPayload
  <1> QED BY <1>2, <1>3, <1>4, <1>5, <1>6 DEF sent

-----------------------------------------------------------------------------
(* The verdict on auth.inject                                              *)

\* Sequences of two pieces are told apart by their pieces.
LEMMA Pairs ==
  ASSUME NEW a, NEW b, NEW c, NEW d
  PROVE  /\ <<a, b>> = <<c, d>> <=> a = c /\ b = d
         /\ <<a, b>> # <<>> /\ <<a, b>> # <<c>>
         /\ Head(<<a, b>>) = a /\ Tail(<<a, b>>) = <<b>>
         /\ <<a>> \o <<b>> = <<a, b>>
  <1>1. <<a, b>> = <<c, d>> <=> a = c /\ b = d
    <2>1. <<a, b>>[1] = a /\ <<a, b>>[2] = b /\ <<c, d>>[1] = c /\ <<c, d>>[2] = d
      OBVIOUS
    <2> QED BY <2>1
  <1>2. <<a, b>> # <<>> /\ <<a, b>> # <<c>>
    OBVIOUS
  <1>3. Head(<<a, b>>) = a /\ Tail(<<a, b>>) = <<b>>
    OBVIOUS
  <1>4. <<a>> \o <<b>> = <<a, b>>
    <2>1. <<a>> \o <<b>> = Append(<<a>>, b)
      OBVIOUS
    <2>2. <<a, b>> = Append(<<a>>, b)
      OBVIOUS
    <2> QED BY <2>1, <2>2
  <1> QED BY <1>1, <1>2, <1>3, <1>4

\* NextMessage, case by case.
Half(half) == [at |-> "fragments", op |-> "text", data |-> half]
Message(op, data) == [at |-> "message", op |-> op, data |-> data]

\* A ping or a pong changes nothing,
LEMMA ReadsControl ==
  ASSUME NEW rd, NEW f, f.op \in {"ping", "pong"}
  PROVE  NextMessage(rd, f) = rd
  BY DEF NextMessage

\* a close before a message ends the connection,
LEMMA ReadsClose ==
  ASSUME NEW f, f.op = "close"
  PROVE  NextMessage(NoMessage, f).at = "eof"
  BY DEF NextMessage, NoMessage

\* a message may come in one frame,
LEMMA ReadsWhole ==
  ASSUME NEW f, f.fin, f.op \in {"text", "binary"}
  PROVE  NextMessage(NoMessage, f) = Message(f.op, f.data)
  BY DEF NextMessage, NoMessage, Message

\* or its first half does,
LEMMA ReadsHalf ==
  ASSUME NEW f, ~f.fin, f.op = "text"
  PROVE  NextMessage(NoMessage, f) = Half(f.data)
  BY DEF NextMessage, NoMessage, Half

\* and then its second; a close there counts as the last fragment.
LEMMA ReadsRest ==
  ASSUME NEW f, f.fin, f.op \in {"close", "continuation"}, NEW half
  PROVE  NextMessage(Half(half), f) = Message("text", half \o f.data)
  BY DEF NextMessage, Half, Message

\* The fields of a frame.
LEMMA FrameFields ==
  ASSUME NEW op, NEW data
  PROVE  /\ Frame(TRUE, op, data).fin /\ ~Frame(FALSE, op, data).fin
         /\ Frame(TRUE, op, data).op = op /\ Frame(FALSE, op, data).op = op
         /\ Frame(TRUE, op, data).data = data
         /\ Frame(FALSE, op, data).data = data
  BY DEF Frame

\* Between its frames the server has begun at most one text message, and the
\* reader has what it has sent of it; the verdict is told when it is heard.
WsShape ==
    /\ ws = [state |-> ws.state, length |-> ws.length, sent |-> ws.sent,
             rd |-> ws.rd, part |-> ws.part, told |-> ws.told]
    /\ ws.state \in {"none", "waits", "online", "failed"}
    /\ ws.rd.at \in {"top", "fragments", "eof"}
    /\ ws.part \in {<<>>, Closed} \cup Documents
    /\ ws.told \in {"none", "ok", "error"}

Waiting ==
    /\ ws.told = "none"
    /\ ws.rd = IF ws.part \in Documents
               THEN Half(<<Head(ws.part)>>) ELSE NoMessage

WsInv ==
    /\ WsShape
    /\ ws.state = "none" => ws = NoWs
    /\ ws.state = "waits" => Waiting
    /\ ws.state = "online" => ws.told = "ok"
    /\ ws.state = "failed" => ws.told # "ok"
    /\ ws.state # "none" =>
           ws.length \in InjectLengths /\ ws.sent = WriteFrames(ws.length)

Document(doc) ==
    /\ <<Head(doc)>> # InjectOk /\ <<Head(doc)>> # InjectError
    /\ <<Head(doc)>> \o Tail(doc) = doc
    /\ <<Head(doc)>> \o <<"close">> \notin {InjectOk, InjectError}

\* The documents, their halves, and that none is another.
LEMMA DocumentFacts ==
  /\ Documents = {<<"ok1", "ok2">>, <<"err1", "err2">>, <<"other1", "other2">>}
  /\ InjectOk \in Documents /\ InjectError \in Documents /\ InjectOk # InjectError
  /\ <<>> \notin Documents /\ Closed \notin Documents
  /\ \A doc \in Documents : Document(doc)
  /\ Closed # <<>>
  <1>1. Documents = {<<"ok1", "ok2">>, <<"err1", "err2">>, <<"other1", "other2">>}
    BY DEF Documents, InjectOk, InjectError
  <1>2. <<>> \notin Documents /\ Closed \notin Documents
    BY <1>1, Pairs DEF Closed
  <1>3. InjectOk \in Documents /\ InjectError \in Documents /\ InjectOk # InjectError
    BY Pairs DEF Documents, InjectOk, InjectError
  <1>4. ASSUME NEW a, NEW b
        PROVE  Document(<<a, b>>)
    <2>1. Head(<<a, b>>) = a /\ <<a>> \o Tail(<<a, b>>) = <<a, b>>
           /\ <<a>> \o <<"close">> = <<a, "close">>
      BY Pairs
    <2>2. <<a, "close">> \notin {InjectOk, InjectError}
      BY Pairs DEF InjectOk, InjectError
    <2>4. <<"ok1", "ok2">> # <<a>> /\ <<"err1", "err2">> # <<a>>
      BY Pairs
    <2> QED BY <2>1, <2>2, <2>4 DEF InjectOk, InjectError, Document
  <1>5. Closed # <<>>
    BY DEF Closed
  <1>6. ASSUME NEW doc \in Documents PROVE Document(doc)
    <2>1. doc = <<"ok1", "ok2">> \/ doc = <<"err1", "err2">>
             \/ doc = <<"other1", "other2">>
      BY <1>1
    <2>2. Document(<<"ok1", "ok2">>) /\ Document(<<"err1", "err2">>)
             /\ Document(<<"other1", "other2">>)
      BY <1>4, Zenon
    <2> QED BY <2>1, <2>2, Zenon
  <1> QED BY <1>1, <1>2, <1>3, <1>5, <1>6

\* What the caller makes of a message,
LEMMA Looks ==
  ASSUME NEW m
  PROVE  /\ m.at = "eof" => AfterMessage(m) = "failed"
         /\ m.at \in {"top", "fragments"} => AfterMessage(m) = "waits"
         /\ m.at = "message" =>
              AfterMessage(m) = IF m.op # "text" THEN "waits"
                                ELSE IF m.data = InjectOk THEN "online"
                                ELSE IF m.data = InjectError THEN "failed"
                                ELSE "waits"
  BY DocumentFacts DEF AfterMessage

\* and what the server meant by it.
LEMMA Verdicts ==
  ASSUME NEW doc
  PROVE  Verdict(doc) = IF doc = InjectOk THEN "ok"
                        ELSE IF doc = InjectError THEN "error" ELSE "none"
  BY DocumentFacts DEF Verdict

\* A message or half of one that leaves the loop as it should be.
Fits(rd, part, told) ==
    /\ rd.at \in {"top", "fragments", "eof", "message"}
    /\ part \in {<<>>, Closed} \cup Documents
    /\ told \in {"none", "ok", "error"}
    /\ AfterMessage(rd) = "online" => told = "ok"
    /\ AfterMessage(rd) = "failed" => told # "ok"
    /\ AfterMessage(rd) = "waits" =>
          /\ told = "none"
          /\ IF part \in Documents THEN rd = Half(<<Head(part)>>)
             ELSE rd.at = "message" \/ rd = NoMessage

\* The invariant holds after such a message.
LEMMA Hears ==
  ASSUME WsInv, ws.state = "waits", NEW f, NEW part, NEW told,
         ServerSends(f, part, told), Fits(NextMessage(ws.rd, f), part, told)
  PROVE  WsInv'
  <1> DEFINE rd == NextMessage(ws.rd, f)
             after == IF rd.at = "message" THEN NoMessage ELSE rd
  <1>0. Fits(rd, part, told)
    OBVIOUS
  <1>1. ws' = [ws EXCEPT !.rd = after, !.state = AfterMessage(rd), !.part = part,
                         !.told = told]
    BY DEF ServerSends, Heard, WsInv, WsShape
  <1> HIDE DEF rd
  <1>2. after.at \in {"top", "fragments", "eof"}
    BY <1>0 DEF NoMessage, Fits
  <1>3. AfterMessage(rd) \in {"online", "failed", "waits"}
    BY DocumentFacts DEF AfterMessage
  <1>4. WsShape' /\ ws'.state = AfterMessage(rd) /\ ws'.rd = after
          /\ ws'.part = part /\ ws'.told = told /\ ws'.length = ws.length
          /\ ws'.sent = ws.sent
    <2> HIDE DEF after
    <2> QED BY <1>0, <1>1, <1>2, <1>3 DEF WsShape, WsInv, Fits
  <1>5. ws'.state = "waits" => Waiting'
    <2> SUFFICES ASSUME ws'.state = "waits" PROVE Waiting'
      OBVIOUS
    <2>1. /\ told = "none"
          /\ IF part \in Documents
             THEN rd = Half(<<Head(part)>>)
             ELSE rd.at = "message" \/ rd = NoMessage
      BY <1>0, <1>4 DEF Fits
    <2>2. NoMessage.at = "top" /\ Half(<<Head(part)>>).at = "fragments"
      BY DEF NoMessage, Half
    <2>3. after = IF part \in Documents
                  THEN Half(<<Head(part)>>)
                  ELSE NoMessage
      BY <2>1, <2>2
    <2> HIDE DEF after
    <2> QED BY <1>4, <2>1, <2>3 DEF Waiting
  <1> QED BY <1>0, <1>3, <1>4, <1>5 DEF WsInv, Fits


\* Whatever frame the server sends, ...
LEMMA ServerStep ==
  ASSUME WsInv, ServerControls \/ ServerTells
  PROVE  WsInv'
  <1>1. ws.state = "waits" /\ Waiting /\ ws.part \in {<<>>, Closed} \cup Documents
    BY DEF ServerControls, ServerTells, ServerSends, WsInv, WsShape
  <1>2. ws.rd.at \in {"top", "fragments"} /\ ws.told = "none"
    BY <1>1 DEF Waiting, NoMessage, Half
  <1> USE <1>1, <1>2
  <1>3. ASSUME NEW f, f.op \in {"ping", "pong"}, ServerSends(f, ws.part, ws.told)
        PROVE  WsInv'
    <2>1. NextMessage(ws.rd, f) = ws.rd /\ AfterMessage(ws.rd) = "waits"
      BY <1>3, ReadsControl, Looks
    <2>2. Fits(ws.rd, ws.part, ws.told)
      BY <2>1 DEF Waiting, Fits
    <2> QED BY <1>3, <2>1, <2>2, Hears
  <1>4. ASSUME NEW f, f.fin, f.op = "close", f.data = <<"close">>,
               ServerSends(f, Closed, ws.told)
        PROVE  WsInv'
    <2>1. CASE ws.part \notin Documents
      <3>1. NextMessage(ws.rd, f).at = "eof"
        BY <1>4, <2>1, ReadsClose DEF Waiting
      <3>2. AfterMessage(NextMessage(ws.rd, f)) = "failed"
        BY <3>1, Looks
      <3>3. Fits(NextMessage(ws.rd, f), Closed, ws.told)
        BY <3>1, <3>2 DEF Fits
      <3> QED BY <1>4, <3>3, Hears
    <2>2. CASE ws.part \in Documents
      <3> DEFINE data == <<Head(ws.part)>> \o <<"close">>
      <3>1. NextMessage(ws.rd, f) = Message("text", data)
        BY <1>4, <2>2, ReadsRest DEF Waiting
      <3>2. data \notin {InjectOk, InjectError}
        BY <2>2, DocumentFacts DEF Document
      <3> HIDE DEF data
      <3>3. AfterMessage(Message("text", data)) = "waits"
        BY <3>2, Looks DEF Message
      <3>4. Fits(Message("text", data), Closed, ws.told)
        BY <3>3, DocumentFacts DEF Message, Fits
      <3> QED BY <1>4, <3>1, <3>4, Hears
    <2> QED BY <2>1, <2>2
  <1>5. ASSUME ws.part = <<>>, NEW doc \in Documents, NEW f, f.fin,
               f.op = "text", f.data = doc, ServerSends(f, <<>>, Verdict(doc))
        PROVE  WsInv'
    <2>1. NextMessage(ws.rd, f) = Message("text", doc)
      BY <1>5, ReadsWhole, DocumentFacts DEF Waiting
    <2>2. AfterMessage(Message("text", doc))
             = CASE Verdict(doc) = "ok" -> "online"
                 [] Verdict(doc) = "error" -> "failed"
                 [] Verdict(doc) = "none" -> "waits"
      BY Looks, Verdicts DEF Message
    <2>3. Verdict(doc) \in {"none", "ok", "error"}
      BY Verdicts
    <2>4. Fits(Message("text", doc), <<>>, Verdict(doc))
      BY <2>2, <2>3, DocumentFacts DEF Message, Fits
    <2> QED BY <1>5, <2>1, <2>4, Hears
  <1>6. ASSUME ws.part = <<>>, NEW doc \in Documents, NEW f, f.fin,
               f.op = "binary", f.data = doc, ServerSends(f, <<>>, "none")
        PROVE  WsInv'
    <2>1. NextMessage(ws.rd, f) = Message("binary", doc)
      BY <1>6, ReadsWhole, DocumentFacts DEF Waiting
    <2>2. AfterMessage(Message("binary", doc)) = "waits"
      BY Looks DEF Message
    <2>3. Fits(Message("binary", doc), <<>>, "none")
      BY <2>2, DocumentFacts DEF Message, Fits
    <2> QED BY <1>6, <2>1, <2>3, Hears
  <1>7. ASSUME ws.part = <<>>, NEW doc \in Documents, NEW f, ~f.fin,
               f.op = "text", f.data = <<Head(doc)>>, ServerSends(f, doc, "none")
        PROVE  WsInv'
    <2>1. NextMessage(ws.rd, f) = Half(<<Head(doc)>>)
      BY <1>7, ReadsHalf, DocumentFacts DEF Waiting
    <2>2. Half(<<Head(doc)>>).at = "fragments"
      BY DEF Half
    <2>3. AfterMessage(Half(<<Head(doc)>>)) = "waits"
      BY <2>2, Looks
    <2>4. Fits(Half(<<Head(doc)>>), doc, "none")
      BY <2>2, <2>3 DEF Fits
    <2> QED BY <1>7, <2>1, <2>4, Hears
  <1>8. ASSUME ws.part \in Documents, NEW f, f.fin, f.op = "continuation",
               f.data = Tail(ws.part), ServerSends(f, <<>>, Verdict(ws.part))
        PROVE  WsInv'
    <2>1. NextMessage(ws.rd, f) = Message("text", ws.part)
      <3>1. ws.rd = Half(<<Head(ws.part)>>)
        BY <1>8 DEF Waiting
      <3>2. NextMessage(Half(<<Head(ws.part)>>), f)
               = Message("text", <<Head(ws.part)>> \o f.data)
        BY <1>8, ReadsRest
      <3> QED BY <1>8, <3>1, <3>2, DocumentFacts DEF Document
    <2>2. AfterMessage(Message("text", ws.part))
             = CASE Verdict(ws.part) = "ok" -> "online"
                 [] Verdict(ws.part) = "error" -> "failed"
                 [] Verdict(ws.part) = "none" -> "waits"
      BY Looks, Verdicts DEF Message
    <2>3. Verdict(ws.part) \in {"none", "ok", "error"}
      BY Verdicts
    <2>4. Fits(Message("text", ws.part), <<>>, Verdict(ws.part))
      BY <2>2, <2>3, DocumentFacts DEF Message, Fits
    <2> QED BY <1>8, <2>1, <2>4, Hears
  <1>9. CASE ServerControls
    <2>1. ASSUME NEW op \in {"ping", "pong"},
                 ServerSends(Frame(TRUE, op, <<op>>), ws.part, ws.told)
          PROVE  WsInv'
      <3> DEFINE f == Frame(TRUE, op, <<op>>)
      <3>1. f.op \in {"ping", "pong"}
        BY DEF Frame
      <3>2. ServerSends(f, ws.part, ws.told)
        BY <2>1, Zenon
      <3> HIDE DEF f
      <3> QED BY <1>3, <3>1, <3>2
    <2>2. ASSUME ServerSends(Frame(TRUE, "close", <<"close">>), Closed, ws.told)
          PROVE  WsInv'
      <3> DEFINE f == Frame(TRUE, "close", <<"close">>)
      <3>1. f.fin /\ f.op = "close" /\ f.data = <<"close">>
        BY DEF Frame
      <3>2. ServerSends(f, Closed, ws.told)
        BY <2>2, Zenon
      <3> HIDE DEF f
      <3> QED BY <1>4, <3>1, <3>2
    <2> QED BY <1>9, <2>1, <2>2, Zenon DEF ServerControls
  <1>10. CASE ServerTells
    <2>1. ASSUME ws.part = <<>>, NEW doc \in Documents,
                 ServerSends(Frame(TRUE, "text", doc), <<>>, Verdict(doc))
          PROVE  WsInv'
      <3> DEFINE f == Frame(TRUE, "text", doc)
      <3>1. f.fin /\ f.op = "text" /\ f.data = doc
        BY DEF Frame
      <3>2. ServerSends(f, <<>>, Verdict(doc))
        BY <2>1, Zenon
      <3> HIDE DEF f
      <3> QED BY <1>5, <2>1, <3>1, <3>2
    <2>2. ASSUME ws.part = <<>>, NEW doc \in Documents,
                 ServerSends(Frame(TRUE, "binary", doc), <<>>, "none")
          PROVE  WsInv'
      <3> DEFINE f == Frame(TRUE, "binary", doc)
      <3>1. f.fin /\ f.op = "binary" /\ f.data = doc
        BY DEF Frame
      <3>2. ServerSends(f, <<>>, "none")
        BY <2>2, Zenon
      <3> HIDE DEF f
      <3> QED BY <1>6, <2>2, <3>1, <3>2
    <2>3. ASSUME ws.part = <<>>, NEW doc \in Documents,
                 ServerSends(Frame(FALSE, "text", <<Head(doc)>>), doc, "none")
          PROVE  WsInv'
      BY <1>7, <2>3, FrameFields, Zenon
    <2>4. ASSUME ws.part \in Documents,
                 ServerSends(Frame(TRUE, "continuation", Tail(ws.part)), <<>>,
                             Verdict(ws.part))
          PROVE  WsInv'
      BY <1>8, <2>4, FrameFields, Zenon
    <2> QED BY <1>10, <2>1, <2>2, <2>3, <2>4, Zenon DEF ServerTells
  <1> QED BY <1>9, <1>10

\* ... and whatever else the session does.
LEMMA WsStep ==
  ASSUME WsInv, SessionNext
  PROVE  WsInv'
  <1>1. CASE UNCHANGED ws
    <2>1. Waiting => Waiting'
      BY <1>1 DEF Waiting
    <2> QED BY <1>1, <2>1 DEF WsInv, WsShape
  <1>2. CASE Connects
    <2>1. CASE UNCHANGED ws
      BY <1>1, <2>1
    <2>2. ASSUME NEW n \in InjectLengths,
                 ws' = [NoWs EXCEPT !.state = "waits", !.length = n,
                                    !.sent = WriteFrames(n)]
          PROVE  WsInv'
      <3>1. ws' = [state |-> "waits", length |-> n, sent |-> WriteFrames(n),
                   rd |-> NoMessage, part |-> <<>>, told |-> "none"]
        BY <2>2 DEF NoWs
      <3> QED BY <3>1, DocumentFacts
              DEF WsInv, WsShape, Waiting, NoMessage
    <2> QED BY <1>2, <2>1, <2>2 DEF Connects
  <1>3. CASE InjectGivesUp
    <2>1. WsShape' /\ ws'.state = "failed" /\ ws'.told = ws.told
             /\ ws'.length = ws.length /\ ws'.sent = ws.sent
      BY <1>3 DEF InjectGivesUp, WsInv, WsShape
    <2>2. ws.told = "none" /\ ws.state = "waits"
      BY <1>3 DEF InjectGivesUp, WsInv, Waiting
    <2> QED BY <2>1, <2>2 DEF WsInv
  <1>4. CASE InjectEnds
    <2>1. ws' = NoWs
      BY <1>4 DEF InjectEnds
    <2> QED BY <2>1 DEF WsInv, WsShape, NoWs, NoMessage
  <1>5. \/ UNCHANGED ws
        \/ Connects \/ ServerControls \/ ServerTells \/ InjectGivesUp
        \/ InjectEnds
    BY DEF SessionNext, NothingToSend, Begin, ConnectFails, HttpCalls,
           EventsOpen, RunStarts, SendAnswers, CallFails, TellEarly,
           ReadEarly, Read, Converts
  <1> QED BY <1>1, <1>2, <1>3, <1>4, <1>5, ServerStep

\* The invariant says that the verdict is heard.
LEMMA WsInvHears == WsInv => InjectHearsTheVerdict
  BY DEF WsInv, WsShape, InjectHearsTheVerdict, NoWs, Waiting

-----------------------------------------------------------------------------
(* The calls of a session                                                  *)

\* What has not been run has written nothing and heard nothing.
Idle ==
    /\ cv = NewConverter(NoRun) /\ writeErr = FALSE /\ result = "running"
    /\ strayed = FALSE

\* The first event told before agent/send answered waits in the stream.
Waits ==
    /\ Len(early) = 1
    /\ \E own \in Owners : early[1] \in TextEvents(own, said, <<>>)
    /\ called = <<>> /\ phase = "going" /\ writeErr = FALSE /\ ~cv.done
    /\ result # "nil" /\ strayed = FALSE

\* The gateway tells a run that it started, into a stream that is open.
LinkInv ==
    /\ link = [open |-> link.open, started |-> link.started]
    /\ link.open \in BOOLEAN /\ link.started \in BOOLEAN
    /\ pc = "send" \/ link.started => link.open
    /\ link.started /\ result = "running" => pc \in {"send", "run"}
    /\ early # <<>> => link.started

SessionInv ==
    /\ RelayInv /\ LinkInv
    /\ pc \in SessionPc \cup {"openai", "body", "write"}
    /\ wantStream \in BOOLEAN
    /\ result # "running" => pc = "done"
    /\ pc \notin {"run", "done"} => Idle
    /\ pc \notin {"body", "write", "run", "done"} =>
          called = <<>> /\ phase = "going" /\ (~link.started => said = <<>>)
    /\ pc \in {"body", "write"} => phase # "failed"
    /\ early = <<>> \/ Waits
    /\ pc = "send" /\ early = <<>> => said = <<>>
    /\ early = <<>> /\ (pc = "run" \/ result = "nil") => Caught
    /\ result = "nil" => early = <<>>
    /\ result = "error" => cv.out = <<>> \/ writeErr
    /\ ~wantStream => ~writeErr

\* events, agent/send, then the run.
LEMMA CallsInOrder ==
  FirstCall = "events" /\ CallAfter("events") = "send" /\ CallAfter("send") = "run"
  <1>1. /\ CallOrder[1] = "events" /\ CallOrder[2] = "send"
        /\ CallOrder[3] = "run"
    BY DEF CallOrder
  <1>2. /\ (CHOOSE i \in 1 .. 2 : CallOrder[i] = "events") = 1
        /\ (CHOOSE i \in 1 .. 2 : CallOrder[i] = "send") = 2
    BY <1>1
  <1> QED BY <1>1, <1>2 DEF FirstCall, CallAfter

\* What the stream has done stays done while it is left alone.
LEMMA Unmoved ==
  ASSUME UNCHANGED relayVars
  PROVE  /\ RelayInv => RelayInv'
         /\ Caught => Caught'
         /\ Idle => Idle'
         /\ UNCHANGED early /\ Waits => Waits'
  <1>1. /\ cv' = cv /\ writeErr' = writeErr /\ result' = result
        /\ said' = said /\ called' = called /\ phase' = phase
        /\ frames' = frames /\ strayed' = strayed
    BY DEF relayVars, gateway
  <1>2. RelayInv => RelayInv'
    BY <1>1 DEF RelayInv
  <1>3. Caught => Caught'
    BY <1>1 DEF Caught
  <1>4. Idle => Idle'
    BY <1>1 DEF Idle
  <1>5. UNCHANGED early /\ Waits => Waits'
    BY <1>1 DEF Waits
  <1> QED BY <1>2, <1>3, <1>4, <1>5

\* So does what the session knows of its run, outside of agent/send.
LEMMA LinkUnmoved ==
  ASSUME UNCHANGED <<result, link, early>>, pc' # "send", pc # "send", pc # "run",
         LinkInv
  PROVE  LinkInv'
  BY DEF LinkInv

\* The channel is changed, or the device is brought online.
LEMMA MovesOn ==
  ASSUME SessionInv, UNCHANGED <<relayVars, link, early, wantStream>>,
         pc \notin {"body", "write", "send", "run", "done"},
         pc' \in SessionPc \cup {"openai", "body"}, pc' \notin {"send", "run"}
  PROVE  SessionInv'
  <1>1. /\ cv' = cv /\ writeErr' = writeErr /\ result' = result
        /\ said' = said /\ called' = called /\ phase' = phase
        /\ link' = link /\ early' = early /\ wantStream' = wantStream
    BY DEF relayVars, gateway
  <1>2. RelayInv' /\ LinkInv'
    BY <1>1, Unmoved, LinkUnmoved DEF SessionInv
  <1>3. Idle /\ Idle' /\ result' = "running"
    BY <1>1, Unmoved DEF SessionInv, Idle
  <1>4. early' = <<>> \/ Waits'
    BY <1>1, Unmoved DEF SessionInv
  <1>5. ~link.started
    BY <1>3 DEF SessionInv, LinkInv, Idle
  <1> QED BY <1>1, <1>2, <1>3, <1>4, <1>5 DEF SessionInv

\* A call fails before anything was written.
LEMMA FailsHere ==
  ASSUME SessionInv, Fails, pc \notin {"body", "write", "run", "done"},
         UNCHANGED <<cv, writeErr, gateway, link, early, wantStream>>
  PROVE  SessionInv'
  <1>1. /\ cv' = cv /\ writeErr' = writeErr /\ result' = "error"
        /\ said' = said /\ called' = called /\ phase' = phase
        /\ frames' = frames /\ strayed' = strayed
        /\ pc' = "done"
        /\ link' = link /\ early' = early /\ wantStream' = wantStream
    BY DEF Fails, gateway
  <1>2. Idle
    BY DEF SessionInv
  <1>3. cv.out = <<>> /\ writeErr = FALSE /\ result = "running"
    BY <1>2 DEF Idle, NewConverter
  <1>4. RelayInv'
    BY <1>1, <1>3 DEF SessionInv, RelayInv
  <1>5. LinkInv'
    BY <1>1 DEF SessionInv, LinkInv
  <1>6. early' = <<>> \/ Waits'
    BY <1>1 DEF SessionInv, Waits
  <1> QED BY <1>1, <1>3, <1>4, <1>5, <1>6 DEF SessionInv, SessionPc

\* Call by call: the event stream is opened,
LEMMA OpensEvents == ASSUME SessionInv, EventsOpen PROVE SessionInv'
  <1>1. /\ cv' = cv /\ writeErr' = writeErr /\ result' = result
        /\ said' = said /\ called' = called /\ phase' = phase
        /\ early' = early /\ wantStream' = wantStream /\ UNCHANGED relayVars
        /\ pc = "events" /\ pc' = "send" /\ link' = [link EXCEPT !.open = TRUE]
    BY CallsInOrder DEF EventsOpen, relayVars, gateway
  <1>2. RelayInv' /\ Idle'
    BY <1>1, Unmoved DEF SessionInv
  <1>3. LinkInv' /\ ~link.started /\ ~link'.started
    BY <1>1 DEF SessionInv, LinkInv, Idle
  <1>4. early' = <<>> \/ Waits'
    BY <1>1, Unmoved DEF SessionInv
  <1> QED BY <1>1, <1>2, <1>3, <1>4 DEF SessionInv, SessionPc, Idle

\* the run starts,
LEMMA StartsRun == ASSUME SessionInv, RunStarts PROVE SessionInv'
  <1>1. /\ cv' = cv /\ writeErr' = writeErr /\ result' = result
        /\ said' = said /\ called' = called /\ phase' = phase
        /\ early' = early /\ wantStream' = wantStream /\ UNCHANGED relayVars
        /\ pc = "send" /\ pc' = "send" /\ link' = [link EXCEPT !.started = TRUE]
    BY DEF RunStarts, relayVars, gateway
  <1>2. RelayInv' /\ Idle'
    BY <1>1, Unmoved DEF SessionInv
  <1>3. LinkInv'
    BY <1>1 DEF SessionInv, LinkInv
  <1>4. early' = <<>> \/ Waits'
    BY <1>1, Unmoved DEF SessionInv
  <1> QED BY <1>1, <1>2, <1>3, <1>4 DEF SessionInv, SessionPc, Idle

\* it tells something before agent/send answered,
LEMMA TellsEarly == ASSUME SessionInv, TellEarly PROVE SessionInv'
  <1>1. /\ cv' = cv /\ writeErr' = writeErr /\ result' = result
        /\ called' = called /\ phase' = phase /\ frames' = frames
        /\ strayed' = strayed
        /\ wantStream' = wantStream /\ pc' = pc /\ link' = link
        /\ link.started /\ pc # "run" /\ result = "running"
    BY DEF TellEarly
  <1>2. pc = "send" /\ link.open /\ Idle /\ called = <<>> /\ phase = "going"
    BY <1>1 DEF SessionInv, LinkInv
  <1>3. PICK own \in Owners, t \in Tokens :
           said' = <<t>> /\ \E ev \in TextEvents(own, said', <<>>) : early' = <<ev>>
    BY <1>2, Zenon DEF TellEarly
  <1>4. said' \in Seq(Tokens)
    BY <1>3
  <1>5. RelayInv'
    <2>1. /\ cv' = NewConverter(NoRun) /\ writeErr' = FALSE /\ result' = "running"
          /\ called' = <<>> /\ phase' = "going" /\ NoRun \in {RunID, NoRun}
          /\ strayed' \in BOOLEAN
      BY <1>1, <1>2 DEF Idle
    <2>2. /\ Follows(cv', said', called', phase') /\ ~cv'.done
          /\ Kept(cv') /\ StopLast(cv'.out) /\ Sound(cv')
      BY <1>4, <2>1, NewFollows DEF Follows
    <2>3. frames' \in 0 .. MaxFrames /\ called' \in Seq(ToolIds)
      BY <1>1 DEF SessionInv, RelayInv
    <2> QED BY <1>4, <2>1, <2>2, <2>3 DEF RelayInv
  <1>6. LinkInv'
    BY <1>1 DEF SessionInv, LinkInv
  <1>7. Idle' /\ cv'.out = <<>> /\ ~cv'.done
    BY <1>1, <1>2 DEF Idle, NewConverter
  <1>8. Waits'
    <2>1. PICK ev \in TextEvents(own, said', <<>>) : early' = <<ev>>
      BY <1>3
    <2>2. Len(early') = 1 /\ early'[1] = ev /\ early' # <<>>
      BY <2>1
    <2> QED BY <1>1, <1>2, <1>7, <2>2 DEF Waits, Idle
  <1>9. early' # <<>>
    BY <1>3
  <1> QED BY <1>1, <1>2, <1>5, <1>6, <1>7, <1>8, <1>9 DEF SessionInv, Idle

\* agent/send answers,
LEMMA AnswersSend == ASSUME SessionInv, SendAnswers PROVE SessionInv'
  <1>1. /\ writeErr' = writeErr /\ result' = result
        /\ said' = said /\ called' = called /\ phase' = phase
        /\ frames' = frames /\ early' = early /\ wantStream' = wantStream
        /\ link' = link /\ strayed' = strayed
        /\ pc = "send" /\ pc' = "run"
    BY CallsInOrder DEF SendAnswers, gateway
  <1>2. PICK id \in {RunID, NoRun} : cv' = NewConverter(id)
    BY DEF SendAnswers
  <1>3. Idle /\ called = <<>> /\ phase = "going"
    BY <1>1 DEF SessionInv
  <1>4. /\ Follows(cv', said', called', phase') /\ ~cv'.done /\ Kept(cv')
        /\ StopLast(cv'.out) /\ cv'.out = <<>> /\ cv'.lastText = <<>>
        /\ Sound(cv')
    <2>1. said' \in Seq(Tokens) /\ called' = <<>> /\ phase' = "going"
      BY <1>1, <1>3 DEF SessionInv, RelayInv
    <2> QED BY <1>2, <2>1, NewFollows DEF Follows
  <1>5. writeErr' = FALSE /\ result' = "running" /\ strayed' = FALSE
    BY <1>1, <1>3 DEF Idle
  <1>6. RelayInv'
    BY <1>1, <1>4, <1>5 DEF SessionInv, RelayInv
  <1>7. LinkInv'
    BY <1>1 DEF SessionInv, LinkInv
  <1>8. early' = <<>> \/ Waits'
    BY <1>1, <1>4, <1>5 DEF SessionInv, Waits
  <1>9. early' = <<>> => Caught'
    BY <1>1, <1>4 DEF SessionInv, Caught, CaughtUp
  <1> QED BY <1>1, <1>5, <1>6, <1>7, <1>8, <1>9 DEF SessionInv, SessionPc

\* what was told early is read,
LEMMA ReadsEarly ==
  ASSUME SessionInv, ReadEarly PROVE SessionInv' /\ Further(cv, cv')
  <1> DEFINE ev == Head(early)
             d == HandleFrame(cv, ev)
  <1>1. /\ said' = said /\ called' = called /\ phase' = phase
        /\ early' = <<>> /\ wantStream' = wantStream /\ link' = link
        /\ strayed' = strayed
        /\ pc = "run" /\ Receive(ev) /\ early # <<>>
        /\ ~wantStream => ~writeErr'
        /\ result' = result /\ result = "running"
    BY DEF ReadEarly, Converts, Receive
  <1>2. Waits /\ RelayInv
    BY <1>1 DEF SessionInv
  <1>3. PICK own \in Owners : ev \in TextEvents(own, said, <<>>)
    BY <1>2 DEF Waits
  <1>4. /\ said \in Seq(Tokens) /\ called = <<>> /\ <<>> \in Seq(ToolIds)
        /\ phase = "going" /\ ~writeErr /\ ~cv.done /\ said \in Texts
        /\ Follows(cv, said, <<>>, "going") /\ strayed' = FALSE
    BY <1>1, <1>2, SaidIsText DEF Waits, RelayInv
  <1> HIDE DEF ev
  <1>5. /\ Follows(d, said, <<>>, "going") /\ CaughtUp(d, said, "going")
        /\ ~d.done /\ d.runID = cv.runID /\ Further(cv, d)
    BY <1>3, <1>4, FollowsText
  <1> HIDE DEF d
  <1>6. /\ RelayInv' /\ cv'.runID = cv.runID /\ result' = "running"
        /\ Further(cv, cv')
        /\ ~writeErr' => ~writeErr /\ cv' = d
    <2>1. SomeEvent(own, ev) /\ Receive(ev)
      BY <1>1, <1>3, <1>4, Zenon DEF SomeEvent
    <2>2. /\ said' \in Seq(Tokens) /\ called' \in Seq(ToolIds)
          /\ phase' \in {"going", "ended", "failed"}
          /\ phase = "failed" => phase' = "failed"
          /\ strayed' \in BOOLEAN /\ (strayed => strayed')
      BY <1>1, <1>2, <1>4 DEF Waits
    <2>3. /\ Follows(HandleFrame(cv, ev), said', called', phase')
          /\ ~HandleFrame(cv, ev).done
      BY <1>1, <1>4, <1>5 DEF d
    <2>4. /\ RelayInv' /\ cv'.runID = cv.runID /\ result' = "running"
          /\ Further(cv, cv')
          /\ ~writeErr' => ~writeErr /\ cv' = HandleFrame(cv, ev)
      BY <1>2, <2>1, <2>2, <2>3, FrameReceived, BoundAssumption
    <2> QED BY <2>4 DEF d
  <1>7. Caught'
    BY <1>1, <1>4, <1>5, <1>6 DEF Caught
  <1>8. LinkInv' /\ pc' = "run"
    BY <1>1, <1>6 DEF SessionInv, LinkInv, ReadEarly, Converts
  <1> QED BY <1>1, <1>6, <1>7, <1>8 DEF SessionInv, SessionPc

\* a stream returns nil or, to a client that is gone, an error,
LEMMA StreamResults ==
  ASSUME RelayNext
  PROVE  /\ result = "running"
         /\ \/ result' = "running" \/ result' = "nil"
            \/ result' = "error" /\ writeErr'
         /\ writeErr => writeErr'
  BY DEF RelayNext, TellText, TellTool, TellNothing, TellEnd, TellError,
         TellForeign, StreamEnds, Receive

\* the rest is read,
LEMMA ReadsStream ==
  ASSUME SessionInv, Read PROVE SessionInv' /\ Further(cv, cv')
  <1>1. /\ early = <<>> /\ early' = <<>> /\ wantStream' = wantStream
        /\ link' = link /\ pc = "run" /\ RelayNext
        /\ ~wantStream => ~writeErr'
        /\ pc' = IF result' = "running" THEN "run" ELSE "done"
    BY DEF Read, Converts
  <1>2. Caught /\ RelayInv
    BY <1>1 DEF SessionInv
  <1>3. RelayInv' /\ Caught' /\ Further(cv, cv')
    BY <1>1, <1>2, RelayStep DEF Keeps
  <1>4. /\ result = "running"
        /\ \/ result' = "running" \/ result' = "nil"
           \/ result' = "error" /\ writeErr'
    BY <1>1, StreamResults
  <1>5. LinkInv'
    BY <1>1, <1>4 DEF SessionInv, LinkInv
  <1> QED BY <1>1, <1>3, <1>4, <1>5 DEF SessionInv, SessionPc

\* and so for every step of the session.
LEMMA SessionStep == ASSUME SessionInv, SessionNext PROVE SessionInv'
  <1>1. CASE \/ Begin \/ Connects \/ ConnectFails \/ ServerControls
             \/ ServerTells \/ InjectGivesUp \/ InjectEnds
    <2>1. /\ UNCHANGED <<relayVars, link, early, wantStream>>
          /\ pc \in {"start", "dial", "tls", "upgrade", "inject"}
          /\ pc' \in {"dial", "tls", "upgrade", "inject", "events"}
      BY <1>1, CallsInOrder
         DEF Begin, Connects, ConnectFails, ServerControls, ServerTells,
             ServerSends, InjectGivesUp, InjectEnds
    <2> QED BY <2>1, MovesOn DEF SessionPc
  <1>2. CASE NothingToSend \/ CallFails
    <2>1. /\ Fails /\ UNCHANGED <<cv, writeErr, gateway, link, early, wantStream>>
          /\ pc \in {"start", "events", "send"}
      BY <1>2 DEF NothingToSend, CallFails
    <2> QED BY <2>1, FailsHere
  <1> QED BY <1>1, <1>2, OpensEvents, StartsRun, TellsEarly, AnswersSend,
             ReadsEarly, ReadsStream, Zenon DEF SessionNext, HttpCalls

-----------------------------------------------------------------------------
(* The OpenAI channel leaves the relay channel as it is                    *)

\* The answer grows while the converter has done nothing.
LEMMA AnswerGrows ==
  ASSUME SessionInv, pc \in {"openai", "body", "write"},
         pc' \in {"body", "write", "done"},
         UNCHANGED <<cv, writeErr, result, frames, strayed, link, early,
                     wantStream>>,
         said' \in Seq(Tokens), called' \in Seq(ToolIds),
         phase' \in {"going", "ended"}
  PROVE  SessionInv'
  <1>1. /\ cv' = cv /\ writeErr' = writeErr /\ result' = result
        /\ frames' = frames /\ strayed' = strayed /\ link' = link
        /\ early' = early /\ wantStream' = wantStream
    OBVIOUS
  <1>2. Idle
    BY DEF SessionInv
  <1>3. RelayInv'
    <2>1. /\ cv' = NewConverter(NoRun) /\ writeErr' = FALSE
          /\ result' = "running" /\ NoRun \in {RunID, NoRun}
          /\ strayed' \in BOOLEAN
      BY <1>1, <1>2 DEF Idle
    <2>2. /\ Follows(cv', said', called', phase') /\ ~cv'.done
          /\ Kept(cv') /\ StopLast(cv'.out) /\ Sound(cv')
      BY <2>1, NewFollows DEF Follows
    <2>3. frames' \in 0 .. MaxFrames
      BY <1>1 DEF SessionInv, RelayInv
    <2> QED BY <2>1, <2>2, <2>3 DEF RelayInv
  <1>4. LinkInv' /\ early' = <<>>
    BY <1>1, <1>2 DEF SessionInv, LinkInv, Idle
  <1>5. Idle' /\ result' = "running" /\ writeErr' = FALSE
    BY <1>1, <1>2 DEF Idle
  <1> QED BY <1>1, <1>3, <1>4, <1>5 DEF SessionInv, SessionPc

\* What the OpenAI channel writes, and when.
LEMMA LineStep ==
  ASSUME NEW b, NEW line, Line(b, line)
  PROVE  /\ pc = "body" /\ pc' \in {"body", "done"}
         /\ UNCHANGED <<cv, writeErr, result, frames, strayed, ws, link, early,
                       wantStream>>
         /\ \/ /\ body' = [b EXCEPT !.sent = Append(@, line),
                                    !.got = IF wantStream THEN Append(@, line)
                                            ELSE @]
               /\ pc' = pc
            \/ /\ wantStream
               /\ body' = [b EXCEPT !.sent = Append(@, line), !.end = "left"]
               /\ pc' = "done"
  BY DEF Line

\* A line of the body keeps the invariant,
LEMMA BodyLineStep ==
  ASSUME SessionInv, BodyLine
  PROVE  SessionInv' /\ UNCHANGED ws
  <1>1. /\ pc = "body" /\ pc' \in {"body", "done"}
        /\ UNCHANGED <<cv, writeErr, result, frames, strayed, ws, link, early,
                       wantStream>>
    BY LineStep, Zenon DEF BodyLine, BodyText, BodyCall, BodyArguments, BodyStop, BodyDone
  <1>2. said \in Seq(Tokens) /\ called \in Seq(ToolIds)
    BY DEF SessionInv, RelayInv
  <1>3. /\ said' \in Seq(Tokens) /\ called' \in Seq(ToolIds)
        /\ phase' \in {"going", "ended"}
    <2>1. CASE BodyText
      BY <1>2, <2>1 DEF BodyText
    <2>2. CASE BodyCall
      BY <1>2, <2>2 DEF BodyCall
    <2>3. CASE BodyArguments
      BY <1>2, <2>3 DEF BodyArguments
    <2>4. CASE BodyStop
      BY <1>2, <2>4 DEF BodyStop
    <2>5. CASE BodyDone
      BY <1>2, <2>5 DEF BodyDone
    <2> QED BY <2>1, <2>2, <2>3, <2>4, <2>5 DEF BodyLine
  <1> QED BY <1>1, <1>3, AnswerGrows

\* A bounded sequence is a sequence.
LEMMA BoundedIsSeq ==
  ASSUME NEW S, NEW n \in Nat, NEW s \in BoundedSeq(S, n)
  PROVE  s \in Seq(S)
  <1>1. s \in UNION {[1 .. m -> S] : m \in 0 .. n}
    BY Zenon DEF BoundedSeq, SeqOf
  <1>2. PICK m \in 0 .. n : s \in [1 .. m -> S]
    BY <1>1
  <1> QED BY <1>2

\* What a completion says, and the calls it names.
LEMMA FullAnswer ==
  ASSUME NEW full \in Completions
  PROVE  /\ full.text \in Seq(Tokens)
         /\ [i \in DOMAIN full.calls |-> full.calls[i].id] \in Seq(ToolIds)
         /\ \E ids \in Seq(ToolIds) :
               full.calls = [i \in DOMAIN ids |-> [id |-> ids[i], args |-> << 1 >>]]
  <1>1. /\ full.text \in BoundedSeq(Tokens, MaxText)
        /\ \E ids \in BoundedSeq(ToolIds, MaxCalls) :
              full.calls = [i \in DOMAIN ids |-> [id |-> ids[i], args |-> << 1 >>]]
    BY DEF Completions
  <1>2. full.text \in Seq(Tokens)
    BY <1>1, BoundedIsSeq, BoundAssumption
  <1>3. PICK ids \in BoundedSeq(ToolIds, MaxCalls) :
           full.calls = [i \in DOMAIN ids |-> [id |-> ids[i], args |-> << 1 >>]]
    BY <1>1
  <1>4. ids \in Seq(ToolIds)
    BY BoundedIsSeq DEF MaxCalls
  <1>5. [i \in DOMAIN full.calls |-> full.calls[i].id] = ids
    BY <1>3, <1>4
  <1> QED BY <1>2, <1>3, <1>4, <1>5

\* and so does every other step of the OpenAI channel.
LEMMA OpenAIStep ==
  ASSUME SessionInv, OpenAICall \/ BodyEnds \/ CompletionWritten
  PROVE  SessionInv' /\ UNCHANGED ws
  <1>1. CASE OpenAIFails
    BY <1>1, FailsHere DEF OpenAIFails
  <1>2. CASE OpenAINotEnabled
    BY <1>2, MovesOn DEF OpenAINotEnabled, SessionPc
  <1>3. CASE OpenAIRefused \/ OpenAIAccepted \/ BodyEnds \/ CompletionWritten
    <2>1. /\ UNCHANGED <<relayVars, ws, link, early, wantStream>>
          /\ pc \in {"openai", "body", "write"} /\ pc' \in {"body", "done"}
          /\ phase' = phase
      BY <1>3 DEF OpenAIRefused, OpenAIAccepted, BodyEnds, CompletionWritten,
                  relayVars, gateway
    <2>2. phase \in {"going", "ended"}
      BY <2>1 DEF SessionInv, RelayInv
    <2> QED BY <2>1, <2>2, AnswerGrows DEF relayVars, gateway, SessionInv, RelayInv
  <1>4. CASE OpenAICompletion
    <2>1. PICK full \in Completions :
             /\ said' = full.text
             /\ called' = [i \in DOMAIN full.calls |-> full.calls[i].id]
      BY <1>4, Zenon DEF OpenAICompletion
    <2>2. /\ pc = "openai" /\ pc' \in {"write", "done"} /\ phase' = phase
          /\ UNCHANGED <<cv, writeErr, result, frames, strayed, ws, link, early,
                       wantStream>>
      BY <1>4 DEF OpenAICompletion
    <2>3. phase = "going"
      BY <2>2 DEF SessionInv
    <2> QED BY <2>1, <2>2, <2>3, FullAnswer, AnswerGrows
  <1> QED BY <1>1, <1>2, <1>3, <1>4 DEF OpenAICall

-----------------------------------------------------------------------------
(* Theorems about the session                                              *)

\* The device is not brought online.
LEMMA WsUnmoved == ASSUME WsInv, UNCHANGED ws PROVE WsInv'
  <1>1. Waiting => Waiting'
    BY DEF Waiting
  <1> QED BY <1>1 DEF WsInv, WsShape

\* The invariant holds when an attempt begins, on either channel ...
LEMMA SessionStart == ASSUME ChatInit PROVE SessionInv /\ WsInv
  <1>1. /\ Fresh(NoRun) /\ ws = NoWs /\ early = <<>>
        /\ link = [open |-> FALSE, started |-> FALSE]
        /\ pc \in {"openai", "start"} /\ wantStream \in BOOLEAN
    BY DEF ChatInit, SessionInit
  <1>2. /\ cv = NewConverter(NoRun) /\ writeErr = FALSE /\ result = "running"
        /\ said = <<>> /\ called = <<>> /\ phase = "going"
        /\ strayed = FALSE
    BY <1>1 DEF Fresh
  <1>3. RelayInv
    BY <1>1, FreshInv, BoundAssumption
  <1>4. Idle
    BY <1>2 DEF Idle
  <1>5. LinkInv
    BY <1>1 DEF LinkInv
  <1>6. WsInv
    BY <1>1 DEF WsInv, WsShape, NoWs, NoMessage
  <1> QED BY <1>1, <1>2, <1>3, <1>4, <1>5, <1>6 DEF SessionInv, SessionPc

\* ... and in every state of it.
LEMMA SessionInvariance == ChatSpec => [](SessionInv /\ WsInv)
  <1>1. ChatInit => SessionInv /\ WsInv
    BY SessionStart
  <1>2. SessionInv /\ WsInv /\ [ChatNext]_chatVars => (SessionInv /\ WsInv)'
    <2>1. ASSUME SessionInv, WsInv, OpenAICall \/ BodyEnds \/ CompletionWritten
          PROVE  (SessionInv /\ WsInv)'
      BY <2>1, OpenAIStep, WsUnmoved
    <2>2. ASSUME SessionInv, WsInv, BodyLine PROVE (SessionInv /\ WsInv)'
      BY <2>2, BodyLineStep, WsUnmoved
    <2>3. ASSUME SessionInv, WsInv, SessionNext PROVE (SessionInv /\ WsInv)'
      BY <2>3, SessionStep, WsStep
    <2>4. ASSUME SessionInv, WsInv, UNCHANGED chatVars
          PROVE  (SessionInv /\ WsInv)'
      <3>1. /\ UNCHANGED relayVars /\ pc' = pc /\ ws' = ws /\ link' = link
            /\ early' = early /\ wantStream' = wantStream
            /\ said' = said /\ called' = called /\ phase' = phase
            /\ result' = result /\ cv' = cv /\ writeErr' = writeErr
        BY <2>4 DEF chatVars, attemptVars, sessionVars, relayVars, gateway
      <3>2. RelayInv' /\ (Caught => Caught') /\ (Idle => Idle')
            /\ (Waits => Waits')
        BY <2>4, <3>1, Unmoved DEF SessionInv
      <3>3. LinkInv'
        BY <2>4, <3>1 DEF SessionInv, LinkInv
      <3>4. SessionInv'
        BY <2>4, <3>1, <3>2, <3>3 DEF SessionInv
      <3> QED BY <2>4, <3>1, <3>4, WsUnmoved
    <2> QED BY <2>1, <2>2, <2>3, <2>4 DEF ChatNext
  <1> QED BY <1>1, <1>2, PTL DEF ChatSpec

\* A payload that fits in one frame is one message.
LEMMA OneFrame ==
  ASSUME NEW n \in Nat \ {0}, n <= MaxPayload
  PROVE  FirstMessage(WriteFrames(n)) = WriteFrames(n)
  <1> DEFINE f == WriteFrameOnce("text", n)
  <1>1. WriteFrames(n) = <<f>>
    <2>1. (1 - 1) * MaxPayload = 0 /\ n - 0 = n
      BY SMT DEF MaxPayload
    <2>2. WriteFrames(n) = [i \in 1 .. 1 |-> f]
      BY <2>1 DEF WriteFrames
    <2> QED BY <2>2
  <1>2. f.fin = TRUE
    BY DEF WriteFrameOnce
  <1> HIDE DEF f
  <1>3. {i \in DOMAIN <<f>> : <<f>>[i].fin} = {1}
    BY <1>2
  <1>4. (CHOOSE i \in {1} : \A j \in {1} : i <= j) = 1
    OBVIOUS
  <1>5. SubSeq(<<f>>, 1, 1) = <<f>>
    <2>1. ASSUME NEW S, NEW s \in Seq(S)
          PROVE  SubSeq(s, 1, Len(s)) = s
      <3>1. /\ SubSeq(s, 1, Len(s)) \in Seq(S)
            /\ Len(SubSeq(s, 1, Len(s))) = Len(s)
        OBVIOUS
      <3>2. \A i \in 1 .. Len(s) : SubSeq(s, 1, Len(s))[i] = s[i]
        OBVIOUS
      <3> QED BY <3>1, <3>2
    <2>2. <<f>> \in Seq({f}) /\ Len(<<f>>) = 1
      OBVIOUS
    <2> QED BY <2>1, <2>2
  <1> QED BY <1>1, <1>3, <1>4, <1>5 DEF FirstMessage

\* The frames of auth.inject, whatever its length.
LEMMA InvDecodes == ASSUME WsInv PROVE FramesDecode
  <1> SUFFICES ASSUME ws.sent # <<>> PROVE FramesDecode
    BY DEF FramesDecode
  <1>1. ws.sent = WriteFrames(ws.length) /\ ws.length \in Nat \ {0}
    <2>1. NoWs.sent = <<>>
      BY DEF NoWs
    <2> QED BY <2>1, LengthAssumption DEF WsInv
  <1> DEFINE lengths == [i \in DOMAIN ws.sent |-> DecodeLength(ws.sent[i].length)]
  <1>2. /\ \A i \in DOMAIN ws.sent :
              /\ LengthBytes(ws.sent[i].length.code)
                    = Len(ws.sent[i].length.bytes)
              /\ lengths[i] \in 1 .. MaxPayload
        /\ Total(lengths) = ws.length
    BY <1>1, FramesKept, Zenon
  <1>3. LengthRead(ws.sent) = ws.length
    BY <1>2, Zenon DEF LengthRead, Total
  <1>4. ws.length <= MaxPayload =>
           LengthRead(FirstMessage(ws.sent)) = ws.length
    BY <1>1, <1>3, OneFrame
  <1>5. \A i \in DOMAIN ws.sent :
           /\ LengthBytes(ws.sent[i].length.code)
                 = Len(ws.sent[i].length.bytes)
           /\ DecodeLength(ws.sent[i].length) \in 1 .. MaxPayload
    BY <1>2
  <1> QED BY <1>3, <1>4, <1>5, Zenon DEF FramesDecode

\* wsAuthInject finds the verdict of the server among any other messages, in
\* any fragments, with pings and pongs between them.
THEOREM VerdictHeard == ChatSpec => []InjectHearsTheVerdict
  <1> QED BY WsInvHears, SessionInvariance, PTL

\* The frames of an auth.inject of any length are each read at the length they
\* were written with, and carry all of it.  One of at most MaxPayload bytes is
\* one message, the whole of it; of a longer one nothing of the kind is said,
\* because every frame has FIN.
THEOREM FramesRead == ChatSpec => []FramesDecode
  <1> QED BY InvDecodes, SessionInvariance, PTL

\* The stream of a request that went through all of the calls, or failed in
\* one of them, ends with [DONE] and has nothing after it;
THEOREM DoneIsLast == ChatSpec => []DoneEndsTheAnswer
  <1>1. SessionInv => DoneEndsTheAnswer
    BY InvEnds DEF SessionInv
  <1> QED BY <1>1, SessionInvariance, PTL

\* it announces every call of the run once, under the next index, and no other
\* as long as no event of another request names only the session;
THEOREM CallsAnnouncedOnce == ChatSpec => []ToolsAnnouncedOnce
  <1>1. SessionInv => ToolsAnnouncedOnce
    BY InvAnnounces DEF SessionInv
  <1> QED BY <1>1, SessionInvariance, PTL

\* and, as long as that, tells the client when the run has failed.
THEOREM FailuresTold == ChatSpec => []FailureIsTold
  <1>1. SessionInv => FailureIsTold
    BY InvFails DEF SessionInv
  <1> QED BY <1>1, SessionInvariance, PTL

\* An attempt that returns an error wrote nothing, or has no client any more.
THEOREM RetryWritesNothing == ChatSpec => []RetryIsHarmless
  <1>1. SessionInv => RetryIsHarmless
    BY DEF SessionInv, RetryIsHarmless
  <1> QED BY <1>1, SessionInvariance, PTL

\* If the gateway tells snapshots, the client misses nothing of the answer,
\* not even what was told before agent/send had answered, and has nothing of
\* the other runs whose events carry their id.  Once an event of another
\* request names only the session, which relay.go:421 takes for one of the
\* run, nothing is said.
THEOREM NothingIsMissed ==
  ASSUME ~Incremental
  PROVE  ChatSpec => []ClientHearsTheRun
  <1>1. SessionInv => ClientHearsTheRun
    BY InvTells DEF SessionInv, ClientHearsTheRun
  <1> QED BY <1>1, SessionInvariance, PTL

-----------------------------------------------------------------------------
(* Aggregate                                                               *)

Absorbs == INSTANCE FoldFacts WITH Op <- Absorb

\* Aggregate takes the lines one after the other.
LEMMA AbsorbedFold ==
  /\ Absorbed(<<>>) = Empty
  /\ \A S : \A s \in Seq(S), x \in S :
        Absorbed(Append(s, x)) = Absorb(Absorbed(s), x)
  <1>1. \A s : Absorbed(s) = Absorbs!Fold(Empty, s)
    BY DEF Absorbed, Absorbs!Fold, Absorbs!FoldLeft, FoldLeft,
           Absorbs!MapThenFoldSet, MapThenFoldSet, Absorbs!Max, Max
  <1>2. ASSUME NEW S, NEW s \in Seq(S), NEW x \in S
        PROVE  Absorbs!Fold(Empty, Append(s, x)) = Absorb(Absorbs!Fold(Empty, s), x)
    BY Absorbs!FoldAppend, Zenon
  <1>3. Absorbs!Fold(Empty, <<>>) = Empty
    BY Absorbs!FoldEmpty
  <1> QED BY <1>1, <1>2, <1>3, Zenon

\* The completion acc has this text, these calls under the indexes from zero,
\* and this reason.
Collects(acc, text, calls, reason) ==
    /\ DOMAIN acc = {"text", "reasoning", "calls", "reason", "usage"}
    /\ acc.text = text /\ acc.reason = reason
    /\ DOMAIN acc.calls = 0 .. Len(calls) - 1
    /\ \A i \in 1 .. Len(calls) : acc.calls[i - 1] = calls[i]

\* Nothing is collected of no lines;
LEMMA CollectsNothing == Collects(Empty, <<>>, <<>>, "stop")
  BY DEF Collects, Empty, NoCalls

\* content adds to the text,
LEMMA CollectsText ==
  ASSUME NEW acc, NEW text, NEW calls, NEW reason,
         Collects(acc, text, calls, reason), NEW line, line.kind = "content"
  PROVE  Collects(Absorb(acc, line), text \o line.text, calls, reason)
  <1> DEFINE t == text \o line.text
             d == Absorb(acc, line)
  <1>1. d = [acc EXCEPT !.text = t]
    BY DEF Absorb, Collects
  <1> HIDE DEF t, d
  <1>2. Collects(d, t, calls, reason)
    BY <1>1 DEF Collects
  <1> QED BY <1>2 DEF t, d

\* thinking adds nothing,
LEMMA CollectsThought ==
  ASSUME NEW acc, NEW text, NEW calls, NEW reason,
         Collects(acc, text, calls, reason), NEW line, line.kind = "reasoning"
  PROVE  Collects(Absorb(acc, line), text, calls, reason)
  BY DEF Absorb, Collects

\* nor does [DONE],
LEMMA CollectsDone ==
  ASSUME NEW acc, NEW text, NEW calls, NEW reason,
         Collects(acc, text, calls, reason), NEW line, line.kind = "[DONE]"
  PROVE  Collects(Absorb(acc, line), text, calls, reason)
  BY DEF Absorb, Collects

\* and the end gives the reason.
LEMMA CollectsStop ==
  ASSUME NEW acc, NEW text, NEW calls, NEW reason,
         Collects(acc, text, calls, reason), NEW line, line.kind = "stop"
  PROVE  Collects(Absorb(acc, line), text, calls, line.reason)
  <1> DEFINE u == acc.usage \/ line.usage
             d == Absorb(acc, line)
             r == line.reason
  <1>1. d = [acc EXCEPT !.reason = r, !.usage = u]
    BY Zenon DEF Absorb, Collects
  <1> HIDE DEF u, d, r
  <1>2. Collects(d, text, calls, r)
    BY <1>1 DEF Collects
  <1> QED BY <1>2 DEF d, r

\* A line about the call with the next index adds one.
LEMMA CollectsCall ==
  ASSUME NEW acc, NEW text, NEW S, NEW calls \in Seq(S), NEW reason,
         Collects(acc, text, calls, reason),
         NEW line, line.kind = "tool", line.index = Len(calls),
         NEW A, line.args \in Seq(A),
         NEW call \in S, call = [id |-> line.id, args |-> line.args]
  PROVE  Collects(Absorb(acc, line), text, Append(calls, call), reason)
  <1> DEFINE m == Merged(acc.calls, line)
             d == Absorb(acc, line)
             l == Append(calls, call)
             n == Len(calls)
  <1>1. d = [acc EXCEPT !.calls = m]
    BY DEF Absorb, Collects
  <1>2. /\ n \in Nat /\ Len(l) = n + 1 /\ l[n + 1] = call
        /\ \A i \in 1 .. n : l[i] = calls[i]
    OBVIOUS
  <1>3. MergeToolCallDelta([id |-> NoId, args |-> <<>>], line) = call
    <2>1. <<>> \o line.args = line.args
      OBVIOUS
    <2> QED BY <2>1 DEF MergeToolCallDelta
  <1>4. m = [i \in 0 .. n |-> IF i = n THEN call ELSE acc.calls[i]]
    <2>1. DOMAIN acc.calls = 0 .. n - 1 /\ n \notin 0 .. n - 1
          /\ (0 .. n - 1) \cup {n} = 0 .. n
      BY <1>2 DEF Collects
    <2> QED BY <1>3, <2>1 DEF Merged
  <1> HIDE DEF m, d, l
  <1>5. DOMAIN m = 0 .. Len(l) - 1
    BY <1>2, <1>4
  <1>6. \A i \in 1 .. Len(l) : m[i - 1] = l[i]
    BY <1>2, <1>4 DEF Collects
  <1>7. Collects(d, text, l, reason)
    BY <1>1, <1>5, <1>6 DEF Collects
  <1> QED BY <1>7 DEF d, l

\* A line without an id about a call that began adds to its arguments.
LEMMA CollectsArguments ==
  ASSUME NEW acc, NEW text, NEW calls, NEW reason, Len(calls) \in Nat,
         Collects(acc, text, calls, reason),
         NEW i \in 1 .. Len(calls), NEW line, line.kind = "tool",
         line.index = i - 1, line.id = NoId,
         NEW more, Len(more) = Len(calls),
         \A j \in 1 .. Len(calls) :
            more[j] = IF j # i THEN calls[j]
                      ELSE [id |-> calls[i].id, args |-> calls[i].args \o line.args]
  PROVE  Collects(Absorb(acc, line), text, more, reason)
  <1> DEFINE m == Merged(acc.calls, line)
             d == Absorb(acc, line)
             n == Len(calls)
  <1>1. d = [acc EXCEPT !.calls = m]
    BY DEF Absorb, Collects
  <1>2. DOMAIN acc.calls = 0 .. n - 1 /\ i - 1 \in 0 .. n - 1
        /\ acc.calls[i - 1] = calls[i] /\ (0 .. n - 1) \cup {i - 1} = 0 .. n - 1
    BY DEF Collects
  <1>3. MergeToolCallDelta(calls[i], line) = more[i]
    BY DEF MergeToolCallDelta
  <1>4. m = [k \in 0 .. n - 1 |-> IF k = i - 1 THEN more[i] ELSE acc.calls[k]]
    BY <1>2, <1>3 DEF Merged
  <1>5. DOMAIN m = 0 .. Len(more) - 1
    BY <1>4
  <1>6. \A j \in 1 .. n : m[j - 1] = more[j]
    <2> SUFFICES ASSUME NEW j \in 1 .. n PROVE m[j - 1] = more[j]
      OBVIOUS
    <2>1. j - 1 \in 0 .. n - 1 /\ acc.calls[j - 1] = calls[j]
          /\ (j - 1 = i - 1 <=> j = i)
      BY DEF Collects
    <2> HIDE DEF m
    <2> QED BY <1>4, <2>1
  <1> HIDE DEF m, d
  <1>7. Collects(d, text, more, reason)
    BY <1>1, <1>5, <1>6 DEF Collects
  <1> QED BY <1>7 DEF d

\* The indexes from zero, in order.
LEMMA IndexesInOrder ==
  ASSUME NEW n \in Nat
  PROVE  InOrder(0 .. n - 1) = [k \in 1 .. n |-> k - 1]
  <1> DEFINE S == 0 .. n - 1
  <1>1. Cardinality(S) = n
    BY FS_Interval
  <1>2. ASSUME NEW i \in S PROVE Cardinality({j \in S : j < i}) = i
    <2>1. {j \in S : j < i} = 0 .. i - 1
      OBVIOUS
    <2>2. Cardinality(0 .. i - 1) = i
      BY FS_Interval
    <2> QED BY <2>1, <2>2
  <1>3. ASSUME NEW k \in 1 .. n
        PROVE  (CHOOSE i \in S : Cardinality({j \in S : j < i}) = k - 1) = k - 1
    <2>1. k - 1 \in S /\ \A i \in S : i = k - 1 <=> Cardinality({j \in S : j < i}) = k - 1
      BY <1>2
    <2> HIDE DEF S
    <2> QED BY <2>1
  <1> HIDE DEF S
  <1>4. InOrder(S) = [k \in 1 .. n |-> CHOOSE i \in S : Cardinality({j \in S : j < i}) = k - 1]
    BY <1>1, Zenon DEF InOrder
  <1> QED BY <1>3, <1>4 DEF S

\* The completion made of what was collected.
LEMMA Completed ==
  ASSUME NEW acc, NEW text, NEW S, NEW calls \in Seq(S), NEW reason,
         Collects(acc, text, calls, reason)
  PROVE  /\ Completion(acc).text = text /\ Completion(acc).reason = reason
         /\ Completion(acc).calls = calls
  <1> DEFINE order == InOrder(DOMAIN acc.calls)
             n == Len(calls)
  <1>1. DOMAIN acc.calls = 0 .. n - 1 /\ n \in Nat
        /\ \A i \in 1 .. n : acc.calls[i - 1] = calls[i]
    BY DEF Collects
  <1>2. order = [k \in 1 .. n |-> k - 1]
    BY <1>1, IndexesInOrder
  <1>3. Completion(acc).calls = [k \in DOMAIN order |-> acc.calls[order[k]]]
    BY DEF Completion
  <1>4. Completion(acc).text = acc.text /\ Completion(acc).reason = acc.reason
    BY DEF Completion
  <1> HIDE DEF order
  <1>5. [k \in DOMAIN order |-> acc.calls[order[k]]] = [k \in 1 .. n |-> calls[k]]
    BY <1>1, <1>2
  <1>6. [k \in 1 .. n |-> calls[k]] = calls
    OBVIOUS
  <1> QED BY <1>3, <1>4, <1>5, <1>6 DEF Collects

-----------------------------------------------------------------------------
(* The buffer                                                              *)

\* The calls of a completion of these announcements.
Entries == [id : ToolIds, args : {<<id>> : id \in ToolIds}]
Entry(x) == [id |-> x.id, args |-> x.args]
Bare(calls) == [i \in 1 .. Len(calls) |-> Entry(calls[i])]

\* Their type, and one more.
LEMMA BareCalls ==
  ASSUME NEW calls \in Seq(Announcements), NEW x \in Announcements
  PROVE  /\ Entry(x) \in Entries
         /\ Bare(calls) \in Seq(Entries) /\ Len(Bare(calls)) = Len(calls)
         /\ Bare(Append(calls, x)) = Append(Bare(calls), Entry(x))
  <1>1. \A y \in Announcements : Entry(y) \in Entries
    BY DEF Entry, Entries, Announcements
  <1>2. Bare(calls) \in Seq(Entries) /\ Len(Bare(calls)) = Len(calls)
    BY <1>1 DEF Bare
  <1>3. Bare(Append(calls, x)) = Append(Bare(calls), Entry(x))
    BY <1>1, <1>2 DEF Bare
  <1> QED BY <1>1, <1>2, <1>3

\* A new announcement has the next index.
LEMMA NumberedMore ==
  ASSUME NEW calls \in Seq(Announcements), NEW x \in Announcements,
         Numbered(Append(calls, x))
  PROVE  Numbered(calls) /\ x.index = Len(calls)
  <1> DEFINE l == Append(calls, x)
  <1>1. /\ l \in Seq(Announcements) /\ Len(l) = Len(calls) + 1
        /\ l[Len(calls) + 1] = x /\ Len(calls) \in Nat
        /\ \A i \in 1 .. Len(calls) : l[i] = calls[i]
    OBVIOUS
  <1>2. Numbered(l)
    OBVIOUS
  <1> HIDE DEF l
  <1>3. Begins(calls, l)
    BY <1>1 DEF Begins
  <1>4. Numbered(calls)
    BY <1>1, <1>2, <1>3, FewerNumbered
  <1>5. x.index = Len(calls)
    BY <1>1, <1>2 DEF Numbered
  <1> QED BY <1>4, <1>5

\* Aggregate collects what a client has that reads the chunks one by one.
Collected(out) ==
    Collects(Absorbed(out), ContentOf(out), Bare(ToolChunks(out)), "stop")

\* So it does of any output whose calls are numbered.
LEMMA BufferCollected ==
  ASSUME NEW out \in Seq(Chunk), Numbered(ToolChunks(out))
  PROVE  Collected(out)
  <1> DEFINE T == {s \in Seq(Chunk) : Numbered(ToolChunks(s)) => Collected(s)}
  <1>1. <<>> \in T
    <2>1. Bare(<<>>) = <<>>
      BY DEF Bare
    <2> QED BY <2>1, AbsorbedFold, ContentFold, ToolFold, CollectsNothing DEF Collected
  <1>2. ASSUME NEW s \in Seq(Chunk), NEW x \in Chunk, s \in T
        PROVE  Append(s, x) \in T
    <2> DEFINE t == Append(s, x)
    <2>1. /\ t \in Seq(Chunk)
          /\ Absorbed(t) = Absorb(Absorbed(s), x)
      BY AbsorbedFold
    <2>2. /\ x.kind = "content" => ContentOf(t) = ContentOf(s) \o x.text
          /\ x.kind # "content" => ContentOf(t) = ContentOf(s)
          /\ x.kind = "tool" => ToolChunks(t) = Append(ToolChunks(s), x)
          /\ x.kind # "tool" => ToolChunks(t) = ToolChunks(s)
      BY OneMore
    <2> HIDE DEF t
    <2> SUFFICES ASSUME Numbered(ToolChunks(t)) PROVE Collected(t)
      BY <2>1 DEF t
    <2>3. ToolChunks(s) \in Seq(Announcements)
      BY ToolType
    <2>4. Numbered(ToolChunks(s)) => Collected(s)
      BY <1>2
    <2>5. CASE x.kind = "content"
      <3>1. Collected(s) /\ x.kind # "tool"
        BY <2>2, <2>4, <2>5
      <3> QED BY <2>1, <2>2, <2>5, <3>1, CollectsText DEF Collected
    <2>6. CASE x.kind = "reasoning"
      <3>1. Collected(s) /\ x.kind # "tool" /\ x.kind # "content"
        BY <2>2, <2>4, <2>6
      <3> QED BY <2>1, <2>2, <2>6, <3>1, CollectsThought DEF Collected
    <2>7. CASE x.kind = "[DONE]"
      <3>1. Collected(s) /\ x.kind # "tool" /\ x.kind # "content"
        BY <2>2, <2>4, <2>7
      <3> QED BY <2>1, <2>2, <2>7, <3>1, CollectsDone DEF Collected
    <2>8. CASE x.kind = "stop"
      <3>1. Collected(s) /\ x.kind # "tool" /\ x.kind # "content" /\ x.reason = "stop"
        BY <2>2, <2>4, <2>8 DEF Chunk
      <3> QED BY <2>1, <2>2, <2>8, <3>1, CollectsStop DEF Collected
    <2>9. CASE x.kind = "tool"
      <3>1. x \in Announcements /\ x.kind # "content"
        BY <2>9, ChunkKinds
      <3>2. Collected(s) /\ x.index = Len(ToolChunks(s))
        BY <2>2, <2>3, <2>4, <2>9, <3>1, NumberedMore
      <3>3. /\ Entry(x) \in Entries /\ Bare(ToolChunks(s)) \in Seq(Entries)
            /\ Len(Bare(ToolChunks(s))) = Len(ToolChunks(s))
            /\ Bare(ToolChunks(t)) = Append(Bare(ToolChunks(s)), Entry(x))
        BY <2>2, <2>3, <2>9, <3>1, BareCalls
      <3>4. x.args \in Seq(ToolIds) /\ Entry(x) = [id |-> x.id, args |-> x.args]
        <4>1. PICK id \in ToolIds : x.args = <<id>>
          BY <3>1 DEF Announcements
        <4> QED BY <4>1 DEF Entry
      <3>5. Collects(Absorb(Absorbed(s), x), ContentOf(s),
                     Append(Bare(ToolChunks(s)), Entry(x)), "stop")
        BY <2>9, <3>2, <3>3, <3>4, CollectsCall DEF Collected
      <3> QED BY <2>1, <2>2, <3>1, <3>3, <3>5 DEF Collected
    <2>10. x.kind \in {"content", "reasoning", "[DONE]", "tool", "stop"}
      BY DEF Chunk
    <2> QED BY <2>5, <2>6, <2>7, <2>8, <2>9, <2>10
  <1> HIDE DEF T
  <1>3. \A s \in Seq(Chunk) : s \in T
    BY <1>1, <1>2, Absorbs!SeqInduction, Zenon
  <1> QED BY <1>3 DEF T

\* So a request without a stream gets what the stream would have told.
LEMMA InvBuffers == ASSUME SessionInv, ~Incremental PROVE BufferIsTheAnswer
  <1> SUFFICES ASSUME ~wantStream, result = "nil", phase # "failed",
                      ~strayed, cv.runID # NoRun
               PROVE  LET full == Aggregate(cv.out)
                      IN  /\ full.text = said /\ full.reason = "stop"
                          /\ full.calls = [i \in DOMAIN called |->
                                [id |-> called[i], args |-> <<called[i]>>]]
    BY DEF BufferIsTheAnswer
  <1> DEFINE calls == ToolChunks(cv.out)
             text == ContentOf(cv.out)
             out == cv.out
  <1>1. /\ ~writeErr /\ Follows(cv, said, called, phase) /\ Caught
        /\ Kept(cv) /\ called \in Seq(ToolIds)
    BY DEF SessionInv, RelayInv
  <1>2. cv.out \in Seq(Chunk) /\ Numbered(calls)
    BY <1>1 DEF Kept, Converter
  <1>3. text = said /\ Names(calls) = called
    BY <1>1 DEF Caught, CaughtUp, Follows
  <1>4. Collects(Absorbed(out), text, Bare(calls), "stop")
    BY <1>2, BufferCollected DEF Collected
  <1>5. calls \in Seq(Announcements)
    BY <1>2, ToolType
  <1> HIDE DEF calls, text, out
  <1>6. Bare(calls) \in Seq(Entries)
    <2>1. \A y \in Announcements : Entry(y) \in Entries
      BY DEF Entry, Entries, Announcements
    <2> QED BY <1>5, <2>1 DEF Bare
  <1>7. /\ Aggregate(out).text = text /\ Aggregate(out).reason = "stop"
        /\ Aggregate(out).calls = Bare(calls)
    BY <1>4, <1>6, Completed DEF Aggregate
  <1>8. Bare(calls) = [i \in DOMAIN called |->
                          [id |-> called[i], args |-> <<called[i]>>]]
    <2>1. called = [i \in 1 .. Len(calls) |-> calls[i].id]
      BY <1>3, <1>5 DEF Names
    <2>2. DOMAIN called = 1 .. Len(calls)
      BY <2>1
    <2>3. \A i \in 1 .. Len(calls) :
             calls[i].args = <<calls[i].id>> /\ called[i] = calls[i].id
      BY <1>2, <2>1 DEF Numbered
    <2>4. \A i \in 1 .. Len(calls) :
             Entry(calls[i]) = [id |-> called[i], args |-> <<called[i]>>]
      BY <2>3, Zenon DEF Entry
    <2> QED BY <2>2, <2>4, Zenon DEF Bare
  <1> QED BY <1>3, <1>7, <1>8, Zenon DEF out

\* Without a stream the client gets, aggregated, all of the answer that the
\* gateway told in snapshots: the text, and the calls in their order.  Nothing
\* is said where an event of another request named only the session.
THEOREM BufferIsRight ==
  ASSUME ~Incremental
  PROVE  ChatSpec => []BufferIsTheAnswer
  <1>1. SessionInv => BufferIsTheAnswer
    BY InvBuffers
  <1> QED BY <1>1, SessionInvariance, PTL

-----------------------------------------------------------------------------
(* The answer of the OpenAI channel                                        *)

Sequence(s) == Len(s) \in Nat /\ s = [i \in 1 .. Len(s) |-> s[i]]

LEMMA AbsorbedNext ==
  ASSUME NEW s, Sequence(s), NEW x
  PROVE  /\ Absorbed(Append(s, x)) = Absorb(Absorbed(s), x)
         /\ Sequence(Append(s, x)) /\ Len(Append(s, x)) = Len(s) + 1
         /\ Append(s, x)[Len(s) + 1] = x
         /\ \A i \in 1 .. Len(s) : Append(s, x)[i] = s[i]
  <1> DEFINE S == {s[i] : i \in 1 .. Len(s)} \cup {x}
             n == Len(s)
  <1>1. n \in Nat /\ s = [i \in 1 .. n |-> s[i]] /\ x \in S
    BY DEF Sequence
  <1>2. \A i \in 1 .. n : s[i] \in S
    OBVIOUS
  <1> HIDE DEF S, n
  <1>3. s \in Seq(S)
    BY <1>1, <1>2
  <1>4. Append(s, x) \in Seq(S)
    BY <1>1, <1>3
  <1>5. /\ Len(Append(s, x)) = Len(s) + 1
        /\ Append(s, x)[Len(s) + 1] = x
        /\ \A i \in 1 .. Len(s) : Append(s, x)[i] = s[i]
    BY <1>3
  <1>6. Sequence(Append(s, x))
    <2> DEFINE t == Append(s, x)
    <2>1. t \in Seq(S)
      BY <1>4
    <2> HIDE DEF t
    <2>2. Sequence(t)
      BY <2>1 DEF Sequence
    <2> QED BY <2>2 DEF t
  <1>7. Absorbed(Append(s, x)) = Absorb(Absorbed(s), x)
    BY <1>1, <1>3, AbsorbedFold, Zenon
  <1> QED BY <1>5, <1>6, <1>7

\* The calls ids with so many fragments of arguments each.
Fragments(n) == [k \in 1 .. n |-> k]
BodyCalls(ids, pieces) ==
    [i \in 1 .. Len(ids) |-> [id |-> ids[i], args |-> Fragments(pieces[i])]]

\* One fragment more, and none.
LEMMA FragmentsGrow ==
  ASSUME NEW n \in Nat
  PROVE  Fragments(n + 1) = Fragments(n) \o <<n + 1>> /\ Fragments(0) = <<>>
  BY DEF Fragments

BodyEntries == [id : ToolIds, args : Seq(Nat)]

\* Their type, one by one.
LEMMA BodyCallsType ==
  ASSUME NEW ids \in Seq(ToolIds), NEW pieces \in Seq(Nat), Len(pieces) = Len(ids)
  PROVE  BodyCalls(ids, pieces) \in Seq(BodyEntries)
         /\ Len(BodyCalls(ids, pieces)) = Len(ids)
         /\ \A i \in 1 .. Len(ids) : BodyCalls(ids, pieces)[i]
               = [id |-> ids[i], args |-> Fragments(pieces[i])]
  <1>1. \A n \in Nat : Fragments(n) \in Seq(Nat)
    BY DEF Fragments
  <1>2. \A i \in 1 .. Len(ids) :
           [id |-> ids[i], args |-> Fragments(pieces[i])] \in BodyEntries
    <2> SUFFICES ASSUME NEW i \in 1 .. Len(ids)
                 PROVE  [id |-> ids[i], args |-> Fragments(pieces[i])] \in BodyEntries
      OBVIOUS
    <2>1. ids[i] \in ToolIds /\ pieces[i] \in Nat
      OBVIOUS
    <2>2. Fragments(pieces[i]) \in Seq(Nat)
      BY <1>1, <2>1, Zenon
    <2> QED BY <2>1, <2>2 DEF BodyEntries
  <1> QED BY <1>2 DEF BodyCalls

BodyShape(b) ==
    b = [style |-> b.style, sent |-> b.sent, got |-> b.got,
         pieces |-> b.pieces, reason |-> b.reason, end |-> b.end]

\* Nothing follows [DONE].
OnlyLast(s) == \A i \in 1 .. Len(s) : s[i] = DoneLine => i = Len(s)
Seen(s) == \E i \in 1 .. Len(s) : s[i] = DoneLine
Closes(s) == s # <<>> /\ \A i \in 1 .. Len(s) : s[i] = DoneLine <=> i = Len(s)

\* A line more is not [DONE], or closes the stream.
LEMMA SeenNext ==
  ASSUME NEW s, Sequence(s), ~Seen(s), NEW x
  PROVE  /\ x # DoneLine => ~Seen(Append(s, x))
         /\ x = DoneLine => Closes(Append(s, x))
  <1> DEFINE t == Append(s, x)
  <1>1. /\ Len(t) = Len(s) + 1 /\ t[Len(s) + 1] = x /\ Len(s) \in Nat
        /\ \A i \in 1 .. Len(s) : t[i] = s[i]
    BY AbsorbedNext DEF Sequence
  <1>2. t # <<>>
    BY <1>1
  <1>3. \A i \in 1 .. Len(t) : i \in 1 .. Len(s) \/ i = Len(s) + 1
    BY <1>1
  <1> HIDE DEF t
  <1>4. x # DoneLine => ~Seen(t)
    BY <1>1, <1>3 DEF Seen
  <1>5. x = DoneLine => Closes(t)
    BY <1>1, <1>2, <1>3 DEF Seen, Closes
  <1> QED BY <1>4, <1>5 DEF t

\* The lines of a stream: those sent are the answer so far, and the client has
\* got them.
StreamInv ==
    /\ Sequence(body.sent)
    /\ Collects(Absorbed(body.sent), said, BodyCalls(called, body.pieces),
                body.reason)
    /\ OnlyLast(body.sent) /\ (phase = "going" => ~Seen(body.sent))
    /\ wantStream /\ body.end = "open" => body.got = body.sent
    /\ wantStream /\ body.end = "eof" =>
           body.got = IF Seen(body.sent) THEN body.sent
                                         ELSE Append(body.sent, DoneLine)

\* The lines that tell the calls of a completion, with their one fragment.
ToolLines(ids) == [i \in 1 .. Len(ids) |-> ToolChunk(0, ids[i], << 1 >>)]
Ones(ids) == [i \in 1 .. Len(ids) |-> 1]

\* The completion acc has this text.
Holds(acc, text) ==
    /\ DOMAIN acc = {"text", "reasoning", "calls", "reason", "usage"}
    /\ acc.text = text

\* The lines made of one completion: the text and every call are in them, in
\* order, and if there is one call at most, Aggregate finds it again.
CompletionInv ==
    /\ Sequence(body.sent) /\ Closes(body.sent)
    /\ Holds(Absorbed(body.sent), said)
    /\ ToolChunks(body.sent) = ToolLines(called) /\ body.pieces = Ones(called)
    /\ Len(called) <= 1 =>
          Collects(Absorbed(body.sent), said, BodyCalls(called, body.pieces),
                   "stop")
    /\ wantStream /\ body.end = "eof" => body.got = body.sent

BodyInv ==
    /\ BodyShape(body)
    /\ body.style \in Styles /\ body.end \in {"open", "eof", "broken", "left"}
    /\ body.pieces \in Seq(Nat)
    /\ body.style = "none" => body = NoBody
    /\ body.style \in {"none", "refused"} => body.pieces = <<>>
    /\ body.style # "none" => pc \in {"body", "write", "done"} /\ ~link.started
    /\ pc = "body" => body.style = "sse" /\ body.end = "open"
    /\ pc = "write" => /\ body.style = "json" /\ body.end = "open"
                       /\ body.got = <<>> /\ wantStream
    /\ body.style \in {"sse", "json"} => Len(body.pieces) = Len(called)
    /\ body.style = "sse" => StreamInv
    /\ body.style = "json" => CompletionInv

\* A line is sent: what it does to the stream.
LEMMA LineKept ==
  ASSUME SessionInv, BodyInv, NEW b, BodyShape(b),
         b.style = "sse", b.end = "open", b.sent = body.sent, b.got = body.got,
         NEW line, Line(b, line), ~Seen(body.sent),
         line = DoneLine => phase' # "going",
         b.pieces \in Seq(Nat), Len(b.pieces) = Len(called'),
         Collects(Absorb(Absorbed(body.sent), line), said',
                  BodyCalls(called', b.pieces), b.reason)
  PROVE  BodyInv'
  <1> DEFINE sent == Append(body.sent, line)
             got == IF wantStream THEN sent ELSE b.got
  <1>1. /\ pc = "body" /\ pc' \in {"body", "done"} /\ link' = link
        /\ wantStream' = wantStream
    BY LineStep
  <1>2. /\ StreamInv /\ body.style = "sse" /\ body.end = "open" /\ ~link.started
        /\ Sequence(body.sent)
    BY <1>1 DEF BodyInv, StreamInv
  <1>3. /\ Absorbed(sent) = Absorb(Absorbed(body.sent), line)
        /\ Sequence(sent) /\ Len(sent) = Len(body.sent) + 1
        /\ sent[Len(body.sent) + 1] = line
        /\ \A i \in 1 .. Len(body.sent) : sent[i] = body.sent[i]
    BY <1>2, AbsorbedNext
  <1>4. wantStream => body.got = body.sent
    BY <1>2 DEF StreamInv
  <1>5. \/ /\ body' = [b EXCEPT !.sent = sent, !.got = got]
           /\ pc' = pc
        \/ /\ wantStream
           /\ body' = [b EXCEPT !.sent = sent, !.end = "left"]
           /\ pc' = "done"
    <2>1. \/ /\ body' = [b EXCEPT !.sent = Append(@, line),
                                  !.got = IF wantStream THEN Append(@, line)
                                          ELSE @]
             /\ pc' = pc
          \/ /\ wantStream
             /\ body' = [b EXCEPT !.sent = Append(@, line), !.end = "left"]
             /\ pc' = "done"
      BY LineStep, Zenon
    <2>2. b.sent = body.sent /\ (wantStream => b.got = body.sent)
      BY <1>4
    <2> QED BY <2>1, <2>2 DEF BodyShape
  <1>6. OnlyLast(sent) /\ (phase' = "going" => ~Seen(sent))
    <2>1. \A i \in 1 .. Len(body.sent) : body.sent[i] # DoneLine
      BY DEF Seen
    <2>2. \A i \in 1 .. Len(sent) : i \in 1 .. Len(body.sent) \/ i = Len(body.sent) + 1
      BY <1>2, <1>3 DEF Sequence
    <2> HIDE DEF sent
    <2> QED BY <1>3, <2>1, <2>2 DEF OnlyLast, Seen
  <1> HIDE DEF sent, got
  <1>7. /\ BodyShape(body') /\ body'.style = "sse" /\ body'.sent = sent
        /\ body'.pieces = b.pieces /\ body'.reason = b.reason
        /\ body'.end \in {"open", "left"}
        /\ pc' = "body" => body'.end = "open"
        /\ wantStream /\ body'.end = "open" => body'.got = sent
    <2>1. wantStream => got = sent
      BY DEF got
    <2> QED BY <1>1, <1>5, <2>1 DEF BodyShape
  <1>8. StreamInv'
    BY <1>1, <1>3, <1>6, <1>7 DEF StreamInv
  <1> QED BY <1>1, <1>2, <1>7, <1>8 DEF BodyInv, Styles, BodyShape

\* The lines of the stream are sent into a body that is open.
LEMMA Streaming ==
  ASSUME SessionInv, BodyInv, pc = "body"
  PROVE  /\ BodyShape(body) /\ body.style = "sse" /\ body.end = "open"
         /\ StreamInv /\ body.pieces \in Seq(Nat)
         /\ Len(body.pieces) = Len(called)
         /\ said \in Seq(Tokens) /\ called \in Seq(ToolIds)
         /\ BodyCalls(called, body.pieces) \in Seq(BodyEntries)
         /\ Len(BodyCalls(called, body.pieces)) = Len(called)
  <1>1. /\ BodyShape(body) /\ body.style = "sse" /\ body.end = "open"
        /\ StreamInv /\ body.pieces \in Seq(Nat)
        /\ Len(body.pieces) = Len(called)
    BY DEF BodyInv
  <1>2. said \in Seq(Tokens) /\ called \in Seq(ToolIds)
    BY DEF SessionInv, RelayInv
  <1> QED BY <1>1, <1>2, BodyCallsType

\* Line by line: a token,
LEMMA TextKept == ASSUME SessionInv, BodyInv, BodyText PROVE BodyInv'
  <1>1. PICK t \in Tokens : said' = Append(said, t) /\ Line(body, TextChunk(<<t>>))
    BY DEF BodyText
  <1>2. phase = "going" /\ phase' = phase /\ called' = called
    BY DEF BodyText
  <1> DEFINE line == TextChunk(<<t>>)
  <1>3. line.kind = "content" /\ line.text = <<t>> /\ line # DoneLine
    BY DEF TextChunk, DoneLine
  <1>4. Line(body, line) /\ pc = "body"
    BY <1>1, LineStep
  <1> HIDE DEF line
  <1>5. Collects(Absorb(Absorbed(body.sent), line), said \o line.text,
                 BodyCalls(called, body.pieces), body.reason)
    BY <1>3, <1>4, Streaming, CollectsText DEF StreamInv
  <1>6. said' = said \o line.text
    BY <1>1, <1>3, <1>4, Streaming
  <1>7. ~Seen(body.sent)
    BY <1>2, <1>4, Streaming DEF StreamInv
  <1>8. /\ BodyShape(body) /\ body.style = "sse" /\ body.end = "open"
        /\ body.pieces \in Seq(Nat) /\ Len(body.pieces) = Len(called')
    BY <1>2, <1>4, Streaming
  <1>9. Collects(Absorb(Absorbed(body.sent), line), said',
                 BodyCalls(called', body.pieces), body.reason)
    BY <1>2, <1>5, <1>6
  <1> QED BY <1>3, <1>4, <1>7, <1>8, <1>9, LineKept

\* a call,
LEMMA CallKept == ASSUME SessionInv, BodyInv, BodyCall PROVE BodyInv'
  <1> DEFINE p == Append(body.pieces, 0)
             b == [body EXCEPT !.pieces = p]
             n == Len(called)
  <1>1. PICK id \in ToolIds :
           /\ called' = Append(called, id)
           /\ Line([body EXCEPT !.pieces = Append(@, 0)], ToolChunk(n, id, <<>>))
    BY DEF BodyCall
  <1> DEFINE line == ToolChunk(n, id, <<>>)
             e == [id |-> id, args |-> <<>>]
  <1>2. phase = "going" /\ phase' = phase /\ said' = said
    BY DEF BodyCall
  <1>3. /\ line.kind = "tool" /\ line.index = n /\ line.id = id
        /\ line.args = <<>> /\ line # DoneLine
    BY DEF ToolChunk, DoneLine
  <1>4. pc = "body"
    BY <1>1, LineStep, Zenon
  <1>5. /\ BodyShape(body) /\ body.style = "sse" /\ body.end = "open"
        /\ body.pieces \in Seq(Nat) /\ Len(body.pieces) = n
        /\ called \in Seq(ToolIds)
    BY <1>4, Streaming
  <1>6. Line(b, line)
    <2>1. [body EXCEPT !.pieces = Append(@, 0)] = b
      BY <1>5 DEF BodyShape
    <2> HIDE DEF b, line
    <2> QED BY <1>1, <2>1, Zenon DEF line
  <1>7. /\ BodyShape(b) /\ b.style = "sse" /\ b.end = "open"
        /\ b.sent = body.sent /\ b.got = body.got /\ b.pieces = p
        /\ b.reason = body.reason
    <2> HIDE DEF p
    <2> QED BY <1>5 DEF BodyShape
  <1>8. p \in Seq(Nat) /\ Len(p) = n + 1 /\ Len(called') = n + 1 /\ n \in Nat
        /\ called' \in Seq(ToolIds)
    BY <1>1, <1>5
  <1>9. e \in BodyEntries /\ line.args \in Seq(Nat)
    <2>1. <<>> \in Seq(Nat)
      OBVIOUS
    <2> QED BY <1>3, <2>1 DEF BodyEntries
  <1>10. BodyCalls(called', p) = Append(BodyCalls(called, body.pieces), e)
    <2>1. /\ \A i \in 1 .. n : called'[i] = called[i] /\ p[i] = body.pieces[i]
          /\ called'[n + 1] = id /\ p[n + 1] = 0
      BY <1>1, <1>5
    <2>2. Fragments(0) = <<>>
      BY FragmentsGrow
    <2> DEFINE l == BodyCalls(called, body.pieces)
               m == BodyCalls(called', p)
    <2>3. /\ l \in Seq(BodyEntries) /\ Len(l) = n
          /\ \A i \in 1 .. n : l[i]
                = [id |-> called[i], args |-> Fragments(body.pieces[i])]
      BY <1>5, BodyCallsType
    <2>4. /\ m \in Seq(BodyEntries) /\ Len(m) = n + 1
          /\ \A i \in 1 .. n + 1 : m[i]
                = [id |-> called'[i], args |-> Fragments(p[i])]
      BY <1>8, BodyCallsType
    <2> HIDE DEF l, m, p
    <2>5. \A i \in 1 .. n : m[i] = l[i]
      BY <1>8, <2>1, <2>3, <2>4
    <2>6. m[n + 1] = e
      BY <1>8, <2>1, <2>2, <2>4
    <2> HIDE DEF e
    <2>7. m = Append(l, e)
      BY <1>8, <1>9, <2>3, <2>4, <2>5, <2>6
    <2> QED BY <2>7 DEF l, m
  <1>11. Collects(Absorbed(body.sent), said, BodyCalls(called, body.pieces), body.reason)
    BY <1>4, Streaming DEF StreamInv
  <1>12. ~Seen(body.sent)
    BY <1>2, <1>4, Streaming DEF StreamInv
  <1>13. e = [id |-> line.id, args |-> line.args]
    BY <1>3
  <1>14. /\ BodyCalls(called, body.pieces) \in Seq(BodyEntries)
         /\ Len(BodyCalls(called, body.pieces)) = n
    BY <1>4, Streaming
  <1> HIDE DEF p, b, n, line, e
  <1>15. Collects(Absorb(Absorbed(body.sent), line), said,
                  Append(BodyCalls(called, body.pieces), e), body.reason)
    BY <1>3, <1>9, <1>11, <1>13, <1>14, CollectsCall
  <1>16. Collects(Absorb(Absorbed(body.sent), line), said',
                  BodyCalls(called', b.pieces), b.reason)
    BY <1>2, <1>7, <1>10, <1>15
  <1>17. b.pieces \in Seq(Nat) /\ Len(b.pieces) = Len(called')
    BY <1>7, <1>8
  <1> QED BY <1>3, <1>6, <1>7, <1>12, <1>16, <1>17, LineKept

\* a fragment of its arguments,
LEMMA ArgumentsKept == ASSUME SessionInv, BodyInv, BodyArguments PROVE BodyInv'
  <1>1. PICK i \in DOMAIN called :
           Line([body EXCEPT !.pieces[i] = @ + 1],
                ToolChunk(i - 1, NoId, <<body.pieces[i] + 1>>))
    BY DEF BodyArguments
  <1> DEFINE k == body.pieces[i]
             p == [body.pieces EXCEPT ![i] = k + 1]
             b == [body EXCEPT !.pieces = p]
             line == ToolChunk(i - 1, NoId, <<k + 1>>)
  <1>2. /\ phase = "going" /\ phase' = phase /\ said' = said /\ called' = called
        /\ pc = "body"
    BY DEF BodyArguments
  <1>3. /\ line.kind = "tool" /\ line.index = i - 1 /\ line.id = NoId
        /\ line.args = <<k + 1>> /\ line # DoneLine
    BY DEF ToolChunk, DoneLine
  <1>4. /\ BodyShape(body) /\ body.style = "sse" /\ body.end = "open"
        /\ body.pieces \in Seq(Nat) /\ Len(body.pieces) = Len(called)
        /\ called \in Seq(ToolIds) /\ i \in 1 .. Len(called) /\ Len(called) \in Nat
    BY <1>2, Streaming
  <1>5. Line(b, line)
    <2>1. [body EXCEPT !.pieces[i] = @ + 1] = b
      BY <1>4 DEF BodyShape
    <2> HIDE DEF b, line
    <2> QED BY <1>1, <2>1, Zenon DEF line
  <1>6. k \in Nat /\ p \in Seq(Nat) /\ Len(p) = Len(called) /\ p[i] = k + 1
        /\ \A j \in 1 .. Len(called) : j # i => p[j] = body.pieces[j]
    BY <1>4
  <1>7. /\ BodyShape(b) /\ b.style = "sse" /\ b.end = "open"
        /\ b.sent = body.sent /\ b.got = body.got /\ b.pieces = p
        /\ b.reason = body.reason
    <2>1. BodyShape(body) /\ body.style = "sse" /\ body.end = "open"
      BY <1>4
    <2> HIDE DEF p
    <2> QED BY <2>1 DEF BodyShape
  <1>8. Collects(Absorbed(body.sent), said, BodyCalls(called, body.pieces), body.reason)
    BY <1>2, Streaming DEF StreamInv
  <1>9. ~Seen(body.sent)
    BY <1>2, Streaming DEF StreamInv
  <1> DEFINE l == BodyCalls(called, body.pieces)
             m == BodyCalls(called, p)
  <1>10. /\ Len(l) = Len(called) /\ Len(m) = Len(called)
         /\ \A j \in 1 .. Len(called) :
               l[j] = [id |-> called[j], args |-> Fragments(body.pieces[j])]
         /\ \A j \in 1 .. Len(called) :
               m[j] = [id |-> called[j], args |-> Fragments(p[j])]
    <2> HIDE DEF p
    <2> QED BY <1>4, <1>6, BodyCallsType
  <1>11. Fragments(k + 1) = Fragments(k) \o line.args
    BY <1>3, <1>6, FragmentsGrow
  <1> HIDE DEF p, b, line, l, m
  <1>12. \A j \in 1 .. Len(called) :
           m[j] = IF j # i THEN l[j]
                  ELSE [id |-> l[i].id, args |-> l[i].args \o line.args]
    <2> SUFFICES ASSUME NEW j \in 1 .. Len(called)
                 PROVE  m[j] = IF j # i THEN l[j]
                        ELSE [id |-> l[i].id, args |-> l[i].args \o line.args]
      OBVIOUS
    <2>1. CASE j # i
      BY <1>6, <1>10, <2>1
    <2>2. CASE j = i
      <3>1. l[i].id = called[i] /\ l[i].args = Fragments(k)
        <4>1. l[i] = [id |-> called[i], args |-> Fragments(k)]
          BY <1>4, <1>10
        <4> QED BY <4>1
      <3>2. m[i] = [id |-> called[i], args |-> Fragments(k + 1)]
        BY <1>4, <1>6, <1>10
      <3> QED BY <1>11, <2>2, <3>1, <3>2
    <2> QED BY <2>1, <2>2
  <1>13. Collects(Absorbed(body.sent), said, l, body.reason) /\ i \in 1 .. Len(l)
         /\ Len(l) \in Nat /\ Len(m) = Len(l)
    BY <1>4, <1>8, <1>10 DEF l
  <1>14. Collects(Absorb(Absorbed(body.sent), line), said, m, body.reason)
    BY <1>3, <1>10, <1>12, <1>13, CollectsArguments
  <1>15. Collects(Absorb(Absorbed(body.sent), line), said',
                  BodyCalls(called', b.pieces), b.reason)
    BY <1>2, <1>7, <1>14 DEF m
  <1>16. b.pieces \in Seq(Nat) /\ Len(b.pieces) = Len(called')
    BY <1>2, <1>6, <1>7
  <1> QED BY <1>3, <1>5, <1>7, <1>9, <1>15, <1>16, LineKept

\* the reason,
LEMMA StopKept == ASSUME SessionInv, BodyInv, BodyStop PROVE BodyInv'
  <1>1. PICK reason \in {"stop", "tool_calls"}, usage \in BOOLEAN :
           Line([body EXCEPT !.reason = reason], StopChunk(reason, usage))
    BY DEF BodyStop
  <1> DEFINE b == [body EXCEPT !.reason = reason]
             line == StopChunk(reason, usage)
  <1>2. phase = "going" /\ phase' = "ended" /\ said' = said /\ called' = called
    BY DEF BodyStop
  <1>3. line.kind = "stop" /\ line.reason = reason
    BY DEF StopChunk
  <1>4. Line(b, line)
    BY <1>1
  <1> HIDE DEF line
  <1>5. pc = "body"
    BY <1>4, LineStep, Zenon
  <1>6. /\ BodyShape(body) /\ body.style = "sse" /\ body.end = "open"
        /\ body.pieces \in Seq(Nat) /\ Len(body.pieces) = Len(called)
    BY <1>5, Streaming
  <1>7. /\ BodyShape(b) /\ b.style = "sse" /\ b.end = "open"
        /\ b.sent = body.sent /\ b.got = body.got /\ b.pieces = body.pieces
        /\ b.reason = reason
    BY <1>6 DEF BodyShape
  <1>8. Collects(Absorbed(body.sent), said, BodyCalls(called, body.pieces), body.reason)
    BY <1>5, Streaming DEF StreamInv
  <1>9. ~Seen(body.sent)
    BY <1>2, <1>5, Streaming DEF StreamInv
  <1> HIDE DEF b
  <1>10. Collects(Absorb(Absorbed(body.sent), line), said,
                  BodyCalls(called, body.pieces), line.reason)
    BY <1>3, <1>8, CollectsStop
  <1>11. Collects(Absorb(Absorbed(body.sent), line), said',
                  BodyCalls(called', b.pieces), b.reason)
    BY <1>2, <1>3, <1>7, <1>10
  <1>12. b.pieces \in Seq(Nat) /\ Len(b.pieces) = Len(called')
    BY <1>2, <1>6, <1>7
  <1> QED BY <1>2, <1>4, <1>7, <1>9, <1>11, <1>12, LineKept

\* [DONE],
LEMMA DoneKept == ASSUME SessionInv, BodyInv, BodyDone PROVE BodyInv'
  <1>1. /\ phase' = "ended" /\ said' = said /\ called' = called
        /\ Line(body, DoneLine) /\ ~SawDone
    BY DEF BodyDone
  <1>2. pc = "body"
    BY <1>1, LineStep, Zenon
  <1>3. /\ BodyShape(body) /\ body.style = "sse" /\ body.end = "open"
        /\ body.pieces \in Seq(Nat) /\ Len(body.pieces) = Len(called)
        /\ Sequence(body.sent)
    BY <1>2, Streaming DEF StreamInv
  <1>4. ~Seen(body.sent)
    BY <1>1, <1>3 DEF SawDone, Seen, Sequence
  <1>5. Collects(Absorbed(body.sent), said, BodyCalls(called, body.pieces), body.reason)
    BY <1>2, Streaming DEF StreamInv
  <1>6. DoneLine.kind = "[DONE]"
    BY DEF DoneLine
  <1>7. Collects(Absorb(Absorbed(body.sent), DoneLine), said',
                 BodyCalls(called', body.pieces), body.reason)
    BY <1>1, <1>5, <1>6, CollectsDone
  <1> QED BY <1>1, <1>3, <1>4, <1>7, LineKept

\* and the end of the body.
LEMMA BodyEndsKept == ASSUME SessionInv, BodyInv, BodyEnds PROVE BodyInv'
  <1> DEFINE got == IF wantStream /\ ~SawDone THEN Append(body.got, DoneLine)
                    ELSE body.got
  <1>1. /\ pc = "body" /\ pc' = "done" /\ link' = link /\ wantStream' = wantStream
        /\ said' = said /\ called' = called /\ phase' = phase
    BY DEF BodyEnds, relayVars, gateway
  <1>2. /\ BodyShape(body) /\ body.style = "sse" /\ body.end = "open"
        /\ StreamInv /\ body.pieces \in Seq(Nat)
        /\ Len(body.pieces) = Len(called) /\ ~link.started
    BY <1>1, Streaming DEF BodyInv
  <1>3. body' = [body EXCEPT !.end = "eof", !.got = got]
        \/ body' = [body EXCEPT !.end = "broken"]
    BY <1>2 DEF BodyEnds, BodyShape
  <1>4. SawDone <=> Seen(body.sent)
    BY <1>2 DEF SawDone, Seen, StreamInv, Sequence
  <1>5. wantStream => got = IF Seen(body.sent) THEN body.sent
                                               ELSE Append(body.sent, DoneLine)
    BY <1>2, <1>4 DEF StreamInv
  <1> HIDE DEF got
  <1>6. /\ BodyShape(body') /\ body'.style = "sse" /\ body'.sent = body.sent
        /\ body'.pieces = body.pieces /\ body'.reason = body.reason
        /\ \/ body'.end = "eof" /\ body'.got = got
           \/ body'.end = "broken"
    BY <1>2, <1>3 DEF BodyShape
  <1>7. StreamInv'
    BY <1>1, <1>2, <1>5, <1>6 DEF StreamInv
  <1> QED BY <1>1, <1>2, <1>6, <1>7 DEF BodyInv, Styles

\* The body of a request that has none.
LEMMA NoBodyKept ==
  ASSUME BodyInv, body.style = "none", body' = body, pc' \notin {"body", "write"}
  PROVE  BodyInv'
  BY DEF BodyInv, BodyShape

\* Before the answer comes there is no body and nothing was said.
LEMMA Unused ==
  ASSUME SessionInv, BodyInv, pc = "openai"
  PROVE  /\ body = NoBody /\ ~link.started /\ said = <<>> /\ called = <<>>
         /\ phase = "going"
  <1>1. body.style \in Styles /\ body.style = "none"
    BY DEF BodyInv
  <1>2. result = "running" /\ ~link.started
    BY DEF SessionInv, LinkInv, Idle
  <1> QED BY <1>1, <1>2 DEF BodyInv, SessionInv

\* The channel refuses,
LEMMA RefusedKept == ASSUME SessionInv, BodyInv, OpenAIRefused PROVE BodyInv'
  <1>1. /\ pc' = "done" /\ link' = link
        /\ body' = [body EXCEPT !.style = "refused", !.end = "eof"]
        /\ body = NoBody /\ ~link.started
    BY Unused DEF OpenAIRefused
  <1>2. /\ BodyShape(body') /\ body'.style = "refused" /\ body'.end = "eof"
        /\ body'.pieces = <<>>
    BY <1>1 DEF BodyShape, NoBody
  <1>3. <<>> \in Seq(Nat)
    OBVIOUS
  <1> QED BY <1>1, <1>2, <1>3 DEF BodyInv, Styles

\* it accepts, with a stream to come,
LEMMA AcceptedKept == ASSUME SessionInv, BodyInv, OpenAIAccepted PROVE BodyInv'
  <1>1. /\ pc' = "body" /\ link' = link /\ wantStream' = wantStream
        /\ said' = said /\ called' = called /\ phase' = phase
        /\ body' = [body EXCEPT !.style = "sse"]
        /\ body = NoBody /\ ~link.started /\ said = <<>> /\ called = <<>>
    BY Unused DEF OpenAIAccepted, relayVars, gateway
  <1>2. /\ BodyShape(body') /\ body'.style = "sse" /\ body'.end = "open"
        /\ body'.pieces = <<>> /\ body'.sent = <<>> /\ body'.got = <<>>
        /\ body'.reason = "stop"
    BY <1>1 DEF BodyShape, NoBody
  <1>3. <<>> \in Seq(Nat) /\ Sequence(<<>>)
    BY DEF Sequence
  <1>4. BodyCalls(<<>>, <<>>) = <<>> /\ OnlyLast(<<>>) /\ ~Seen(<<>>)
    BY DEF BodyCalls, OnlyLast, Seen
  <1>5. Absorbed(<<>>) = Empty
    BY AbsorbedFold, Zenon
  <1>6. Collects(Absorbed(body'.sent), said', BodyCalls(called', body'.pieces),
                 body'.reason)
    BY <1>1, <1>2, <1>4, <1>5, CollectsNothing
  <1>7. StreamInv'
    BY <1>2, <1>3, <1>4, <1>6 DEF StreamInv
  <1> QED BY <1>1, <1>2, <1>3, <1>7 DEF BodyInv, Styles

\* A line after the text leaves it.
LEMMA HoldsOn ==
  ASSUME NEW acc, NEW text, Holds(acc, text),
         NEW line, line.kind \in {"tool", "stop", "[DONE]"}
  PROVE  Holds(Absorb(acc, line), text)
  <1>1. CASE line.kind = "tool"
    <2> DEFINE m == Merged(acc.calls, line)
               d == Absorb(acc, line)
    <2>1. d = [acc EXCEPT !.calls = m]
      BY <1>1 DEF Absorb, Holds
    <2> HIDE DEF m, d
    <2>2. Holds(d, text)
      BY <2>1 DEF Holds
    <2> QED BY <2>2 DEF d
  <1>2. CASE line.kind = "stop"
    <2> DEFINE u == acc.usage \/ line.usage
               d == Absorb(acc, line)
               r == line.reason
    <2>1. d = [acc EXCEPT !.reason = r, !.usage = u]
      BY <1>2, Zenon DEF Absorb, Holds
    <2> HIDE DEF u, d, r
    <2>2. Holds(d, text)
      BY <2>1 DEF Holds
    <2> QED BY <2>2 DEF d
  <1>3. CASE line.kind = "[DONE]"
    BY <1>3 DEF Absorb, Holds
  <1> QED BY <1>1, <1>2, <1>3

\* One line more, and the calls announced.
LEMMA ToolsNext ==
  ASSUME NEW s, Sequence(s), NEW x
  PROVE  ToolChunks(Append(s, x)) = AddCall(ToolChunks(s), x)
  <1> DEFINE S == {s[i] : i \in 1 .. Len(s)} \cup {x}
             n == Len(s)
  <1>1. n \in Nat /\ s = [i \in 1 .. n |-> s[i]] /\ x \in S
    BY DEF Sequence
  <1>2. \A i \in 1 .. n : s[i] \in S
    OBVIOUS
  <1> HIDE DEF S, n
  <1>3. s \in Seq(S)
    BY <1>1, <1>2
  <1>4. Announced!Fold(<<>>, Append(s, x)) = AddCall(Announced!Fold(<<>>, s), x)
    BY <1>1, <1>3, Announced!FoldAppend, Zenon
  <1> QED BY <1>4, ToolIsFold, Zenon

\* The lines of a completion before its end, with these calls.
Partial(s, text, ids) ==
    /\ Sequence(s) /\ ~Seen(s)
    /\ Holds(Absorbed(s), text)
    /\ ToolChunks(s) = ToolLines(ids)
    /\ Len(ids) <= 1 =>
          Collects(Absorbed(s), text, BodyCalls(ids, Ones(ids)), "stop")

\* One call more.
LEMMA ToolLinesMore ==
  ASSUME NEW ids \in Seq(ToolIds), NEW id \in ToolIds
  PROVE  ToolLines(Append(ids, id))
            = Append(ToolLines(ids), ToolChunk(0, id, << 1 >>))
  <1> DEFINE S == {ToolChunk(0, i, << 1 >>) : i \in ToolIds}
             l == ToolLines(ids)
             m == ToolLines(Append(ids, id))
             x == ToolChunk(0, id, << 1 >>)
             n == Len(ids)
  <1>1. /\ n \in Nat /\ Len(Append(ids, id)) = n + 1
        /\ Append(ids, id)[n + 1] = id
        /\ \A i \in 1 .. n : Append(ids, id)[i] = ids[i] /\ ids[i] \in ToolIds
    OBVIOUS
  <1>2. x \in S /\ \A i \in 1 .. n : ToolChunk(0, ids[i], << 1 >>) \in S
    BY <1>1
  <1>3. l = [i \in 1 .. n |-> ToolChunk(0, ids[i], << 1 >>)]
    BY DEF ToolLines
  <1>4. m = [i \in 1 .. n + 1 |-> ToolChunk(0, Append(ids, id)[i], << 1 >>)]
    BY <1>1 DEF ToolLines
  <1> HIDE DEF S, l, m
  <1>5. l \in Seq(S) /\ Len(l) = n
    BY <1>1, <1>2, <1>3
  <1>6. \A i \in 1 .. n : m[i] = l[i]
    BY <1>1, <1>3, <1>4
  <1>7. m[n + 1] = x
    BY <1>1, <1>4
  <1> HIDE DEF x
  <1>8. m = Append(l, x)
    <2>1. \A i \in 1 .. n : l[i] \in S
      BY <1>5
    <2>2. \A i \in 1 .. n + 1 : m[i] \in S
      BY <1>1, <1>2, <1>6, <1>7, <2>1
    <2>3. DOMAIN m = 1 .. n + 1 /\ m = [i \in 1 .. n + 1 |-> m[i]]
      BY <1>4
    <2> HIDE DEF n
    <2>4. m \in Seq(S) /\ Len(m) = n + 1
      BY <1>1, <2>2, <2>3
    <2> QED BY <1>1, <1>2, <1>5, <1>6, <1>7, <2>4
  <1> QED BY <1>8 DEF l, m, x

LEMMA PartialMore ==
  ASSUME NEW s, NEW text, NEW ids \in Seq(ToolIds), NEW id \in ToolIds,
         Partial(s, text, ids)
  PROVE  Partial(Append(s, ToolChunk(0, id, << 1 >>)), text, Append(ids, id))
  <1> DEFINE x == ToolChunk(0, id, << 1 >>)
             t == Append(s, x)
             more == Append(ids, id)
  <1>1. /\ x.kind = "tool" /\ x.index = 0 /\ x.id = id /\ x.args = << 1 >>
        /\ x # DoneLine
    BY DEF ToolChunk, DoneLine
  <1>2. ToolLines(more) = Append(ToolLines(ids), x)
    BY ToolLinesMore
  <1> HIDE DEF x
  <1>3. /\ Sequence(t) /\ Absorbed(t) = Absorb(Absorbed(s), x) /\ ~Seen(t)
        /\ ToolChunks(t) = AddCall(ToolChunks(s), x)
    BY <1>1, AbsorbedNext, SeenNext, ToolsNext, Zenon DEF Partial
  <1> HIDE DEF t
  <1>4. Holds(Absorbed(t), text)
    BY <1>1, <1>3, HoldsOn DEF Partial
  <1>5. ToolChunks(t) = ToolLines(more)
    BY <1>1, <1>2, <1>3 DEF AddCall, Partial
  <1>6. ASSUME Len(more) <= 1
        PROVE  Collects(Absorbed(t), text, BodyCalls(more, Ones(more)), "stop")
    <2>1. ids = <<>> /\ more = <<id>>
      <3>1. Len(more) = Len(ids) + 1 /\ Len(ids) \in Nat
        OBVIOUS
      <3>2. Len(ids) = 0
        BY <1>6, <3>1
      <3>3. ids = <<>>
        BY <3>2
      <3> QED BY <3>3
    <2> DEFINE call == [id |-> id, args |-> << 1 >>]
    <2>2. BodyCalls(<<>>, Ones(<<>>)) = <<>>
      BY DEF BodyCalls
    <2>3. Collects(Absorbed(s), text, <<>>, "stop")
      BY <2>1, <2>2 DEF Partial
    <2>4. /\ call \in BodyEntries /\ call = [id |-> x.id, args |-> x.args]
          /\ x.args \in Seq(Nat) /\ <<>> \in Seq(BodyEntries)
          /\ x.index = Len(<<>>)
      <3>1. << 1 >> \in Seq(Nat)
        OBVIOUS
      <3> QED BY <1>1, <3>1 DEF BodyEntries
    <2>5. BodyCalls(more, Ones(more)) = <<call>>
      <3>1. Fragments(1) = << 1 >>
        BY DEF Fragments
      <3>2. DOMAIN more = 1 .. 1 /\ more[1] = id /\ Len(more) = 1
        BY <2>1
      <3>3. Ones(more)[1] = 1
        BY <3>2 DEF Ones
      <3>4. BodyCalls(more, Ones(more)) = [i \in 1 .. 1 |-> call]
        BY <3>1, <3>2, <3>3 DEF BodyCalls
      <3> QED BY <3>4
    <2> HIDE DEF call, more
    <2>6. Collects(Absorb(Absorbed(s), x), text, Append(<<>>, call), "stop")
      BY <1>1, <2>3, <2>4, CollectsCall
    <2>7. Append(<<>>, call) = <<call>>
      OBVIOUS
    <2> QED BY <1>3, <2>5, <2>6, <2>7
  <1> QED BY <1>3, <1>4, <1>5, <1>6 DEF Partial, t, x

\* A line first, and two at the end.
LEMMA LinesAround ==
  ASSUME NEW S, NEW a \in S, NEW t \in Seq(S), NEW x \in S, NEW y \in S
  PROVE  /\ <<a>> \o Append(t, x) = Append(<<a>> \o t, x)
         /\ <<a>> \o t \o <<x, y>> = Append(Append(<<a>> \o t, x), y)
  OBVIOUS

\* The text, and then any calls.
LEMMA PartialAll ==
  ASSUME NEW text \in Seq(Tokens), NEW ids \in Seq(ToolIds)
  PROVE  Partial(<<TextChunk(text)>> \o ToolLines(ids), text, ids)
  <1> DEFINE a == TextChunk(text)
             T == {l \in Seq(ToolIds) : Partial(<<a>> \o ToolLines(l), text, l)}
  <1>1. a.kind = "content" /\ a.text = text /\ a # DoneLine
    BY DEF TextChunk, DoneLine
  <1> HIDE DEF a
  <1>2. <<>> \in T
    <2> DEFINE s == Append(<<>>, a)
    <2>1. /\ Sequence(<<>>) /\ Absorbed(<<>>) = Empty /\ ~Seen(<<>>)
          /\ ToolChunks(<<>>) = <<>>
      BY AbsorbedFold, ToolFold DEF Sequence, Seen
    <2>2. /\ Sequence(s) /\ Absorbed(s) = Absorb(Empty, a) /\ ~Seen(s)
          /\ ToolChunks(s) = AddCall(<<>>, a)
      BY <1>1, <2>1, AbsorbedNext, SeenNext, ToolsNext, Zenon
    <2> HIDE DEF s
    <2>3. Collects(Absorb(Empty, a), text, <<>>, "stop")
      <3>1. <<>> \o a.text = text
        BY <1>1
      <3>2. Collects(Absorb(Empty, a), <<>> \o a.text, <<>>, "stop")
        BY <1>1, CollectsNothing, CollectsText
      <3> QED BY <3>1, <3>2
    <2>4. ToolLines(<<>>) = <<>> /\ BodyCalls(<<>>, Ones(<<>>)) = <<>>
      BY DEF ToolLines, BodyCalls
    <2>5. ToolChunks(s) = <<>>
      BY <1>1, <2>2 DEF AddCall
    <2>6. Partial(s, text, <<>>)
      BY <2>2, <2>3, <2>4, <2>5 DEF Partial, Holds, Collects
    <2>7. <<a>> \o <<>> = s
      BY DEF s
    <2>8. <<>> \in Seq(ToolIds)
      OBVIOUS
    <2> QED BY <2>4, <2>6, <2>7, <2>8
  <1>3. ASSUME NEW l \in Seq(ToolIds), NEW id \in ToolIds, l \in T
        PROVE  Append(l, id) \in T
    <2> DEFINE x == ToolChunk(0, id, << 1 >>)
               S == {ToolChunk(0, i, << 1 >>) : i \in ToolIds} \cup {a}
               t == ToolLines(l)
    <2>1. Partial(Append(<<a>> \o t, x), text, Append(l, id))
      BY <1>3, PartialMore
    <2>2. ToolLines(Append(l, id)) = Append(t, x)
      BY ToolLinesMore
    <2>3. a \in S /\ x \in S /\ \A i \in 1 .. Len(l) : ToolChunk(0, l[i], << 1 >>) \in S
      OBVIOUS
    <2>4. t \in Seq(S)
      <3> HIDE DEF S
      <3> QED BY <2>3 DEF ToolLines
    <2> HIDE DEF x, S, t
    <2>5. <<a>> \o Append(t, x) = Append(<<a>> \o t, x)
      BY <2>3, <2>4, LinesAround
    <2>6. Append(l, id) \in Seq(ToolIds)
      OBVIOUS
    <2> QED BY <2>1, <2>2, <2>5, <2>6
  <1> HIDE DEF T
  <1>4. \A l \in Seq(ToolIds) : l \in T
    BY <1>2, <1>3, Absorbs!SeqInduction, Zenon
  <1> QED BY <1>4 DEF T, a

\* The stream made of a completion, with any calls.
LEMMA SingleChunkLines ==
  ASSUME NEW full, full.text \in Seq(Tokens), NEW ids \in Seq(ToolIds),
         full.calls = [i \in DOMAIN ids |-> [id |-> ids[i], args |-> << 1 >>]]
  PROVE  LET lines == SingleChunk(full)
         IN  /\ Sequence(lines) /\ Closes(lines)
             /\ Holds(Absorbed(lines), full.text)
             /\ ToolChunks(lines) = ToolLines(ids)
             /\ Len(ids) <= 1 =>
                   Collects(Absorbed(lines), full.text,
                            BodyCalls(ids, Ones(ids)), "stop")
  <1> DEFINE a == TextChunk(full.text)
             c == StopChunk("stop", full.usage)
             d == DoneLine
             t == ToolLines(ids)
             s == <<a>> \o t
             e == Append(s, c)
             S == {ToolChunk(0, i, << 1 >>) : i \in ToolIds} \cup {a, c, d}
             lines == SingleChunk(full)
  <1>1. lines = Append(e, d)
    <2>1. [n \in DOMAIN full.calls |->
              ToolChunk(0, full.calls[n].id, full.calls[n].args)] = t
      BY DEF ToolLines
    <2>2. lines = <<a>> \o t \o <<c, d>>
      BY <2>1 DEF SingleChunk
    <2>3. /\ a \in S /\ c \in S /\ d \in S
          /\ \A i \in 1 .. Len(ids) : ToolChunk(0, ids[i], << 1 >>) \in S
      OBVIOUS
    <2> HIDE DEF a, c, d, S
    <2>4. t \in Seq(S)
      BY <2>3 DEF ToolLines
    <2> HIDE DEF t
    <2> QED BY <2>2, <2>3, <2>4, LinesAround
  <1>2. Partial(s, full.text, ids)
    BY PartialAll
  <1>3. /\ c.kind = "stop" /\ c.reason = "stop" /\ c # DoneLine
        /\ d.kind = "[DONE]" /\ d = DoneLine
    BY DEF StopChunk, DoneLine
  <1> HIDE DEF a, c, d, t, s, lines
  <1>4. /\ Sequence(e) /\ Absorbed(e) = Absorb(Absorbed(s), c) /\ ~Seen(e)
        /\ ToolChunks(e) = AddCall(ToolChunks(s), c)
    <2>1. Sequence(s) /\ ~Seen(s) /\ c # DoneLine
      BY <1>2, <1>3 DEF Partial
    <2> QED BY <2>1, AbsorbedNext, SeenNext, ToolsNext, Zenon
  <1> HIDE DEF e
  <1>5. /\ Sequence(lines) /\ Absorbed(lines) = Absorb(Absorbed(e), d)
        /\ Closes(lines) /\ ToolChunks(lines) = AddCall(ToolChunks(e), d)
    <2>1. Sequence(e) /\ ~Seen(e) /\ d = DoneLine /\ lines = Append(e, d)
      BY <1>1, <1>3, <1>4
    <2> QED BY <2>1, AbsorbedNext, SeenNext, ToolsNext
  <1>6. Holds(Absorbed(lines), full.text)
    BY <1>2, <1>3, <1>4, <1>5, HoldsOn DEF Partial
  <1>7. ToolChunks(lines) = ToolLines(ids)
    BY <1>2, <1>3, <1>4, <1>5 DEF AddCall, Partial
  <1>8. ASSUME Len(ids) <= 1
        PROVE  Collects(Absorbed(lines), full.text, BodyCalls(ids, Ones(ids)),
                        "stop")
    <2>1. Collects(Absorbed(e), full.text, BodyCalls(ids, Ones(ids)), "stop")
      BY <1>2, <1>3, <1>4, <1>8, CollectsStop DEF Partial
    <2> QED BY <1>3, <1>5, <2>1, CollectsDone
  <1> QED BY <1>5, <1>6, <1>7, <1>8 DEF lines

\* or it answers with a completion, of which the stream is made,
LEMMA CompletionKept == ASSUME SessionInv, BodyInv, OpenAICompletion PROVE BodyInv'
  <1>1. PICK full \in Completions :
           /\ said' = full.text
           /\ called' = [i \in DOMAIN full.calls |-> full.calls[i].id]
           /\ body' = [body EXCEPT
                          !.style = "json", !.reason = full.reason,
                          !.end = IF wantStream THEN "open" ELSE "eof",
                          !.pieces = [i \in DOMAIN full.calls |-> 1],
                          !.sent = SingleChunk(full)]
    BY Zenon DEF OpenAICompletion
  <1> DEFINE p == [i \in DOMAIN full.calls |-> 1]
             lines == SingleChunk(full)
             end == IF wantStream THEN "open" ELSE "eof"
  <1>2. /\ pc' = (IF wantStream THEN "write" ELSE "done") /\ link' = link
        /\ wantStream' = wantStream /\ wantStream \in BOOLEAN
        /\ body = NoBody /\ ~link.started
    BY Unused DEF OpenAICompletion, SessionInv
  <1>3. /\ BodyShape(body') /\ body'.style = "json" /\ body'.end = end
        /\ body'.pieces = p /\ body'.sent = lines /\ body'.got = <<>>
    <2>1. body' = [body EXCEPT !.style = "json", !.reason = full.reason,
                               !.end = end, !.pieces = p, !.sent = lines]
      BY <1>1
    <2> HIDE DEF p, lines, end
    <2> QED BY <1>2, <2>1 DEF BodyShape, NoBody
  <1>4. PICK ids \in Seq(ToolIds) :
           full.calls = [i \in DOMAIN ids |-> [id |-> ids[i], args |-> << 1 >>]]
    BY FullAnswer
  <1>5. full.text \in Seq(Tokens)
    BY FullAnswer
  <1>6. called' = ids /\ p = Ones(ids)
    BY <1>1, <1>4 DEF Ones
  <1>7. /\ Sequence(lines) /\ Closes(lines)
        /\ Holds(Absorbed(lines), full.text)
        /\ ToolChunks(lines) = ToolLines(ids)
        /\ Len(ids) <= 1 =>
              Collects(Absorbed(lines), full.text, BodyCalls(ids, Ones(ids)),
                       "stop")
    BY <1>4, <1>5, SingleChunkLines
  <1> HIDE DEF p, lines
  <1>8. ~wantStream \/ end # "eof"
    OBVIOUS
  <1>9. CompletionInv'
    BY <1>1, <1>2, <1>3, <1>6, <1>7, <1>8 DEF CompletionInv
  <1>10. p \in Seq(Nat) /\ Len(p) = Len(ids)
    BY <1>6 DEF Ones
  <1> QED BY <1>2, <1>3, <1>6, <1>9, <1>10 DEF BodyInv, Styles

\* which is then written, to a client that may leave.
LEMMA WrittenKept ==
  ASSUME SessionInv, BodyInv, CompletionWritten
  PROVE  BodyInv'
  <1>1. /\ pc = "write" /\ pc' = "done" /\ link' = link
        /\ wantStream' = wantStream /\ said' = said /\ called' = called
        /\ phase' = phase
    BY DEF CompletionWritten, relayVars, gateway
  <1>2. /\ BodyShape(body) /\ body.style = "json" /\ CompletionInv
        /\ body.pieces \in Seq(Nat) /\ Len(body.pieces) = Len(called)
        /\ ~link.started
    BY <1>1 DEF BodyInv
  <1>3. \/ body' = [body EXCEPT !.end = "eof", !.got = body.sent]
        \/ \E got : body' = [body EXCEPT !.end = "left", !.got = got]
    BY DEF CompletionWritten
  <1>4. /\ BodyShape(body') /\ body'.style = "json" /\ body'.sent = body.sent
        /\ body'.pieces = body.pieces /\ body'.end \in {"eof", "left"}
        /\ body'.end = "eof" => body'.got = body.sent
    BY <1>2, <1>3 DEF BodyShape
  <1>5. CompletionInv'
    BY <1>1, <1>2, <1>4 DEF CompletionInv
  <1> QED BY <1>1, <1>2, <1>4, <1>5 DEF BodyInv, Styles

\* The relay channel has no body, and what is done is done.
LEMMA RelayHasNoBody ==
  ASSUME SessionInv, BodyInv, SessionNext, body' = body
  PROVE  BodyInv'
  <1>1. pc \notin {"body", "write", "done"} /\ pc' \notin {"body", "write"}
    BY CallsInOrder
       DEF SessionInv, LinkInv, SessionNext, NothingToSend, Begin, Connects,
           ConnectFails, ServerControls, ServerTells, ServerSends,
           InjectGivesUp, InjectEnds, HttpCalls, EventsOpen, RunStarts,
           SendAnswers, CallFails, TellEarly, ReadEarly, Read, Converts, Fails
  <1>2. body.style = "none"
    BY <1>1 DEF BodyInv
  <1> QED BY <1>1, <1>2, NoBodyKept

\* Every step of an attempt keeps the invariant.
LEMMA BodyStep ==
  ASSUME SessionInv, BodyInv, ChatNext
  PROVE  BodyInv'
  <1>1. CASE OpenAIFails \/ OpenAINotEnabled
    <2>1. pc = "openai" /\ pc' \in {"done", "start"} /\ body' = body
      BY <1>1 DEF OpenAIFails, OpenAINotEnabled, Fails
    <2>2. body.style = "none"
      BY <2>1, Unused DEF NoBody
    <2> QED BY <2>1, <2>2, NoBodyKept
  <1>2. CASE SessionNext /\ UNCHANGED body
    BY <1>2, RelayHasNoBody
  <1> QED BY <1>1, <1>2, RefusedKept, AcceptedKept, CompletionKept, TextKept,
             CallKept, ArgumentsKept, StopKept, DoneKept, BodyEndsKept,
             WrittenKept, Zenon
          DEF ChatNext, OpenAICall, BodyLine

\* It holds in every state of an attempt.
LEMMA BodyInvariance == ChatSpec => []BodyInv
  <1>1. ChatInit => BodyInv
    <2>1. ASSUME ChatInit PROVE BodyInv
      <3>1. body = NoBody /\ pc \in {"openai", "start"}
        BY <2>1 DEF ChatInit
      <3>2. <<>> \in Seq(Nat)
        OBVIOUS
      <3> QED BY <3>1, <3>2 DEF BodyInv, BodyShape, NoBody, Styles
    <2> QED BY <2>1
  <1>2. SessionInv /\ BodyInv /\ [ChatNext]_chatVars => BodyInv'
    <2>1. ASSUME BodyInv, UNCHANGED chatVars PROVE BodyInv'
      <3>1. /\ body' = body /\ pc' = pc /\ link' = link /\ said' = said
            /\ called' = called /\ phase' = phase /\ wantStream' = wantStream
        BY <2>1 DEF chatVars, attemptVars, sessionVars, relayVars, gateway
      <3>2. (StreamInv => StreamInv') /\ (CompletionInv => CompletionInv')
        BY <3>1 DEF StreamInv, CompletionInv
      <3> QED BY <2>1, <3>1, <3>2 DEF BodyInv
    <2> QED BY <2>1, BodyStep
  <1> QED BY <1>1, <1>2, SessionInvariance, PTL DEF ChatSpec

-----------------------------------------------------------------------------
(* Theorems about the attempt                                              *)

\* The invariant says that the answer is kept,
LEMMA InvKeepsAnswer == ASSUME SessionInv, BodyInv PROVE OpenAIAnswerKept
  <1> DEFINE lines == IF wantStream THEN body.got ELSE body.sent
             calls == BodyCalls(called, body.pieces)
  <1> DEFINE told == [i \in DOMAIN called |->
                        [id |-> called[i],
                         args |-> [n \in 1 .. body.pieces[i] |-> n]]]
             written == ToolChunks(body.got)
  <1> SUFFICES ASSUME body.style \in {"sse", "json"}, body.end = "eof",
                      body.style = "sse" \/ wantStream
               PROVE  /\ Received.text = said
                      /\ body.style = "sse" \/ Len(called) <= 1 =>
                            Received.calls = told
                      /\ body.style = "json" =>
                            told = [i \in DOMAIN written |->
                                      [id |-> written[i].id,
                                       args |-> written[i].args]]
                      /\ body.style = "sse" => Received.reason = body.reason
    BY DEF OpenAIAnswerKept
  <1>1. /\ called \in Seq(ToolIds) /\ body.pieces \in Seq(Nat)
        /\ Len(body.pieces) = Len(called)
    BY DEF SessionInv, RelayInv, BodyInv
  <1>2. calls \in Seq(BodyEntries)
    BY <1>1, BodyCallsType
  <1>3. calls = told
    <2>1. DOMAIN called = 1 .. Len(called)
      BY <1>1
    <2> QED BY <2>1, Zenon DEF BodyCalls, Fragments
  <1>4. Received = Completion(Absorbed(lines))
    BY DEF Received, Aggregate
  <1> HIDE DEF calls, lines, told, written
  <1>5. CASE body.style = "sse"
    <2>1. /\ StreamInv
          /\ Collects(Absorbed(body.sent), said, calls, body.reason)
          /\ Sequence(body.sent)
      BY <1>5 DEF BodyInv, StreamInv, calls
    <2>2. Collects(Absorbed(lines), said, calls, body.reason)
      <3>1. CASE ~wantStream \/ Seen(body.sent)
        <4>1. lines = body.sent
          BY <2>1, <3>1 DEF StreamInv, lines
        <4> QED BY <2>1, <4>1
      <3>2. CASE wantStream /\ ~Seen(body.sent)
        <4>1. lines = Append(body.sent, DoneLine) /\ DoneLine.kind = "[DONE]"
          BY <2>1, <3>2 DEF StreamInv, lines, DoneLine
        <4>2. Absorbed(lines) = Absorb(Absorbed(body.sent), DoneLine)
          BY <2>1, <4>1, AbsorbedNext
        <4> QED BY <2>1, <4>1, <4>2, CollectsDone
      <3> QED BY <3>1, <3>2
    <2> QED BY <1>2, <1>3, <1>4, <1>5, <2>2, Completed
  <1>6. CASE body.style = "json"
    <2>1. CompletionInv /\ wantStream /\ body.style # "sse"
      BY <1>6 DEF BodyInv
    <2>2. lines = body.sent /\ body.got = body.sent
      BY <2>1 DEF CompletionInv, lines
    <2>3. Received.text = said
      BY <1>4, <2>1, <2>2 DEF CompletionInv, Holds, Completion
    <2>4. Len(called) <= 1 => Received.calls = told
      <3>1. Len(called) <= 1 => Collects(Absorbed(lines), said, calls, "stop")
        BY <2>1, <2>2 DEF CompletionInv, calls
      <3> QED BY <1>2, <1>3, <1>4, <3>1, Completed
    <2>5. written = ToolLines(called) /\ body.pieces = Ones(called)
      BY <2>1, <2>2 DEF CompletionInv, written
    <2>6. told = [i \in DOMAIN written |->
                    [id |-> written[i].id, args |-> written[i].args]]
      <3>1. DOMAIN written = 1 .. Len(called) /\ DOMAIN called = 1 .. Len(called)
        BY <1>1, <2>5 DEF ToolLines
      <3>2. ASSUME NEW i \in 1 .. Len(called)
            PROVE  /\ written[i].id = called[i] /\ written[i].args = << 1 >>
                   /\ body.pieces[i] = 1
        BY <2>5 DEF ToolLines, ToolChunk, Ones
      <3>3. [n \in 1 .. 1 |-> n] = << 1 >>
        OBVIOUS
      <3> QED BY <3>1, <3>2, <3>3 DEF told
    <2> QED BY <1>6, <2>1, <2>3, <2>4, <2>6
  <1> QED BY <1>5, <1>6

\* that [DONE] comes once, at the end,
LEMMA InvEndsOnce == ASSUME BodyInv PROVE OneDone
  <1> SUFFICES ASSUME wantStream, body.end = "eof", body.style # "refused"
               PROVE  \A i \in DOMAIN body.got :
                         body.got[i] = DoneLine <=> i = Len(body.got)
    BY DEF OneDone
  <1>1. CASE body.style = "none"
    <2>1. body = NoBody
      BY <1>1 DEF BodyInv
    <2> QED BY <2>1 DEF NoBody
  <1>2. CASE body.style = "sse"
    <2>1. /\ Sequence(body.sent) /\ OnlyLast(body.sent)
          /\ body.got = IF Seen(body.sent) THEN body.sent
                                           ELSE Append(body.sent, DoneLine)
      BY <1>2 DEF BodyInv, StreamInv
    <2>2. CASE Seen(body.sent)
      <3>1. PICK k \in 1 .. Len(body.sent) : body.sent[k] = DoneLine
        BY <2>2 DEF Seen
      <3>2. k = Len(body.sent)
        BY <2>1, <3>1 DEF OnlyLast
      <3>3. DOMAIN body.sent = 1 .. Len(body.sent) /\ body.got = body.sent
        BY <2>1, <2>2 DEF Sequence
      <3> QED BY <2>1, <3>1, <3>2, <3>3 DEF OnlyLast
    <2>3. CASE ~Seen(body.sent)
      <3>1. Closes(body.got) /\ Sequence(body.got)
        BY <2>1, <2>3, SeenNext, AbsorbedNext
      <3> QED BY <3>1 DEF Closes, Sequence
    <2> QED BY <2>2, <2>3
  <1>3. CASE body.style = "json"
    <2>1. Closes(body.got) /\ Sequence(body.got)
      BY <1>3, Zenon DEF BodyInv, CompletionInv
    <2> QED BY <2>1 DEF Closes, Sequence
  <1> QED BY <1>1, <1>2, <1>3 DEF BodyInv, Styles

\* and, with those of the session, that all variables are typed.
LEMMA InvTyped == ASSUME SessionInv, WsInv, BodyInv PROVE ChatTypeOK
  <1>1. RelayTypeOK
    <2>1. /\ cv \in Converter /\ writeErr \in BOOLEAN
          /\ result \in {"running", "nil", "error"}
          /\ said \in Seq(Tokens) /\ called \in Seq(ToolIds)
          /\ phase \in {"going", "ended", "failed"}
          /\ frames \in 0 .. MaxFrames /\ strayed \in BOOLEAN
      BY DEF SessionInv, RelayInv, Kept
    <2> QED BY <2>1, Zenon DEF RelayTypeOK, Converter
  <1>2. SessionTypeOK
    <2>1. link \in [open : BOOLEAN, started : BOOLEAN]
      BY DEF SessionInv, LinkInv
    <2>2. Len(early) <= 1
      <3>1. Len(<<>>) = 0
        OBVIOUS
      <3>2. early = <<>> \/ Len(early) = 1
        BY Zenon DEF SessionInv, Waits
      <3>3. CASE early = <<>>
        <4>1. Len(early) = 0
          BY <3>1, <3>3, Zenon
        <4> QED BY <4>1
      <3>4. CASE Len(early) = 1
        BY <3>4
      <3> QED BY <3>2, <3>3, <3>4, Zenon
    <2>3. /\ wantStream \in BOOLEAN
          /\ ws.state \in {"none", "waits", "online", "failed"}
          /\ ws.told \in {"none", "ok", "error"}
          /\ ws.rd.at \in {"top", "fragments", "eof"}
      BY DEF SessionInv, WsInv, WsShape
    <2> QED BY <1>1, <2>1, <2>2, <2>3, Zenon DEF SessionTypeOK
  <1>3. Len(body.pieces) <= Len(called)
    <2>1. called \in Seq(ToolIds)
      BY DEF SessionInv, RelayInv
    <2> QED BY <2>1 DEF BodyInv, Styles
  <1> QED BY <1>2, <1>3 DEF ChatTypeOK, SessionInv, BodyInv

\* Every variable of an attempt stays in its domain, on either channel.
THEOREM AttemptTyped == ChatSpec => []ChatTypeOK
  <1>1. SessionInv /\ WsInv /\ BodyInv => ChatTypeOK
    BY InvTyped
  <1> QED BY <1>1, SessionInvariance, BodyInvariance, PTL

\* The answer of the OpenAI channel reaches the client as it was told: its
\* text, its reason, and every call with all the fragments of its arguments,
\* however they are mixed.  Of one completion made into a stream the text and
\* every call are written, in order; collected again, the calls are those of
\* the completion if there is one at most, because they have no index.
THEOREM AnswerIsKept == ChatSpec => []OpenAIAnswerKept
  <1> QED BY InvKeepsAnswer, SessionInvariance, BodyInvariance, PTL

\* A stream that ends, ends with one [DONE].
THEOREM EndsOnce == ChatSpec => []OneDone
  <1> QED BY InvEndsOnce, BodyInvariance, PTL
-----------------------------------------------------------------------------
(* The contract of responses                                               *)

View == [r \in {1} |-> Outcome]
Where == CASE pc \in {"openai", "body", "write"} -> "openai"
           [] pc = "done" -> IF result = "error" THEN "between" ELSE "over"
           [] OTHER -> "relay"
AnswersBegun == IF WrittenToClient THEN 1 ELSE 0
Gone == writeErr \/ body.end = "left"

\* The one response, by its fields, before a step and after it.
LEMMA ViewFields ==
  /\ View[1] = Outcome /\ View'[1] = Outcome'
  /\ View' = [View EXCEPT ![1] = Outcome']
  /\ Outcome = Attempt!Reply(Where, AnswersBegun, Gone)
  /\ Outcome' = Attempt!Reply(Where', AnswersBegun', Gone')
  /\ Outcome.at = Where /\ Outcome.answers = AnswersBegun
  /\ Outcome.gone = Gone
  /\ Outcome'.at = Where' /\ Outcome'.answers = AnswersBegun'
  /\ Outcome'.gone = Gone'
  <1>1. /\ View[1] = Outcome /\ View'[1] = Outcome'
        /\ View' = [View EXCEPT ![1] = Outcome']
    <2>1. View' = [r \in {1} |-> Outcome']
      BY DEF View
    <2> QED BY <2>1 DEF View
  <1>2. /\ Outcome = Attempt!Reply(Where, AnswersBegun, Gone)
        /\ Outcome' = Attempt!Reply(Where', AnswersBegun', Gone')
    BY DEF Outcome, Where, AnswersBegun, Gone, Attempt!Reply
  <1>3. /\ Outcome.at = Where /\ Outcome.answers = AnswersBegun
        /\ Outcome.gone = Gone
    BY DEF Outcome, Where, AnswersBegun, Gone
  <1>4. /\ Outcome'.at = Where' /\ Outcome'.answers = AnswersBegun'
        /\ Outcome'.gone = Gone'
    BY DEF Outcome, Where, AnswersBegun, Gone
  <1> QED BY <1>1, <1>2, <1>3, <1>4

\* An attempt takes back neither what it wrote nor that the client left.
Onward == (WrittenToClient => WrittenToClient') /\ (Gone => Gone')

\* It goes on without writing,
LEMMA ViewGoes ==
  ASSUME Onward, WrittenToClient' => WrittenToClient
  PROVE  Attempt!Goes(1, Where, Where')
  <1>1. AnswersBegun' = AnswersBegun
    BY DEF Onward, AnswersBegun
  <1>2. Gone' \in {Gone, TRUE}
    BY DEF Onward, Gone
  <1> DEFINE a == Where
             b == Where'
             n == AnswersBegun
             g == Gone'
             p == Outcome
             q == Outcome'
  <1>3. /\ View[1] = p /\ View' = [View EXCEPT ![1] = q]
        /\ p.at = a /\ p.answers = n /\ p.gone = Gone
        /\ q = Attempt!Reply(b, n, g)
    BY <1>1, ViewFields
  <1>4. g \in {p.gone, TRUE}
    BY <1>2, <1>3
  <1> HIDE DEF a, b, n, g, p, q
  <1>5. Attempt!Goes(1, a, b)
    BY <1>3, <1>4 DEF Attempt!Goes, View
  <1> QED BY <1>5 DEF a, b

\* or begins to write.
LEMMA ViewAnswers ==
  ASSUME Onward, ~WrittenToClient, WrittenToClient'
  PROVE  Attempt!Answers(1, Where, Where')
  <1>1. AnswersBegun = 0 /\ AnswersBegun' = AnswersBegun + 1
    BY DEF AnswersBegun
  <1>2. Gone' \in {Gone, TRUE}
    BY DEF Onward, Gone
  <1> DEFINE a == Where
             b == Where'
             n == AnswersBegun
             g == Gone'
             p == Outcome
             q == Outcome'
  <1>3. /\ View[1] = p /\ View' = [View EXCEPT ![1] = q]
        /\ p.at = a /\ p.answers = n /\ p.gone = Gone /\ n = 0
        /\ q = Attempt!Reply(b, n + 1, g)
    BY <1>1, ViewFields
  <1>4. g \in {p.gone, TRUE}
    BY <1>2, <1>3
  <1> HIDE DEF a, b, n, g, p, q
  <1>5. Attempt!Answers(1, a, b)
    BY <1>3, <1>4 DEF Attempt!Answers, View
  <1> QED BY <1>5 DEF a, b

\* What it may do in either channel,
LEMMA ViewStays ==
  ASSUME Onward, Where \in {"openai", "relay"}, Where' = Where
  PROVE  Attempt!ResponsesNext \/ UNCHANGED View
  <1>1. CASE ~WrittenToClient /\ WrittenToClient'
    <2>1. Attempt!Answers(1, Where, Where)
      BY <1>1, ViewAnswers
    <2>2. Attempt!Writes(1)
      BY <2>1 DEF Attempt!Writes
    <2> QED BY <2>2 DEF Attempt!ResponsesNext
  <1>2. CASE WrittenToClient \/ ~WrittenToClient'
    <2>1. Attempt!Goes(1, Where, Where)
      BY <1>2, ViewGoes
    <2>2. Attempt!Leaves(1)
      BY <2>1 DEF Attempt!Leaves, Attempt!Places
    <2> QED BY <2>2 DEF Attempt!ResponsesNext
  <1> QED BY <1>1, <1>2

\* at the end of the OpenAI channel,
LEMMA ViewEndsOpenAI ==
  ASSUME Onward, Where = "openai", Where' = "over"
  PROVE  Attempt!ResponsesNext
  <1>1. \/ Attempt!Goes(1, "openai", "over")
        \/ Attempt!Answers(1, "openai", "over")
    BY ViewGoes, ViewAnswers
  <1>2. Attempt!EndsOpenAI(1)
    BY <1>1 DEF Attempt!EndsOpenAI
  <1> QED BY <1>2 DEF Attempt!ResponsesNext

\* at that of the relay channel,
LEMMA ViewEndsRelay ==
  ASSUME Onward, Where = "relay", Where' = "over", WrittenToClient'
  PROVE  Attempt!ResponsesNext
  <1>1. CASE WrittenToClient
    <2>1. Attempt!Goes(1, "relay", "over")
      BY <1>1, ViewGoes
    <2>2. View'[1].answers >= 1
      BY ViewFields DEF AnswersBegun
    <2>3. Attempt!EndsRelay(1)
      BY <2>1, <2>2 DEF Attempt!EndsRelay, View
    <2> QED BY <2>3 DEF Attempt!ResponsesNext
  <1>2. CASE ~WrittenToClient
    <2>1. Attempt!Answers(1, "relay", "over")
      BY <1>2, ViewAnswers
    <2>2. Attempt!EndsRelay(1)
      BY <2>1 DEF Attempt!EndsRelay
    <2> QED BY <2>2 DEF Attempt!ResponsesNext
  <1> QED BY <1>1, <1>2

\* and when the account is given up.
LEMMA ViewRotates ==
  ASSUME Onward, Where \in {"openai", "relay"}, Where' = "between",
         WrittenToClient' => WrittenToClient, ~WrittenToClient' \/ Gone'
  PROVE  Attempt!ResponsesNext
  <1>1. Attempt!Goes(1, Where, "between")
    BY ViewGoes
  <1>2. View'[1].answers = 0 \/ View'[1].gone
    BY ViewFields DEF AnswersBegun
  <1>3. Attempt!Rotates(1)
    BY <1>1, <1>2 DEF Attempt!Rotates, View
  <1> QED BY <1>3 DEF Attempt!ResponsesNext

\* Before a channel answers nothing was written, and the client is there.
LEMMA Unanswered ==
  ASSUME SessionInv, BodyInv, pc \notin {"body", "write", "run", "done"}
  PROVE  /\ result = "running" /\ cv.out = <<>> /\ ~writeErr
         /\ body = NoBody /\ body.got = <<>> /\ body.end = "open"
         /\ ~WrittenToClient /\ ~Gone
  <1>1. cv = NewConverter(NoRun) /\ writeErr = FALSE /\ result = "running"
    BY DEF SessionInv, Idle
  <1>2. body = NoBody
    BY DEF BodyInv
  <1>3. cv.out = <<>> /\ body.got = <<>> /\ body.end = "open"
    BY <1>1, <1>2 DEF NewConverter, NoBody
  <1> QED BY <1>1, <1>2, <1>3 DEF WrittenToClient, Gone

\* The steps of the OpenAI channel before a stream keep the contract,
LEMMA OpenAICallSeen ==
  ASSUME SessionInv, BodyInv, OpenAICall
  PROVE  Attempt!ResponsesNext \/ UNCHANGED View
  <1>1. pc = "openai"
    BY DEF OpenAICall, OpenAIFails, OpenAINotEnabled, OpenAIRefused,
           OpenAIAccepted, OpenAICompletion
  <1>2. /\ result = "running" /\ cv.out = <<>> /\ ~writeErr
        /\ body = NoBody /\ body.got = <<>> /\ body.end = "open"
        /\ ~WrittenToClient /\ ~Gone
    BY <1>1, Unanswered
  <1>3. Onward /\ Where = "openai"
    BY <1>1, <1>2 DEF Onward, Where
  <1>4. CASE OpenAIFails
    <2>1. /\ pc' = "done" /\ result' = "error" /\ cv' = cv /\ body' = body
      BY <1>4 DEF OpenAIFails, Fails
    <2>2. Where' = "between" /\ ~WrittenToClient'
      BY <1>2, <2>1 DEF Where, WrittenToClient, NoBody
    <2> QED BY <1>3, <2>2, ViewRotates
  <1>5. CASE OpenAINotEnabled
    <2>1. pc' = "start" /\ cv' = cv /\ body' = body
      BY <1>5 DEF OpenAINotEnabled, relayVars
    <2>2. Where' = "relay" /\ ~WrittenToClient'
      BY <1>2, <2>1 DEF Where, WrittenToClient
    <2>3. Attempt!Goes(1, "openai", "relay")
      BY <1>3, <2>2, ViewGoes
    <2>4. Attempt!FallsBack(1)
      BY <2>3 DEF Attempt!FallsBack
    <2> QED BY <2>4 DEF Attempt!ResponsesNext
  <1>6. CASE OpenAIAccepted
    <2>1. pc' = "body"
      BY <1>6 DEF OpenAIAccepted
    <2>2. Where' = "openai"
      BY <2>1 DEF Where
    <2> QED BY <1>3, <2>2, ViewStays
  <1>7. CASE OpenAIRefused \/ OpenAICompletion
    <2>1. pc' \in {"write", "done"} /\ result' = "running"
      BY <1>2, <1>7 DEF OpenAIRefused, OpenAICompletion, relayVars
    <2>2. Where' = "openai" \/ Where' = "over"
      BY <2>1 DEF Where
    <2> QED BY <1>3, <2>2, ViewStays, ViewEndsOpenAI
  <1> QED BY <1>4, <1>5, <1>6, <1>7 DEF OpenAICall

\* a line of it does,
LEMMA LineSeen ==
  ASSUME SessionInv, BodyInv, NEW b, BodyShape(b), b.got = body.got,
         b.end = "open", NEW line, Line(b, line)
  PROVE  Attempt!ResponsesNext \/ UNCHANGED View
  <1>1. /\ pc = "body" /\ cv' = cv /\ writeErr' = writeErr /\ result' = result
        /\ wantStream' = wantStream
        /\ \/ /\ body' = [b EXCEPT !.sent = Append(@, line),
                                   !.got = IF wantStream THEN Append(@, line)
                                           ELSE @]
              /\ pc' = pc
           \/ /\ wantStream
              /\ body' = [b EXCEPT !.sent = Append(@, line), !.end = "left"]
              /\ pc' = "done"
    BY LineStep
  <1>2. /\ body.end = "open" /\ result = "running" /\ Where = "openai"
        /\ StreamInv
    BY <1>1, Streaming DEF SessionInv, Idle, Where
  <1>3. wantStream => Append(body.got, line) # <<>>
    <2> SUFFICES ASSUME wantStream PROVE Append(body.got, line) # <<>>
      OBVIOUS
    <2>1. Sequence(body.sent) /\ body.got = body.sent
      BY <1>2 DEF StreamInv
    <2>2. /\ Len(Append(body.sent, line)) = Len(body.sent) + 1
          /\ Len(body.sent) \in Nat
      BY <2>1, AbsorbedNext DEF Sequence
    <2>3. Append(body.sent, line) # <<>>
      BY <2>2
    <2> QED BY <2>1, <2>3, Zenon
  <1>4. CASE pc' = pc
    <2> DEFINE got == IF wantStream THEN Append(body.got, line) ELSE body.got
    <2>1. body' = [b EXCEPT !.sent = Append(@, line), !.got = got]
      BY <1>1, <1>4
    <2>2. wantStream => got # <<>>
      BY <1>3
    <2> HIDE DEF got
    <2>3. body'.got = got
      BY <2>1 DEF BodyShape
    <2>4. Onward
      BY <1>1, <1>2, <1>4, <2>2, <2>3 DEF Onward, WrittenToClient, Gone
    <2>5. Where' = Where
      BY <1>1, <1>4 DEF Where
    <2> QED BY <1>2, <2>4, <2>5, ViewStays
  <1>5. CASE pc' # pc
    <2>1. /\ wantStream /\ pc' = "done"
          /\ body' = [b EXCEPT !.sent = Append(@, line), !.end = "left"]
      BY <1>1, <1>5
    <2>2. body'.got = body.got /\ body'.end = "left"
      BY <2>1 DEF BodyShape
    <2>3. Onward
      BY <1>1, <2>1, <2>2 DEF Onward, WrittenToClient, Gone
    <2>4. Where' = "over"
      BY <1>1, <1>2, <2>1 DEF Where
    <2> QED BY <1>2, <2>3, <2>4, ViewEndsOpenAI
  <1> QED BY <1>4, <1>5

LEMMA BodyLineSeen ==
  ASSUME SessionInv, BodyInv, BodyLine
  PROVE  Attempt!ResponsesNext \/ UNCHANGED View
  <1>1. PICK b, line : /\ Line(b, line)
                       /\ BodyShape(b) /\ b.got = body.got /\ b.end = body.end
    <2>1. BodyShape(body)
      BY DEF BodyInv
    <2>2. CASE BodyText
      BY <2>1, <2>2 DEF BodyText
    <2>3. CASE BodyCall
      <3>1. PICK id : Line([body EXCEPT !.pieces = Append(@, 0)],
                           ToolChunk(Len(called), id, <<>>))
        BY <2>3 DEF BodyCall
      <3> DEFINE b == [body EXCEPT !.pieces = Append(@, 0)]
      <3>2. BodyShape(b) /\ b.got = body.got /\ b.end = body.end
        BY <2>1 DEF BodyShape
      <3> QED BY <3>1, <3>2
    <2>4. CASE BodyArguments
      <3>1. PICK i, line : Line([body EXCEPT !.pieces[i] = @ + 1], line)
        BY <2>4 DEF BodyArguments
      <3> DEFINE b == [body EXCEPT !.pieces[i] = @ + 1]
      <3>2. BodyShape(b) /\ b.got = body.got /\ b.end = body.end
        BY <2>1 DEF BodyShape
      <3> QED BY <3>1, <3>2
    <2>5. CASE BodyStop
      <3>1. PICK reason, line : Line([body EXCEPT !.reason = reason], line)
        BY <2>5 DEF BodyStop
      <3> DEFINE b == [body EXCEPT !.reason = reason]
      <3>2. BodyShape(b) /\ b.got = body.got /\ b.end = body.end
        BY <2>1 DEF BodyShape
      <3> QED BY <3>1, <3>2
    <2>6. CASE BodyDone
      BY <2>1, <2>6 DEF BodyDone
    <2> QED BY <2>2, <2>3, <2>4, <2>5, <2>6 DEF BodyLine
  <1>2. pc = "body"
    BY <1>1, LineStep
  <1>3. body.end = "open"
    BY <1>2 DEF BodyInv
  <1> QED BY <1>1, <1>3, LineSeen

\* and so does its end.
LEMMA BodyEndsSeen ==
  ASSUME SessionInv, BodyInv, BodyEnds
  PROVE  Attempt!ResponsesNext \/ UNCHANGED View
  <1>1. /\ pc = "body" /\ pc' = "done" /\ cv' = cv /\ writeErr' = writeErr
        /\ result' = result /\ wantStream' = wantStream
    BY DEF BodyEnds, relayVars
  <1>2. /\ BodyShape(body) /\ body.end = "open" /\ result = "running"
        /\ StreamInv
    BY <1>1, Streaming DEF SessionInv, Idle
  <1>3. wantStream /\ body.got # <<>> => body'.got # <<>>
    <2> SUFFICES ASSUME wantStream, body.got # <<>> PROVE body'.got # <<>>
      OBVIOUS
    <2> DEFINE got == IF wantStream /\ ~SawDone THEN Append(body.got, DoneLine)
                      ELSE body.got
    <2>1. \/ body' = [body EXCEPT !.end = "eof", !.got = got]
          \/ body' = [body EXCEPT !.end = "broken"]
      BY <1>2 DEF BodyEnds, BodyShape
    <2>2. Sequence(body.sent) /\ body.got = body.sent
      BY <1>2 DEF StreamInv
    <2>3. /\ Len(Append(body.sent, DoneLine)) = Len(body.sent) + 1
          /\ Len(body.sent) \in Nat
      BY <2>2, AbsorbedNext DEF Sequence
    <2>4. got # <<>>
      BY <2>2, <2>3
    <2> HIDE DEF got
    <2>5. body'.got \in {got, body.got}
      BY <1>2, <2>1 DEF BodyShape
    <2> QED BY <2>4, <2>5
  <1>4. Onward
    BY <1>1, <1>2, <1>3 DEF Onward, WrittenToClient, Gone
  <1>5. Where = "openai" /\ Where' = "over"
    BY <1>1, <1>2 DEF Where
  <1> QED BY <1>4, <1>5, ViewEndsOpenAI

\* A completion is written, or the client leaves before it is.
LEMMA WrittenSeen ==
  ASSUME SessionInv, BodyInv, CompletionWritten
  PROVE  Attempt!ResponsesNext \/ UNCHANGED View
  <1>1. /\ pc = "write" /\ pc' = "done" /\ cv' = cv /\ writeErr' = writeErr
        /\ result' = result /\ wantStream' = wantStream
    BY DEF CompletionWritten, relayVars
  <1>2. /\ body.got = <<>> /\ body.end = "open" /\ result = "running"
        /\ cv.out = <<>> /\ ~writeErr /\ wantStream
    BY <1>1 DEF BodyInv, SessionInv, Idle, NewConverter
  <1>3. Onward
    BY <1>2 DEF Onward, WrittenToClient, Gone
  <1>4. Where = "openai" /\ Where' = "over"
    BY <1>1, <1>2 DEF Where
  <1> QED BY <1>3, <1>4, ViewEndsOpenAI

\* The stream that is given up for an error writes nothing at its end.
LEMMA ErrorWritesNothing ==
  ASSUME RelayInv, RelayNext, result' = "error"
  PROVE  cv'.out = cv.out
  <1>1. StreamEnds
    BY DEF RelayNext, TellText, TellTool, TellNothing, TellEnd, TellError,
           TellForeign, Receive
  <1>2. CASE writeErr
    BY <1>1, <1>2 DEF StreamEnds
  <1>3. CASE ~writeErr
    <2> DEFINE d == Finish(cv)
    <2>1. /\ Deliver(d) /\ writeErr' /\ Sound(cv) /\ cv.out \in Seq(Chunk)
      BY <1>1, <1>3 DEF StreamEnds, RelayInv, Follows, Kept, Converter
    <2>2. \/ d = cv
          \/ d \in Converter /\ d.out = Append(cv.out, DoneLine)
      BY <2>1, DoneAdded DEF Finish, Sound
    <2> HIDE DEF d
    <2>3. PICK k \in 0 .. Len(d.out) - Len(cv.out) - 1 :
             cv' = [d EXCEPT !.out = SubSeq(@, 1, Len(cv.out) + k)]
      BY <1>3, <2>1 DEF Deliver
    <2>4. d.out = Append(cv.out, DoneLine) /\ d \in Converter
      <3>1. Len(cv.out) \in Nat
        BY <2>1
      <3>2. d # cv
        <4> SUFFICES ASSUME d = cv PROVE FALSE
          OBVIOUS
        <4> DEFINE n == Len(cv.out)
        <4>1. n \in Nat /\ k \in 0 .. n - n - 1
          BY <2>3, <3>1
        <4> HIDE DEF n
        <4> QED BY <4>1
      <3> QED BY <2>2, <3>2
    <2>5. k = 0
      <3>1. Len(d.out) = Len(cv.out) + 1
        BY <2>1, <2>4
      <3>2. Len(cv.out) \in Nat
        BY <2>1
      <3> HIDE DEF d
      <3> QED BY <2>3, <3>1, <3>2
    <2>6. cv'.out = SubSeq(d.out, 1, Len(cv.out) + k)
      BY <2>3, <2>4 DEF Converter
    <2>7. SubSeq(Append(cv.out, DoneLine), 1, Len(cv.out)) = cv.out
      BY <2>1
    <2>8. Len(cv.out) + k = Len(cv.out)
      BY <2>1, <2>5
    <2> QED BY <2>4, <2>6, <2>7, <2>8
  <1> QED BY <1>2, <1>3

\* The relay channel keeps the contract while it makes its calls,
LEMMA SessionCallSeen ==
  ASSUME SessionInv, BodyInv, SessionNext, UNCHANGED body,
         ~ReadEarly, ~Read
  PROVE  Attempt!ResponsesNext \/ UNCHANGED View
  <1>1. pc \in {"start", "dial", "tls", "upgrade", "inject", "events", "send"}
    BY DEF SessionInv, LinkInv, SessionNext, NothingToSend, Begin, Connects,
           ConnectFails, ServerControls, ServerTells, ServerSends,
           InjectGivesUp, InjectEnds, HttpCalls, EventsOpen, RunStarts,
           SendAnswers, CallFails, TellEarly
  <1>2. /\ result = "running" /\ cv.out = <<>> /\ ~writeErr
        /\ body = NoBody /\ body.got = <<>> /\ body.end = "open"
        /\ ~WrittenToClient /\ ~Gone
    BY <1>1, Unanswered
  <1>3. Onward /\ Where = "relay"
    BY <1>1, <1>2 DEF Onward, Where
  <1>4. CASE NothingToSend \/ CallFails
    <2>1. pc' = "done" /\ result' = "error" /\ cv' = cv /\ body' = body
      BY <1>4 DEF NothingToSend, CallFails, Fails
    <2>2. Where' = "between" /\ ~WrittenToClient'
      BY <1>2, <2>1 DEF Where, WrittenToClient, NoBody
    <2> QED BY <1>3, <2>2, ViewRotates
  <1>5. CASE \/ Begin \/ Connects \/ ConnectFails \/ ServerControls
             \/ ServerTells \/ InjectGivesUp \/ InjectEnds \/ EventsOpen
             \/ RunStarts \/ SendAnswers \/ TellEarly
    <2>1. pc' \in SessionPc \ {"done"}
      BY <1>1, <1>5, CallsInOrder
         DEF Begin, Connects, ConnectFails, ServerControls, ServerTells,
             ServerSends, InjectGivesUp, InjectEnds, EventsOpen, RunStarts,
             SendAnswers, TellEarly, SessionPc
    <2>2. Where' = "relay"
      BY <2>1 DEF Where, SessionPc
    <2> QED BY <1>3, <2>2, ViewStays
  <1> QED BY <1>4, <1>5 DEF SessionNext, HttpCalls

\* and while it reads the stream.
LEMMA StreamSeen ==
  ASSUME SessionInv, BodyInv, ReadEarly \/ Read, UNCHANGED body
  PROVE  Attempt!ResponsesNext \/ UNCHANGED View
  <1>1. /\ pc = "run" /\ pc' = IF result' = "running" THEN "run" ELSE "done"
        /\ wantStream' = wantStream /\ body' = body
        /\ ~wantStream => ~writeErr'
    BY DEF ReadEarly, Read, Converts
  <1>2. body = NoBody /\ result = "running"
    BY <1>1 DEF BodyInv, SessionInv
  <1>3. Where = "relay"
    BY <1>1 DEF Where
  <1>4. SessionInv' /\ Further(cv, cv')
    BY ReadsEarly, ReadsStream
  <1>5. writeErr => writeErr'
    <2>1. CASE ReadEarly
      BY <2>1 DEF ReadEarly, Converts, Receive
    <2>2. CASE Read
      BY <2>2, StreamResults DEF Read, Converts
    <2> QED BY <2>1, <2>2
  <1>6. Onward
    BY <1>1, <1>2, <1>4, <1>5
       DEF Onward, WrittenToClient, Gone, Further, NoBody
  <1>7. CASE result' = "running"
    <2>1. Where' = "relay"
      BY <1>1, <1>7 DEF Where
    <2> QED BY <1>3, <1>6, <2>1, ViewStays
  <1>8. CASE result' = "nil"
    <2>1. cv'.out # <<>>
      BY <1>4, <1>8 DEF SessionInv, RelayInv, Follows, Sound
    <2>2. Where' = "over" /\ WrittenToClient'
      BY <1>1, <1>8, <2>1 DEF Where, WrittenToClient
    <2> QED BY <1>3, <1>6, <2>2, ViewEndsRelay
  <1>9. CASE result' = "error"
    <2>1. Read /\ RelayNext
      BY <1>2, <1>9 DEF ReadEarly, Read, Converts, Receive
    <2>2. writeErr' /\ wantStream
      BY <1>1, <1>9, <2>1, StreamResults
    <2>3. cv'.out = cv.out
      BY <1>9, <2>1, ErrorWritesNothing DEF SessionInv
    <2>4. Where' = "between"
      BY <1>1, <1>9 DEF Where
    <2>5. (WrittenToClient' => WrittenToClient) /\ Gone'
      BY <1>1, <2>2, <2>3 DEF WrittenToClient, Gone
    <2> QED BY <1>3, <1>6, <2>4, <2>5, ViewRotates
  <1>10. result' \in {"running", "nil", "error"}
    BY <1>4 DEF SessionInv, RelayInv
  <1> QED BY <1>7, <1>8, <1>9, <1>10

\* One attempt, chunk by chunk, keeps the contract that Gateway.tla keeps for
\* all of them: an attempt that began an answer is not given up, unless the
\* client is gone, and ChatRelay reports a success only of an answer.
THEOREM AttemptKeepsContract == ChatSpec => ImplementsResponses
  <1>1. ChatInit => Attempt!ResponsesInit
    <2> SUFFICES ASSUME ChatInit PROVE Attempt!ResponsesInit
      OBVIOUS
    <2>1. /\ SessionInv /\ pc \in {"openai", "start"} /\ body = NoBody
      BY SessionStart DEF ChatInit
    <2>2. cv.out = <<>> /\ writeErr = FALSE
      BY <2>1 DEF SessionInv, Idle, NewConverter
    <2>3. Where \in {"openai", "relay"} /\ AnswersBegun = 0 /\ Gone = FALSE
      BY <2>1, <2>2 DEF Where, AnswersBegun, WrittenToClient, Gone, NoBody
    <2> DEFINE a == Where
    <2>4. Outcome = Attempt!Begun(a)
      BY <2>3, ViewFields DEF Attempt!Begun
    <2>5. a \in Attempt!Places \ {"over"}
      BY <2>3 DEF Attempt!Places
    <2> HIDE DEF a
    <2>6. View \in [{1} -> {Attempt!Begun(at) :
                                at \in Attempt!Places \ {"over"}}]
      BY <2>4, <2>5 DEF View
    <2> QED BY <2>6 DEF Attempt!ResponsesInit, View
  <1>2. SessionInv /\ BodyInv /\ [ChatNext]_chatVars
            => [Attempt!ResponsesNext]_[r \in {1} |-> Outcome]
    <2> SUFFICES ASSUME SessionInv, BodyInv, [ChatNext]_chatVars
                 PROVE  Attempt!ResponsesNext \/ UNCHANGED View
      BY DEF View
    <2>1. CASE UNCHANGED chatVars
      <3>1. Outcome' = Outcome
        BY <2>1 DEF chatVars, attemptVars, relayVars, sessionVars, Outcome,
                    WrittenToClient
      <3> QED BY <3>1 DEF View
    <2>2. CASE SessionNext /\ UNCHANGED body
      BY <2>2, SessionCallSeen, StreamSeen
    <2> QED BY <2>1, <2>2, OpenAICallSeen, BodyLineSeen, BodyEndsSeen,
               WrittenSeen
            DEF ChatNext
  <1> QED BY <1>1, <1>2, SessionInvariance, BodyInvariance, PTL
          DEF ChatSpec, ImplementsResponses, Attempt!ResponsesSpec
=============================================================================
