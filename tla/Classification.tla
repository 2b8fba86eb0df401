--------------------------- MODULE Classification ---------------------------
(***************************************************************************)
(* How a refusal of the upstream becomes a kind of error                   *)
(* (internal/upstream/classify.go and its callers) and which of the kinds  *)
(* the handlers tell apart.                                                *)
(*                                                                         *)
(* A response is its HTTP status, the code of its JSON envelope and which  *)
(* families of markers its text names: "hard" (hardMarkers, no credit),    *)
(* "dead" (sessionDeadMarkers) and "off" (the words by which NotEnabled    *)
(* knows a channel that is switched off).  The text is the whole body for  *)
(* an error status and the message of the envelope otherwise.  Statuses    *)
(* and codes have one member for each class the code tells apart; 402 and  *)
(* 410001 are codes the README names and the code does not know.           *)
(***************************************************************************)
EXTENDS Integers

Statuses == {200, 400, 401, 402, 404, 429, 500, 501}
CodeNotLoggedIn == 410000
Codes == {0, 402, CodeNotLoggedIn, 410001}

Response == [status : Statuses, code : Codes, text : SUBSET {"hard", "dead", "off"}]

\* The code and the text come before the status, and no credit before a dead
\* session.
Classify(status, code, text) ==
    IF code = CodeNotLoggedIn THEN "session_dead"
    ELSE IF "hard" \in text   THEN "hard_credit"
    ELSE IF "dead" \in text   THEN "session_dead"
    ELSE CASE status = 402 -> "hard_credit"
           [] status = 429 -> "soft_rate"
           [] status = 404 -> "not_found"
           [] status >= 500 -> "server"
           [] status \in (400 .. 499) \ {402, 404, 429} -> "client"
           [] status < 400 -> "none"

\* An error status is classified by its body; the envelope is not opened.
ByStatus(resp) == Classify(resp.status, 0, resp.text)

\* A refusal of the user API: an error status, or an envelope with a code.
UserAPIError(resp) ==
    IF resp.status >= 400 THEN ByStatus(resp)
    ELSE LET kind == Classify(resp.status, resp.code, resp.text) IN
         IF kind = "none" THEN "client" ELSE kind

\* A refusal of the sandbox gateway; its envelope may also say ok = false
\* with no code, and the kind may stay "none".
RelayAPIError(resp) ==
    IF resp.status >= 400 THEN ByStatus(resp)
    ELSE Classify(resp.status, resp.code, resp.text)

\* The OpenAI endpoint is not there or switched off: the relay may be tried.
\* Asked before Classify, so a marker of no credit or of a dead session in
\* such an answer goes unread.
NotEnabled(resp) ==
    resp.status \in {404, 501} \/ (resp.status = 400 /\ "off" \in resp.text)

ErrorResponses == {r \in Response : r.status >= 400}

\* A response that is an error without a code occurs at the gateway only.
UserAPIRefusals == {r \in Response : r.status >= 400 \/ r.code # 0}
RelayAPIRefusals == Response

\* The handlers tell three kinds apart and count the rest as errors.
Treatment(kind) ==
    IF kind \in {"session_dead", "hard_credit", "soft_rate"} THEN kind
                                                             ELSE "other"

\* A failure that is no upstream.Error: transport, parsing, no endpoint.
OtherError == "other"

\* What prepareAccount may fail with: RefreshToken and EnsureSandbox ask the
\* user API, WakeSandbox the gateway, and an account that needs a refresh and
\* has no refresh token is a dead session.
PrepareKinds ==
    {Treatment(UserAPIError(r)) : r \in UserAPIRefusals}
    \cup {Treatment(RelayAPIError(r)) : r \in RelayAPIRefusals}
    \cup {"session_dead", OtherError}

\* What ChatRelay may fail with before it has written: the event stream is
\* refused by its status, agent/send as any call of the gateway; all else (no
\* endpoint, transport, an empty stream, the first write) has no kind, and a
\* WebSocket that does not open is no failure.
RelayKinds ==
    {Treatment(ByStatus(r)) : r \in ErrorResponses}
    \cup {Treatment(RelayAPIError(r)) : r \in RelayAPIRefusals}
    \cup {OtherError}
=============================================================================
