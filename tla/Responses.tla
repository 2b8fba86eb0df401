----------------------------- MODULE Responses ------------------------------
(***************************************************************************)
(* What the server promises of a response, without accounts, verdicts,     *)
(* frames or lines: the contract between the rotation of the chat handler  *)
(* (internal/server/handler.go) and the two channels it tries an account   *)
(* over (ChatOpenAI and ChatRelay of internal/upstream).                   *)
(*                                                                         *)
(* An attempt that began an answer is never followed by another one, and   *)
(* no second answer is begun, unless the client is gone; ChatRelay reports *)
(* a success only of an answer.  Gateway.tla implements it for concurrent  *)
(* requests and any number of attempts, with each attempt as a few         *)
(* outcomes, and ChatAttempt.tla for one attempt, chunk by chunk.          *)
(***************************************************************************)
EXTENDS Naturals

CONSTANT Requests

VARIABLE response   \* of each request

\* Between attempts, in one over the OpenAI channel, over the relay channel,
\* or returned; how many answers were begun; whether the client left.
Places == {"between", "openai", "relay", "over"}
Response == [at : Places, answers : Nat, gone : BOOLEAN]

Reply(at, answers, gone) == [at |-> at, answers |-> answers, gone |-> gone]
Begun(at) == Reply(at, 0, FALSE)

\* The handler goes on without writing, and may find the client gone.
Goes(r, from, to) ==
    /\ response[r].at = from
    /\ \E gone \in {response[r].gone, TRUE} :
        response' = [response EXCEPT ![r] = Reply(to, @.answers, gone)]

\* It begins an answer: the first one, or one that nobody reads.
Answers(r, from, to) ==
    /\ response[r].at = from
    /\ \E gone \in {response[r].gone, TRUE} :
        /\ response[r].answers = 0 \/ gone
        /\ response' = [response EXCEPT ![r] = Reply(to, @.answers + 1, gone)]

Attempts(r) == Goes(r, "between", "openai")
FallsBack(r) == Goes(r, "openai", "relay")
Writes(r) == \E at \in {"openai", "relay"} : Answers(r, at, at)
Leaves(r) == \E at \in Places \ {"over"} : Goes(r, at, at)

\* The next account, after an attempt that wrote nothing to a client.
Rotates(r) ==
    /\ \E at \in {"openai", "relay"} : Goes(r, at, "between")
    /\ response'[r].answers = 0 \/ response'[r].gone

\* A refusal of the handler, or the end of an attempt.  An answer of the
\* OpenAI endpoint may not have reached the client at all.
Refuses(r) == Answers(r, "between", "over")
EndsOpenAI(r) == Goes(r, "openai", "over") \/ Answers(r, "openai", "over")
EndsRelay(r) ==
    \/ Goes(r, "relay", "over") /\ response'[r].answers >= 1
    \/ Answers(r, "relay", "over")

\* The slot takes another request.
Returns(r) ==
    /\ response[r].at = "over"
    /\ response' = [response EXCEPT ![r] = Begun("between")]

\* The process ends.
Vanish == response' = [r \in Requests |-> Begun("between")]

ResponsesInit ==
    response \in [Requests -> {Begun(at) : at \in Places \ {"over"}}]

ResponsesNext ==
    \/ \E r \in Requests :
        \/ Attempts(r) \/ FallsBack(r) \/ Writes(r) \/ Leaves(r)
        \/ Rotates(r) \/ Refuses(r) \/ EndsOpenAI(r) \/ EndsRelay(r)
        \/ Returns(r)
    \/ Vanish

ResponsesSpec == ResponsesInit /\ [][ResponsesNext]_response
=============================================================================
