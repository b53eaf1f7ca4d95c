----------------------------- MODULE ModelCalls -----------------------------
(***************************************************************************)
(* AnthropicModelProvider.generate: a request to a server that may answer, *)
(* answer in part, or never answer, raced by one timer.  Abort rejects     *)
(* whatever is awaited; the state of a call is a record of calls.          *)
(***************************************************************************)
EXTENDS Naturals

CONSTANTS Callers,     \* who awaits a call, one at a time each
          Payloads     \* what a body may hold: [kind, model, met]

VARIABLE calls

NoCall == [phase |-> "none", timer |-> "none", aborted |-> FALSE, code |-> "", payload |-> {}]

CallsInit == calls = [ c \in Callers |-> NoCall ]

Awaited(c) == calls[c].phase \in {"headers", "body"}

\* finally: the timer is cleared on every path.
Settled(c, code) ==
    [calls EXCEPT ![c].phase = "settled", ![c].code = code,
                  ![c].timer = IF @ = "armed" THEN "cleared" ELSE @]

\* A request is validated before the timer is set.
Sent(c, request) ==
    [calls EXCEPT ![c] = IF request = "valid"
                         THEN [NoCall EXCEPT !.phase = "headers", !.timer = "armed"]
                         ELSE [NoCall EXCEPT !.phase = "settled", !.code = "INVALID_REQUEST"]]

TimerFires(c) ==
    /\ calls[c].timer = "armed"
    /\ calls' = [calls EXCEPT ![c].timer = "fired", ![c].aborted = TRUE]

\* What is awaited fails: because it was aborted, or for a reason of its own.
FailureCode(c) ==
    IF calls[c].timer = "fired" THEN "TIMEOUT"
    ELSE IF calls[c].phase = "headers" THEN "TRANSPORT_FAILED"
    ELSE "INVALID_RESPONSE_BODY"

Rejects(c) == Awaited(c) /\ calls' = Settled(c, FailureCode(c))

AbortRejects(c) == calls[c].aborted /\ Rejects(c)

\* Defect: the timer is cleared once the headers are there.
RespondsUntimed(c, good) ==
    /\ calls[c].phase = "headers" /\ ~ calls[c].aborted
    /\ calls' = IF good THEN [calls EXCEPT ![c].phase = "body", ![c].timer = "cleared"]
                ELSE Settled(c, "HTTP_ERROR")

Responds(c, good) ==
    /\ calls[c].phase = "headers" /\ ~ calls[c].aborted
    /\ calls' = IF good THEN [calls EXCEPT ![c].phase = "body"] ELSE Settled(c, "HTTP_ERROR")

\* parseResult.
ParsedCode(payload) ==
    CASE payload.kind = "malformed" -> "INVALID_RESPONSE"
      [] payload.kind = "not text"  -> "UNSUPPORTED_RESPONSE_CONTENT"
      [] OTHER                      -> "answered"

Delivers(c, payload) ==
    /\ calls[c].phase = "body" /\ ~ calls[c].aborted
    /\ calls' = [Settled(c, ParsedCode(payload)) EXCEPT ![c].payload = {payload}]

=============================================================================
