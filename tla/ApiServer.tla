------------------------------ MODULE ApiServer ------------------------------
(***************************************************************************)
(* The HTTP server of apps/api: the request handler with its counter of     *)
(* active requests, the listener with its graceful shutdown, and the         *)
(* runtime that owns the two stores.  An action is one turn of the event     *)
(* loop: what a handler does between two awaits, one event of a connection,  *)
(* one timer.                                                                *)
(*                                                                         *)
(* Node's HTTP server is external: it delivers the events of a connection,   *)
(* destroys one at a configured timeout, and completes server.close() when   *)
(* no connection is left.  Each request has a connection of its own.         *)
(***************************************************************************)
EXTENDS Naturals, FiniteSets

CONSTANTS Request,        \* the requests clients may send
          MaxConcurrent   \* maxConcurrentRequests
ASSUME RequestAssumption == IsFiniteSet(Request)
ASSUME MaxConcurrentAssumption == MaxConcurrent \in Nat \ {0}

VARIABLES
    ready, stopping,   \* the flags of the handler
    active,            \* its count of admitted requests
    idle,              \* what whenIdle() of the shutdown is: unasked, waiting, resolved
    listener,          \* starting, listening, closing (server.close called), drained
    timer,             \* the grace timer: unset, armed, spent
    closed,            \* the runtime has closed both stores
    conn,              \* the connection of each request: none, open, ended
    pc,                \* where its handler stands
    sent,              \* what it was answered
    stored             \* its trace is in the store

handler == <<ready, stopping, active, idle>>
server  == <<listener, timer, closed>>
client  == <<conn, pc, sent, stored>>
vars    == <<handler, server, client>>

\* Between admission and the end of the finally block.
Occupied == {"body", "compile", "persist", "persisted", "trace", "evaluation"}

\* The variables keep their types; the count never leaves 0..MaxConcurrent.
ApiTypeOK ==
    /\ ready \in BOOLEAN /\ stopping \in BOOLEAN /\ closed \in BOOLEAN
    /\ active \in 0..MaxConcurrent
    /\ idle \in {"unasked", "waiting", "resolved"}
    /\ listener \in {"starting", "listening", "closing", "drained"}
    /\ timer \in {"unset", "armed", "spent"}
    /\ conn \in [Request -> {"none", "open", "ended"}]
    /\ pc \in [Request -> {"new", "done"} \cup Occupied]
    /\ sent \in [Request -> {"none", "ok", "compiled", "error", "busy", "not_ready"}]
    /\ stored \in [Request -> BOOLEAN]

Init ==
    /\ ready = FALSE /\ stopping = FALSE /\ active = 0 /\ idle = "unasked"
    /\ listener = "starting" /\ timer = "unset" /\ closed = FALSE
    /\ conn = [r \in Request |-> "none"]
    /\ pc = [r \in Request |-> "new"]
    /\ sent = [r \in Request |-> "none"]
    /\ stored = [r \in Request |-> FALSE]

-----------------------------------------------------------------------------
(* Answers and slots. *)

\* writeJson: nothing is sent twice, or to a connection that is gone.
WriteJson(r, status) ==
    sent' = IF conn[r] = "open" /\ sent[r] = "none" THEN [sent EXCEPT ![r] = status] ELSE sent

\* Defect: the finally block does not resolve the waiters.
ReleaseSilently ==
    /\ active' = active - 1
    /\ UNCHANGED <<ready, stopping, idle>>

\* The finally block of an admitted request.
Release ==
    /\ active' = active - 1
    /\ idle' = IF active = 1 /\ idle = "waiting" THEN "resolved" ELSE idle
    /\ UNCHANGED <<ready, stopping>>

\* The handler of an admitted request answers and returns.
Finish(r, status) ==
    /\ pc' = [pc EXCEPT ![r] = "done"]
    /\ WriteJson(r, status)
    /\ Release
    /\ UNCHANGED <<server, conn, stored>>

Advance(r, from, to) ==
    /\ pc[r] = from
    /\ pc' = [pc EXCEPT ![r] = to]
    /\ UNCHANGED <<handler, server, conn, sent, stored>>

-----------------------------------------------------------------------------
(* handle(): everything up to the first await. *)

Arrives(r) == conn[r] = "open" /\ pc[r] = "new"

\* No slot is taken: health, readiness, a wrong method, path, header or body size.
AnswerAtOnce(r) ==
    /\ Arrives(r)
    /\ pc' = [pc EXCEPT ![r] = "done"]
    /\ \E status \in {"ok", "error"} : WriteJson(r, status)
    /\ UNCHANGED <<handler, server, conn, stored>>

\* Work is taken between markReady and beginShutdown only.
IsReady == ready /\ ~stopping

RefuseNotReady(r) ==
    /\ Arrives(r) /\ ~IsReady
    /\ pc' = [pc EXCEPT ![r] = "done"]
    /\ WriteJson(r, "not_ready")
    /\ UNCHANGED <<handler, server, conn, stored>>

RefuseBusy(r) ==
    /\ Arrives(r) /\ IsReady /\ active >= MaxConcurrent
    /\ pc' = [pc EXCEPT ![r] = "done"]
    /\ WriteJson(r, "busy")
    /\ UNCHANGED <<handler, server, conn, stored>>

\* A trace is read at once, a POST waits for its body.
Admit(r) ==
    /\ Arrives(r) /\ IsReady /\ active < MaxConcurrent
    /\ active' = active + 1
    /\ \E stage \in {"trace", "body"} : pc' = [pc EXCEPT ![r] = stage]
    /\ UNCHANGED <<ready, stopping, idle, server, conn, sent, stored>>

-----------------------------------------------------------------------------
(* The body of a POST: the end of the stream, a limit, or an abort. *)

BodyEnds(r) ==
    /\ conn[r] = "open"
    /\ Advance(r, "body", "compile") \/ Advance(r, "body", "evaluation")

BodyRejected(r) ==
    /\ pc[r] = "body" /\ conn[r] = "open"
    /\ Finish(r, "error")

\* Defect: the slot is released by the abort listener and by the finally block.
BodyAbortsTwice(r) ==
    /\ pc[r] = "body" /\ conn[r] = "ended"
    /\ pc' = [pc EXCEPT ![r] = "done"]
    /\ active' = IF active > 1 THEN active - 2 ELSE 0
    /\ idle' = IF active <= 2 /\ idle = "waiting" THEN "resolved" ELSE idle
    /\ UNCHANGED <<ready, stopping, server, conn, sent, stored>>

\* Defect: nobody listens for the abort.
BodyNeverAborts(r) == FALSE /\ UNCHANGED vars

BodyAborts(r) ==
    /\ pc[r] = "body" /\ conn[r] = "ended"
    /\ Finish(r, "error")

-----------------------------------------------------------------------------
(* The application services, across their awaits. *)

\* Defect: success is published before the trace is stored.
CompilesUnpersisted(r) ==
    /\ pc[r] = "compile"
    /\ Finish(r, "compiled") \/ Finish(r, "error")

\* CompileAndPersist: the registry, the sources and the candidates were read
\* and the compilation returned, or any of them failed.
Compiles(r) == Advance(r, "compile", "persist") \/ (pc[r] = "compile" /\ Finish(r, "error"))

\* persistence.store: a store that is closed, or fails, rejects.
Persists(r) ==
    /\ pc[r] = "persist"
    /\ \/ /\ ~closed
          /\ stored' = [stored EXCEPT ![r] = TRUE]
          /\ pc' = [pc EXCEPT ![r] = "persisted"]
          /\ UNCHANGED <<handler, server, conn, sent>>
       \/ Finish(r, "error")

Succeeds(r) == pc[r] = "persisted" /\ Finish(r, "compiled")

\* traces.get and evaluation.runSuite.
ReadsTrace(r) == pc[r] = "trace" /\ \E status \in {"ok", "error"} : Finish(r, status)
Evaluates(r)  == pc[r] = "evaluation" /\ \E status \in {"ok", "error"} : Finish(r, status)

-----------------------------------------------------------------------------
(* The listener. *)

\* listen() succeeds, and markReady runs before any connection is accepted.
Listens ==
    /\ listener = "starting" /\ ~closed
    /\ listener' = "listening"
    /\ ready' = ~stopping
    /\ UNCHANGED <<stopping, active, idle, timer, closed, client>>

ListenFails ==
    /\ listener = "starting" /\ ~closed
    /\ closed' = TRUE
    /\ UNCHANGED <<handler, listener, timer, client>>

\* close(): a signal or an error of the server; later calls return its promise.
\* Everything up to the first await of the shutdown.
Shutdown ==
    /\ listener = "listening"
    /\ ready' = FALSE /\ stopping' = TRUE
    /\ listener' = "closing"
    /\ timer' = "armed"
    /\ idle' = IF active = 0 THEN "resolved" ELSE "waiting"
    /\ UNCHANGED <<active, closed, client>>

\* The grace timer ends every connection that is left.
GraceExpires ==
    /\ timer = "armed"
    /\ timer' = "spent"
    /\ conn' = [r \in Request |-> IF conn[r] = "open" THEN "ended" ELSE conn[r]]
    /\ UNCHANGED <<handler, listener, closed, pc, sent, stored>>

Drains ==
    /\ listener = "closing"
    /\ \A r \in Request : conn[r] # "open"
    /\ listener' = "drained"
    /\ UNCHANGED <<handler, timer, closed, client>>

\* Defect: a drained listener is taken for completed work.
ClosesWhenDrained ==
    /\ listener = "drained" /\ ~closed
    /\ timer' = "spent" /\ closed' = TRUE
    /\ UNCHANGED <<handler, listener, client>>

\* Both promises settled: the timer is cleared and the stores are closed.
ClosesRuntime ==
    /\ listener = "drained" /\ idle = "resolved" /\ ~closed
    /\ timer' = "spent" /\ closed' = TRUE
    /\ UNCHANGED <<handler, listener, client>>

-----------------------------------------------------------------------------
(* Clients and connections. *)

Connects(r) ==
    /\ listener = "listening" /\ conn[r] = "none"
    /\ conn' = [conn EXCEPT ![r] = "open"]
    /\ UNCHANGED <<handler, server, pc, sent, stored>>

\* The client leaves, or a configured timeout ends the connection: before the
\* request, in the middle of its body, during the work or after the answer.
Disconnects(r) ==
    /\ conn[r] = "open"
    /\ conn' = [conn EXCEPT ![r] = "ended"]
    /\ UNCHANGED <<handler, server, pc, sent, stored>>

-----------------------------------------------------------------------------
Handling(r) ==
    \/ BodyAborts(r) \/ Compiles(r) \/ Persists(r) \/ Succeeds(r)
    \/ ReadsTrace(r) \/ Evaluates(r)

Closing == GraceExpires \/ Drains \/ ClosesRuntime

Next ==
    \/ Listens \/ ListenFails \/ Shutdown \/ Closing
    \/ \E r \in Request :
        \/ Connects(r) \/ Disconnects(r)
        \/ AnswerAtOnce(r) \/ RefuseNotReady(r) \/ RefuseBusy(r) \/ Admit(r)
        \/ BodyEnds(r) \/ BodyRejected(r) \/ Handling(r)

\* Promises settle and timers fire; nothing is assumed of a client.
Fairness ==
    /\ \A r \in Request : WF_vars(Handling(r))
    /\ WF_vars(GraceExpires) /\ WF_vars(Drains) /\ WF_vars(ClosesRuntime)

Spec == Init /\ [][Next]_vars /\ Fairness

-----------------------------------------------------------------------------
(* Properties. *)

Admitted == { r \in Request : pc[r] \in Occupied }

\* A slot is taken by exactly the requests that are admitted, whichever way
\* each of them ends: a lost slot refuses work for ever, a slot released twice
\* admits too much (handler.ts, finally).
SlotsMatchRequests == active = Cardinality(Admitted)

\* The stores outlive every admitted request: the disconnect of a client is
\* not the completion of its operation (server.ts, close).
StoresOutliveRequests == closed => Admitted = {}

\* A client who reads a compiled context can read its trace (traceStored: true
\* in the answer; CompileAndPersistLocalContextService).
CompiledIsStored == \A r \in Request : sent[r] = "compiled" => stored[r]

\* No request is admitted once the shutdown has begun, on a connection of
\* whatever age, and the server never becomes ready again (beginShutdown).
NoAdmissionAfterShutdown ==
    [][stopping => ~ready' /\ Admitted' \subseteq Admitted]_vars

\* The shutdown ends whatever the clients do: stalled bodies, idle connections
\* and answers nobody reads included (close).
ShutdownCompletes == stopping ~> closed

\* An admitted request whose client is gone gives its slot back, whether its
\* body was complete or not.
AbandonedRequestsEnd ==
    \A r \in Request : pc[r] \in Occupied /\ conn[r] = "ended" ~> pc[r] = "done"

=============================================================================
