---------------------------- MODULE StoreContract ----------------------------
(***************************************************************************)
(* What TraceStore, ControlStore and ControlStoreWriter promise their      *)
(* callers (packages/ports/src): each call takes effect at one moment, or   *)
(* fails without any effect, whatever other connections do to the same      *)
(* database and whenever a process dies.                                    *)
(***************************************************************************)
EXTENDS StoreData

VARIABLES store,    \* the published content
          call,     \* the call each connection is making
          answer    \* what it is told and has not received yet

-----------------------------------------------------------------------------
(* What a call may be told, given the content before and after it. *)

Opens(before, after, a) ==
    \/ /\ a.code = "opened"
       /\ before.version \in {"absent", "current"}
       /\ after = [before EXCEPT !.version = "current", !.tables = TRUE]
    \/ a.code = "UNSUPPORTED_SCHEMA_VERSION" /\ before.version = "newer" /\ after = before
    \/ a.code = "INVALID_STORED_DATA" /\ before.version = "unreadable" /\ after = before

\* Idempotent for the same record, and a record is never replaced by another.
PutsTrace(id, trace, before, after, a) ==
    \/ /\ a.code = "stored"
       /\ before.traces[id] \in {NoRow, trace}
       /\ after = [before EXCEPT !.traces[id] = trace]
    \/ a.code = "TRACE_CONFLICT" /\ before.traces[id] \in Trace \ {trace} /\ after = before
    \/ a.code = "INVALID_STORED_DATA" /\ before.traces[id] = Unreadable /\ after = before

\* A trace of another scope reads as no trace at all.
GetsTrace(id, scope, before, after, a) ==
    /\ after = before
    /\ \/ a.code = "found" /\ a.value = before.traces[id] /\ a.value \in [scope : {scope}, payload : Payload]
       \/ a.code = "missing" /\ before.traces[id] \notin [scope : {scope}, payload : Payload]
       \/ a.code = "INVALID_STORED_DATA" /\ before.traces[id] = Unreadable

RegistersSource(key, fields, before, after, a) ==
    \/ /\ a.code = "registered"
       /\ before.sources[key] = NoRow
       /\ after = [before EXCEPT !.sources[key] = fields]
    \/ a.code = "SOURCE_CONFLICT" /\ before.sources[key] # NoRow /\ after = before

UpdatesSource(key, fields, before, after, a) ==
    \/ /\ a.code = "updated"
       /\ before.sources[key] # NoRow
       /\ after = [before EXCEPT !.sources[key] = fields]
    \/ a.code = "SOURCE_NOT_FOUND" /\ before.sources[key] = NoRow /\ after = before

RemovesSource(key, before, after, a) ==
    /\ after = [before EXCEPT !.sources[key] = NoRow]
    /\ a.code = IF before.sources[key] = NoRow THEN "absent" ELSE "removed"

RowsOf(scope, content) == { k \in Key : k.scope = scope /\ content.sources[k] # NoRow }

\* Exactly the registrations of the scope, or none of them.
ListsSources(scope, before, after, a) ==
    /\ after = before
    /\ \/ /\ a.code = "listed"
          /\ a.value = [k \in RowsOf(scope, before) |-> before.sources[k]]
          /\ \A k \in RowsOf(scope, before) : before.sources[k] # Unreadable
       \/ /\ a.code = "INVALID_STORED_DATA"
          /\ \E k \in RowsOf(scope, before) : before.sources[k] = Unreadable

Promised(c, before, after, a) ==
    \/ a.code \in Failures /\ after = before
    \/ c.op = "open"           /\ Opens(before, after, a)
    \/ c.op = "putTrace"       /\ PutsTrace(c.id, c.trace, before, after, a)
    \/ c.op = "getTrace"       /\ GetsTrace(c.id, c.scope, before, after, a)
    \/ c.op = "registerSource" /\ RegistersSource(c.key, c.fields, before, after, a)
    \/ c.op = "updateSource"   /\ UpdatesSource(c.key, c.fields, before, after, a)
    \/ c.op = "removeSource"   /\ RemovesSource(c.key, before, after, a)
    \/ c.op = "listSources"    /\ ListsSources(c.scope, before, after, a)

-----------------------------------------------------------------------------
Init ==
    /\ store \in Store
    /\ call = [c \in Connection |-> NoCall]
    /\ answer = [c \in Connection |-> NoAnswer]

Ask(c) ==
    /\ call[c] = NoCall /\ answer[c] = NoAnswer
    /\ \E op \in Calls : call' = [call EXCEPT ![c] = op]
    /\ UNCHANGED <<store, answer>>

Tell(c) ==
    /\ call[c] # NoCall
    /\ call' = [call EXCEPT ![c] = NoCall]
    /\ answer' = [answer EXCEPT ![c] = answer'[c]]
    /\ Promised(call[c], store, store', answer'[c])

Receive(c) ==
    /\ answer' = [answer EXCEPT ![c] = NoAnswer]
    /\ UNCHANGED <<store, call>>

\* The process dies: nobody is told anything.
Vanish(c) ==
    /\ call' = [call EXCEPT ![c] = NoCall]
    /\ answer' = [answer EXCEPT ![c] = NoAnswer]
    /\ UNCHANGED store

Next == \E c \in Connection : Ask(c) \/ Tell(c) \/ Receive(c) \/ Vanish(c)

Spec == Init /\ [][Next]_<<store, call, answer>>

=============================================================================
