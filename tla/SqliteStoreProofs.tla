-------------------------- MODULE SqliteStoreProofs --------------------------
(***************************************************************************)
(* SqliteStore implements StoreContract for any number of connections, any   *)
(* calls and any initial file; traces are immutable and acknowledged ones    *)
(* survive.                                                                  *)
(***************************************************************************)
EXTENDS SqliteStore, TLAPS

-----------------------------------------------------------------------------
(* The inductive invariant. *)

\* A call is in progress exactly between the caller's two steps.
CallInv ==
    \A c \in Connection :
        /\ at[c] \in {"closed", "idle"} => call[c] = NoCall
        /\ at[c] \notin {"closed", "idle"} => call[c] \in Calls
        /\ at[c] \in {"body", "commit", "publish", "rollback"} => call[c].op \notin Reads
        /\ at[c] = "read" => call[c].op \in Reads

\* Which lock each statement runs under, and that writers exclude each other.
LockInv ==
    \A c \in Connection :
        /\ at[c] \in {"closed", "idle", "begin", "settled"} => lock[c] = "none"
        /\ at[c] = "read" => lock[c] = "shared"
        /\ at[c] \in {"body", "commit"} => lock[c] = "reserved"
        /\ at[c] = "publish" => lock[c] = "exclusive"
        /\ at[c] = "rollback" => lock[c] \in Writer
        /\ \A d \in Connection \ {c} :
              /\ lock[c] \in Writer => lock[d] \notin Writer
              /\ lock[c] = "exclusive" => lock[d] = "none"

\* What a transaction decided is still right: nobody has written since.
Fresh(c) ==
    /\ at[c] \in {"commit", "publish"} =>
          draft[c] \in Store /\ Contract!Promised(call[c], file, draft[c], answer[c])
    /\ at[c] = "rollback" => Contract!Promised(call[c], file, file, answer[c])
FreshInv == \A c \in Connection : Fresh(c)

\* Only a constructor runs on a file that is not of the current schema.
SchemaInv ==
    /\ file.version = "current" => file.tables
    /\ \A c \in Connection :
          at[c] # "closed" /\ (call[c].op = "open" => at[c] = "settled" /\ answer[c].code = "opened")
          => file.version = "current"

\* An answer "stored" under way is as true as one received.
AcknowledgedInv ==
    /\ AcknowledgedIsStored
    /\ \A c \in Connection :
          at[c] = "settled" /\ answer[c].code = "stored" =>
              call[c].op = "putTrace" /\ file.traces[call[c].id] = call[c].trace

IInv == StoreTypeOK /\ CallInv /\ LockInv /\ FreshInv /\ SchemaInv /\ AcknowledgedInv

-----------------------------------------------------------------------------
(* What the bodies and the reads answer is promised. *)

\* The arguments each operation is called with.
LEMMA CallShapes ==
    ASSUME NEW c \in AllCalls
    PROVE  /\ c # NoCall /\ c.op # "none"
           /\ c.op \in {"open", "putTrace", "getTrace", "registerSource", "updateSource",
                        "removeSource", "listSources"}
           /\ c.op = "putTrace" => c.id \in Id /\ c.trace \in Trace
           /\ c.op = "getTrace" => c.id \in Id /\ c.scope \in Scope
           /\ c.op \in {"registerSource", "updateSource"} => c.key \in Key /\ c.fields \in Fields
           /\ c.op = "removeSource" => c.key \in Key
           /\ c.op = "listSources" => c.scope \in Scope
BY DEF AllCalls, NoCall

\* A SELECT, decoded, answers what the port promises and writes nothing.
LEMMA ReadReply ==
    ASSUME file \in Store, NEW c \in AllCalls, c.op \in Reads, NEW reply \in Selected(c)
    PROVE  /\ reply.code \in Codes
           /\ Contract!Promised(c, file, file, reply)
           /\ reply.code \notin {"opened", "stored"}
<1>1. CASE c.op = "getTrace"
    <2> DEFINE row == file.traces[c.id]
    <2>1. row \in Trace \cup {NoRow, Unreadable} /\ c.scope \in Scope
        BY <1>1, CallShapes DEF Store
    <2>2. reply \in GetTrace(c.id, c.scope)
        BY <1>1 DEF Selected
    <2>3. CASE row \notin Trace
        <3>1. reply = Reply("missing", NoRow)
              \/ (row = Unreadable /\ reply = Reply("INVALID_STORED_DATA", NoRow))
            BY <2>1, <2>2, <2>3, RowsAssumption DEF GetTrace
        <3>2. Contract!GetsTrace(c.id, c.scope, file, file, reply)
            BY <2>1, <2>3, <3>1 DEF Contract!GetsTrace, Reply, Trace
        <3> QED
            BY <1>1, <3>1, <3>2 DEF Contract!Promised, Reply, Codes
    <2>4. CASE row \in Trace
        <3>1. reply = IF row.scope = c.scope THEN Reply("found", row) ELSE Reply("missing", NoRow)
            BY <2>2, <2>4, RowsAssumption DEF GetTrace
        <3>2. Contract!GetsTrace(c.id, c.scope, file, file, reply)
            BY <2>4, <3>1 DEF Contract!GetsTrace, Reply, Trace
        <3> QED
            BY <1>1, <2>4, <3>1, <3>2 DEF Contract!Promised, Reply, Codes
    <2> QED
        BY <2>3, <2>4
<1>2. CASE c.op = "listSources"
    <2> DEFINE rows == { k \in Key : k.scope = c.scope /\ file.sources[k] # NoRow }
    <2>1. rows = Contract!RowsOf(c.scope, file)
        BY DEF Contract!RowsOf, Contract!Key, Key
    <2>2. \A k \in rows : file.sources[k] \in Fields \cup {Unreadable}
        BY DEF Store
    <2>3. reply \in ListSources(c.scope)
        BY <1>2 DEF Selected
    <2>4. CASE \E k \in rows : file.sources[k] = Unreadable
        <3>1. reply = Reply("INVALID_STORED_DATA", NoRow)
            BY <2>3, <2>4 DEF ListSources
        <3> QED
            BY <1>2, <2>1, <2>4, <3>1 DEF Contract!Promised, Contract!ListsSources, Reply, Codes
    <2>5. CASE ~ \E k \in rows : file.sources[k] = Unreadable
        <3>1. reply = Reply("listed", [k \in rows |-> file.sources[k]])
            BY <2>3, <2>5 DEF ListSources
        <3>4. Contract!ListsSources(c.scope, file, file, reply)
            BY <2>1, <2>5, <3>1 DEF Contract!ListsSources, Reply
        <3> QED
            BY <1>2, <3>1, <3>4 DEF Contract!Promised, Reply, Codes
    <2> QED
        BY <2>4, <2>5
<1> QED
    BY <1>1, <1>2 DEF Reads

\* A migration opens the file whole, or refuses it untouched.
LEMMA MigrateOutcome ==
    ASSUME file \in Store, file.version = "current" => file.tables
    PROVE  /\ Migrate.file \in Store
           /\ Migrate.code \in Codes
           /\ Contract!Opens(file, Migrate.file, Reply(Migrate.code, NoRow))
              \/ (Migrate.code \in Contract!Failures /\ Migrate.file = file)
           /\ Migrate.code \notin Returned => Migrate.file = file
<1>1. file.version \in {"absent", "current", "newer", "unreadable"} /\ file.tables \in BOOLEAN
    BY DEF Store, Version
<1>2. CASE file.version = "newer"
    <2>1. Migrate = Refused("UNSUPPORTED_SCHEMA_VERSION")
        BY <1>2 DEF Migrate
    <2> QED
        BY <1>2, <2>1 DEF Contract!Opens, Refused, Effect, Reply, Codes, Returned
<1>3. CASE file.version = "unreadable"
    <2>1. Migrate = Refused("INVALID_STORED_DATA")
        BY <1>3 DEF Migrate
    <2> QED
        BY <1>3, <2>1 DEF Contract!Opens, Refused, Effect, Reply, Codes, Returned
<1>4. CASE file.version = "current"
    <2>1. Migrate = Effect("opened", file)
        BY <1>4 DEF Migrate
    <2>2. file = [file EXCEPT !.version = "current", !.tables = TRUE]
        BY <1>1, <1>4 DEF Store
    <2> QED
        BY <1>4, <2>1, <2>2 DEF Contract!Opens, Effect, Reply, Codes, Returned
<1>5. CASE file.version = "absent" /\ file.tables
    <2>1. Migrate = Refused("MIGRATION_FAILED")
        BY <1>5 DEF Migrate
    <2> QED
        BY <2>1 DEF Contract!Failures, Failures, Refused, Effect, Reply, Codes, Returned
<1>6. CASE file.version = "absent" /\ ~ file.tables
    <2>1. Migrate = Effect("opened", [file EXCEPT !.version = "current", !.tables = TRUE])
        BY <1>6 DEF Migrate
    <2>2. [file EXCEPT !.version = "current", !.tables = TRUE] \in Store
        BY DEF Store, Version
    <2> QED
        BY <1>6, <2>1, <2>2 DEF Contract!Opens, Effect, Reply, Codes, Returned
<1> QED
    BY <1>1, <1>2, <1>3, <1>4, <1>5, <1>6

\* putTrace stores, repeats or refuses as the port promises.
LEMMA PutTraceOutcome ==
    ASSUME file \in Store, NEW id \in Id, NEW trace \in Trace
    PROVE  LET result == PutTrace(id, trace) IN
           /\ result.file \in Store
           /\ result.code \in Codes
           /\ Contract!PutsTrace(id, trace, file, result.file, Reply(result.code, NoRow))
           /\ result.code \notin Returned => result.file = file
<1> DEFINE row == file.traces[id]
           written == [file EXCEPT !.traces[id] = trace]
<1>1. row \in Trace \cup {NoRow, Unreadable} /\ written \in Store
    BY DEF Store
<1>2. CASE row = NoRow
    <2>1. PutTrace(id, trace) = Effect("stored", written)
        BY <1>2, RowsAssumption DEF PutTrace
    <2>2. Contract!PutsTrace(id, trace, file, written, Reply("stored", NoRow))
        BY <1>2 DEF Contract!PutsTrace, Reply
    <2> HIDE DEF written
    <2> QED
        BY <1>1, <2>1, <2>2 DEF Effect, Codes, Returned
<1>3. CASE row = trace
    <2>1. PutTrace(id, trace) = Effect("stored", file)
        BY <1>3, RowsAssumption DEF PutTrace
    <2>2. file = written
        BY <1>3 DEF Store
    <2> QED
        BY <1>1, <1>3, <2>1, <2>2 DEF Contract!PutsTrace, Effect, Reply, Codes, Returned
<1>4. CASE row = Unreadable
    <2>1. PutTrace(id, trace) = Refused("INVALID_STORED_DATA")
        BY <1>4, RowsAssumption DEF PutTrace
    <2> QED
        BY <1>4, <2>1 DEF Contract!PutsTrace, Refused, Effect, Reply, Codes, Returned
<1>5. CASE row \in Trace \ {trace}
    <2>1. PutTrace(id, trace) = Refused("TRACE_CONFLICT")
        BY <1>5, RowsAssumption DEF PutTrace
    <2> QED
        BY <1>5, <2>1 DEF Contract!PutsTrace, Contract!Trace, Trace, Refused, Effect, Reply,
                          Codes, Returned
<1> QED
    BY <1>1, <1>2, <1>3, <1>4, <1>5

\* Registering and updating a source decide as the port promises.
LEMMA SourceOutcome ==
    ASSUME file \in Store, NEW key \in Key, NEW fields \in Fields
    PROVE  LET registered == RegisterSource(key, fields)
               updated    == UpdateSource(key, fields) IN
           /\ registered.file \in Store /\ updated.file \in Store
           /\ registered.code \in Codes /\ updated.code \in Codes
           /\ Contract!RegistersSource(key, fields, file, registered.file,
                                       Reply(registered.code, NoRow))
           /\ Contract!UpdatesSource(key, fields, file, updated.file, Reply(updated.code, NoRow))
           /\ registered.code \notin Returned => registered.file = file
           /\ updated.code \notin Returned => updated.file = file
<1> DEFINE written == [file EXCEPT !.sources[key] = fields]
<1>1. written \in Store
    BY DEF Store
<1>2. CASE file.sources[key] = NoRow
    <2>1. /\ RegisterSource(key, fields) = Effect("registered", written)
          /\ UpdateSource(key, fields) = Refused("SOURCE_NOT_FOUND")
        BY <1>2 DEF RegisterSource, UpdateSource
    <2> HIDE DEF written
    <2>2. /\ Contract!RegistersSource(key, fields, file, written, Reply("registered", NoRow))
          /\ Contract!UpdatesSource(key, fields, file, file, Reply("SOURCE_NOT_FOUND", NoRow))
        BY <1>2 DEF Contract!RegistersSource, Contract!UpdatesSource, Reply, written
    <2> QED
        BY <1>1, <2>1, <2>2 DEF Refused, Effect, Codes, Returned
<1>3. CASE file.sources[key] # NoRow
    <2>1. /\ RegisterSource(key, fields) = Refused("SOURCE_CONFLICT")
          /\ UpdateSource(key, fields) = Effect("updated", written)
        BY <1>3 DEF RegisterSource, UpdateSource
    <2> HIDE DEF written
    <2>2. /\ Contract!RegistersSource(key, fields, file, file, Reply("SOURCE_CONFLICT", NoRow))
          /\ Contract!UpdatesSource(key, fields, file, written, Reply("updated", NoRow))
        BY <1>3 DEF Contract!RegistersSource, Contract!UpdatesSource, Reply, written
    <2> QED
        BY <1>1, <2>1, <2>2 DEF Refused, Effect, Codes, Returned
<1> QED
    BY <1>2, <1>3

\* Removing a source decides as the port promises.
LEMMA RemoveOutcome ==
    ASSUME file \in Store, NEW key \in Key
    PROVE  LET result == RemoveSource(key) IN
           /\ result.file \in Store
           /\ result.code \in Codes \cap Returned
           /\ Contract!RemovesSource(key, file, result.file, Reply(result.code, NoRow))
<1>1. [file EXCEPT !.sources[key] = NoRow] \in Store
    BY DEF Store
<1> QED
    BY <1>1 DEF RemoveSource, Contract!RemovesSource, Effect, Reply, Codes, Returned

\* The body of any transaction decides as its port promises for the file it reads.
LEMMA WriteOutcome ==
    ASSUME file \in Store, file.version = "current" => file.tables,
           NEW c \in AllCalls, c.op \notin Reads
    PROVE  LET result == Outcome(c) IN
           /\ result.file \in Store
           /\ result.code \in Codes
           /\ Contract!Promised(c, file, result.file, Reply(result.code, NoRow))
           /\ result.code \notin Returned => result.file = file
<1>1. CASE c.op = "open"
    <2>1. Outcome(c) = Migrate
        BY <1>1 DEF Outcome
    <2>2. Reply(Migrate.code, NoRow).code = Migrate.code
        BY DEF Reply
    <2> QED
        BY <1>1, <2>1, <2>2, MigrateOutcome DEF Contract!Promised
<1>2. CASE c.op = "putTrace"
    <2>1. Outcome(c) = PutTrace(c.id, c.trace) /\ c.id \in Id /\ c.trace \in Trace
        BY <1>2, CallShapes DEF Outcome
    <2> QED
        BY <1>2, <2>1, PutTraceOutcome DEF Contract!Promised
<1>3. CASE c.op = "registerSource"
    <2>1. Outcome(c) = RegisterSource(c.key, c.fields) /\ c.key \in Key /\ c.fields \in Fields
        BY <1>3, CallShapes DEF Outcome
    <2> QED
        BY <1>3, <2>1, SourceOutcome DEF Contract!Promised
<1>4. CASE c.op = "updateSource"
    <2>1. Outcome(c) = UpdateSource(c.key, c.fields) /\ c.key \in Key /\ c.fields \in Fields
        BY <1>4, CallShapes DEF Outcome
    <2> QED
        BY <1>4, <2>1, SourceOutcome DEF Contract!Promised
<1>5. CASE c.op = "removeSource"
    <2>1. Outcome(c) = RemoveSource(c.key) /\ c.key \in Key
        BY <1>5, CallShapes DEF Outcome
    <2> QED
        BY <1>5, <2>1, RemoveOutcome DEF Contract!Promised
<1> QED
    BY <1>1, <1>2, <1>3, <1>4, <1>5, CallShapes DEF Reads

\* A driver failure may be answered to any call, without effect.
LEMMA FallbackPromised ==
    ASSUME file \in Store, NEW c \in AllCalls
    PROVE  \A code \in Failures :
              /\ code \in Codes /\ code \notin {"opened", "stored"}
              /\ Contract!Promised(c, file, file, Reply(code, NoRow))
              /\ Fallback(c) \in Failures
BY DEF Contract!Promised, Contract!Failures, Failures, Reply, Codes, Fallback

-----------------------------------------------------------------------------
(* What a promise says of the content. *)

\* A promised change keeps every trace and the schema; "stored" means stored and
\* "opened" means the whole schema.
LEMMA PromisedFacts ==
    ASSUME NEW c \in AllCalls, NEW before \in Store, NEW after \in Store, NEW a,
           Contract!Promised(c, before, after, a)
    PROVE  /\ \A id \in Id : before.traces[id] # NoRow => after.traces[id] = before.traces[id]
           /\ a.code = "stored" => c.op = "putTrace" /\ after.traces[c.id] = c.trace
           /\ before.version = "current" => after.version = "current"
           /\ (before.version = "current" => before.tables) =>
                 (after.version = "current" => after.tables)
           /\ c.op = "open" /\ a.code = "opened" => after.version = "current" /\ after.tables
           /\ c.op = "open" /\ after # before =>
                 before.version \in {"absent", "current"} /\ a.code = "opened"
<1>1. CASE after = before /\ a.code \notin {"opened", "stored"}
    BY <1>1
<1>2. CASE c.op = "open" /\ Contract!Opens(before, after, a)
    BY <1>2 DEF Contract!Opens, Store
<1>3. CASE c.op = "putTrace" /\ Contract!PutsTrace(c.id, c.trace, before, after, a)
    <2>1. c.id \in Id /\ c.trace \in Trace
        BY <1>3, CallShapes
    <2> QED
        BY <1>3, <2>1 DEF Contract!PutsTrace, Store
<1>4. CASE /\ c.op \in {"registerSource", "updateSource", "removeSource"}
           /\ a.code # "stored"
           /\ \E row : after = [before EXCEPT !.sources[c.key] = row]
    BY <1>4 DEF Store
<1>5. CASE c.op = "registerSource" /\ Contract!RegistersSource(c.key, c.fields, before, after, a)
    BY <1>1, <1>4, <1>5 DEF Contract!RegistersSource
<1>6. CASE c.op = "updateSource" /\ Contract!UpdatesSource(c.key, c.fields, before, after, a)
    BY <1>1, <1>4, <1>6 DEF Contract!UpdatesSource
<1>7. CASE c.op = "removeSource" /\ Contract!RemovesSource(c.key, before, after, a)
    BY <1>4, <1>7 DEF Contract!RemovesSource
<1>8. CASE c.op = "getTrace" /\ Contract!GetsTrace(c.id, c.scope, before, after, a)
    BY <1>1, <1>8 DEF Contract!GetsTrace
<1>9. CASE c.op = "listSources" /\ Contract!ListsSources(c.scope, before, after, a)
    BY <1>1, <1>9 DEF Contract!ListsSources
<1>10. CASE a.code \in Contract!Failures /\ after = before
    BY <1>1, <1>10 DEF Contract!Failures
<1> QED
    BY <1>2, <1>3, <1>5, <1>6, <1>7, <1>8, <1>9, <1>10 DEF Contract!Promised

-----------------------------------------------------------------------------
(* The invariant is kept. *)

\* Closed connections over a file of any origin satisfy the invariant.
LEMMA InitInv == Init => IInv
<1> SUFFICES ASSUME Init PROVE IInv
    OBVIOUS
<1>1. StoreTypeOK
    BY FilesAssumption DEF Init, StoreTypeOK, Stages, Locks, NoAnswer, Codes
<1>2. CallInv /\ LockInv /\ FreshInv
    BY DEF Init, CallInv, LockInv, FreshInv, Fresh, Writer
<1>3. AcknowledgedInv
    BY DEF Init, AcknowledgedInv, AcknowledgedIsStored, NoAnswer
<1>4. SchemaInv
    <2>1. file.version = "current" => file.tables
        BY FilesAssumption, Zenon DEF Init
    <2> QED
        BY <2>1 DEF Init, SchemaInv
<1> QED
    BY <1>1, <1>2, <1>3, <1>4 DEF IInv

\* A settling step: what it answers is promised and the lock is given back.
LEMMA SettleInv ==
    ASSUME IInv, NEW c \in Connection, NEW reply, at[c] \notin {"closed", "idle", "settled"},
           Settle(c, reply), reply.code \in Codes,
           file' \in Store, Contract!Promised(call[c], file, file', reply),
           file' # file => lock[c] = "exclusive"
    PROVE  IInv'
<1>1. call[c] \in Calls /\ call[c] \in AllCalls
    BY CallsAssumption DEF IInv, CallInv, StoreTypeOK
<1>2. StoreTypeOK'
    BY DEF IInv, StoreTypeOK, Settle, Stages, Locks
<1>3. CallInv'
    BY <1>1 DEF IInv, CallInv, StoreTypeOK, Settle
<1>4. LockInv'
    BY DEF IInv, LockInv, StoreTypeOK, Settle, Writer
<1>5. FreshInv'
    <2> SUFFICES ASSUME NEW d \in Connection
                 PROVE  Fresh(d)'
        BY DEF FreshInv
    <2>1. CASE d = c
        BY <2>1 DEF IInv, StoreTypeOK, Settle, Fresh
    <2>2. CASE d # c /\ at[d] \in {"commit", "publish", "rollback"}
        <3>1. lock[d] # "none"
            BY <2>2 DEF IInv, LockInv, Writer
        <3>2. file' = file
            BY <2>2, <3>1 DEF IInv, LockInv
        <3>3. /\ at'[d] = at[d] /\ draft'[d] = draft[d] /\ answer'[d] = answer[d]
              /\ call'[d] = call[d]
            BY <2>2 DEF IInv, StoreTypeOK, Settle
        <3> QED
            BY <3>2, <3>3 DEF IInv, FreshInv, Fresh
    <2>3. CASE d # c /\ at[d] \notin {"commit", "publish", "rollback"}
        BY <2>3 DEF IInv, StoreTypeOK, Settle, Fresh
    <2> QED
        BY <2>1, <2>2, <2>3
<1>6. SchemaInv'
    <2>1. file \in Store
        BY DEF IInv, StoreTypeOK
    <2>2. file'.version = "current" => file'.tables
        BY <1>1, <2>1, PromisedFacts DEF IInv, SchemaInv
    <2> QED
        BY <1>1, <2>1, <2>2, PromisedFacts DEF IInv, SchemaInv, StoreTypeOK, Settle
<1>7. AcknowledgedInv'
    <2>1. \A id \in Id, trace \in Trace : file.traces[id] = trace => file'.traces[id] = trace
        BY <1>1, PromisedFacts, RowsAssumption DEF IInv, StoreTypeOK
    <2>2. AcknowledgedIsStored'
        <3> SUFFICES ASSUME NEW stored \in acknowledged'
                     PROVE  file'.traces[stored[1]] = stored[2]
            BY DEF AcknowledgedIsStored
        <3>1. stored \in acknowledged /\ stored[1] \in Id /\ stored[2] \in Trace
            BY DEF IInv, StoreTypeOK, Settle
        <3> QED
            BY <2>1, <3>1 DEF IInv, AcknowledgedInv, AcknowledgedIsStored
    <2>3. ASSUME NEW d \in Connection, at'[d] = "settled", answer'[d].code = "stored"
          PROVE  call'[d].op = "putTrace" /\ file'.traces[call'[d].id] = call'[d].trace
        <3>1. CASE d = c
            <4>1. answer'[c] = reply /\ call' = call
                BY DEF IInv, StoreTypeOK, Settle
            <4> QED
                BY <1>1, <2>3, <3>1, <4>1, PromisedFacts DEF IInv, StoreTypeOK
        <3>2. CASE d # c
            <4>1. at[d] = "settled" /\ answer[d].code = "stored" /\ call' = call
                BY <2>3, <3>2 DEF IInv, StoreTypeOK, Settle
            <4>2. call[d] \in AllCalls /\ call[d].op = "putTrace"
                BY <4>1, CallsAssumption DEF IInv, CallInv, AcknowledgedInv
            <4> QED
                BY <2>1, <4>1, <4>2, CallShapes DEF IInv, AcknowledgedInv
        <3> QED
            BY <3>1, <3>2
    <2> QED
        BY <2>2, <2>3 DEF AcknowledgedInv
<1> QED
    BY <1>2, <1>3, <1>4, <1>5, <1>6, <1>7 DEF IInv

\* A statement in the middle of a call: the file is untouched, and what the
\* transaction holds is promised for the file as it is.
LEMMA MiddleInv ==
    ASSUME IInv, NEW c \in Connection, at[c] \notin {"closed", "idle", "settled"},
           NEW stage \in {"body", "commit", "publish", "rollback", "read"},
           NEW held \in Locks, NEW content \in Store \cup {NoRow}, NEW reply,
           reply.code \in Codes,
           file' = file /\ call' = call /\ acknowledged' = acknowledged,
           at' = [at EXCEPT ![c] = stage], lock' = [lock EXCEPT ![c] = held],
           draft' = [draft EXCEPT ![c] = content], answer' = [answer EXCEPT ![c] = reply],
           stage = "read" => call[c].op \in Reads /\ held = "shared",
           stage # "read" => call[c].op \notin Reads,
           stage \in {"body", "commit"} => held = "reserved",
           stage = "publish" => held = "exclusive",
           stage = "rollback" => held \in Writer,
           held \in Writer => \A d \in Connection \ {c} : lock[d] \notin Writer,
           held = "exclusive" => \A d \in Connection \ {c} : lock[d] = "none",
           held # "none" => \A d \in Connection \ {c} : lock[d] # "exclusive",
           stage \in {"commit", "publish"} =>
               content \in Store /\ Contract!Promised(call[c], file, content, reply),
           stage = "rollback" => Contract!Promised(call[c], file, file, reply)
    PROVE  IInv'
<1>1. StoreTypeOK'
    BY DEF IInv, StoreTypeOK, Stages
<1>2. CallInv'
    BY DEF IInv, CallInv, StoreTypeOK
<1>3. LockInv'
    BY DEF IInv, LockInv, StoreTypeOK, Writer, Locks
<1>4. FreshInv'
    <2> SUFFICES ASSUME NEW d \in Connection
                 PROVE  Fresh(d)'
        BY DEF FreshInv
    <2>1. CASE d = c
        <3>1. /\ at'[d] = stage /\ draft'[d] = content /\ answer'[d] = reply
              /\ call'[d] = call[c]
            BY <2>1 DEF IInv, StoreTypeOK
        <3> QED
            BY <3>1 DEF Fresh
    <2>2. CASE d # c
        <3>1. /\ at'[d] = at[d] /\ draft'[d] = draft[d] /\ answer'[d] = answer[d]
              /\ call'[d] = call[d]
            BY <2>2 DEF IInv, StoreTypeOK
        <3> QED
            BY <3>1 DEF IInv, FreshInv, Fresh
    <2> QED
        BY <2>1, <2>2
<1>5. SchemaInv'
    BY DEF IInv, SchemaInv, StoreTypeOK
<1>6. AcknowledgedInv'
    BY DEF IInv, AcknowledgedInv, AcknowledgedIsStored, StoreTypeOK
<1> QED
    BY <1>1, <1>2, <1>3, <1>4, <1>5, <1>6 DEF IInv

\* Making a call keeps the invariant.
LEMMA CallKeepsInv ==
    ASSUME IInv, NEW c \in Connection, Call(c)
    PROVE  IInv'
<1>1. PICK op \in Calls : /\ (op.op = "open") = (at[c] = "closed")
                          /\ call' = [call EXCEPT ![c] = op]
    BY DEF Call
<1>2. /\ at[c] \in {"closed", "idle"} /\ at' = [at EXCEPT ![c] = "begin"]
      /\ UNCHANGED <<file, lock, draft, answer, acknowledged>>
    BY DEF Call
<1>3. StoreTypeOK'
    BY <1>1, <1>2 DEF IInv, StoreTypeOK, Stages
<1>4. CallInv'
    BY <1>1, <1>2 DEF IInv, CallInv, StoreTypeOK
<1>5. LockInv'
    BY <1>2 DEF IInv, LockInv, StoreTypeOK
<1>6. FreshInv'
    <2> SUFFICES ASSUME NEW d \in Connection
                 PROVE  Fresh(d)'
        BY DEF FreshInv
    <2>1. CASE d = c
        BY <1>2, <2>1 DEF IInv, StoreTypeOK, Fresh
    <2>2. CASE d # c
        <3>1. at'[d] = at[d] /\ call'[d] = call[d]
            BY <1>1, <1>2, <2>2 DEF IInv, StoreTypeOK
        <3> QED
            BY <1>2, <3>1 DEF IInv, FreshInv, Fresh
    <2> QED
        BY <2>1, <2>2
<1>7. SchemaInv'
    <2>1. call[c] = NoCall => call[c].op # "open"
        BY DEF NoCall
    <2> QED
        BY <1>1, <1>2, <2>1 DEF IInv, SchemaInv, CallInv, StoreTypeOK
<1>8. AcknowledgedInv'
    BY <1>1, <1>2 DEF IInv, AcknowledgedInv, AcknowledgedIsStored, StoreTypeOK
<1> QED
    BY <1>3, <1>4, <1>5, <1>6, <1>7, <1>8 DEF IInv

\* The caller is told, or is gone: the connection is at rest afterwards.
LEMMA RestInv ==
    ASSUME IInv, NEW c \in Connection, NEW stage \in {"closed", "idle"},
           file' = file,
           at' = [at EXCEPT ![c] = stage], lock' = [lock EXCEPT ![c] = "none"],
           call' = [call EXCEPT ![c] = NoCall], draft' = [draft EXCEPT ![c] = NoRow] \/ draft' = draft,
           answer' = [answer EXCEPT ![c] = NoAnswer],
           stage = "idle" => file.version = "current",
           AcknowledgedIsStored', acknowledged' \subseteq Id \X Trace
    PROVE  IInv'
<1>1. StoreTypeOK'
    BY DEF IInv, StoreTypeOK, Stages, Locks, NoAnswer, Codes
<1>2. CallInv'
    BY DEF IInv, CallInv, StoreTypeOK
<1>3. LockInv'
    BY DEF IInv, LockInv, StoreTypeOK, Writer
<1>4. FreshInv'
    <2> SUFFICES ASSUME NEW d \in Connection
                 PROVE  Fresh(d)'
        BY DEF FreshInv
    <2>1. CASE d = c
        BY <2>1 DEF IInv, StoreTypeOK, Fresh
    <2>2. CASE d # c
        <3>1. /\ at'[d] = at[d] /\ draft'[d] = draft[d] /\ answer'[d] = answer[d]
              /\ call'[d] = call[d]
            BY <2>2 DEF IInv, StoreTypeOK
        <3> QED
            BY <3>1 DEF IInv, FreshInv, Fresh
    <2> QED
        BY <2>1, <2>2
<1>5. SchemaInv'
    BY DEF IInv, SchemaInv, StoreTypeOK
<1>6. AcknowledgedInv'
    BY DEF IInv, AcknowledgedInv, StoreTypeOK
<1> QED
    BY <1>1, <1>2, <1>3, <1>4, <1>5, <1>6 DEF IInv

\* The statements that end a call, what they answer, and what they publish.
Ends(c, reply) ==
    /\ at[c] \notin {"closed", "idle", "settled"} /\ call[c] \in AllCalls
    /\ Settle(c, reply)
    /\ reply.code \in Codes
    /\ file' \in Store /\ Contract!Promised(call[c], file, file', reply)
    /\ file' # file => lock[c] = "exclusive"

\* Each statement that ends a call answers what is promised at that moment.
LEMMA StatementEnds ==
    ASSUME IInv, NEW c \in Connection,
           \/ CannotOpen(c) \/ BeginFails(c) \/ CommitUnchanged(c) \/ Publish(c)
           \/ Rollback(c) \/ EndRead(c) \/ ReadFails(c)
    PROVE  \E reply : Ends(c, reply)
<1>1. file \in Store
    BY DEF IInv, StoreTypeOK
<1>2. at[c] \notin {"closed", "idle"} => call[c] \in AllCalls
    BY CallsAssumption DEF IInv, CallInv
<1>3. ASSUME NEW code \in Failures, at[c] \notin {"closed", "idle", "settled"}, file' = file,
             Settle(c, Reply(code, NoRow))
      PROVE  Ends(c, Reply(code, NoRow))
    <2>1. Reply(code, NoRow).code \in Codes
        BY DEF Reply, Codes
    <2> QED
        BY <1>1, <1>2, <1>3, <2>1, FallbackPromised DEF Ends
<1>4. CASE CannotOpen(c) \/ BeginFails(c) \/ ReadFails(c)
    <2>1. /\ at[c] \notin {"closed", "idle", "settled"} /\ file' = file
          /\ \/ Settle(c, Reply("OPEN_FAILED", NoRow))
             \/ Settle(c, Reply(Fallback(call[c]), NoRow))
             \/ Settle(c, Reply("READ_FAILED", NoRow))
        BY <1>4 DEF CannotOpen, BeginFails, ReadFails
    <2>2. {"OPEN_FAILED", "READ_FAILED", Fallback(call[c])} \subseteq Failures
        BY DEF Fallback, Failures
    <2> QED
        BY <1>3, <2>1, <2>2
<1>5. CASE CommitUnchanged(c) \/ Publish(c)
    <2>1. at[c] \in {"commit", "publish"} /\ Settle(c, answer[c])
        BY <1>5 DEF CommitUnchanged, Publish
    <2>2. draft[c] \in Store /\ Contract!Promised(call[c], file, draft[c], answer[c])
        BY <2>1 DEF IInv, FreshInv, Fresh
    <2>3. file' = draft[c] /\ (file' # file => lock[c] = "exclusive")
        BY <1>5 DEF CommitUnchanged, Publish, IInv, LockInv
    <2>4. answer[c].code \in Codes
        BY DEF IInv, StoreTypeOK
    <2> QED
        BY <1>2, <2>1, <2>2, <2>3, <2>4 DEF Ends
<1>6. CASE Rollback(c)
    <2>1. at[c] = "rollback" /\ Settle(c, answer[c]) /\ file' = file
        BY <1>6 DEF Rollback
    <2>2. Contract!Promised(call[c], file, file, answer[c]) /\ answer[c].code \in Codes
        BY <2>1 DEF IInv, FreshInv, Fresh, StoreTypeOK
    <2> QED
        BY <1>1, <1>2, <2>1, <2>2 DEF Ends
<1>7. CASE EndRead(c)
    <2>1. PICK reply \in Selected(call[c]) : Settle(c, reply)
        BY <1>7 DEF EndRead
    <2>2. at[c] = "read" /\ file' = file /\ call[c].op \in Reads
        BY <1>7 DEF EndRead, IInv, CallInv
    <2> QED
        BY <1>1, <1>2, <2>1, <2>2, ReadReply DEF Ends
<1> QED
    BY <1>4, <1>5, <1>6, <1>7

\* Ending a call keeps the invariant.
LEMMA EndsKeepsInv ==
    ASSUME IInv, NEW c \in Connection, NEW reply, Ends(c, reply)
    PROVE  IInv'
BY SettleInv DEF Ends

\* The statements in the middle of a call.
LEMMA MiddleKeepsInv ==
    ASSUME IInv, NEW c \in Connection,
           Begin(c) \/ BeginRead(c) \/ Body(c) \/ Commit(c) \/ Fault(c)
    PROVE  IInv' /\ file' = file /\ call' = call
           /\ at[c] # "settled" /\ at'[c] # "settled"
           /\ at' = [at EXCEPT ![c] = at'[c]] /\ answer' = [answer EXCEPT ![c] = answer'[c]]
<1> DEFINE Goal == IInv' /\ file' = file /\ call' = call
                   /\ at[c] # "settled" /\ at'[c] # "settled"
                   /\ at' = [at EXCEPT ![c] = at'[c]]
                   /\ answer' = [answer EXCEPT ![c] = answer'[c]]
<1>1. /\ file \in Store /\ draft[c] \in Store \cup {NoRow}
      /\ answer[c].code \in Codes /\ lock[c] \in Locks
    BY DEF IInv, StoreTypeOK
<1>2. at[c] \notin {"closed", "idle"} => call[c] \in AllCalls
    BY CallsAssumption DEF IInv, CallInv
<1>3. CASE Begin(c)
    <2>1. /\ at[c] = "begin" /\ call[c].op \notin Reads
          /\ \A d \in Connection \ {c} : lock[d] \notin Writer
          /\ file' = file /\ call' = call /\ acknowledged' = acknowledged
          /\ at' = [at EXCEPT ![c] = "body"] /\ lock' = [lock EXCEPT ![c] = "reserved"]
          /\ draft' = [draft EXCEPT ![c] = draft[c]] /\ answer' = [answer EXCEPT ![c] = answer[c]]
        BY <1>3 DEF Begin, Others, IInv, StoreTypeOK
    <2>2. IInv'
        BY <1>1, <2>1, MiddleInv DEF Writer, Locks
    <2> QED
        BY <2>1, <2>2 DEF IInv, StoreTypeOK
<1>4. CASE BeginRead(c)
    <2>1. /\ at[c] = "begin" /\ call[c].op \in Reads
          /\ \A d \in Connection \ {c} : lock[d] # "exclusive"
          /\ file' = file /\ call' = call /\ acknowledged' = acknowledged
          /\ at' = [at EXCEPT ![c] = "read"] /\ lock' = [lock EXCEPT ![c] = "shared"]
          /\ draft' = [draft EXCEPT ![c] = draft[c]] /\ answer' = [answer EXCEPT ![c] = answer[c]]
        BY <1>4 DEF BeginRead, Others, IInv, StoreTypeOK
    <2>2. IInv'
        BY <1>1, <2>1, MiddleInv DEF Writer, Locks
    <2> QED
        BY <2>1, <2>2 DEF IInv, StoreTypeOK
<1>5. ASSUME NEW code, NEW held \in Writer, Abandon(c, code, held), code \in Codes,
             at[c] \in {"body", "commit", "publish"},
             Contract!Promised(call[c], file, file, Reply(code, NoRow)),
             held = "exclusive" => lock[c] = "exclusive"
      PROVE  Goal
    <2>1. /\ call[c].op \notin Reads /\ lock[c] \in Writer
          /\ \A d \in Connection \ {c} : lock[d] \notin Writer
          /\ lock[c] = "exclusive" => \A d \in Connection \ {c} : lock[d] = "none"
        BY <1>5 DEF IInv, CallInv, LockInv, Writer
    <2>2. /\ file' = file /\ call' = call /\ acknowledged' = acknowledged
          /\ at' = [at EXCEPT ![c] = "rollback"] /\ lock' = [lock EXCEPT ![c] = held]
          /\ draft' = [draft EXCEPT ![c] = NoRow]
          /\ answer' = [answer EXCEPT ![c] = Reply(code, NoRow)]
        BY <1>5 DEF Abandon
    <2>3. Reply(code, NoRow).code \in Codes
        BY <1>5 DEF Reply
    <2>4. IInv'
        BY <1>5, <2>1, <2>2, <2>3, MiddleInv DEF Writer, Locks
    <2> QED
        BY <1>5, <2>2, <2>4 DEF IInv, StoreTypeOK
<1>6. CASE Fault(c)
    <2>1. at[c] \in {"body", "commit", "publish"} /\ Abandon(c, Fallback(call[c]), lock[c])
        BY <1>6 DEF Fault
    <2>2. lock[c] \in Writer /\ Fallback(call[c]) \in Failures
        BY <2>1 DEF IInv, LockInv, Writer, Fallback, Failures
    <2> QED
        BY <1>1, <1>2, <1>5, <2>1, <2>2, FallbackPromised
<1>7. CASE Body(c)
    <2> DEFINE result == Outcome(call[c])
    <2>1. at[c] = "body" /\ call[c].op \notin Reads /\ lock[c] = "reserved"
        BY <1>7 DEF Body, IInv, CallInv, LockInv
    <2>2. /\ result.file \in Store /\ result.code \in Codes
          /\ Contract!Promised(call[c], file, result.file, Reply(result.code, NoRow))
          /\ result.code \notin Returned => result.file = file
        BY <1>1, <1>2, <2>1, WriteOutcome DEF IInv, SchemaInv
    <2> HIDE DEF result
    <2>3. CASE result.code \in Returned
        <3>1. /\ at' = [at EXCEPT ![c] = "commit"]
              /\ draft' = [draft EXCEPT ![c] = result.file]
              /\ answer' = [answer EXCEPT ![c] = Reply(result.code, NoRow)]
              /\ lock' = [lock EXCEPT ![c] = lock[c]]
              /\ file' = file /\ call' = call /\ acknowledged' = acknowledged
            BY <1>7, <2>3 DEF Body, result, IInv, StoreTypeOK
        <3>2. Reply(result.code, NoRow).code \in Codes
            BY <2>2 DEF Reply
        <3>3. \A d \in Connection \ {c} : lock[d] \notin Writer
            BY <2>1 DEF IInv, LockInv, Writer
        <3>4. IInv'
            BY <2>1, <2>2, <3>1, <3>2, <3>3, MiddleInv DEF Writer, Locks
        <3> QED
            BY <2>1, <3>1, <3>4 DEF IInv, StoreTypeOK
    <2>4. CASE result.code \notin Returned
        <3>1. Abandon(c, result.code, lock[c])
            BY <1>7, <2>4 DEF Body, result
        <3> QED
            BY <1>5, <2>1, <2>2, <2>4, <3>1 DEF Writer
    <2> QED
        BY <2>3, <2>4
<1>8. CASE Commit(c)
    <2>1. at[c] = "commit" /\ lock[c] = "reserved" /\ call[c].op \notin Reads
        BY <1>8 DEF Commit, IInv, CallInv, LockInv
    <2>2. CASE "shared" \in Others(c)
        <3>1. Abandon(c, Fallback(call[c]), "pending")
            BY <1>8, <2>2 DEF Commit
        <3>2. Fallback(call[c]) \in Failures
            BY DEF Fallback, Failures
        <3> QED
            BY <1>1, <1>2, <1>5, <2>1, <3>1, <3>2, FallbackPromised DEF Writer
    <2>3. CASE "shared" \notin Others(c)
        <3>1. /\ at' = [at EXCEPT ![c] = "publish"] /\ lock' = [lock EXCEPT ![c] = "exclusive"]
              /\ draft' = [draft EXCEPT ![c] = draft[c]]
              /\ answer' = [answer EXCEPT ![c] = answer[c]]
              /\ file' = file /\ call' = call /\ acknowledged' = acknowledged
            BY <1>8, <2>3 DEF Commit, IInv, StoreTypeOK
        <3>2. \A d \in Connection \ {c} : lock[d] = "none"
            BY <2>1, <2>3 DEF IInv, LockInv, StoreTypeOK, Others, Writer, Locks
        <3>3. draft[c] \in Store /\ Contract!Promised(call[c], file, draft[c], answer[c])
            BY <2>1 DEF IInv, FreshInv, Fresh
        <3>4. IInv'
            BY <1>1, <2>1, <3>1, <3>2, <3>3, MiddleInv DEF Writer, Locks
        <3> QED
            BY <2>1, <3>1, <3>4 DEF IInv, StoreTypeOK
    <2> QED
        BY <2>2, <2>3
<1> QED
    BY <1>3, <1>4, <1>6, <1>7, <1>8

\* Receiving an answer keeps the invariant: an acknowledged trace is in the file.
LEMMA ReceiveKeepsInv ==
    ASSUME IInv, NEW c \in Connection, Receive(c)
    PROVE  IInv'
<1> DEFINE stage == IF call[c].op = "open" /\ answer[c].code # "opened" THEN "closed" ELSE "idle"
           told  == IF answer[c].code = "stored" THEN {<<call[c].id, call[c].trace>>} ELSE {}
<1>1. /\ at[c] = "settled" /\ at' = [at EXCEPT ![c] = stage]
      /\ acknowledged' = acknowledged \cup told
      /\ call' = [call EXCEPT ![c] = NoCall] /\ answer' = [answer EXCEPT ![c] = NoAnswer]
      /\ file' = file /\ lock' = lock /\ draft' = draft
    BY DEF Receive
<1>2. stage \in {"closed", "idle"} /\ (stage = "idle" => file.version = "current")
    BY <1>1 DEF IInv, SchemaInv
<1>3. lock' = [lock EXCEPT ![c] = "none"]
    BY <1>1 DEF IInv, LockInv, StoreTypeOK
<1>4. \A stored \in told : stored \in Id \X Trace /\ file.traces[stored[1]] = stored[2]
    <2> SUFFICES ASSUME answer[c].code = "stored"
                 PROVE  /\ <<call[c].id, call[c].trace>> \in Id \X Trace
                        /\ file.traces[call[c].id] = call[c].trace
        OBVIOUS
    <2>1. call[c].op = "putTrace" /\ file.traces[call[c].id] = call[c].trace
        BY <1>1 DEF IInv, AcknowledgedInv
    <2>2. call[c] \in AllCalls
        BY <1>1, CallsAssumption DEF IInv, CallInv
    <2> QED
        BY <2>1, <2>2, CallShapes
<1> HIDE DEF stage, told
<1>5. AcknowledgedIsStored' /\ acknowledged' \subseteq Id \X Trace
    BY <1>1, <1>4 DEF IInv, StoreTypeOK, AcknowledgedInv, AcknowledgedIsStored
<1> QED
    BY <1>1, <1>2, <1>3, <1>5, RestInv

\* Closing a connection, or the death of its process, keeps the invariant.
LEMMA LeaveKeepsInv ==
    ASSUME IInv, NEW c \in Connection, Leave(c)
    PROVE  IInv'
<1>1. /\ at' = [at EXCEPT ![c] = "closed"] /\ lock' = [lock EXCEPT ![c] = "none"]
      /\ call' = [call EXCEPT ![c] = NoCall] /\ draft' = [draft EXCEPT ![c] = NoRow]
      /\ answer' = [answer EXCEPT ![c] = NoAnswer]
      /\ file' = file /\ acknowledged' = acknowledged
    BY DEF Leave
<1>2. AcknowledgedIsStored' /\ acknowledged' \subseteq Id \X Trace
    BY <1>1 DEF IInv, StoreTypeOK, AcknowledgedInv, AcknowledgedIsStored
<1> QED
    BY <1>1, <1>2, RestInv

\* Every step keeps the invariant.
LEMMA StepKeepsInv == IInv /\ [Next]_vars => IInv'
<1> SUFFICES ASSUME IInv, [Next]_vars PROVE IInv'
    OBVIOUS
<1>1. CASE UNCHANGED vars
    BY <1>1 DEF vars, IInv, StoreTypeOK, CallInv, LockInv, FreshInv, Fresh, SchemaInv,
                AcknowledgedInv, AcknowledgedIsStored
<1>2. ASSUME NEW c \in Connection, Call(c) PROVE IInv'
    BY <1>2, CallKeepsInv
<1>3. ASSUME NEW c \in Connection, Leave(c) PROVE IInv'
    BY <1>3, LeaveKeepsInv
<1>4. ASSUME NEW c \in Connection, Statement(c) PROVE IInv'
    <2>1. CASE Receive(c)
        BY <2>1, ReceiveKeepsInv
    <2>2. CASE Begin(c) \/ BeginRead(c) \/ Body(c) \/ Commit(c) \/ Fault(c)
        BY <2>2, MiddleKeepsInv
    <2>3. CASE \/ CannotOpen(c) \/ BeginFails(c) \/ CommitUnchanged(c) \/ Publish(c)
               \/ Rollback(c) \/ EndRead(c) \/ ReadFails(c)
        BY <2>3, StatementEnds, EndsKeepsInv
    <2> QED
        BY <1>4, <2>1, <2>2, <2>3 DEF Statement
<1> QED
    BY <1>1, <1>2, <1>3, <1>4 DEF Next

-----------------------------------------------------------------------------
(* Theorems. *)

\* The invariant, for any number of connections, any calls and any initial file
\* (sqlite-database.ts: openDatabase, inTransaction).
THEOREM StoreInvariant == Spec => []IInv
<1>1. IInv /\ [Next]_vars => IInv'
    BY StepKeepsInv
<1> QED
    BY InitInv, <1>1, PTL DEF Spec

\* The variables keep their types.
THEOREM StoreTypeCorrect == Spec => []StoreTypeOK
<1>1. IInv => StoreTypeOK
    BY DEF IInv
<1> QED
    BY <1>1, StoreInvariant, PTL

\* A call that is over holds no lock, and no two connections write at once.
THEOREM LocksEndWithCalls == Spec => []NoLockOutlivesItsCall
<1>1. ASSUME LockInv PROVE NoLockOutlivesItsCall
    <2> SUFFICES ASSUME NEW c \in Connection
                 PROVE  /\ at[c] \in {"closed", "idle", "begin", "settled"} => lock[c] = "none"
                        /\ lock[c] \in Writer => Others(c) \cap Writer = {}
                        /\ lock[c] = "exclusive" => Others(c) \subseteq {"none"}
        BY DEF NoLockOutlivesItsCall
    <2>1. at[c] \in {"closed", "idle", "begin", "settled"} => lock[c] = "none"
        BY <1>1 DEF LockInv
    <2>2. lock[c] \in Writer => Others(c) \cap Writer = {}
        BY <1>1 DEF LockInv, Others
    <2>3. lock[c] = "exclusive" => Others(c) \subseteq {"none"}
        BY <1>1 DEF LockInv, Others
    <2> QED
        BY <2>1, <2>2, <2>3
<1>2. IInv => NoLockOutlivesItsCall
    BY <1>1 DEF IInv
<1> QED
    BY <1>2, StoreInvariant, PTL

\* A trace that was acknowledged is in the file for ever after.
THEOREM AcknowledgedTracesSurvive == Spec => []AcknowledgedIsStored
<1>1. IInv => AcknowledgedIsStored
    BY DEF IInv, AcknowledgedInv
<1> QED
    BY <1>1, StoreInvariant, PTL

\* What a step may do to the file: nothing, or what its call is promised.
LEMMA FileChanges ==
    ASSUME IInv, [Next]_vars, file' # file
    PROVE  /\ file \in Store /\ file' \in Store
           /\ \E c \in Connection : \E reply : Ends(c, reply)
<1>1. ASSUME NEW c \in Connection, Statement(c) PROVE \E reply : Ends(c, reply)
    <2>1. CASE \/ CannotOpen(c) \/ BeginFails(c) \/ CommitUnchanged(c) \/ Publish(c)
               \/ Rollback(c) \/ EndRead(c) \/ ReadFails(c)
        BY <2>1, StatementEnds
    <2>2. CASE Begin(c) \/ BeginRead(c) \/ Body(c) \/ Commit(c) \/ Fault(c)
        BY <2>2, MiddleKeepsInv
    <2>3. CASE Receive(c)
        BY <2>3 DEF Receive
    <2> QED
        BY <1>1, <2>1, <2>2, <2>3 DEF Statement
<1>2. \E c \in Connection : Statement(c)
    BY DEF Next, vars, Call, Leave
<1>3. file \in Store /\ file' \in Store
    BY StepKeepsInv DEF IInv, StoreTypeOK
<1> QED
    BY <1>1, <1>2, <1>3

\* A row of the trace table is never replaced, repaired or removed.
THEOREM TracesAreWrittenOnce == Spec => StoredTraceNeverChanges
<1> DEFINE Kept == \A id \in Id : file.traces[id] # NoRow => file'.traces[id] = file.traces[id]
<1>1. ASSUME IInv, [Next]_vars PROVE [Kept]_vars
    <2>1. CASE file' = file
        BY <2>1
    <2>2. CASE file' # file
        <3>1. PICK c \in Connection : \E reply : Ends(c, reply)
            BY <1>1, <2>2, FileChanges
        <3>2. PICK reply : Ends(c, reply)
            BY <3>1
        <3> QED
            BY <1>1, <2>2, <3>2, FileChanges, PromisedFacts DEF Ends
    <2> QED
        BY <2>1, <2>2
<1>2. IInv /\ [Next]_vars => [Kept]_vars
    BY <1>1
<1> QED
    BY <1>2, StoreInvariant, PTL DEF Spec, StoredTraceNeverChanges

\* A file of another schema is never written, nor is one left half migrated.
THEOREM OnlyWholeSchemaIsWritten == Spec => WritesOnlyWholeSchema
<1> DEFINE Whole == file' # file =>
                /\ file.version \in {"absent", "current"}
                /\ file'.version = "current" /\ file'.tables
<1>1. ASSUME IInv, [Next]_vars PROVE [Whole]_vars
    <2> SUFFICES ASSUME file' # file PROVE Whole
        OBVIOUS
    <2>0. PICK c \in Connection : \E reply : Ends(c, reply)
        BY <1>1, FileChanges
    <2>1. PICK reply : Ends(c, reply)
        BY <2>0
    <2>2. /\ file \in Store /\ file' \in Store /\ call[c] \in AllCalls
          /\ Contract!Promised(call[c], file, file', reply)
          /\ at[c] \notin {"closed", "settled"}
        BY <1>1, <2>1, FileChanges DEF Ends
    <2>3. CASE call[c].op = "open"
        BY <2>2, <2>3, PromisedFacts
    <2>4. CASE call[c].op # "open"
        <3>1. file.version = "current" /\ (file.version = "current" => file.tables)
            BY <1>1, <2>2, <2>4 DEF IInv, SchemaInv
        <3> QED
            BY <2>2, <3>1, PromisedFacts
    <2> QED
        BY <2>3, <2>4
<1>2. IInv /\ [Next]_vars => [Whole]_vars
    BY <1>1
<1> QED
    BY <1>2, StoreInvariant, PTL DEF Spec, WritesOnlyWholeSchema

\* Every step is a step of the contract, or none: what a call is told is right
\* at the one moment it is over (packages/ports/src, INV-STORE-003).
THEOREM StoreKeepsItsContract == Spec => ImplementsStoreContract
<1> DEFINE mcall   == [c \in Connection |-> IF at[c] = "settled" THEN NoCall ELSE call[c]]
           manswer == [c \in Connection |-> IF at[c] = "settled" THEN answer[c] ELSE NoAnswer]
<1>1. Init => Contract!Init
    <2> SUFFICES ASSUME Init PROVE Contract!Init
        OBVIOUS
    <2>1. file \in Contract!Store
        BY FilesAssumption DEF Init, Store, Contract!Store, Contract!Version, Version, Contract!Key,
                               Key, Contract!Trace, Trace
    <2> QED
        BY <2>1 DEF Init, Contract!Init, Contract!NoCall, NoCall, Contract!NoAnswer, NoAnswer
<1>2. ASSUME IInv, NEW c \in Connection, NEW reply, Ends(c, reply)
      PROVE  Contract!Tell(c)
    <2>1. /\ at' = [at EXCEPT ![c] = "settled"] /\ call' = call
          /\ answer' = [answer EXCEPT ![c] = reply]
        BY <1>2 DEF Ends, Settle
    <2>2. mcall' = [mcall EXCEPT ![c] = NoCall]
        BY <1>2, <2>1 DEF IInv, StoreTypeOK
    <2>3. manswer' = [manswer EXCEPT ![c] = reply]
        BY <1>2, <2>1 DEF IInv, StoreTypeOK
    <2>4. mcall[c] = call[c] /\ call[c] # NoCall /\ manswer'[c] = reply
        BY <1>2, <2>3, CallShapes DEF Ends
    <2> HIDE DEF mcall, manswer
    <2>5. Contract!Promised(mcall[c], file, file', manswer'[c])
        BY <1>2, <2>4 DEF Ends
    <2> QED
        BY <2>2, <2>3, <2>4, <2>5 DEF Contract!Tell, Contract!NoCall, NoCall, mcall, manswer
<1>3. ASSUME IInv, NEW c \in Connection,
             Begin(c) \/ BeginRead(c) \/ Body(c) \/ Commit(c) \/ Fault(c)
      PROVE  file' = file /\ mcall' = mcall /\ manswer' = manswer
    <2>1. /\ file' = file /\ call' = call /\ at[c] # "settled" /\ at'[c] # "settled"
          /\ at' = [at EXCEPT ![c] = at'[c]] /\ answer' = [answer EXCEPT ![c] = answer'[c]]
        BY <1>3, MiddleKeepsInv
    <2>2. \A d \in Connection : (at'[d] = "settled") = (at[d] = "settled")
        BY <1>3, <2>1 DEF IInv, StoreTypeOK
    <2>3. \A d \in Connection : at[d] = "settled" => answer'[d] = answer[d]
        BY <1>3, <2>1 DEF IInv, StoreTypeOK
    <2> QED
        BY <2>1, <2>2, <2>3
<1>4. ASSUME IInv, NEW c \in Connection, Call(c)
      PROVE  Contract!Ask(c)
    <2>1. PICK op \in Calls : call' = [call EXCEPT ![c] = op]
        BY <1>4 DEF Call
    <2>2. /\ at[c] \in {"closed", "idle"} /\ at' = [at EXCEPT ![c] = "begin"]
          /\ file' = file /\ answer' = answer
        BY <1>4 DEF Call
    <2>3. mcall[c] = NoCall /\ manswer[c] = NoAnswer
        BY <1>4, <2>2 DEF IInv, CallInv
    <2>4. mcall' = [mcall EXCEPT ![c] = op]
        BY <1>4, <2>1, <2>2 DEF IInv, StoreTypeOK
    <2>5. manswer' = manswer
        BY <1>4, <2>2 DEF IInv, StoreTypeOK
    <2> QED
        BY <2>1, <2>2, <2>3, <2>4, <2>5 DEF Contract!Ask, Contract!NoCall, NoCall,
                                            Contract!NoAnswer, NoAnswer
<1>5. ASSUME IInv, NEW c \in Connection, Receive(c)
      PROVE  Contract!Receive(c)
    <2>1. /\ at[c] = "settled" /\ \E stage \in {"closed", "idle"} : at' = [at EXCEPT ![c] = stage]
          /\ call' = [call EXCEPT ![c] = NoCall] /\ answer' = [answer EXCEPT ![c] = NoAnswer]
          /\ file' = file
        BY <1>5 DEF Receive
    <2>2. mcall' = mcall
        BY <1>5, <2>1 DEF IInv, StoreTypeOK
    <2>3. manswer' = [manswer EXCEPT ![c] = NoAnswer]
        BY <1>5, <2>1 DEF IInv, StoreTypeOK
    <2> QED
        BY <2>1, <2>2, <2>3 DEF Contract!Receive, Contract!NoAnswer, NoAnswer
<1>6. ASSUME IInv, NEW c \in Connection, Leave(c)
      PROVE  Contract!Vanish(c)
    <2>1. /\ at' = [at EXCEPT ![c] = "closed"]
          /\ call' = [call EXCEPT ![c] = NoCall] /\ answer' = [answer EXCEPT ![c] = NoAnswer]
          /\ file' = file
        BY <1>6 DEF Leave
    <2>2. mcall' = [mcall EXCEPT ![c] = NoCall]
        BY <1>6, <2>1 DEF IInv, StoreTypeOK
    <2>3. manswer' = [manswer EXCEPT ![c] = NoAnswer]
        BY <1>6, <2>1 DEF IInv, StoreTypeOK
    <2> QED
        BY <2>1, <2>2, <2>3 DEF Contract!Vanish, Contract!NoCall, NoCall,
                                Contract!NoAnswer, NoAnswer
<1> DEFINE Step == Contract!Next \/ (file' = file /\ mcall' = mcall /\ manswer' = manswer)
<1>7. ASSUME IInv, [Next]_vars PROVE Step
    <2>1. CASE UNCHANGED vars
        BY <2>1 DEF vars
    <2>2. ASSUME NEW c \in Connection, Statement(c) PROVE Step
        <3>1. CASE Receive(c)
            BY <1>5, <1>7, <3>1 DEF Contract!Next
        <3>2. CASE Begin(c) \/ BeginRead(c) \/ Body(c) \/ Commit(c) \/ Fault(c)
            BY <1>3, <1>7, <3>2
        <3>3. CASE \/ CannotOpen(c) \/ BeginFails(c) \/ CommitUnchanged(c) \/ Publish(c)
                   \/ Rollback(c) \/ EndRead(c) \/ ReadFails(c)
            <4>1. PICK reply : Ends(c, reply)
                BY <1>7, <3>3, StatementEnds
            <4> QED
                BY <1>2, <1>7, <4>1 DEF Contract!Next
        <3> QED
            BY <2>2, <3>1, <3>2, <3>3 DEF Statement
    <2>3. ASSUME NEW c \in Connection, Call(c) \/ Leave(c) PROVE Step
        BY <1>4, <1>6, <1>7, <2>3 DEF Contract!Next
    <2> QED
        BY <1>7, <2>1, <2>2, <2>3 DEF Next
<1>8. IInv /\ [Next]_vars => [Contract!Next]_<<file, mcall, manswer>>
    BY <1>7
<1> QED
    BY <1>1, <1>8, StoreInvariant, PTL DEF Spec, ImplementsStoreContract, Contract!Spec

=============================================================================
