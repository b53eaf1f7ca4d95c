----------------------------- MODULE SqliteStore -----------------------------
(***************************************************************************)
(* SQLiteTraceStore and SQLiteControlStore over one database file            *)
(* (packages/adapters/src/sqlite-*.ts): every connection, of the API server  *)
(* or of a command line run, takes its transaction statement by statement    *)
(* while others do the same, any statement may fail, and any process may die *)
(* between two statements.                                                   *)
(*                                                                           *)
(* SQLite itself is external: the code opens the file with its defaults, a   *)
(* rollback journal and no busy timeout, so a statement that finds a lock    *)
(* taken fails at once. removeSource is one DELETE outside any transaction:  *)
(* SQLite wraps it in one of its own, which takes the same locks.            *)
(***************************************************************************)
EXTENDS StoreData

\* What the file may hold when the first process opens it: whoever recorded the
\* current version created the tables in the same transaction.
CONSTANT Files
ASSUME FilesAssumption ==
    Files \subseteq Store /\ \A f \in Files : f.version = "current" => f.tables

VARIABLES
    file,          \* the published content of the database file
    at,            \* the statement each connection executes next
    lock,          \* the lock each connection holds on the file
    call,          \* the call it is making
    draft,         \* the content its open transaction would publish
    answer,        \* what its call resolves to or is rejected with
    acknowledged   \* the traces some caller was told are stored

vars == <<file, at, lock, call, draft, answer, acknowledged>>

Stages == {"closed", "idle", "begin", "body", "commit", "publish", "rollback",
           "read", "settled"}
Writer == {"reserved", "pending", "exclusive"}
Locks  == {"none", "shared"} \cup Writer
Reads  == {"getTrace", "listSources"}
Codes  == Failures \cup
    {"none", "opened", "stored", "found", "missing", "registered", "updated", "removed",
     "absent", "listed", "UNSUPPORTED_SCHEMA_VERSION", "INVALID_STORED_DATA",
     "TRACE_CONFLICT", "SOURCE_CONFLICT", "SOURCE_NOT_FOUND"}

\* The variables keep their types; an answer carries a code of the store errors
\* or one of the successes.
StoreTypeOK ==
    /\ file \in Store
    /\ at \in [Connection -> Stages]
    /\ lock \in [Connection -> Locks]
    /\ call \in [Connection -> Calls \cup {NoCall}]
    /\ draft \in [Connection -> Store \cup {NoRow}]
    /\ answer = [c \in Connection |-> answer[c]]
    /\ \A c \in Connection : answer[c].code \in Codes
    /\ acknowledged \subseteq Id \X Trace

Init ==
    /\ file \in Files
    /\ at = [c \in Connection |-> "closed"]
    /\ lock = [c \in Connection |-> "none"]
    /\ call = [c \in Connection |-> NoCall]
    /\ draft = [c \in Connection |-> NoRow]
    /\ answer = [c \in Connection |-> NoAnswer]
    /\ acknowledged = {}

-----------------------------------------------------------------------------
(* What the body of each transaction answers and would publish. *)

Effect(code, content) == [code |-> code, file |-> content]
Refused(code)         == Effect(code, file)

\* Defect: the metadata row is never inserted.
MigrateUnversioned ==
    IF file.version = "newer" THEN Refused("UNSUPPORTED_SCHEMA_VERSION")
    ELSE IF file.version = "unreadable" THEN Refused("INVALID_STORED_DATA")
    ELSE Effect("opened", [file EXCEPT !.tables = TRUE])

\* CREATE TABLE fails on a table that exists.
Migrate ==
    CASE file.version = "newer" -> Refused("UNSUPPORTED_SCHEMA_VERSION")
      [] file.version = "unreadable" -> Refused("INVALID_STORED_DATA")
      [] file.version = "current" -> Effect("opened", file)
      [] file.version = "absent" /\ file.tables -> Refused("MIGRATION_FAILED")
      [] OTHER -> Effect("opened", [file EXCEPT !.version = "current", !.tables = TRUE])

\* Defect: INSERT OR IGNORE, an existing row is taken for the record.
PutTraceOrIgnore(id, trace) ==
    IF file.traces[id] # NoRow THEN Effect("stored", file)
    ELSE Effect("stored", [file EXCEPT !.traces[id] = trace])

PutTrace(id, trace) ==
    CASE file.traces[id] = NoRow -> Effect("stored", [file EXCEPT !.traces[id] = trace])
      [] file.traces[id] = trace -> Effect("stored", file)
      [] file.traces[id] = Unreadable -> Refused("INVALID_STORED_DATA")
      [] OTHER -> Refused("TRACE_CONFLICT")

RegisterSource(key, fields) ==
    IF file.sources[key] # NoRow THEN Refused("SOURCE_CONFLICT")
    ELSE Effect("registered", [file EXCEPT !.sources[key] = fields])

UpdateSource(key, fields) ==
    IF file.sources[key] = NoRow THEN Refused("SOURCE_NOT_FOUND")
    ELSE Effect("updated", [file EXCEPT !.sources[key] = fields])

RemoveSource(key) ==
    Effect(IF file.sources[key] = NoRow THEN "absent" ELSE "removed",
           [file EXCEPT !.sources[key] = NoRow])

Outcome(c) ==
    CASE c.op = "open"           -> Migrate
      [] c.op = "putTrace"       -> PutTrace(c.id, c.trace)
      [] c.op = "registerSource" -> RegisterSource(c.key, c.fields)
      [] c.op = "updateSource"   -> UpdateSource(c.key, c.fields)
      [] c.op = "removeSource"   -> RemoveSource(c.key)

\* The body returned; otherwise it threw, and the transaction is rolled back.
Returned == {"opened", "stored", "registered", "updated", "absent", "removed"}

\* The code a driver failure is translated to.
Fallback(c) ==
    CASE c.op = "open" -> "MIGRATION_FAILED"
      [] c.op \in Reads -> "READ_FAILED"
      [] OTHER -> "WRITE_FAILED"

-----------------------------------------------------------------------------
(* Reads: one SELECT, and every row of it decoded. *)

Reply(code, value) == [code |-> code, value |-> value]

\* The row is selected by identifier and scope key, so a row whose columns are
\* damaged may or may not be found.
GetTrace(id, scope) ==
    LET row == file.traces[id] IN
    CASE row = NoRow -> {Reply("missing", NoRow)}
      [] row = Unreadable -> {Reply("missing", NoRow), Reply("INVALID_STORED_DATA", NoRow)}
      [] OTHER -> {IF row.scope = scope THEN Reply("found", row) ELSE Reply("missing", NoRow)}

ListSources(scope) ==
    LET rows == { k \in Key : k.scope = scope /\ file.sources[k] # NoRow } IN
    IF \E k \in rows : file.sources[k] = Unreadable
    THEN {Reply("INVALID_STORED_DATA", NoRow)}
    ELSE {Reply("listed", [k \in rows |-> file.sources[k]])}

Selected(c) ==
    IF c.op = "getTrace" THEN GetTrace(c.id, c.scope) ELSE ListSources(c.scope)

-----------------------------------------------------------------------------
(* Statements. *)

Others(c) == { lock[d] : d \in Connection \ {c} }

\* The promise settles: the transaction is over and its lock is released.
Settle(c, reply) ==
    /\ at' = [at EXCEPT ![c] = "settled"]
    /\ lock' = [lock EXCEPT ![c] = "none"]
    /\ draft' = [draft EXCEPT ![c] = NoRow]
    /\ answer' = [answer EXCEPT ![c] = reply]
    /\ UNCHANGED <<call, acknowledged>>

\* A statement failed inside a transaction: ROLLBACK comes next.
Abandon(c, code, held) ==
    /\ at' = [at EXCEPT ![c] = "rollback"]
    /\ lock' = [lock EXCEPT ![c] = held]
    /\ draft' = [draft EXCEPT ![c] = NoRow]
    /\ answer' = [answer EXCEPT ![c] = Reply(code, NoRow)]
    /\ UNCHANGED <<file, call, acknowledged>>

\* A constructor runs on a handle that is not open yet; every other call on one that is.
Call(c) ==
    /\ at[c] \in {"closed", "idle"}
    /\ \E op \in Calls :
        /\ (op.op = "open") = (at[c] = "closed")
        /\ call' = [call EXCEPT ![c] = op]
    /\ at' = [at EXCEPT ![c] = "begin"]
    /\ UNCHANGED <<file, lock, draft, answer, acknowledged>>

CannotOpen(c) ==
    /\ at[c] = "begin" /\ call[c].op = "open"
    /\ Settle(c, Reply("OPEN_FAILED", NoRow))
    /\ UNCHANGED file

\* Defect: check and write are two statements with no transaction around them.
BeginUnlocked(c) ==
    /\ at[c] = "begin" /\ call[c].op \notin Reads
    /\ at' = [at EXCEPT ![c] = "body"]
    /\ UNCHANGED <<file, lock, call, draft, answer, acknowledged>>

\* BEGIN IMMEDIATE takes the reserved lock; it is outside the try block.
Begin(c) ==
    /\ at[c] = "begin" /\ call[c].op \notin Reads
    /\ Others(c) \cap Writer = {}
    /\ lock' = [lock EXCEPT ![c] = "reserved"]
    /\ at' = [at EXCEPT ![c] = "body"]
    /\ UNCHANGED <<file, call, draft, answer, acknowledged>>

\* Defect: BEGIN waits for a lock that is taken, without a timeout.
BeginWaits(c) ==
    /\ at[c] = "begin" /\ call[c].op \notin Reads
    /\ Others(c) \cap Writer = {}
    /\ Settle(c, Reply(Fallback(call[c]), NoRow))
    /\ UNCHANGED file

\* Another connection is writing, or the statement failed.
BeginFails(c) ==
    /\ at[c] = "begin" /\ call[c].op \notin Reads
    /\ Settle(c, Reply(Fallback(call[c]), NoRow))
    /\ UNCHANGED file

Body(c) ==
    /\ at[c] = "body"
    /\ LET result == Outcome(call[c]) IN
       IF result.code \in Returned
       THEN /\ at' = [at EXCEPT ![c] = "commit"]
            /\ draft' = [draft EXCEPT ![c] = result.file]
            /\ answer' = [answer EXCEPT ![c] = Reply(result.code, NoRow)]
            /\ UNCHANGED <<file, lock, call, acknowledged>>
       ELSE Abandon(c, result.code, lock[c])

\* A transaction that changed nothing needs no further lock.
CommitUnchanged(c) ==
    /\ at[c] = "commit" /\ draft[c] = file
    /\ Settle(c, answer[c])
    /\ UNCHANGED file

\* COMMIT waits for no reader: it fails while one holds the file.
Commit(c) ==
    /\ at[c] = "commit" /\ draft[c] # file
    /\ IF "shared" \in Others(c)
       THEN Abandon(c, Fallback(call[c]), "pending")
       ELSE /\ at' = [at EXCEPT ![c] = "publish"]
            /\ lock' = [lock EXCEPT ![c] = "exclusive"]
            /\ UNCHANGED <<file, call, draft, answer, acknowledged>>

\* The journal is deleted: the transaction is durable.
Publish(c) ==
    /\ at[c] = "publish"
    /\ file' = draft[c]
    /\ Settle(c, answer[c])

\* A statement of the transaction fails in the driver or on the disk.
Fault(c) ==
    /\ at[c] \in {"body", "commit", "publish"}
    /\ Abandon(c, Fallback(call[c]), lock[c])

\* Defect: the failure escapes with the transaction still open.
RollbackMissing(c) ==
    /\ at[c] = "rollback"
    /\ at' = [at EXCEPT ![c] = "settled"]
    /\ UNCHANGED <<file, lock, call, draft, answer, acknowledged>>

Rollback(c) ==
    /\ at[c] = "rollback"
    /\ Settle(c, answer[c])
    /\ UNCHANGED file

BeginRead(c) ==
    /\ at[c] = "begin" /\ call[c].op \in Reads
    /\ Others(c) \cap {"pending", "exclusive"} = {}
    /\ at' = [at EXCEPT ![c] = "read"]
    /\ lock' = [lock EXCEPT ![c] = "shared"]
    /\ UNCHANGED <<file, call, draft, answer, acknowledged>>

EndRead(c) ==
    /\ at[c] = "read"
    /\ \E reply \in Selected(call[c]) : Settle(c, reply)
    /\ UNCHANGED file

\* A writer is about to publish, or the statement failed.
ReadFails(c) ==
    /\ at[c] \in {"begin", "read"} /\ call[c].op \in Reads
    /\ Settle(c, Reply("READ_FAILED", NoRow))
    /\ UNCHANGED file

\* The caller receives the answer. A constructor that threw leaves no handle.
Receive(c) ==
    /\ at[c] = "settled"
    /\ at' = [at EXCEPT ![c] =
                IF call[c].op = "open" /\ answer[c].code # "opened" THEN "closed" ELSE "idle"]
    /\ acknowledged' = acknowledged \cup
         IF answer[c].code = "stored" THEN {<<call[c].id, call[c].trace>>} ELSE {}
    /\ call' = [call EXCEPT ![c] = NoCall]
    /\ answer' = [answer EXCEPT ![c] = NoAnswer]
    /\ UNCHANGED <<file, lock, draft>>

\* close(), or the process dies: the operating system drops its locks and the
\* next connection rolls back what was not published.
Leave(c) ==
    /\ at[c] # "closed"
    /\ at' = [at EXCEPT ![c] = "closed"]
    /\ lock' = [lock EXCEPT ![c] = "none"]
    /\ call' = [call EXCEPT ![c] = NoCall]
    /\ draft' = [draft EXCEPT ![c] = NoRow]
    /\ answer' = [answer EXCEPT ![c] = NoAnswer]
    /\ UNCHANGED <<file, acknowledged>>

Statement(c) ==
    \/ CannotOpen(c) \/ Begin(c) \/ BeginFails(c) \/ Body(c)
    \/ CommitUnchanged(c) \/ Commit(c) \/ Publish(c) \/ Fault(c) \/ Rollback(c)
    \/ BeginRead(c) \/ EndRead(c) \/ ReadFails(c) \/ Receive(c)

Next == \E c \in Connection : Call(c) \/ Statement(c) \/ Leave(c)

\* A call is synchronous code: its process runs it to the end unless it dies.
Spec == Init /\ [][Next]_vars /\ \A c \in Connection : WF_vars(Statement(c))

-----------------------------------------------------------------------------
(* Properties. *)

\* Whatever the other connections do between two statements, and whichever
\* statement fails, each call takes effect at one moment as its port promises
\* (INV-STORE-003: check and write in one immediate transaction).
Contract == INSTANCE StoreContract WITH
    store  <- file,
    call   <- [c \in Connection |-> IF at[c] = "settled" THEN NoCall ELSE call[c]],
    answer <- [c \in Connection |-> IF at[c] = "settled" THEN answer[c] ELSE NoAnswer]
ImplementsStoreContract == Contract!Spec

\* A trace is written once: no call, race, failure or crash replaces, repairs
\* or removes the row of an identifier, readable or not (INV-STORE-002).
StoredTraceNeverChanges ==
    [][\A id \in Id : file.traces[id] # NoRow => file'.traces[id] = file.traces[id]]_vars

\* A caller who was told that a trace is stored finds exactly that trace in the
\* file for ever after, across crashes: putTrace never answers for a row that
\* is not the record (sqlite-trace-store.ts, putTrace).
AcknowledgedIsStored == \A stored \in acknowledged : file.traces[stored[1]] = stored[2]

\* Nothing is ever written to a file of another schema, and no file is left
\* half migrated: every published content has the tables and the version
\* together (migrateToCurrentSchema).
WritesOnlyWholeSchema ==
    [][file' # file =>
        /\ file.version \in {"absent", "current"}
        /\ file'.version = "current" /\ file'.tables]_vars

\* A call that is over left no transaction open, whichever statement failed, so
\* it blocks nobody; and no two connections write at once (inTransaction).
NoLockOutlivesItsCall ==
    \A c \in Connection :
        /\ at[c] \in {"closed", "idle", "begin", "settled"} => lock[c] = "none"
        /\ lock[c] \in Writer => Others(c) \cap Writer = {}
        /\ lock[c] = "exclusive" => Others(c) \subseteq {"none"}

\* Every call is answered however many connections contend: a taken lock is a
\* failure, never a wait, so no two callers can wait for each other.
CallsAnswered ==
    \A c \in Connection : at[c] = "begin" ~> at[c] \in {"idle", "closed"}

=============================================================================
