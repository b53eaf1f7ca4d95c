------------------------------ MODULE StoreData ------------------------------
(***************************************************************************)
(* The content of the local database and the calls its ports accept         *)
(* (packages/ports/src, packages/adapters/src/sqlite-*.ts): source           *)
(* registrations by logical key, settled traces by compilation identifier,   *)
(* and the schema version the file records.                                  *)
(***************************************************************************)

CONSTANTS Connection,   \* open handles on one database file, in any process
          Scope, Name,  \* a registration is identified by its scope and name
          Fields,       \* the mutable fields of a registration
          Id,           \* compilation identifiers
          Payload,      \* what a settled trace says
          Calls,        \* the calls a connection may make
          NoRow,        \* there is no row
          Unreadable    \* a row this build cannot decode

Key     == [scope : Scope, name : Name]
Trace   == [scope : Scope, payload : Payload]
Version == {"absent", "current", "newer", "unreadable"}

\* The file: its recorded version, whether the two tables exist, and their rows.
Store ==
    [ version : Version,
      tables  : BOOLEAN,
      sources : [Key -> Fields \cup {NoRow, Unreadable}],
      traces  : [Id -> Trace \cup {NoRow, Unreadable}] ]

AllCalls ==
    [op : {"open"}]
    \cup [op : {"putTrace"}, id : Id, trace : Trace]
    \cup [op : {"getTrace"}, id : Id, scope : Scope]
    \cup [op : {"registerSource", "updateSource"}, key : Key, fields : Fields]
    \cup [op : {"removeSource"}, key : Key]
    \cup [op : {"listSources"}, scope : Scope]

NoCall   == [op |-> "none"]
NoAnswer == [code |-> "none", value |-> NoRow]

ASSUME CallsAssumption == Calls \subseteq AllCalls
ASSUME RowsAssumption ==
    /\ NoRow # Unreadable
    /\ NoRow \notin Fields \cup Trace
    /\ Unreadable \notin Fields \cup Trace

\* A call that could not be completed: the driver failed, or a lock was taken.
Failures == {"OPEN_FAILED", "MIGRATION_FAILED", "WRITE_FAILED", "READ_FAILED"}

=============================================================================
