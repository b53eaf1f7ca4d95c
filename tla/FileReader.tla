----------------------------- MODULE FileReader -----------------------------
(***************************************************************************)
(* NodeFileSourceReader.read: one system call per action, in a directory   *)
(* other processes change meanwhile.  A path is a sequence of names.  The  *)
(* entry a path leads to is a link to a path, an inode, or nothing; the    *)
(* directories above are the operator's and do not change.                 *)
(***************************************************************************)
EXTENDS Naturals, Sequences, FiniteSets, SequencesExt

CONSTANTS Requests,       \* what is asked for: [form, segments]
          Root,           \* the configured directory, resolved
          Trees,          \* first states of the tree: functions of paths to entries
          Contents,       \* what a file may hold: sequences of bytes, "bad" for one no UTF-8 text has
          Disks,          \* first states of the inodes: functions to [type, bytes]
          MaxBytes,       \* the configured limit
          Chunk,          \* the most bytes one call reads, 65536 in the code
          Entries,        \* what others may put at a path
          MaxChanges      \* bound: changes others make during the call

ASSUME ReaderAssumption ==
    /\ MaxBytes \in Nat \ {0} /\ Chunk \in Nat \ {0} /\ MaxChanges \in Nat

\* The entries there are lead to inodes of the disk.
ASSUME DisksAssumption ==
    \A d \in Disks :
        /\ d \in [DOMAIN d -> [type : STRING, bytes : Seq(STRING)]]
        /\ \A e \in Entries \cup UNION { Range(t) : t \in Trees } :
              /\ e.kind \in {"nothing", "link", "inode"}
              /\ e.kind = "inode" => e.inode \in DOMAIN d
ASSUME ContentsAssumption == Contents \subseteq Seq(STRING)

Nothing    == [kind |-> "nothing"]
Link(path) == [kind |-> "link", to |-> path]
Inode(i)   == [kind |-> "inode", inode |-> i]

VARIABLES tree,      \* the entry of every path
          disk,      \* the inodes
          step,      \* the system call the reader makes next, or how the call ended
          request,
          target,    \* the path the locator resolved to
          before,    \* the inode stat() found at the target
          handle,    \* the inode held open, if one is: {} or {inode}
          verdict,   \* how the call will end once the handle is closed
          size,      \* its size when it was opened
          bytes,     \* what has been read
          stood,     \* ghost: <<path, inode>> pairs seen since the call began
          written,   \* ghost: inodes written since
          changes

call  == << request, target, before, size, bytes >>
ghost == << stood, written, changes >>
vars  == << tree, disk, step, call, handle, verdict, ghost >>

Running ==
    step \in {"validate", "root", "target", "stat", "open", "fstat", "root again", "target again", "chunk", "close"}

EntriesOf(t) == { << p, t[p].inode >> : p \in { q \in DOMAIN t : t[q].kind = "inode" } }

Init ==
    /\ tree \in Trees /\ disk \in Disks /\ request \in Requests
    /\ step = "validate" /\ target = <<>> /\ before = 0 /\ handle = {} /\ verdict = ""
    /\ size = 0 /\ bytes = <<>>
    /\ stood = EntriesOf(tree) /\ written = {} /\ changes = 0

-----------------------------------------------------------------------------
(* Other processes: rename, unlink, link and write.                        *)

Relink(path, entry) ==
    /\ Running /\ changes < MaxChanges /\ tree[path] # entry
    /\ tree' = [tree EXCEPT ![path] = entry]
    /\ stood' = stood \cup EntriesOf(tree')
    /\ changes' = changes + 1
    /\ UNCHANGED << disk, step, call, handle, verdict, written >>

Write(i, content) ==
    /\ Running /\ changes < MaxChanges /\ disk[i].type = "file" /\ disk[i].bytes # content
    /\ disk' = [disk EXCEPT ![i] = [type |-> "file", bytes |-> content]]
    /\ written' = written \cup {i}
    /\ changes' = changes + 1
    /\ UNCHANGED << tree, step, call, handle, verdict, stood >>

-----------------------------------------------------------------------------
(* Paths.                                                                  *)

\* resolve(): lexical, "." and ".." included.
Resolve(segments) ==
    FoldLeft(LAMBDA path, name : CASE name = ".."  -> IF path = <<>> THEN <<>> ELSE Front(path)
                                   [] name = "."   -> path
                                   [] OTHER        -> Append(path, name),
             Root, segments)

IsInside(path) == IsPrefix(Root, path)

Entry(path) == IF path \in DOMAIN tree THEN tree[path] ELSE Nothing

\* The path links lead to; a link itself where they lead round.
Followed(path) ==
    LET hop[n \in 0 .. Cardinality(DOMAIN tree)] ==
            IF n = 0 THEN path
            ELSE IF Entry(hop[n - 1]).kind = "link" THEN Entry(hop[n - 1]).to ELSE hop[n - 1]
    IN  hop[Cardinality(DOMAIN tree)]

\* What realpath() of the locator may end in; the disk may always fail.
Resolutions ==
    LET real == Followed(Resolve(request.segments))
    IN  {"READ_FAILED"} \cup
        (IF Entry(real).kind = "nothing" THEN {"SOURCE_NOT_FOUND"}
         ELSE IF Entry(real).kind = "link" THEN {}
         ELSE IF IsInside(real) THEN {"inside"} ELSE {"LOCATOR_OUTSIDE_ROOT"})

-----------------------------------------------------------------------------
(* The call.                                                               *)

EndsIn(code) == step' = code /\ UNCHANGED << handle, verdict >>

\* Once a handle is open, it is closed before the call ends.
ClosesFor(code) == step' = "close" /\ verdict' = code /\ UNCHANGED handle

LocatorIssue ==
    [malformed |-> "INVALID_REQUEST", blank |-> "LOCATOR_BLANK", nul |-> "LOCATOR_INVALID",
     absolute |-> "LOCATOR_ABSOLUTE", backslash |-> "LOCATOR_INVALID"]

\* The disk is asked nothing of a path outside the root.
Validates ==
    /\ step = "validate"
    /\ EndsIn(IF request.form \in DOMAIN LocatorIssue THEN LocatorIssue[request.form]
              ELSE IF ~ IsInside(Resolve(request.segments)) THEN "LOCATOR_OUTSIDE_ROOT"
              ELSE "root")
    /\ UNCHANGED << tree, disk, call, ghost >>

ResolvesRoot ==
    /\ step = "root"
    /\ EndsIn("target") \/ EndsIn("ROOT_UNAVAILABLE")
    /\ UNCHANGED << tree, disk, call, ghost >>

ResolvesTarget ==
    /\ step = "target"
    /\ \E outcome \in Resolutions :
          IF outcome = "inside"
          THEN EndsIn("stat") /\ target' = Followed(Resolve(request.segments))
          ELSE EndsIn(outcome) /\ UNCHANGED target
    /\ UNCHANGED << tree, disk, request, before, size, bytes, ghost >>

\* stat() follows links.
Stats ==
    /\ step = "stat"
    /\ LET entry == Entry(Followed(target))
       IN  \/ entry.kind = "nothing" /\ EndsIn("SOURCE_NOT_FOUND") /\ UNCHANGED before
           \/ EndsIn("READ_FAILED") /\ UNCHANGED before
           \/ /\ entry.kind = "inode"
              /\ EndsIn(IF disk[entry.inode].type = "file" THEN "open" ELSE "SOURCE_NOT_A_FILE")
              /\ before' = entry.inode
    /\ UNCHANGED << tree, disk, request, target, size, bytes, ghost >>

Opening(entry) ==
    /\ step = "open"
    /\ \/ entry.kind = "nothing" /\ EndsIn("SOURCE_NOT_FOUND")
       \/ EndsIn("READ_FAILED")
       \/ entry.kind = "inode" /\ step' = "fstat" /\ handle' = {entry.inode} /\ UNCHANGED verdict
    /\ UNCHANGED << tree, disk, call, ghost >>

\* Defect: opened without O_NOFOLLOW.
OpensFollowing == Opening(Entry(Followed(target)))

\* O_NOFOLLOW refuses a link; O_NONBLOCK opens a pipe without waiting.
Opens == Opening(Entry(target))

Held == CHOOSE i \in handle : TRUE

Fstats ==
    /\ step = "fstat"
    /\ \/ disk[Held].type # "file" /\ ClosesFor("SOURCE_NOT_A_FILE")
       \/ ClosesFor("READ_FAILED")
       \/ disk[Held].type = "file" /\ Held = before /\ EndsIn("root again")
    /\ size' = Len(disk[Held].bytes)
    /\ UNCHANGED << tree, disk, request, target, before, bytes, ghost >>

ResolvesRootAgain ==
    /\ step = "root again"
    /\ EndsIn("target again") \/ ClosesFor("ROOT_UNAVAILABLE")
    /\ UNCHANGED << tree, disk, call, ghost >>

\* The size is that of the moment it was opened.
ResolvesTargetAgain ==
    /\ step = "target again"
    /\ \E outcome \in Resolutions :
          IF outcome # "inside" THEN ClosesFor(outcome)
          ELSE IF Followed(Resolve(request.segments)) # target THEN ClosesFor("READ_FAILED")
          ELSE IF size > MaxBytes THEN ClosesFor("SOURCE_TOO_LARGE")
          ELSE EndsIn("chunk")
    /\ UNCHANGED << tree, disk, call, ghost >>

Least(a, b) == IF a < b THEN a ELSE b

\* What is left of the file, which may be shorter by now than what was read.
Left == Len(disk[Held].bytes) - Least(Len(bytes), Len(disk[Held].bytes))

\* A read answers with some of the bytes that are left, with none at the end.
ReadsChunk ==
    /\ step = "chunk"
    /\ \/ \E n \in 1 .. Least(Left, Least(Chunk, MaxBytes - Len(bytes) + 1)) :
             /\ bytes' = bytes \o SubSeq(disk[Held].bytes, Len(bytes) + 1, Len(bytes) + n)
             /\ IF Len(bytes) + n > MaxBytes THEN ClosesFor("SOURCE_TOO_LARGE") ELSE EndsIn("chunk")
       \/ /\ Left = 0 /\ UNCHANGED bytes
          /\ ClosesFor(IF "bad" \in Range(bytes) THEN "SOURCE_NOT_UTF8" ELSE "read")
       \/ ClosesFor("READ_FAILED") /\ UNCHANGED bytes
    /\ UNCHANGED << tree, disk, request, target, before, size, ghost >>

\* A close that fails is what the caller is told of, whatever else happened.
Closes ==
    /\ step = "close"
    /\ \/ step' = verdict /\ handle' = {}
       \/ step' = "READ_FAILED" /\ UNCHANGED handle
    /\ UNCHANGED << tree, disk, call, verdict, ghost >>

Ends == ~ Running /\ UNCHANGED vars

Reads ==
    \/ Validates \/ ResolvesRoot \/ ResolvesTarget \/ Stats \/ Opens \/ Fstats
    \/ ResolvesRootAgain \/ ResolvesTargetAgain \/ ReadsChunk \/ Closes

Others ==
    \/ \E path \in DOMAIN tree, entry \in Entries : Relink(path, entry)
    \/ \E i \in DOMAIN disk, content \in Contents : Write(i, content)

Next == Reads \/ Others \/ Ends

Spec == Init /\ [][Next]_vars

-----------------------------------------------------------------------------
\* A call that succeeds returns at most the limit, of a regular file that stood
\* at a path inside the root while the call ran, however entries were replaced
\* meanwhile; the exact bytes of it unless someone wrote to it; and it leaves no
\* handle open.  A call that fails leaves one only where closing it failed.
ReadIsConfined ==
    /\ step = "read" =>
          /\ handle = {} /\ Len(bytes) <= MaxBytes
          /\ \E i \in DOMAIN disk :
                /\ disk[i].type = "file" /\ IsInside(target) /\ << target, i >> \in stood
                /\ i \in written \/ bytes = disk[i].bytes
    /\ ~ Running /\ step # "READ_FAILED" => handle = {}

=============================================================================
