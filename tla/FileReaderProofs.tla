-------------------------- MODULE FileReaderProofs --------------------------
(***************************************************************************)
(* ReadIsConfined for every tree, every disk, every locator, every limit   *)
(* and any number of changes others make during the call.                  *)
(***************************************************************************)
EXTENDS FileReader, SequenceTheorems, TLAPS

-----------------------------------------------------------------------------
(* The inductive invariant. *)

Outcomes ==
    { "read", "READ_FAILED", "SOURCE_NOT_FOUND", "SOURCE_NOT_A_FILE", "SOURCE_TOO_LARGE",
      "SOURCE_NOT_UTF8", "LOCATOR_OUTSIDE_ROOT", "ROOT_UNAVAILABLE" }

Opened  == {"fstat", "root again", "target again", "chunk", "close"}
Succeeding == step = "chunk" \/ (step = "close" /\ verdict = "read")

\* Entries lead to inodes of the disk, and what was read are bytes.
TreeInv ==
    /\ disk \in [DOMAIN disk -> [type : STRING, bytes : Seq(STRING)]]
    /\ \A e \in Entries : e.kind = "inode" => e.inode \in DOMAIN disk
    /\ \A p \in DOMAIN tree : /\ tree[p].kind \in {"nothing", "link", "inode"}
                              /\ tree[p].kind = "inode" => tree[p].inode \in DOMAIN disk
    /\ \A e \in Entries : e.kind \in {"nothing", "link", "inode"}
    /\ bytes \in Seq(STRING)

\* Every entry the tree has now is among those seen.
StoodInv == EntriesOf(tree) \subseteq stood

\* The target was inside when it was resolved, and does not change.
TargetInv ==
    step \in {"stat", "open"} \cup Opened => IsInside(target)

\* The handle is held from open() to close(), of what then stood at the target.
HandleInv ==
    /\ step \in Opened => \E i \in DOMAIN disk : handle = {i} /\ << target, i >> \in stood
    /\ step \notin Opened \cup {"READ_FAILED"} => handle = {}
    /\ step = "close" => verdict \in Outcomes

\* It is a file once fstat() has said so.
FileInv ==
    step \in {"root again", "target again"} \/ Succeeding => disk[Held].type = "file"

\* What was read is a prefix of the file unless someone wrote to it, and all of
\* it once the read is about to succeed.
BytesInv ==
    /\ step \in {"validate", "root", "target", "stat", "open", "fstat", "root again", "target again"}
          => bytes = <<>>
    /\ Succeeding =>
          /\ Len(bytes) <= MaxBytes
          /\ \/ Held \in written
             \/ /\ Len(bytes) <= Len(disk[Held].bytes)
                /\ \A k \in 1 .. Len(bytes) : bytes[k] = disk[Held].bytes[k]
    /\ step = "close" /\ verdict = "read" => Held \in written \/ bytes = disk[Held].bytes

ReadInv == step = "read" => ReadIsConfined

IInv == TreeInv /\ StoodInv /\ TargetInv /\ HandleInv /\ FileInv /\ BytesInv /\ ReadInv

-----------------------------------------------------------------------------
(* Helpers. *)

\* What is held is the only element of the handle.
LEMMA HeldIs ==
    ASSUME NEW i, handle = {i}
    PROVE  Held = i
BY DEF Held

\* A successful resolution ends inside the root.
LEMMA ResolvedInside ==
    ASSUME "inside" \in Resolutions
    PROVE  IsInside(Followed(Resolve(request.segments)))
BY DEF Resolutions

\* Appending the next bytes of a file to a prefix of it gives a prefix of it.
LEMMA PrefixGrows ==
    ASSUME NEW s \in Seq(STRING), NEW b \in Seq(STRING), NEW n \in Nat \ {0},
           Len(b) + n <= Len(s)
    PROVE  LET c == b \o SubSeq(s, Len(b) + 1, Len(b) + n)
           IN  /\ c \in Seq(STRING)
               /\ Len(c) = Len(b) + n
               /\ (\A k \in 1 .. Len(b) : b[k] = s[k]) => \A k \in 1 .. Len(c) : c[k] = s[k]
<1> DEFINE more == SubSeq(s, Len(b) + 1, Len(b) + n)
<1>1. Len(b) \in Nat /\ \A i \in Len(b) + 1 .. Len(b) + n : s[i] \in STRING
    BY ElementOfSeq, LenProperties
<1>2. /\ more \in Seq(STRING) /\ Len(more) = n
      /\ \A i \in 1 .. n : more[i] = s[Len(b) + i]
    <2>1. /\ more \in Seq(STRING)
          /\ Len(more) = IF Len(b) + 1 <= Len(b) + n THEN (Len(b) + n) - (Len(b) + 1) + 1 ELSE 0
          /\ \A i \in 1 .. (Len(b) + n) - (Len(b) + 1) + 1 : more[i] = s[(Len(b) + 1) + i - 1]
        BY <1>1, SubSeqProperties
    <2> HIDE DEF more
    <2> QED
        BY <1>1, <2>1
<1> HIDE DEF more
<1>3. /\ b \o more \in Seq(STRING) /\ Len(b \o more) = Len(b) + n
      /\ \A i \in 1 .. Len(b) + n : (b \o more)[i] = IF i <= Len(b) THEN b[i] ELSE more[i - Len(b)]
    BY <1>2, ConcatProperties
<1>4. ASSUME \A k \in 1 .. Len(b) : b[k] = s[k], NEW k \in 1 .. Len(b) + n
      PROVE  (b \o more)[k] = s[k]
    BY <1>1, <1>2, <1>3, <1>4
<1> QED
    BY <1>3, <1>4 DEF more

-----------------------------------------------------------------------------
(* First states. *)

LEMMA InitInv == Init => IInv
<1> SUFFICES ASSUME Init PROVE IInv
    OBVIOUS
<1>1. TreeInv
    <2>1. disk \in Disks /\ tree \in Trees /\ bytes = <<>>
        BY DEF Init
    <2>2. \A p \in DOMAIN tree : tree[p] \in UNION { Range(t) : t \in Trees }
        BY <2>1 DEF Range
    <2>3. disk \in [DOMAIN disk -> [type : STRING, bytes : Seq(STRING)]]
        BY <2>1, DisksAssumption
    <2> QED
        BY <2>1, <2>2, <2>3, DisksAssumption, EmptySeq DEF TreeInv
<1>2. StoodInv
    BY DEF Init, StoodInv
<1> QED
    BY <1>1, <1>2 DEF Init, IInv, TargetInv, HandleInv, FileInv, BytesInv, ReadInv, Opened, Succeeding

-----------------------------------------------------------------------------
(* Steps of others. *)

\* Replacing an entry takes nothing from what was seen.
LEMMA RelinkKeepsInv ==
    ASSUME IInv, NEW path \in DOMAIN tree, NEW entry \in Entries, Relink(path, entry)
    PROVE  IInv'
<1>1. /\ tree' = [tree EXCEPT ![path] = entry]
      /\ stood' = stood \cup EntriesOf(tree')
      /\ UNCHANGED << disk, step, request, target, handle, verdict, bytes, written >>
    BY DEF Relink, call
<1>2. TreeInv' /\ StoodInv'
    BY <1>1 DEF IInv, TreeInv, StoodInv
<1>3. TargetInv' /\ HandleInv'
    BY <1>1 DEF IInv, TargetInv, HandleInv, IsInside
<1>4. FileInv' /\ BytesInv'
    <2>1. Held' = Held /\ Succeeding' = Succeeding
        BY <1>1 DEF Held, Succeeding
    <2> QED
        BY <1>1, <2>1 DEF IInv, FileInv, BytesInv
<1>5. ReadInv'
    BY DEF Relink, ReadInv, Running
<1> QED
    BY <1>2, <1>3, <1>4, <1>5 DEF IInv

\* Writing to a file leaves it a file, and is remembered.
LEMMA WriteKeepsInv ==
    ASSUME IInv, NEW i \in DOMAIN disk, NEW content \in Contents, Write(i, content)
    PROVE  IInv'
<1>1. /\ disk' = [disk EXCEPT ![i] = [type |-> "file", bytes |-> content]]
      /\ disk[i].type = "file"
      /\ written' = written \cup {i}
      /\ UNCHANGED << tree, step, request, target, handle, verdict, bytes, stood >>
    BY DEF Write, call
<1>2. /\ DOMAIN disk' = DOMAIN disk
      /\ disk' \in [DOMAIN disk -> [type : STRING, bytes : Seq(STRING)]]
      /\ \A j \in DOMAIN disk : disk'[j].type = disk[j].type /\ (j # i => disk'[j] = disk[j])
    BY <1>1, ContentsAssumption DEF IInv, TreeInv
<1>3. TreeInv' /\ StoodInv'
    BY <1>1, <1>2 DEF IInv, TreeInv, StoodInv, EntriesOf
<1>4. TargetInv' /\ HandleInv'
    BY <1>1, <1>2 DEF IInv, TargetInv, HandleInv, IsInside
<1>5. Held' = Held /\ Succeeding' = Succeeding /\ (step \in Opened => Held \in DOMAIN disk)
    BY <1>1, HeldIs DEF IInv, HandleInv, Held, Succeeding
<1>6. FileInv'
    BY <1>1, <1>2, <1>5 DEF IInv, FileInv, Opened, Succeeding
<1>7. BytesInv'
    BY <1>1, <1>2, <1>5 DEF IInv, BytesInv, Opened, Succeeding
<1>8. ReadInv'
    BY <1>1 DEF Write, ReadInv, Running
<1> QED
    BY <1>3, <1>4, <1>6, <1>7, <1>8 DEF IInv

-----------------------------------------------------------------------------
(* Steps of the call. *)

\* Up to stat() nothing is open and nothing is read.
LEMMA ResolvingKeepsInv ==
    ASSUME IInv, Validates \/ ResolvesRoot \/ ResolvesTarget \/ Stats
    PROVE  IInv'
<1> USE DEF EndsIn
<1>1. /\ UNCHANGED << tree, disk, bytes, stood, written, handle, verdict >>
      /\ step \in {"validate", "root", "target", "stat"}
    BY DEF Validates, ResolvesRoot, ResolvesTarget, Stats, call, ghost
<1>2. \A form \in DOMAIN LocatorIssue :
          LocatorIssue[form] \in {"INVALID_REQUEST", "LOCATOR_BLANK", "LOCATOR_INVALID", "LOCATOR_ABSOLUTE"}
    BY DEF LocatorIssue
<1>3. step' \notin Opened \cup {"read"} /\ (Validates => step' \notin {"stat", "open"})
    <2>1. CASE Validates
        BY <1>2, <2>1 DEF Validates, Opened
    <2>2. CASE ResolvesRoot
        BY <2>2 DEF ResolvesRoot, Validates, Opened
    <2>3. CASE ResolvesTarget
        BY <2>3 DEF ResolvesTarget, Validates, Resolutions, Opened
    <2>4. CASE Stats
        BY <2>4 DEF Stats, Validates, Opened
    <2> QED
        BY <2>1, <2>2, <2>3, <2>4
<1>4. step' \in {"stat", "open"} => IsInside(target')
    <2>1. CASE Validates
        BY <1>3, <2>1
    <2>2. CASE ResolvesRoot
        BY <2>2 DEF ResolvesRoot
    <2>3. CASE ResolvesTarget
        BY <2>3, ResolvedInside DEF ResolvesTarget, Resolutions
    <2>4. CASE Stats
        BY <2>4 DEF Stats, IInv, TargetInv
    <2> QED
        BY <2>1, <2>2, <2>3, <2>4
<1>5. TreeInv' /\ StoodInv'
    BY <1>1 DEF IInv, TreeInv, StoodInv
<1>6. TargetInv' /\ HandleInv' /\ FileInv' /\ BytesInv' /\ ReadInv'
    BY <1>1, <1>3, <1>4 DEF IInv, TargetInv, HandleInv, FileInv, BytesInv, ReadInv, Succeeding, Opened, IsInside
<1> QED
    BY <1>5, <1>6 DEF IInv

\* What is opened stands at the target, and is not a link.
LEMMA OpensKeepsInv ==
    ASSUME IInv, Opens
    PROVE  IInv'
<1>1. /\ UNCHANGED << tree, disk, target, bytes, stood, written, verdict >>
      /\ step = "open"
    BY DEF Opens, Opening, EndsIn, call, ghost
<1>2. TreeInv' /\ StoodInv'
    BY <1>1 DEF IInv, TreeInv, StoodInv
<1>3. \/ step' \in {"SOURCE_NOT_FOUND", "READ_FAILED"} /\ handle' = handle
      \/ /\ step' = "fstat"
         /\ \E i \in DOMAIN disk : handle' = {i} /\ << target, i >> \in stood
    <2>1. ASSUME Entry(target).kind = "inode"
          PROVE  /\ Entry(target).inode \in DOMAIN disk
                 /\ << target, Entry(target).inode >> \in stood
        <3>1. target \in DOMAIN tree /\ Entry(target) = tree[target]
            BY <2>1 DEF Entry, Nothing
        <3>2. << target, tree[target].inode >> \in EntriesOf(tree)
            BY <2>1, <3>1 DEF EntriesOf
        <3> QED
            BY <2>1, <3>1, <3>2 DEF IInv, TreeInv, StoodInv
    <2> QED
        BY <2>1 DEF Opens, Opening, EndsIn
<1>4. TargetInv' /\ HandleInv' /\ FileInv' /\ BytesInv' /\ ReadInv'
    BY <1>1, <1>3 DEF IInv, TargetInv, HandleInv, FileInv, BytesInv, ReadInv, Succeeding, Opened, IsInside
<1> QED
    BY <1>2, <1>4 DEF IInv

\* What is read from now on is of a regular file.
LEMMA FstatsKeepsInv ==
    ASSUME IInv, Fstats
    PROVE  IInv'
<1>1. /\ UNCHANGED << tree, disk, target, bytes, stood, written, handle >>
      /\ step = "fstat"
    BY DEF Fstats, EndsIn, ClosesFor, ghost
<1>2. \/ step' = "close" /\ verdict' \in {"SOURCE_NOT_A_FILE", "READ_FAILED"}
      \/ step' = "root again" /\ disk[Held].type = "file"
    BY DEF Fstats, EndsIn, ClosesFor
<1>3. Held' = Held
    BY <1>1 DEF Held
<1>4. TreeInv' /\ StoodInv'
    BY <1>1 DEF IInv, TreeInv, StoodInv
<1>5. TargetInv' /\ HandleInv' /\ FileInv' /\ BytesInv' /\ ReadInv'
    BY <1>1, <1>2, <1>3 DEF IInv, TargetInv, HandleInv, FileInv, BytesInv, ReadInv, Succeeding, Opened,
                            Outcomes, IsInside
<1> QED
    BY <1>4, <1>5 DEF IInv

\* The second resolution changes nothing of what is held and read.
LEMMA ResolvingAgainKeepsInv ==
    ASSUME IInv, ResolvesRootAgain \/ ResolvesTargetAgain
    PROVE  IInv'
<1>1. /\ UNCHANGED << tree, disk, target, bytes, stood, written, handle >>
      /\ step \in {"root again", "target again"}
    BY DEF ResolvesRootAgain, ResolvesTargetAgain, EndsIn, ClosesFor, call, ghost
<1>2. \/ step' = "close" /\ verdict' \in Outcomes \ {"read"}
      \/ step' \in {"target again", "chunk"}
    BY DEF ResolvesRootAgain, ResolvesTargetAgain, Resolutions, EndsIn, ClosesFor, Outcomes
<1>3. Held' = Held
    BY <1>1 DEF Held
<1>4. TreeInv' /\ StoodInv'
    BY <1>1 DEF IInv, TreeInv, StoodInv
<1>5. TargetInv' /\ HandleInv' /\ FileInv' /\ ReadInv'
    BY <1>1, <1>2, <1>3 DEF IInv, TargetInv, HandleInv, FileInv, ReadInv, Succeeding, Opened, Outcomes, IsInside
<1>6. BytesInv'
    <2>1. bytes = <<>> /\ Len(bytes) = 0 /\ Held \in DOMAIN disk
        BY <1>1, HeldIs DEF IInv, BytesInv, HandleInv, Opened
    <2>2. Len(disk[Held].bytes) \in Nat
        BY <2>1, LenProperties DEF IInv, TreeInv
    <2>3. bytes' = bytes /\ disk'[Held'] = disk[Held]
        BY <1>1, <1>3
    <2>4. bytes' = <<>> /\ Len(bytes') = 0 /\ Len(disk'[Held'].bytes) \in Nat
        BY <2>1, <2>2, <2>3
    <2>5. 0 <= MaxBytes
        BY ReaderAssumption
    <2>6. /\ bytes' = <<>> /\ Len(bytes') = 0
          /\ Len(bytes') <= MaxBytes /\ Len(bytes') <= Len(disk'[Held'].bytes)
        BY <2>4, <2>5
    <2>7. \A k \in 1 .. Len(bytes') : bytes'[k] = disk'[Held'].bytes[k]
        BY <2>6
    <2>8. ~ (step' = "close" /\ verdict' = "read")
        BY <1>2
    <2> QED
        BY <2>6, <2>7, <2>8 DEF BytesInv, Succeeding
<1> QED
    BY <1>4, <1>5, <1>6 DEF IInv

\* Bytes are added to a prefix of the file, and a read succeeds when none is left.
LEMMA ReadsChunkKeepsInv ==
    ASSUME IInv, ReadsChunk
    PROVE  IInv'
<1> DEFINE content == disk[Held].bytes
<1>1. /\ UNCHANGED << tree, disk, target, stood, written, handle >>
      /\ step = "chunk"
    BY DEF ReadsChunk, EndsIn, ClosesFor, ghost
<1>2. /\ Held' = Held /\ Held \in DOMAIN disk
      /\ content \in Seq(STRING) /\ bytes \in Seq(STRING)
      /\ Len(content) \in Nat /\ Len(bytes) \in Nat
    BY <1>1, HeldIs, LenProperties DEF IInv, HandleInv, TreeInv, Opened, Held
<1>3. /\ Len(bytes) <= MaxBytes
      /\ \/ Held \in written
         \/ Len(bytes) <= Len(content) /\ \A k \in 1 .. Len(bytes) : bytes[k] = content[k]
    BY <1>1 DEF IInv, BytesInv, Succeeding
<1>4. step' \in {"chunk", "close"} /\ (step' = "close" => verdict' \in Outcomes)
    BY DEF ReadsChunk, EndsIn, ClosesFor, Outcomes
<1>5. bytes' \in Seq(STRING) /\ BytesInv'
    <2>1. CASE UNCHANGED bytes /\ ClosesFor("READ_FAILED")
        BY <1>2, <2>1 DEF ClosesFor, BytesInv, Succeeding
    <2>2. CASE /\ Left = 0 /\ UNCHANGED bytes
               /\ ClosesFor(IF "bad" \in Range(bytes) THEN "SOURCE_NOT_UTF8" ELSE "read")
        <3>1. Len(content) <= Len(bytes)
            BY <1>2, <2>2 DEF Left, Least
        <3>2. Held \in written \/ bytes = content
            BY <1>2, <1>3, <3>1, SeqEqual
        <3> QED
            BY <1>1, <1>2, <1>3, <2>2, <3>2 DEF ClosesFor, BytesInv, Succeeding
    <2>3. CASE \E n \in 1 .. Least(Left, Least(Chunk, MaxBytes - Len(bytes) + 1)) :
                  /\ bytes' = bytes \o SubSeq(disk[Held].bytes, Len(bytes) + 1, Len(bytes) + n)
                  /\ IF Len(bytes) + n > MaxBytes THEN ClosesFor("SOURCE_TOO_LARGE") ELSE EndsIn("chunk")
        <3>1. PICK n \in 1 .. Least(Left, Least(Chunk, MaxBytes - Len(bytes) + 1)) :
                  /\ bytes' = bytes \o SubSeq(content, Len(bytes) + 1, Len(bytes) + n)
                  /\ IF Len(bytes) + n > MaxBytes THEN ClosesFor("SOURCE_TOO_LARGE") ELSE EndsIn("chunk")
            BY <2>3
        <3>2. n \in Nat \ {0} /\ Len(bytes) + n <= Len(content)
            <4>1. Left \in Int /\ (Left > 0 => Left = Len(content) - Len(bytes))
                <5>1. \A a, b \in Nat : LET left == a - Least(b, a)
                                        IN  left \in Int /\ (left > 0 => left = a - b)
                    BY DEF Least
                <5> QED
                    BY <1>2, <5>1 DEF Left
            <4>2. n \in Int /\ 1 <= n /\ n <= Left
                BY <1>2, <4>1, ReaderAssumption DEF Least
            <4> QED
                BY <1>2, <4>1, <4>2
        <3> HIDE DEF content
        <3>3. /\ bytes' \in Seq(STRING) /\ Len(bytes') = Len(bytes) + n
              /\ (\A k \in 1 .. Len(bytes) : bytes[k] = content[k])
                    => \A k \in 1 .. Len(bytes') : bytes'[k] = content[k]
            BY <1>2, <3>1, <3>2, PrefixGrows
        <3>4. content' = content
            BY <1>1, <1>2 DEF content
        <3>5. ~ (Len(bytes) + n > MaxBytes) => Len(bytes') <= MaxBytes
            BY <1>2, <3>2, <3>3, ReaderAssumption
        <3>6. step' = "chunk" => Len(bytes') <= MaxBytes
            BY <3>1, <3>5 DEF ClosesFor
        <3>7. step' = "close" => verdict' = "SOURCE_TOO_LARGE"
            BY <3>1 DEF ClosesFor, EndsIn
        <3>8. \/ Held' \in written'
              \/ /\ Len(bytes') <= Len(content')
                 /\ \A k \in 1 .. Len(bytes') : bytes'[k] = content'[k]
            BY <1>1, <1>2, <1>3, <3>2, <3>3, <3>4
        <3> QED
            BY <1>4, <3>3, <3>6, <3>7, <3>8 DEF BytesInv, Succeeding, content
    <2> QED
        BY <2>1, <2>2, <2>3 DEF ReadsChunk
<1>6. TreeInv' /\ StoodInv'
    BY <1>1, <1>5 DEF IInv, TreeInv, StoodInv
<1>7. TargetInv' /\ HandleInv' /\ FileInv' /\ ReadInv'
    BY <1>1, <1>2, <1>4 DEF IInv, TargetInv, HandleInv, FileInv, ReadInv, Succeeding, Opened, IsInside
<1> QED
    BY <1>5, <1>6, <1>7 DEF IInv

\* The call ends as was decided when the handle was closed, or in the failure to
\* close it.
LEMMA ClosesKeepsInv ==
    ASSUME IInv, Closes
    PROVE  IInv'
<1>1. /\ UNCHANGED << tree, disk, target, bytes, stood, written, verdict >>
      /\ step = "close" /\ verdict \in Outcomes
      /\ \/ step' = verdict /\ handle' = {}
         \/ step' = "READ_FAILED"
    BY DEF Closes, call, ghost, IInv, HandleInv, Opened
<1>2. TreeInv' /\ StoodInv'
    BY <1>1 DEF IInv, TreeInv, StoodInv
<1>3. TargetInv' /\ HandleInv' /\ FileInv' /\ BytesInv'
    BY <1>1 DEF TargetInv, HandleInv, FileInv, BytesInv, Succeeding, Opened, Outcomes
<1>4. ReadInv'
    <2> SUFFICES ASSUME step' = "read" PROVE ReadIsConfined'
        BY DEF ReadInv
    <2>1. verdict = "read" /\ handle' = {}
        BY <1>1
    <2>2. PICK i \in DOMAIN disk : handle = {i} /\ << target, i >> \in stood
        BY <1>1 DEF IInv, HandleInv, Opened
    <2>3. Held = i
        BY <2>2, HeldIs
    <2>4. disk[i].type = "file" /\ (i \in written \/ bytes = disk[i].bytes) /\ Len(bytes) <= MaxBytes
        BY <1>1, <2>1, <2>3 DEF IInv, FileInv, BytesInv, Succeeding
    <2>5. IsInside(target)
        BY <1>1 DEF IInv, TargetInv, Opened
    <2> QED
        BY <1>1, <2>1, <2>2, <2>4, <2>5 DEF ReadIsConfined, IsInside
<1> QED
    BY <1>2, <1>3, <1>4 DEF IInv

-----------------------------------------------------------------------------
(* The theorem. *)

\* Every step keeps the invariant.
LEMMA NextKeepsInv ==
    ASSUME IInv, [Next]_vars
    PROVE  IInv'
<1>1. CASE UNCHANGED vars
    <2>1. /\ UNCHANGED << tree, disk, step, target, handle, verdict, bytes, stood, written >>
          /\ Held' = Held /\ Succeeding' = Succeeding
        BY <1>1 DEF vars, call, ghost, Held, Succeeding
    <2>2. ReadIsConfined' = ReadIsConfined
        BY <2>1 DEF ReadIsConfined, IsInside, Running
    <2> QED
        BY <2>1, <2>2 DEF IInv, TreeInv, StoodInv, TargetInv, HandleInv, FileInv, BytesInv, ReadInv, IsInside
<1>2. CASE Next
    BY <1>1, <1>2, RelinkKeepsInv, WriteKeepsInv, ResolvingKeepsInv, OpensKeepsInv, FstatsKeepsInv,
       ResolvingAgainKeepsInv, ReadsChunkKeepsInv, ClosesKeepsInv DEF Next, Reads, Others, Ends
<1> QED
    BY <1>1, <1>2

\* The invariant holds in every state of every read (node-file-source-reader.ts,
\* read).
THEOREM ReaderInvariant == Spec => []IInv
<1> QED
    BY InitInv, NextKeepsInv, PTL DEF Spec

\* A successful read returns at most the limit, of a regular file that stood
\* inside the root during the call, unmixed unless someone wrote to it; a handle
\* survives a call only where closing it failed (node-file-source-reader.ts).
THEOREM ReadsAreConfined == Spec => []ReadIsConfined
<1>1. ASSUME IInv PROVE ReadIsConfined
    BY <1>1 DEF IInv, ReadInv, HandleInv, ReadIsConfined, Running, Opened
<1> QED
    BY <1>1, ReaderInvariant, PTL

=============================================================================
