------------------------- MODULE SourcePreparation --------------------------
(***************************************************************************)
(* Registrations of local sources, the service an operator manages them    *)
(* with, and what PrepareLocalCorpusService makes of them between two      *)
(* awaits.  The identity of a source is its scope, its type and its name   *)
(* (a namespace and a key, one number here); the locator only says where   *)
(* its bytes are today.  Whatever a port answers is data nobody vouches    *)
(* for.  The chunkers have a module of their own (Chunking); here Cut is   *)
(* what they make of a content.                                            *)
(***************************************************************************)
EXTENDS PortValues, SequencesExt

TypeRank == [conversation |-> 1, markdown |-> 2, text |-> 3]

\* SourceRegistrationSchema; parses stands for the fields that are not modelled.
Parses(entry) == entry.parses

\* The title, the times and the metadata are no part of it, nor is the locator.
LogicalKey(r) == << r.scope, r.type, r.name >>

RegistrationBefore(a, b) ==
    \/ TypeRank[a.type] < TypeRank[b.type]
    \/ TypeRank[a.type] = TypeRank[b.type] /\ a.name < b.name

\* Registrations of one key keep the order of the answer.
InCanonicalOrder(rs) == Sorted(rs, RegistrationBefore)

-----------------------------------------------------------------------------
(* The registry service and the store behind it.                           *)

\* A port may fail with one of the codes it publishes or with anything else.
DependencyIssue(code) ==
    CASE code = "SOURCE_CONFLICT"     -> "source_conflict"
      [] code = "SOURCE_NOT_FOUND"    -> "source_not_found"
      [] code = "INVALID_STORED_DATA" -> "invalid_stored_data"
      [] OTHER                        -> "control_store_unavailable"

Registered(registry, r) == \E s \in registry : LogicalKey(s) = LogicalKey(r)
Without(registry, r)    == { s \in registry : LogicalKey(s) # LogicalKey(r) }

\* What the control store does with a registration or a key, and answers.
StoreRegisters(registry, r) ==
    IF Registered(registry, r) THEN [registry |-> registry, answer |-> Failure("SOURCE_CONFLICT")]
    ELSE [registry |-> registry \cup {r}, answer |-> Reply("done")]

StoreUpdates(registry, r) ==
    IF ~ Registered(registry, r) THEN [registry |-> registry, answer |-> Failure("SOURCE_NOT_FOUND")]
    ELSE [registry |-> Without(registry, r) \cup {r}, answer |-> Reply("done")]

StoreRemoves(registry, r) ==
    [registry |-> Without(registry, r), answer |-> Reply(Registered(registry, r))]

WriterAnswers(registry, operation, r) ==
    CASE operation = "register" -> StoreRegisters(registry, r)
      [] operation = "update"   -> StoreUpdates(registry, r)
      [] operation = "remove"   -> StoreRemoves(registry, r)

\* A remove must be answered with a boolean; register and update with anything.
ServiceReports(operation, answer) ==
    IF ~ answer.ok THEN Failure(DependencyIssue(answer.code))
    ELSE IF operation = "remove" /\ answer.value \notin BOOLEAN THEN Failure("control_store_unavailable")
    ELSE answer

\* An answer to a listing is a sequence of entries, or a failure.  One entry
\* that does not parse refuses the listing; scopes are not compared here.
ServiceLists(listing) ==
    IF ~ listing.ok THEN Failure(DependencyIssue(listing.code))
    ELSE IF \E i \in DOMAIN listing.value : ~ Parses(listing.value[i]) THEN Failure("invalid_stored_data")
    ELSE Reply(InCanonicalOrder(listing.value))

-----------------------------------------------------------------------------
(* The content of the sources.                                             *)

CONSTANTS Content,     \* what a file may hold
          Cut,         \* the texts of the blocks a content is cut into
          LoneSurrogate,   \* the contents that are not well-formed text
          NoConversation   \* the contents that are not a conversation

ASSUME PreparationAssumption ==
    /\ DOMAIN Cut = Content
    /\ \A c \in Content : Len(Cut[c]) \in Nat /\ DOMAIN Cut[c] = 1 .. Len(Cut[c])
    /\ LoneSurrogate \subseteq Content /\ NoConversation \subseteq Content

-----------------------------------------------------------------------------
(* The registrations that will be read.  A failure names the stage of the  *)
(* pipeline it happened at.                                                *)

CrossScope(rs, scope) == { i \in DOMAIN rs : rs[i].scope # scope }

\* Defect: registrations are told apart by their locator as well.
RepeatedLocators(rs) ==
    { i \in DOMAIN rs : \E j \in 1 .. i - 1 :
        LogicalKey(rs[j]) = LogicalKey(rs[i]) /\ rs[j].locator = rs[i].locator }

\* Every registration after the first of its logical source.
Repeated(rs) == { i \in DOMAIN rs : \E j \in 1 .. i - 1 : LogicalKey(rs[j]) = LogicalKey(rs[i]) }

\* Entries that do not parse are reported alone; the other rules need them all.
CanonicalRegistrations(listing, scope) ==
    IF ~ listing.ok THEN Failure("control-store")
    ELSE LET rs == listing.value
         IN  IF \/ \E i \in DOMAIN rs : ~ Parses(rs[i])
                \/ CrossScope(rs, scope) # {}
                \/ Repeated(rs) # {}
             THEN Failure("source-registration")
             ELSE Reply(InCanonicalOrder(rs))

-----------------------------------------------------------------------------
(* One source: ingestSource or ingestConversationSource, then a chunker.   *)

\* deriveSourceDocumentId: a digest of the scope and the logical identity.
DocumentId(r) == LogicalKey(r)

Ingests(r, content) ==
    /\ content \notin LoneSurrogate
    /\ r.type = "conversation" => content \notin NoConversation

DocumentOf(r, content) ==
    [id |-> DocumentId(r), scope |-> r.scope, type |-> r.type, hash |-> content]

\* The same text may stand in a source twice; its occurrence tells them apart.
\* A message is told apart by its own identifier, here its place.
Occurrence(texts, i) == Cardinality({ j \in 1 .. i - 1 : texts[j] = texts[i] })

BlocksCut(r, content) ==
    LET texts == Cut[content]
    IN  [ i \in DOMAIN texts |->
            [id       |-> << DocumentId(r), texts[i], IF r.type = "conversation" THEN i ELSE Occurrence(texts, i) >>,
             document |-> DocumentId(r), scope |-> r.scope, type |-> r.type, at |-> i, text |-> texts[i]] ]

\* read is what the reader resolved to: a content, or a failure.  A chunker can
\* fail where there is something to count: counted tells whether it was.
PrepareSource(r, read, counted) ==
    IF ~ read.ok THEN Failure("source-read")
    ELSE IF ~ Ingests(r, read.value) THEN Failure("source-ingestion")
    ELSE IF ~ counted /\ Cut[read.value] # <<>> THEN Failure("source-chunking")
    ELSE Reply([document |-> DocumentOf(r, read.value), blocks |-> BlocksCut(r, read.value)])

-----------------------------------------------------------------------------
(* The order of what is prepared.  Digests order as their rank does.       *)

CONSTANT IdRank(_)     \* the place of a document identifier among all digests

DocumentBefore(a, b) == IdRank(a.id) < IdRank(b.id)

\* Blocks of one document carry locations of one kind: its offsets, or its
\* message indexes.  The identifier breaks ties that cannot occur among them.
BlockBefore(a, b) ==
    \/ IdRank(a.document) < IdRank(b.document)
    \/ a.document = b.document /\ a.at < b.at

InBlockOrder(bs) == Sorted(bs, BlockBefore)

=============================================================================
