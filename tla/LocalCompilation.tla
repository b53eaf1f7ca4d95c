-------------------------- MODULE LocalCompilation --------------------------
(***************************************************************************)
(* CompileLocalContextService.execute over its ports, while an operator    *)
(* manages the registry, files change, and the provider of candidates      *)
(* keeps whatever it was given.                                            *)
(*                                                                         *)
(* Objects that more than one party may hold live in heap, under numbers.  *)
(* Sharing is a number two parties hold; a copy has a number of its own.   *)
(***************************************************************************)
EXTENDS SourcePreparation, CandidateRetrieval

CONSTANTS Requests,        \* what is asked for: [scope, query, id]
          Registries,      \* what the control store may hold at first
          Entries,         \* entries no registry holds, which a store may list
          Files,           \* what the files may hold at first, by locator
          Hits,            \* hits of the search engine: [place, score], place among the blocks lent
          Fields,          \* the kinds of fields candidates may carry: see PortValues
          StoredRecords,   \* records the trace store may answer with
          MaxAnswer,
          MaxEdits, MaxMeddles     \* bounds: changes by others during one compilation

Registrations == Entries \cup UNION Registries

\* An entry that parses has a type and a name.
ASSUME RegistrationAssumption ==
    /\ \A rs \in Registries : IsFiniteSet(rs)
    /\ \A r \in Registrations : Parses(r) => r.type \in DOMAIN TypeRank /\ r.name \in Nat
    /\ \A fs \in Files : \A l \in DOMAIN fs : fs[l] \in Content

\* Digests do not collide: neither those of documents nor those of blocks.
BlockIds == UNION { { b.id : b \in Range(BlocksCut(r, c)) } : r \in Registrations, c \in Content }

ASSUME DigestAssumption ==
    /\ \A r, s \in Registrations :
          /\ IdRank(DocumentId(r)) \in Nat
          /\ IdRank(DocumentId(r)) = IdRank(DocumentId(s)) => DocumentId(r) = DocumentId(s)
    /\ \A i, j \in BlockIds :
          /\ i # <<>> /\ BlockRank(i) \in Nat
          /\ BlockRank(i) = BlockRank(j) => i = j

ASSUME RetrievalAssumption ==
    /\ MaxCandidates \in Nat \ {0} /\ MaxAnswer \in Nat
    /\ \A h \in Hits : h.score \in Nat

VARIABLES registry,    \* registrations of the control store
          files,       \* content per locator
          told,        \* what the registry service told the operator last
          stage,       \* how far execute() is, or the stage it failed at
          request,     \* the request it runs for
          listing,     \* what the control store answered
          sources,     \* registrations being read, in order
          documents,   \* the documents made of those read so far
          blocks,      \* and their blocks
          heap,        \* the objects
          prepared,    \* the blocks the service holds
          lent,        \* the objects the provider is lent
          engine,      \* what the search engine answered, if it was asked
          answer,      \* the candidates the provider resolved to
          result,      \* what execute() resolved to
          stored,      \* records in the trace store
          traceRead,   \* the last trace read back: [asked, got]
          held,        \* ghost: <<locator, content>> pairs since the listing
          edits, meddles

corpusVars   == << listing, sources, documents, blocks, prepared, engine, held >>
providerVars == << heap, lent, answer >>
worldVars    == << registry, files, told, edits >>
traceVars    == << stored, traceRead >>
vars == << worldVars, stage, request, corpusVars, providerVars, result, traceVars, meddles >>

Finished == {"done", "control-store", "source-registration", "source-read", "source-ingestion",
             "source-chunking", "candidate-provider", "compilation"}

Init ==
    /\ registry \in Registries
    /\ files \in Files
    /\ request \in Requests
    /\ told = Reply("nothing")
    /\ stage = "listing"
    /\ listing = Reply(<<>>) /\ sources = <<>> /\ documents = <<>> /\ blocks = <<>>
    /\ heap = <<>> /\ prepared = <<>> /\ lent = <<>> /\ engine = {}
    /\ answer = <<>> /\ result = {}
    /\ stored = {} /\ traceRead = {}
    /\ held = {} /\ edits = 0 /\ meddles = 0

Fail(at) == stage' = at

-----------------------------------------------------------------------------
(* The world: an operator and whoever writes the files.  Once the last     *)
(* source is read nothing depends on them: bounded to what comes before.   *)

Preparing == stage \in {"listing", "reading"} /\ edits < MaxEdits

Administers(operation, r) ==
    /\ Preparing /\ Parses(r)
    /\ LET done == WriterAnswers(registry, operation, r)
       IN  /\ registry' = done.registry
           /\ told' = ServiceReports(operation, done.answer)
    /\ edits' = edits + 1
    /\ UNCHANGED << files, stage, request, corpusVars, providerVars, result, traceVars, meddles >>

WritesFile(locator, content) ==
    /\ Preparing /\ files[locator] # content
    /\ files' = [files EXCEPT ![locator] = content]
    /\ edits' = edits + 1
    /\ held' = held \cup { << locator, content >> }
    /\ UNCHANGED << registry, told, stage, request, listing, sources, documents, blocks, prepared, engine,
                    providerVars, result, traceVars, meddles >>

-----------------------------------------------------------------------------
(* Preparation.                                                            *)

\* A sound store lists the registrations of the scope in some order; another
\* one may add an entry, or list one twice.
HonestListings == SetToSeqs({ r \in registry : r.scope = request.scope })

Listings ==
    { Reply(l) : l \in HonestListings }
    \cup { Reply(Append(l, e)) : l \in HonestListings, e \in Entries \cup registry }
    \cup { Failure("unavailable") }

Lists ==
    /\ stage = "listing"
    /\ \E l \in Listings :
          LET registrations == CanonicalRegistrations(l, request.scope)
          IN  /\ listing' = l
              /\ IF registrations.ok
                 THEN stage' = "reading" /\ sources' = registrations.value
                 ELSE Fail(registrations.code) /\ UNCHANGED sources
    /\ held' = { << l, files[l] >> : l \in DOMAIN files }
    /\ UNCHANGED << worldVars, request, documents, blocks, prepared, engine, providerVars, result, traceVars, meddles >>

\* The reader resolves to the content of the file, if there is one, or it fails;
\* so does the tokenizer of the chunker.
Reads ==
    /\ stage = "reading" /\ Len(documents) < Len(sources)
    /\ LET r == sources[Len(documents) + 1]
       IN  \E read \in { Reply(files[l]) : l \in {r.locator} \cap DOMAIN files } \cup { Failure("unreadable") },
              counted \in BOOLEAN :
              LET made == PrepareSource(r, read, counted)
              IN  IF made.ok
                  THEN /\ documents' = Append(documents, made.value.document)
                       /\ blocks' = blocks \o made.value.blocks
                       /\ UNCHANGED stage
                  ELSE Fail(made.code) /\ UNCHANGED << documents, blocks >>
    /\ UNCHANGED << worldVars, request, listing, sources, prepared, engine, held,
                    providerVars, result, traceVars, meddles >>

Documents == Sorted(documents, DocumentBefore)
Blocks    == InBlockOrder(blocks)

Json(block) == [field |-> "data", block |-> block]

\* Defect: the provider is lent the blocks themselves.
LendShared ==
    /\ stage = "reading" /\ Len(documents) = Len(sources)
    /\ heap' = [ i \in DOMAIN Blocks |-> Json(Blocks[i]) ]
    /\ prepared' = [ i \in DOMAIN Blocks |-> i ]
    /\ lent' = [ i \in DOMAIN Blocks |-> i ]
    /\ stage' = "asking"
    /\ UNCHANGED << worldVars, request, listing, sources, documents, blocks, engine, held, answer, result, traceVars, meddles >>

\* The provider is lent a copy of each block, in the same order.
Lend ==
    /\ stage = "reading" /\ Len(documents) = Len(sources)
    /\ heap' = [ i \in 1 .. 2 * Len(Blocks) |-> Json(Blocks[IF i > Len(Blocks) THEN i - Len(Blocks) ELSE i]) ]
    /\ prepared' = [ i \in DOMAIN Blocks |-> i ]
    /\ lent' = [ i \in DOMAIN Blocks |-> Len(Blocks) + i ]
    /\ stage' = "asking"
    /\ UNCHANGED << worldVars, request, listing, sources, documents, blocks, engine, held, answer, result, traceVars, meddles >>

-----------------------------------------------------------------------------
(* The provider.                                                           *)

Lent == [ i \in DOMAIN lent |-> heap[lent[i]] ]

\* The objects it holds: those it was lent, and those it resolved to.
Known == Range(lent) \cup Range(answer)

\* A block it was lent; or one it makes of such a block, bounded to the first:
\* with another field, under a changed text, under an identifier of its own, or
\* with none that can be read.
Changed(b) == [b EXCEPT !.text = "changed"]
Foreign(b) == [b EXCEPT !.id = << b.document, "foreign", 1 >>]
Unnamed(b) == [b EXCEPT !.id = <<>>]

Proposals ==
    LET given == Range(Lent)
        some  == { v \in given : v = Lent[1] }
    IN  { Json(v.block) : v \in given }
        \cup { [field |-> f, block |-> v.block] : f \in Fields, v \in some }
        \cup UNION { { Json(Changed(v.block)), Json(Foreign(v.block)), Json(Unnamed(v.block)) } : v \in some }

Resolves(values) ==
    /\ heap' = heap \o values
    /\ answer' = [ i \in DOMAIN values |-> Len(heap) + i ]
    /\ stage' = "answered"
    /\ UNCHANGED lent

ProviderAnswers ==
    /\ stage = "asking"
    /\ \E n \in 0 .. MaxAnswer : \E values \in [1..n -> Proposals] : Resolves(values)
    /\ UNCHANGED << worldVars, request, corpusVars, result, traceVars, meddles >>

\* It throws, or what it resolves to cannot be read as an array.
ProviderFails ==
    /\ stage = "asking"
    /\ Fail("candidate-provider")
    /\ UNCHANGED << worldVars, request, corpusVars, providerVars, result, traceVars, meddles >>

\* A hit names a block by its place among those lent; a place beyond is unknown.
HitOn(h) ==
    [id |-> IF h.place \in DOMAIN Lent THEN Lent[h.place].block.id ELSE <<>>, score |-> h.score]

MiniSearchAnswers ==
    /\ stage = "asking"
    /\ \E reply \in { Reply(hits) : hits \in BoundedSeq(Hits, MaxAnswer) } \cup { Failure("SEARCH_FAILED") } :
          LET found == IF reply.ok THEN Reply([ i \in DOMAIN reply.value |-> HitOn(reply.value[i]) ]) ELSE reply
              made  == GetCandidates([ i \in DOMAIN Lent |-> Lent[i].block ], request.query, found)
          IN  /\ engine' = {found}
              /\ IF made.ok
                 THEN Resolves([ i \in DOMAIN made.value |-> Json(made.value[i].block) ])
                 ELSE Fail("candidate-provider") /\ UNCHANGED providerVars
    /\ UNCHANGED << worldVars, request, listing, sources, documents, blocks, prepared, held, result, traceVars, meddles >>

\* Whatever it holds it may change, now or after the compilation has ended.
Meddle(ref) ==
    /\ ref \in Known /\ meddles < MaxMeddles
    /\ heap' = [heap EXCEPT ![ref].block = Changed(@)]
    /\ meddles' = meddles + 1
    /\ UNCHANGED << worldVars, stage, request, corpusVars, lent, answer, result, traceVars >>

-----------------------------------------------------------------------------
(* What it resolved to is copied, compared with the corpus and compiled:   *)
(* all of it in one turn.                                                  *)

ObjectOf(value) == [shape |-> "object", fields |-> << value.field >>]

CanCopy(value) == FieldOK("clone", ObjectOf(value), value.field)

\* snapshotCandidates: what cannot be copied stays the object of the provider.
Owned(refs) ==
    [heap |-> heap \o [ i \in DOMAIN refs |-> heap[refs[i]] ],
     refs |-> [ i \in DOMAIN refs |-> IF CanCopy(heap[refs[i]]) THEN Len(heap) + i ELSE refs[i] ]]

\* A block without an identifier is left to the compiler.  One that has no
\* canonical text is not compared; that of a candidate is read with its fields.
MembershipIssues(objects, refs) ==
    LET corpus == { objects[p].block : p \in Range(prepared) }
        issue(value) ==
            IF value.block.id = <<>> THEN {}
            ELSE IF \A b \in corpus : b.id # value.block.id THEN {"candidate_outside_prepared_corpus"}
            ELSE IF ~ FieldOK("canonical", ObjectOf(value), value.field) THEN {}
            ELSE IF value.block \notin corpus THEN {"candidate_block_mismatch"}
            ELSE {}
    IN  UNION { issue(objects[refs[i]]) : i \in DOMAIN refs }

\* The compiler copies its input; strict schemas see string keys only, so a
\* field under a symbol is no reason to refuse.  It may fail for its own reasons.
CompilerTakes(value) ==
    /\ FieldOK("snapshot", ObjectOf(value), value.field)
    /\ value.block.id # <<>>

Receives ==
    /\ stage = "answered"
    /\ LET owned == Owned(answer)
           batch == [ i \in DOMAIN owned.refs |-> owned.heap[owned.refs[i]] ]
       IN  /\ heap' = owned.heap
           /\ IF MembershipIssues(owned.heap, owned.refs) # {}
              THEN Fail("candidate-provider") /\ UNCHANGED result
              ELSE \/ /\ \A i \in DOMAIN batch : CompilerTakes(batch[i])
                      /\ stage' = "done"
                      /\ result' = {[candidates |-> owned.refs, blocks |-> prepared,
                                    compiled |-> [ i \in DOMAIN batch |-> batch[i].block ],
                                    trace |-> [valid |-> TRUE, scope |-> request.scope, id |-> request.id, version |-> 2]]}
                   \/ Fail("compilation") /\ UNCHANGED result
    /\ UNCHANGED << worldVars, request, corpusVars, lent, answer, traceVars, meddles >>

-----------------------------------------------------------------------------
(* CompilationTracePersistenceService: the envelope a trace is stored in   *)
(* and what is accepted of a record read back.  A trace says which         *)
(* compilation it is of, in which scope and in which version of the format;*)
(* valid stands for all else SettledCompilationTraceValidator asks of it,  *)
(* which PersistedTrace models.                                            *)

Envelope(trace) ==
    [shape |-> TRUE, scope |-> trace.scope, id |-> trace.id, version |-> trace.version, payload |-> trace]

\* store: the trace is validated before it is put.
StoreOf(trace) == IF trace.valid THEN Reply(Envelope(trace)) ELSE Failure("invalid_trace")

\* Conflicts and damaged rows are told apart from a store that cannot answer.
StoreFailure(code) ==
    CASE code = "TRACE_CONFLICT"      -> "trace_conflict"
      [] code = "INVALID_STORED_DATA" -> "invalid_stored_record"
      [] OTHER                        -> "trace_store_unavailable"

\* Defect: a payload under the right envelope is taken for the right trace.
SettledByEnvelope(record, scope, id) ==
    IF ~ record.shape THEN Failure("invalid_stored_record")
    ELSE IF record.scope # scope THEN Failure("stored_record_scope_mismatch")
    ELSE IF record.id # id THEN Failure("stored_record_id_mismatch")
    ELSE IF ~ record.payload.valid THEN Failure("invalid_stored_record")
    ELSE Reply({record.payload})

\* #settled: the record must be the one asked for, and its payload as well.
Settled(record, scope, id) ==
    IF ~ record.shape THEN Failure("invalid_stored_record")
    ELSE IF record.scope # scope THEN Failure("stored_record_scope_mismatch")
    ELSE IF record.id # id THEN Failure("stored_record_id_mismatch")
    ELSE IF ~ record.payload.valid THEN Failure("invalid_stored_record")
    ELSE IF record.payload.id # record.id THEN Failure("stored_record_id_mismatch")
    ELSE IF record.payload.scope # record.scope THEN Failure("stored_record_scope_mismatch")
    ELSE IF record.payload.version # record.version THEN Failure("invalid_stored_record")
    ELSE Reply({record.payload})

\* get: what the caller is told of the answer of the store.
TraceRead(reply, scope, id) ==
    IF ~ reply.ok THEN Failure(StoreFailure(reply.code))
    ELSE IF reply.value = {} THEN Reply({})
    ELSE Settled(CHOOSE record \in reply.value : TRUE, scope, id)

StoresTrace ==
    /\ stage = "done" /\ stored = {}
    /\ \E r \in result : LET put == StoreOf(r.trace) IN put.ok /\ stored' = {put.value}
    /\ UNCHANGED << worldVars, stage, request, corpusVars, providerVars, result, traceRead, meddles >>

\* A sound store answers with the record put under the key; any store may
\* answer with another one, or fail.
StoreAnswers(scope, id) ==
    LET mine == { r \in stored : r.scope = scope /\ r.id = id }
    IN  { Reply(r) : r \in IF mine = {} THEN {{}} ELSE { {r} : r \in mine } }
        \cup { Reply({r}) : r \in StoredRecords } \cup { Failure("INVALID_STORED_DATA"), Failure("other") }

\* Reading does not depend on how far a compilation is: bounded to one read,
\* of a first state or of a stored trace.
ReadsTrace ==
    /\ traceRead = {} /\ meddles = 0
    /\ stored # {} \/ (stage = "listing" /\ edits = 0)
    /\ \E asked \in Requests : \E a \in StoreAnswers(asked.scope, asked.id) :
          traceRead' = {[asked |-> asked, answer |-> a, got |-> TraceRead(a, asked.scope, asked.id)]}
    /\ UNCHANGED << worldVars, stage, request, corpusVars, providerVars, result, stored, meddles >>

-----------------------------------------------------------------------------
Ends == stage \in Finished /\ UNCHANGED vars

Next ==
    \/ \E operation \in {"register", "update", "remove"}, r \in Entries \cup registry :
          Administers(operation, r)
    \/ \E l \in DOMAIN files, c \in Content : WritesFile(l, c)
    \/ Lists \/ Reads \/ Lend
    \/ ProviderAnswers \/ ProviderFails \/ MiniSearchAnswers
    \/ \E ref \in Known : Meddle(ref)
    \/ Receives
    \/ StoresTrace \/ ReadsTrace
    \/ Ends

Spec == Init /\ [][Next]_vars

-----------------------------------------------------------------------------
\* What was compiled is what was prepared, and what execute() resolved to says
\* the same now as when it did: whatever the provider changes of the objects it
\* was lent or returned, before or after.
CompiledIsPrepared ==
    \A r \in result :
        LET corpus == Range(Blocks)
        IN  /\ \A i \in DOMAIN r.candidates : heap[r.candidates[i]].block = r.compiled[i]
            /\ { heap[b].block : b \in Range(r.blocks) } = corpus
            /\ Range(r.compiled) \subseteq corpus

\* No candidate of a compilation that succeeded is still an object of the
\* provider, which could change it after the fact.
ResultIsOwned ==
    \A r \in result : Range(r.candidates) \cap Known = {}

\* A corpus is one reading of the registrations one listing held: every document
\* is of a registration listed for the scope, from a content its file held since
\* the listing, whole and once, in an order the store has no part in.  The
\* operator who lists the same answer sees the same registrations.
CorpusIsOneReading ==
    stage \in {"asking", "answered", "done"} =>
        LET published == Documents
            corpus    == Range(Blocks)
        IN  /\ listing.ok /\ ServiceLists(listing) = Reply(sources)
            /\ \A i, j \in DOMAIN published : i < j => IdRank(published[i].id) < IdRank(published[j].id)
            /\ \A d \in Range(published) :
                  /\ d.scope = request.scope
                  /\ \E r \in Range(listing.value) :
                        /\ DocumentId(r) = d.id /\ << r.locator, d.hash >> \in held
                        /\ { b \in corpus : b.document = d.id } = Range(BlocksCut(r, d.hash))
            /\ { b.document : b \in corpus } \subseteq { d.id : d \in Range(published) }
            /\ \A b, c \in corpus : b.id = c.id => b = c

\* The search engine decides which blocks are found and how well, and nothing
\* else: its answer in any order gives the same candidates, each of them a block
\* it was lent, the best of them first and no more than the limit; and blocks of
\* which none was changed meanwhile are never refused as foreign.
RetrievalIsCanonical ==
    \A found \in engine :
        found.ok /\ meddles = 0 =>
            LET given  == [ i \in DOMAIN prepared |-> heap[prepared[i]].block ]
                made   == GetCandidates(given, request.query, found)
                orders == { [ i \in DOMAIN found.value |-> found.value[p[i]] ] :
                              p \in Bijection(DOMAIN found.value, DOMAIN found.value) }
            IN  /\ \A hits \in orders : GetCandidates(given, request.query, Reply(hits)).ok = made.ok
                /\ made.ok =>
                      /\ \A hits \in orders : GetCandidates(given, request.query, Reply(hits)) = made
                      /\ Len(made.value) <= MaxCandidates
                      /\ \A h \in Range(found.value) : request.query = "words" /\ given # <<>> =>
                            \/ \E c \in Range(made.value) : c.block.id = h.id /\ c.score = h.score
                            \/ Len(made.value) = MaxCandidates /\ \A c \in Range(made.value) : c.score >= h.score
                /\ stage = "candidate-provider" => ~ made.ok

\* A trace that is read back is of the compilation and the scope asked for, in
\* the version its record was stored under, whatever the store answers; and the
\* trace of a compilation, once stored, is read back as it is.
TraceReadIsTheirs ==
    \A t \in traceRead :
        /\ t.got.ok => \A trace \in t.got.value :
              /\ trace.valid /\ trace.scope = t.asked.scope /\ trace.id = t.asked.id
              /\ \A record \in t.answer.value : trace.version = record.version
        /\ \A r \in result : t.asked = request /\ t.answer.ok /\ t.answer.value # {} /\ t.answer.value = stored =>
              t.got = Reply({r.trace})

=============================================================================
