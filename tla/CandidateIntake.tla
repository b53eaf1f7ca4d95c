-------------------------- MODULE CandidateIntake --------------------------
(***************************************************************************)
(* The records a compilation request carries: source documents, blocks and *)
(* the wrappers a retrieval puts around them.  CandidateValidator.validate *)
(* and CandidateDeduplicator.deduplicate: the batch as every later stage   *)
(* sees it.                                                                *)
(*                                                                         *)
(* A location is a text range [kind, start, end] or a message [kind,      *)
(* index, message], its index an option.                                   *)
(*                                                                         *)
(* Identifiers are natural numbers, so the code-unit order of identifiers  *)
(* is <.  A field that may be absent is a set of at most one value.  A     *)
(* content is a member of Content, a number in the order of the texts;     *)
(* Normal maps it to the content with its line ends normalized, and stands *)
(* for the hash of that text as well: the digest separates any two         *)
(* normalized texts.                                                       *)
(***************************************************************************)
EXTENDS PortValues, Integers, FiniteSetsExt, SequencesExt

CONSTANTS Content,      \* texts of blocks
          Normal,       \* the text with CRLF and CR turned into LF
          IllFormed     \* texts with a lone surrogate

ASSUME ContentAssumption ==
    /\ Content \subseteq Nat
    /\ Normal \in [Content -> Content]
    /\ \A c \in Content : Normal[Normal[c]] = Normal[c]
    /\ IllFormed \subseteq Content
    /\ \A c \in Content : c \in IllFormed <=> Normal[c] \in IllFormed

SourceTypes == {"markdown", "text", "conversation"}

\* The kind of location a block of each source type may carry.
ExpectedLocation ==
    [t \in SourceTypes |-> IF t = "conversation" THEN "conversation-message" ELSE "text-range"]

Elements(s)    == { s[i] : i \in DOMAIN s }
IdsOf(S)       == { x.id : x \in S }
BlockOf(w)     == w.block
BlocksOf(ws)   == { BlockOf(w) : w \in ws }

\* The number of times x stands in a sequence: records are compared whole.
Occurrences(s, x) == Cardinality({ i \in DOMAIN s : s[i] = x })
SameBag(s, t)     == \A x \in Elements(s) \cup Elements(t) : Occurrences(s, x) = Occurrences(t, x)

\* Each of the wanted identifiers stands exactly once, and nothing else does.
CoversExactlyOnce(ids, wanted) ==
    Len(ids) = Len(wanted) /\ SameBag(ids, wanted) /\ IsInjective(ids)

\* The value of an option that is present.
The(option) == CHOOSE x \in option : TRUE

\* canonicalJson over wrappers of one block: they differ in their retrieval only.
RetrievalKey(w) ==
    IF w.retrieval = {} THEN <<0, 0, 0>>
    ELSE LET r == The(w.retrieval)
         IN  IF r.score = {} THEN <<1, r.contract, 0>> ELSE <<2, r.contract, The(r.score)>>

KeyBefore(k, l) ==
    \E i \in DOMAIN k : k[i] < l[i] /\ \A j \in 1..(i - 1) : k[j] = l[j]

\* identifier ascending, then the serialized wrapper
WrapperBefore(v, w) ==
    \/ v.block.id < w.block.id
    \/ v.block.id = w.block.id /\ KeyBefore(RetrievalKey(v), RetrievalKey(w))

IdBefore(x, y) == x.id < y.id

-----------------------------------------------------------------------------
(* The shapes the parser of a request lets through.                        *)

AtMostOne(option)   == \A x, y \in option : x = y
OptionOf(option, S) == option \subseteq S /\ AtMostOne(option)

LocationShape(l) ==
    IF l.kind = "text-range" THEN l.start \in Nat /\ l.end \in Nat
    ELSE OptionOf(l.index, Nat) /\ l.message \in Nat

BlockShape(b) ==
    /\ b.id \in Nat /\ b.doc \in Nat /\ b.tokens \in Nat
    /\ b.content \in Content /\ b.required \in BOOLEAN
    /\ AtMostOne(b.location) /\ \A l \in b.location : LocationShape(l)
    /\ AtMostOne(b.category)
    /\ OptionOf(b.priority, Int) /\ OptionOf(b.updated, Int) /\ OptionOf(b.created, Int)

RetrievalShape(r) ==
    /\ r = [contract |-> r.contract, score |-> r.score]
    /\ r.contract \in Nat /\ OptionOf(r.score, Int)

WrapperShape(w) ==
    /\ w = [block |-> w.block, retrieval |-> w.retrieval]
    /\ BlockShape(w.block)
    /\ AtMostOne(w.retrieval) /\ \A r \in w.retrieval : RetrievalShape(r)

-----------------------------------------------------------------------------
(* Validation: every problem of a batch, as a set of issues.  An issue is  *)
(* a code and the place it is reported at.                                 *)

\* What the tokenizer answers for a content: a count, Threw, or a number that
\* is not a usable count.
Threw    == -2
Unusable == -1
Counted(answer) == answer >= 0

Issue(code, part, index) == [code |-> code, part |-> part, at |-> index]

\* An identifier stands for one document, or it is ambiguous.
DeclaredTimes(docs, id) == Cardinality({ i \in DOMAIN docs : docs[i].id = id })

Registry(docs) == { d \in Elements(docs) : DeclaredTimes(docs, d.id) = 1 }

RegistryIssues(scope, docs) ==
    { Issue("duplicate_source_document_id", "sourceDocuments", i) :
        i \in { j \in DOMAIN docs : \E k \in 1..(j - 1) : docs[k].id = docs[j].id } }
    \cup { Issue("scope_mismatch", "sourceDocuments", i) : i \in { j \in DOMAIN docs : docs[j].scope # scope } }

SourceIssues(docs, b) ==
    LET source == { d \in Registry(docs) : d.id = b.doc }
        ambiguous == DeclaredTimes(docs, b.doc) > 1
    IN  { code \in {"source_not_found", "source_scope_mismatch", "source_type_mismatch"} :
            \/ code = "source_not_found"      /\ source = {} /\ ~ ambiguous
            \/ code = "source_scope_mismatch" /\ \E d \in source : d.scope # b.scope
            \/ code = "source_type_mismatch"  /\ \E d \in source : d.type # b.type }

\* Defect: the declared hash of a content is taken at its word.
HashUnchecked(b) == FALSE

HashMismatch(b) == b.hash # Normal[b.content]

\* An ill-formed content is neither hashed nor counted.
ContentIssues(counts, b) ==
    IF b.content \in IllFormed THEN {"invalid_unicode"}
    ELSE { code \in {"invalid_normalized_content_hash", "tokenizer_failed",
                     "invalid_token_count"} :
             \/ code = "invalid_normalized_content_hash" /\ HashMismatch(b)
             \/ code = "tokenizer_failed"    /\ ~ Counted(counts[b.content])
             \/ code = "invalid_token_count" /\ Counted(counts[b.content])
                                             /\ counts[b.content] # b.tokens }

BlockIssues(scope, docs, counts, b) ==
    { code \in {"scope_mismatch"} : b.scope # scope }
    \cup SourceIssues(docs, b)
    \cup { code \in {"source_location_type_mismatch"} :
             \E place \in b.location : place.kind # ExpectedLocation[b.type] }
    \cup ContentIssues(counts, b)

CandidateIssues(scope, docs, counts, candidates) ==
    UNION { { Issue(code, "candidates", i) : code \in BlockIssues(scope, docs, counts, candidates[i].block) } :
              i \in DOMAIN candidates }

\* Defect: only neighbours in the batch are compared.
ConflictingIdsNearby(candidates) ==
    { id \in IdsOf(BlocksOf(Elements(candidates))) :
        \E i \in 1..(Len(candidates) - 1) :
            /\ candidates[i].block.id = id /\ candidates[i + 1].block.id = id
            /\ candidates[i].block # candidates[i + 1].block }

\* Identifiers attached to more than one record.
ConflictingIds(candidates) ==
    LET blocks == BlocksOf(Elements(candidates))
    IN  { id \in IdsOf(blocks) : Cardinality({ b \in blocks : b.id = id }) > 1 }

FirstIndex(candidates, id) ==
    CHOOSE i \in DOMAIN candidates :
        /\ candidates[i].block.id = id
        /\ \A j \in 1..(i - 1) : candidates[j].block.id # id

ValidationIssues(scope, docs, counts, candidates) ==
    RegistryIssues(scope, docs)
    \cup CandidateIssues(scope, docs, counts, candidates)
    \cup { Issue("conflicting_block_id", "candidates", FirstIndex(candidates, id)) :
             id \in ConflictingIds(candidates) }

-----------------------------------------------------------------------------
(* Deduplication: wrappers whose blocks share their declared hash and      *)
(* their normalized content form one group; one of its blocks represents   *)
(* it, a required one if there is one.                                     *)

GroupKey(w) == <<w.block.hash, Normal[w.block.content]>>

MembersOf(candidates, key) == Filtered(candidates, LAMBDA w : GroupKey(w) = key)

\* blocksById: the first block seen under each identifier.
BlocksById(members) ==
    { members[i].block : i \in { j \in DOMAIN members :
        \A k \in 1..(j - 1) : members[k].block.id # members[j].block.id } }

LowestId(blocks) == CHOOSE b \in blocks : \A c \in blocks : b.id <= c.id

\* Defect: the identifier alone decides.
CanonicalByIdOnly(blocks) == LowestId(blocks)

Canonical(blocks) ==
    LET required == { b \in blocks : b.required }
    IN  IF required # {} THEN LowestId(required) ELSE LowestId(blocks)

SelectionReason(blocks) ==
    LET required == Cardinality({ b \in blocks : b.required })
    IN  IF Cardinality(blocks) = 1 THEN "single-block"
        ELSE IF required = 0 THEN "stable-block-id"
        ELSE IF required = 1 THEN "required-block" ELSE "required-then-stable-block-id"

MatchReason(w, canonical) ==
    IF w.block.id = canonical.id THEN "same-block-id" ELSE "same-normalized-content"

GroupFor(candidates, key) ==
    LET members == MembersOf(candidates, key)
        sorted    == Sorted(members, WrapperBefore)
        canonical == Canonical(BlocksById(members))
    IN  [ canonical |-> canonical,
          reason    |-> SelectionReason(BlocksById(members)),
          members   |-> [ i \in DOMAIN sorted |->
                            [candidate |-> sorted[i], match |-> MatchReason(sorted[i], canonical)] ] ]

\* canonical identifier ascending, then normalized content
GroupBefore(g, h) ==
    \/ g.canonical.id < h.canonical.id
    \/ g.canonical.id = h.canonical.id /\ Normal[g.canonical.content] < Normal[h.canonical.content]

Deduplicate(candidates) ==
    Listed({ GroupFor(candidates, GroupKey(w)) : w \in Elements(candidates) }, GroupBefore)

WrappersOf(group) == { m.candidate : m \in Elements(group.members) }
GroupBlocks(group) == BlocksOf(WrappersOf(group))

=============================================================================
