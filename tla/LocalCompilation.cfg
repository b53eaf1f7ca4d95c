SPECIFICATION Spec
CONSTANTS
    Content <- MCContent
    Cut <- MCCut
    LoneSurrogate = {"lone"}
    NoConversation = {"one"}
    IdRank <- MCIdRank
    BlockRank <- MCBlockRank
    Requests <- MCRequests
    Registries <- MCRegistries
    Entries <- MCEntries
    Files <- MCFiles
    Hits <- MCHits
    Fields = {"data", "accessor"}
    StoredRecords <- MCStoredRecords
    MaxCandidates = 1
    MaxAnswer = 2
    MaxEdits = 1
    MaxMeddles = 1
INVARIANTS
    CompiledIsPrepared
    CorpusIsOneReading
    RetrievalIsCanonical
    TraceReadIsTheirs
