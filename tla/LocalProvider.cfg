SPECIFICATION Spec
CONSTANTS
    Content <- MCContent
    Cut <- MCCut
    LoneSurrogate = {"lone"}
    NoConversation = {"one"}
    IdRank <- MCIdRank
    BlockRank <- MCBlockRank
    Requests <- MCRequests
    Registries <- MCRegistries
    Entries <- MCEntries
    Files <- MCFiles
    Hits <- MCHits
    Fields = {"symbol"}
    StoredRecords <- MCStoredRecords
    MaxCandidates = 1
    MaxAnswer = 1
    MaxEdits = 0
    MaxMeddles = 0
INVARIANT ResultIsOwned
