SPECIFICATION Spec
CONSTANTS
    Root <- MCRoot
    Requests <- MCRequests
    Trees <- MCTrees
    Entries <- MCEntries
    Contents <- MCContents
    Disks <- MCDisks
    MaxBytes = 2
    Chunk = 2
    MaxChanges = 3
INVARIANT ReadIsConfined
