SPECIFICATION Spec
CONSTANTS
    Sources <- MCSources
    Count <- MCCount
INVARIANT BlocksCoverTheSource
