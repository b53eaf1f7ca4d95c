SPECIFICATION Spec
CONSTANTS
    Callers = {1, 2}
    Plans <- MCPlans
    Payloads <- MCPayloads
    TokenCount <- MCTokenCount
    IdPlace <- MCIdPlace
    Outcomes <- MCOutcomes
    ClockKinds = {"monotone", "any"}
    MaxTime = 1
INVARIANT ReportsAreHonest
PROPERTY SuitesEnd
