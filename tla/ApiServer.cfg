SPECIFICATION Spec
CONSTANTS
  Request = {r1, r2, r3}
  MaxConcurrent = 2
INVARIANTS SlotsMatchRequests StoresOutliveRequests CompiledIsStored
PROPERTIES ShutdownCompletes AbandonedRequestsEnd
CHECK_DEADLOCK FALSE
