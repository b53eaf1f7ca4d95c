--------------------------- MODULE ApiServerProofs ---------------------------
(***************************************************************************)
(* Theorems about ApiServer, for any number of requests and of slots.        *)
(***************************************************************************)
EXTENDS ApiServer, FiniteSetTheorems, TLAPS

-----------------------------------------------------------------------------
(* The inductive invariant. *)

\* The flags follow the listener: work is taken while it listens, no longer.
FlagsInv ==
    /\ stopping => ~ready /\ listener \in {"closing", "drained"}
    /\ listener \in {"closing", "drained"} => stopping
    /\ listener = "starting" => ~ready

\* Nothing is admitted before the listener listens, and the promise of
\* whenIdle() is resolved only when no admitted request is left.
IdleInv ==
    /\ listener = "starting" => Admitted = {} /\ idle = "unasked"
    /\ idle = "resolved" => Admitted = {}
    /\ idle # "unasked" => stopping
    /\ closed => listener = "starting" \/ idle = "resolved"

\* A handler that is about to answer success has stored its trace.
PersistedInv == \A r \in Request : pc[r] = "persisted" => stored[r]

IInv ==
    /\ ApiTypeOK /\ SlotsMatchRequests
    /\ FlagsInv /\ IdleInv
    /\ PersistedInv /\ CompiledIsStored

-----------------------------------------------------------------------------
(* Counting the admitted requests. *)

\* The admitted requests are finitely many, so the counter has something to count.
LEMMA AdmittedIsFinite ==
    ASSUME ApiTypeOK
    PROVE  IsFiniteSet(Admitted) /\ Cardinality(Admitted) \in Nat
<1>1. Admitted \subseteq Request
    BY DEF Admitted
<1> QED
    BY <1>1, RequestAssumption, FS_Subset, FS_CardinalityType

\* Taking one slot.
LEMMA AdmitCounts ==
    ASSUME ApiTypeOK, SlotsMatchRequests,
           NEW r \in Request, pc[r] \notin Occupied,
           NEW stage \in Occupied, pc' = [pc EXCEPT ![r] = stage]
    PROVE  /\ Admitted' = Admitted \cup {r}
           /\ Cardinality(Admitted') = active + 1
<1>1. Admitted' = Admitted \cup {r}
    BY DEF Admitted, ApiTypeOK
<1>2. r \notin Admitted
    BY DEF Admitted
<1>3. Cardinality(Admitted \cup {r}) = Cardinality(Admitted) + 1
    BY <1>2, AdmittedIsFinite, FS_AddElement
<1> QED
    BY <1>1, <1>3 DEF SlotsMatchRequests

\* Giving it back.
LEMMA FinishCounts ==
    ASSUME ApiTypeOK, SlotsMatchRequests,
           NEW r \in Request, pc[r] \in Occupied,
           pc' = [pc EXCEPT ![r] = "done"]
    PROVE  /\ Admitted' = Admitted \ {r}
           /\ active \in 1..MaxConcurrent
           /\ Cardinality(Admitted') = active - 1
           /\ active = 1 => Admitted' = {}
<1>1. Admitted' = Admitted \ {r}
    BY DEF Admitted, ApiTypeOK, Occupied
<1>2. r \in Admitted
    BY DEF Admitted
<1>3. Cardinality(Admitted \ {r}) = Cardinality(Admitted) - 1
    BY <1>2, AdmittedIsFinite, FS_RemoveElement
<1>4. IsFiniteSet(Admitted \ {r}) /\ Cardinality(Admitted \ {r}) \in Nat
    BY AdmittedIsFinite, FS_RemoveElement, FS_CardinalityType
<1>5. active \in 1..MaxConcurrent
    BY <1>3, <1>4, MaxConcurrentAssumption DEF SlotsMatchRequests, ApiTypeOK
<1>6. active = 1 => Admitted \ {r} = {}
    BY <1>3, <1>4, FS_EmptySet DEF SlotsMatchRequests
<1> QED
    BY <1>1, <1>3, <1>5, <1>6 DEF SlotsMatchRequests

\* A handler that moves from one await to the next keeps its slot.
LEMMA AdvanceCounts ==
    ASSUME ApiTypeOK, NEW r \in Request, NEW to \in Occupied,
           pc[r] \in Occupied, pc' = [pc EXCEPT ![r] = to]
    PROVE  Admitted' = Admitted
BY DEF Admitted, ApiTypeOK

-----------------------------------------------------------------------------
(* Steps. *)

\* What WriteJson leaves: at most the one entry changes, to the given status.
LEMMA WriteJsonEffect ==
    ASSUME ApiTypeOK, NEW r \in Request,
           NEW status \in {"ok", "compiled", "error", "busy", "not_ready"},
           WriteJson(r, status)
    PROVE  /\ sent' \in [Request -> {"none", "ok", "compiled", "error", "busy", "not_ready"}]
           /\ \A q \in Request : sent'[q] = sent[q] \/ (q = r /\ sent'[q] = status)
BY DEF WriteJson, ApiTypeOK

\* The finally block of any admitted request keeps the invariant.
LEMMA FinishKeepsInv ==
    ASSUME IInv, NEW r \in Request, pc[r] \in Occupied,
           NEW status \in {"ok", "compiled", "error"},
           status = "compiled" => stored[r],
           Finish(r, status)
    PROVE  IInv'
<1> USE DEF IInv
<1>1. /\ pc' = [pc EXCEPT ![r] = "done"]
      /\ WriteJson(r, status)
      /\ active' = active - 1
      /\ idle' = IF active = 1 /\ idle = "waiting" THEN "resolved" ELSE idle
      /\ UNCHANGED <<ready, stopping, listener, timer, closed, conn, stored>>
    BY DEF Finish, Release, server
<1>2. /\ Admitted' = Admitted \ {r} /\ active \in 1..MaxConcurrent
      /\ Cardinality(Admitted') = active - 1 /\ (active = 1 => Admitted' = {})
    BY <1>1, FinishCounts
<1>3. /\ sent' \in [Request -> {"none", "ok", "compiled", "error", "busy", "not_ready"}]
      /\ \A q \in Request : sent'[q] = sent[q] \/ (q = r /\ sent'[q] = status)
    BY <1>1, WriteJsonEffect
<1>4. ApiTypeOK'
    <2>1. active' \in 0..MaxConcurrent
        BY <1>1, <1>2, MaxConcurrentAssumption
    <2>2. pc' \in [Request -> {"new", "done"} \cup Occupied]
        BY <1>1 DEF ApiTypeOK
    <2>3. idle' \in {"unasked", "waiting", "resolved"}
        BY <1>1 DEF ApiTypeOK
    <2> QED
        BY <1>1, <1>3, <2>1, <2>2, <2>3 DEF ApiTypeOK
<1>5. SlotsMatchRequests'
    BY <1>1, <1>2 DEF SlotsMatchRequests
<1>6. FlagsInv'
    BY <1>1 DEF FlagsInv
<1>7. IdleInv'
    BY <1>1, <1>2 DEF IdleInv
<1>8. PersistedInv'
    BY <1>1 DEF PersistedInv, ApiTypeOK
<1>9. CompiledIsStored'
    BY <1>1, <1>3 DEF CompiledIsStored
<1> QED
    BY <1>4, <1>5, <1>6, <1>7, <1>8, <1>9

\* An answer that takes no slot keeps it.
LEMMA AnswerKeepsInv ==
    ASSUME IInv, NEW r \in Request, pc[r] = "new",
           NEW status \in {"ok", "error", "busy", "not_ready"},
           pc' = [pc EXCEPT ![r] = "done"], WriteJson(r, status),
           UNCHANGED <<handler, server, conn, stored>>
    PROVE  IInv'
<1> USE DEF IInv
<1>1. UNCHANGED <<ready, stopping, active, idle, listener, timer, closed, conn, stored>>
    BY DEF handler, server
<1>2. Admitted' = Admitted
    BY DEF Admitted, ApiTypeOK, Occupied
<1>3. /\ sent' \in [Request -> {"none", "ok", "compiled", "error", "busy", "not_ready"}]
      /\ \A q \in Request : sent'[q] = sent[q] \/ (q = r /\ sent'[q] = status)
    BY WriteJsonEffect
<1>4. ApiTypeOK'
    BY <1>1, <1>3 DEF ApiTypeOK
<1>5. SlotsMatchRequests' /\ FlagsInv' /\ IdleInv'
    BY <1>1, <1>2 DEF SlotsMatchRequests, FlagsInv, IdleInv
<1>6. PersistedInv' /\ CompiledIsStored'
    BY <1>1, <1>3 DEF PersistedInv, CompiledIsStored, ApiTypeOK
<1> QED
    BY <1>4, <1>5, <1>6

\* So does a step from one await to the next.
LEMMA AdvanceKeepsInv ==
    ASSUME IInv, NEW r \in Request, NEW from \in Occupied,
           NEW to \in Occupied \ {"persisted"}, Advance(r, from, to)
    PROVE  IInv'
<1> USE DEF IInv
<1>1. /\ pc[r] = from /\ pc' = [pc EXCEPT ![r] = to]
      /\ UNCHANGED <<ready, stopping, active, idle, listener, timer, closed, conn, sent, stored>>
    BY DEF Advance, handler, server
<1>2. Admitted' = Admitted
    BY <1>1, AdvanceCounts
<1>3. ApiTypeOK'
    BY <1>1 DEF ApiTypeOK, Occupied
<1>4. SlotsMatchRequests' /\ FlagsInv' /\ IdleInv'
    BY <1>1, <1>2 DEF SlotsMatchRequests, FlagsInv, IdleInv
<1>5. PersistedInv' /\ CompiledIsStored'
    BY <1>1 DEF PersistedInv, CompiledIsStored, ApiTypeOK
<1> QED
    BY <1>3, <1>4, <1>5

\* A step that touches neither handlers nor answers nor slots.
LEMMA ServerStepKeepsInv ==
    ASSUME IInv, Listens \/ ListenFails \/ Shutdown \/ Closing
    PROVE  IInv'
<1> USE DEF IInv
<1>1. CASE Listens
    <2>1. Admitted' = Admitted
        BY <1>1 DEF Listens, client, Admitted
    <2> QED
        BY <1>1, <2>1 DEF Listens, client, ApiTypeOK, SlotsMatchRequests, FlagsInv, IdleInv,
                          PersistedInv, CompiledIsStored
<1>2. CASE ListenFails
    <2>1. Admitted' = Admitted
        BY <1>2 DEF ListenFails, client, Admitted
    <2> QED
        BY <1>2, <2>1 DEF ListenFails, client, handler, ApiTypeOK, SlotsMatchRequests, FlagsInv,
                          IdleInv, PersistedInv, CompiledIsStored
<1>3. CASE Shutdown
    <2>1. Admitted' = Admitted
        BY <1>3 DEF Shutdown, client, Admitted
    <2>2. active = 0 => Admitted = {}
        BY AdmittedIsFinite, FS_EmptySet DEF SlotsMatchRequests
    <2> QED
        BY <1>3, <2>1, <2>2 DEF Shutdown, client, ApiTypeOK, SlotsMatchRequests, FlagsInv,
                          IdleInv, PersistedInv, CompiledIsStored
<1>4. CASE Closing
    <2>1. Admitted' = Admitted
        BY <1>4 DEF Closing, GraceExpires, Drains, ClosesRuntime, client, Admitted
    <2>2. UNCHANGED <<ready, stopping, active, idle, pc, sent, stored>>
        BY <1>4 DEF Closing, GraceExpires, Drains, ClosesRuntime, client, handler
    <2>3. ApiTypeOK'
        BY <1>4, <2>2 DEF Closing, GraceExpires, Drains, ClosesRuntime, client, ApiTypeOK
    <2>4. FlagsInv' /\ IdleInv'
        BY <1>4, <2>1, <2>2 DEF Closing, GraceExpires, Drains, ClosesRuntime, FlagsInv, IdleInv
    <2> QED
        BY <2>1, <2>2, <2>3, <2>4 DEF SlotsMatchRequests, PersistedInv, CompiledIsStored
<1> QED
    BY <1>1, <1>2, <1>3, <1>4

-----------------------------------------------------------------------------
(* The theorems. *)

\* A server that has not started yet satisfies the invariant.
LEMMA InitEstablishesInv ==
    ASSUME Init PROVE IInv
<1>1. Admitted = {}
    BY DEF Init, Admitted, Occupied
<1>2. Cardinality(Admitted) = 0
    BY <1>1, FS_EmptySet
<1>3. active \in 0..MaxConcurrent
    BY MaxConcurrentAssumption DEF Init
<1>4. ApiTypeOK
    BY <1>3 DEF Init, ApiTypeOK
<1>5. SlotsMatchRequests /\ FlagsInv /\ IdleInv
    BY <1>1, <1>2 DEF Init, SlotsMatchRequests, FlagsInv, IdleInv
<1>6. PersistedInv /\ CompiledIsStored
    BY DEF Init, PersistedInv, CompiledIsStored
<1> QED
    BY <1>4, <1>5, <1>6 DEF IInv

\* Every turn of the event loop keeps the invariant.
LEMMA NextKeepsInv ==
    ASSUME IInv, [Next]_vars PROVE IInv'
<1>1. CASE UNCHANGED vars
    BY <1>1 DEF vars, handler, server, client, IInv, ApiTypeOK, SlotsMatchRequests, FlagsInv,
                IdleInv, PersistedInv, CompiledIsStored, Admitted
<1>2. CASE Listens \/ ListenFails \/ Shutdown \/ Closing
    BY <1>2, ServerStepKeepsInv
<1>3. ASSUME NEW r \in Request, Connects(r) \/ Disconnects(r) PROVE IInv'
    BY <1>3 DEF Connects, Disconnects, vars, handler, server, client, IInv, ApiTypeOK,
                SlotsMatchRequests, FlagsInv, IdleInv, PersistedInv, CompiledIsStored, Admitted
<1>4. ASSUME NEW r \in Request, AnswerAtOnce(r) \/ RefuseNotReady(r) \/ RefuseBusy(r)
      PROVE  IInv'
    BY <1>4, AnswerKeepsInv DEF AnswerAtOnce, RefuseNotReady, RefuseBusy, Arrives
<1>5. ASSUME NEW r \in Request, Admit(r) PROVE IInv'
    <2>1. PICK stage \in {"trace", "body"} : pc' = [pc EXCEPT ![r] = stage]
        BY <1>5 DEF Admit
    <2>2. /\ pc[r] \notin Occupied /\ IsReady
          /\ active < MaxConcurrent /\ active' = active + 1
          /\ UNCHANGED <<ready, stopping, idle, listener, timer, closed, conn, sent, stored>>
        BY <1>5 DEF Admit, Arrives, Occupied, server
    <2>3. Admitted' = Admitted \cup {r} /\ Cardinality(Admitted') = active + 1
        BY <2>1, <2>2, AdmitCounts DEF IInv, Occupied
    <2>4. ApiTypeOK' /\ SlotsMatchRequests'
        BY <2>1, <2>2, <2>3, MaxConcurrentAssumption
           DEF IInv, ApiTypeOK, SlotsMatchRequests, Occupied
    <2>5. FlagsInv' /\ IdleInv'
        BY <2>2 DEF IInv, IsReady, FlagsInv, IdleInv, ApiTypeOK
    <2>6. PersistedInv' /\ CompiledIsStored'
        BY <2>1, <2>2 DEF IInv, PersistedInv, CompiledIsStored, ApiTypeOK
    <2> QED
        BY <2>4, <2>5, <2>6 DEF IInv
<1>6. ASSUME NEW r \in Request, BodyEnds(r) \/ BodyRejected(r) PROVE IInv'
    BY <1>6, AdvanceKeepsInv, FinishKeepsInv DEF BodyEnds, BodyRejected, Occupied
<1>7. ASSUME NEW r \in Request, Handling(r) PROVE IInv'
    <2>1. CASE BodyAborts(r) \/ Compiles(r) \/ ReadsTrace(r) \/ Evaluates(r)
        BY <2>1, AdvanceKeepsInv, FinishKeepsInv
           DEF BodyAborts, Compiles, ReadsTrace, Evaluates, Occupied
    <2>2. CASE Succeeds(r)
        BY <2>2, FinishKeepsInv DEF Succeeds, Occupied, IInv, PersistedInv
    <2>3. CASE Persists(r) /\ ~Finish(r, "error")
        <3>1. /\ pc[r] = "persist" /\ pc' = [pc EXCEPT ![r] = "persisted"]
              /\ stored' = [stored EXCEPT ![r] = TRUE]
              /\ UNCHANGED <<ready, stopping, active, idle, listener, timer, closed, conn, sent>>
            BY <2>3 DEF Persists, handler, server
        <3>2. Admitted' = Admitted
            BY <3>1, AdvanceCounts DEF IInv, Occupied
        <3>3. ApiTypeOK'
            BY <3>1 DEF IInv, ApiTypeOK, Occupied
        <3>4. SlotsMatchRequests' /\ FlagsInv' /\ IdleInv'
            BY <3>1, <3>2 DEF IInv, SlotsMatchRequests, FlagsInv, IdleInv
        <3>5. PersistedInv' /\ CompiledIsStored'
            BY <3>1 DEF IInv, PersistedInv, CompiledIsStored, ApiTypeOK
        <3> QED
            BY <3>3, <3>4, <3>5 DEF IInv
    <2>4. CASE Persists(r) /\ Finish(r, "error")
        BY <2>4, FinishKeepsInv DEF Persists, Occupied
    <2> QED
        BY <1>7, <2>1, <2>2, <2>3, <2>4 DEF Handling
<1> QED
    BY <1>1, <1>2, <1>3, <1>4, <1>5, <1>6, <1>7 DEF Next

\* The flags, the counter, the waiter and the stores agree at every step of the
\* server, for any number of requests and slots (handler.ts, server.ts).
THEOREM ApiInvariant == Spec => []IInv
<1>1. Init => IInv
    BY InitEstablishesInv
<1>2. IInv /\ [Next]_vars => IInv'
    BY NextKeepsInv
<1> QED
    BY <1>1, <1>2, PTL DEF Spec

\* The count of active requests never exceeds its limit (handler.ts).
THEOREM ApiTypeCorrect == Spec => []ApiTypeOK
BY ApiInvariant, PTL DEF IInv

\* A slot is taken by exactly the admitted requests (handler.ts, finally).
THEOREM SlotsNeverLeak == Spec => []SlotsMatchRequests
BY ApiInvariant, PTL DEF IInv

\* The stores are closed only when no admitted request is left (server.ts, close).
THEOREM StoresAreClosedLast == Spec => []StoresOutliveRequests
<1>1. IInv => StoresOutliveRequests
    BY DEF IInv, IdleInv, StoresOutliveRequests
<1> QED
    BY <1>1, ApiInvariant, PTL

\* A compiled context is answered only with its trace stored
\* (CompileAndPersistLocalContextService).
THEOREM SuccessIsDurable == Spec => []CompiledIsStored
BY ApiInvariant, PTL DEF IInv

\* No request is admitted after the shutdown began (beginShutdown).
THEOREM ShutdownAdmitsNothing == Spec => NoAdmissionAfterShutdown
<1>1. ASSUME IInv, IInv', [Next]_vars, stopping
      PROVE  ~ready' /\ Admitted' \subseteq Admitted
    <2>1. stopping'
        BY <1>1 DEF Next, vars, handler, server, client, Listens, ListenFails, Shutdown, Closing,
            GraceExpires, Drains, ClosesRuntime, Connects, Disconnects, AnswerAtOnce,
            RefuseNotReady, RefuseBusy, Admit, BodyEnds, BodyRejected, Handling, Advance,
            BodyAborts, Compiles, Persists, Succeeds, ReadsTrace, Evaluates, Finish, Release
    <2>2. Admitted' \subseteq Admitted
        <3>1. CASE UNCHANGED vars \/ Listens \/ ListenFails \/ Shutdown \/ Closing
            BY <3>1 DEF vars, client, Listens, ListenFails, Shutdown, Closing, GraceExpires,
                        Drains, ClosesRuntime, Admitted
        <3>2. ASSUME NEW r \in Request, Connects(r) \/ Disconnects(r)
              PROVE  Admitted' \subseteq Admitted
            BY <3>2 DEF Connects, Disconnects, Admitted
        <3>3. ASSUME NEW r \in Request, Admit(r) PROVE FALSE
            BY <3>3, <1>1 DEF Admit, IsReady
        <3>4. ASSUME NEW r \in Request, pc' = [pc EXCEPT ![r] = "done"]
              PROVE  Admitted' \subseteq Admitted
            BY <3>4, <1>1 DEF Admitted, IInv, ApiTypeOK, Occupied
        <3>5. ASSUME NEW r \in Request, NEW from \in Occupied, pc[r] = from,
                     NEW to \in Occupied, pc' = [pc EXCEPT ![r] = to]
              PROVE  Admitted' \subseteq Admitted
            BY <3>5, <1>1 DEF Admitted, IInv, ApiTypeOK
        <3>6. ASSUME NEW r \in Request,
                     \/ AnswerAtOnce(r) \/ RefuseNotReady(r) \/ RefuseBusy(r)
                     \/ BodyEnds(r) \/ BodyRejected(r) \/ Handling(r)
              PROVE  Admitted' \subseteq Admitted
            BY <3>6, <3>4, <3>5
               DEF AnswerAtOnce, RefuseNotReady, RefuseBusy, BodyEnds, BodyRejected, Handling,
                   BodyAborts, Compiles, Persists, Succeeds, ReadsTrace, Evaluates, Finish,
                   Advance, Occupied
        <3> QED
            BY <1>1, <3>1, <3>2, <3>3, <3>6 DEF Next
    <2> QED
        BY <1>1, <2>1, <2>2 DEF IInv, FlagsInv, Admitted
<1>2. IInv /\ IInv' /\ [Next]_vars => [stopping => ~ready' /\ Admitted' \subseteq Admitted]_vars
    BY <1>1
<1> QED
    BY <1>2, ApiInvariant, PTL DEF Spec, NoAdmissionAfterShutdown

=============================================================================
