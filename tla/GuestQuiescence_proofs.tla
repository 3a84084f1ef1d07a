----------------------- MODULE GuestQuiescence_proofs -----------------------
(***************************************************************************)
(* Proofs about GuestQuiescence for every finite set of threads.           *)
(*                                                                         *)
(* The inductive invariant is TypeOK, OneStopAtATime, CountIsLeases and    *)
(* CallbackCountsNone together.  Each needs the others: the count is       *)
(* exact because resume() overwrites it only when it is zero               *)
(* (CallbackCountsNone), it stays zero during a callback because no        *)
(* compare_exchange succeeds while the quiescing bit is set                *)
(* (OneStopAtATime), and it is a natural number because a lease is held    *)
(* when Leave decrements it (CountIsLeases).                               *)
(***************************************************************************)
EXTENDS GuestQuiescence, FiniteSetTheorems, TLAPS

CallbackCountsNone == \A t \in Threads : pc[t] = "callback" => state.active = 0

IInv == TypeOK /\ OneStopAtATime /\ CountIsLeases /\ CallbackCountsNone

\* The steps of a thread that change neither the word nor any lease.
Quiet(t) ==
  \/ EnterLoad(t) \/ EnterRetry(t) \/ EnterStopped(t) \/ EnterLock(t)
  \/ EnterTest(t) \/ EnterBlock(t) \/ EnterReload(t)
  \/ LeaveNotify(t) \/ RunQuiesced(t) \/ LockOperation(t)
  \/ DrainLock(t) \/ DrainTest(t) \/ DrainBlock(t)
  \/ ResumeNotify(t) \/ SpuriousWakeup(t)

USE DEF AfterLeave, NotifyAll, Block, LockWait, Goto

\* Next, as the list of cases every proof below goes through.
LEMMA NextCases ==
  ASSUME Next
  PROVE  \E t \in Threads :
           \/ Quiet(t) \/ EnterCas(t) \/ (\E r \in BOOLEAN : Leave(t, r))
           \/ SetQuiescing(t) \/ DrainDone(t) \/ Resume(t) \/ UnlockOperation(t)
  BY Zenon DEF Next, Quiet, Enter, Drain, Publish, LeaveAny

-----------------------------------------------------------------------------
\* How each step changes the set of lease holders.

LEMMA HoldersFinite ==
  /\ IsFiniteSet(LeaseHolders)
  /\ Cardinality(LeaseHolders) \in Nat
<1>1. LeaseHolders \in SUBSET Threads
  BY DEF LeaseHolders
<1> QED
  BY <1>1, FS_Subset, FS_CardinalityType, ThreadsAssumption

LEMMA QuietHolders ==
  ASSUME TypeOK, NEW t \in Threads, Quiet(t)
  PROVE  /\ LeaseHolders' = LeaseHolders
         /\ state' = state
  BY DEF TypeOK, Quiet, LeaseHolders, EnterLoad, EnterRetry, EnterStopped,
         EnterLock, EnterTest, EnterBlock, EnterReload, LeaveNotify, RunQuiesced,
         LockOperation, DrainLock, DrainTest, DrainBlock, ResumeNotify, SpuriousWakeup

LEMMA EnterHolders ==
  ASSUME TypeOK, NEW t \in Threads, EnterCas(t)
  PROVE  /\ LeaseHolders' = LeaseHolders \cup {t}
         /\ t \notin LeaseHolders
  BY DEF TypeOK, LeaseHolders, EnterCas

LEMMA LeaveHolders ==
  ASSUME TypeOK, NEW t \in Threads, NEW r \in BOOLEAN, Leave(t, r)
  PROVE  /\ LeaseHolders' = LeaseHolders \ {t}
         /\ t \in LeaseHolders
  BY DEF TypeOK, LeaseHolders, Leave

LEMMA StopHolders ==
  ASSUME TypeOK, NEW t \in Threads, SetQuiescing(t) \/ DrainDone(t) \/ UnlockOperation(t)
  PROVE  LeaseHolders' = LeaseHolders
  BY DEF TypeOK, LeaseHolders, SetQuiescing, DrainDone, UnlockOperation

LEMMA ResumeHolders ==
  ASSUME TypeOK, NEW t \in Threads, Resume(t)
  PROVE  /\ LeaseHolders' = IF resume[t] THEN LeaseHolders \cup {t} ELSE LeaseHolders
         /\ t \notin LeaseHolders
  BY DEF TypeOK, LeaseHolders, Resume

\* A count of zero means that nobody holds a lease.
LEMMA NoCountNoHolder ==
  ASSUME CountIsLeases, state.active = 0
  PROVE  LeaseHolders = {}
  BY HoldersFinite, FS_EmptySet DEF CountIsLeases

-----------------------------------------------------------------------------
\* The inductive steps, one lemma per conjunct of the invariant.

LEMMA TypeStep ==
  ASSUME IInv, Next
  PROVE  TypeOK'
<1> USE DEF IInv, TypeOK, Words, NoWord, States, EnterStates, OwnerStates, StopStates
<1>1. PICK t \in Threads :
        \/ Quiet(t) \/ EnterCas(t) \/ (\E r \in BOOLEAN : Leave(t, r))
        \/ SetQuiescing(t) \/ DrainDone(t) \/ Resume(t) \/ UnlockOperation(t)
  BY NextCases
<1>2. CASE EnterLoad(t) \/ EnterRetry(t) \/ EnterStopped(t) \/ EnterReload(t)
  <2>1. CASE EnterLoad(t)
    BY <2>1 DEF EnterLoad
  <2>2. CASE EnterRetry(t)
    BY <2>2 DEF EnterRetry
  <2>3. CASE EnterStopped(t)
    BY <2>3 DEF EnterStopped
  <2>4. CASE EnterReload(t)
    BY <2>4 DEF EnterReload
  <2> QED
    BY <1>2, <2>1, <2>2, <2>3, <2>4
<1>3. CASE EnterLock(t) \/ EnterTest(t) \/ EnterBlock(t) \/ LeaveNotify(t)
  BY <1>3 DEF EnterLock, EnterTest, EnterBlock, LeaveNotify
<1>4. CASE RunQuiesced(t) \/ LockOperation(t) \/ DrainLock(t) \/ DrainTest(t)
  BY <1>4 DEF RunQuiesced, LockOperation, DrainLock, DrainTest
<1>5. CASE DrainBlock(t) \/ ResumeNotify(t) \/ SpuriousWakeup(t)
  BY <1>5 DEF DrainBlock, ResumeNotify, SpuriousWakeup
<1>6. CASE EnterCas(t)
  BY <1>6 DEF EnterCas
<1>7. CASE \E r \in BOOLEAN : Leave(t, r)
  <2>1. PICK r \in BOOLEAN : Leave(t, r)
    BY <1>7
  <2>2. t \in LeaseHolders
    BY <2>1 DEF LeaseHolders, Leave
  <2>3. state.active \in Nat \ {0}
    BY <2>2, NoCountNoHolder
  <2> QED
    BY <2>1, <2>3 DEF Leave
<1>8. CASE SetQuiescing(t) \/ DrainDone(t) \/ Resume(t) \/ UnlockOperation(t)
  <2>1. CASE SetQuiescing(t)
    BY <2>1 DEF SetQuiescing
  <2>2. CASE DrainDone(t)
    BY <2>2 DEF DrainDone
  <2>3. CASE Resume(t)
    BY <2>3 DEF Resume
  <2>4. CASE UnlockOperation(t)
    BY <2>4 DEF UnlockOperation
  <2> QED
    BY <1>8, <2>1, <2>2, <2>3, <2>4
<1> QED
  BY <1>1, <1>2, <1>3, <1>4, <1>5, <1>6, <1>7, <1>8 DEF Quiet

LEMMA OneStopStep ==
  ASSUME TypeOK, OneStopAtATime, Next
  PROVE  OneStopAtATime'
<1> USE DEF TypeOK, Words, OneStopAtATime, OwnerStates, StopStates
<1>1. PICK t \in Threads :
        \/ Quiet(t) \/ EnterCas(t) \/ (\E r \in BOOLEAN : Leave(t, r))
        \/ SetQuiescing(t) \/ DrainDone(t) \/ Resume(t) \/ UnlockOperation(t)
  BY NextCases
<1>2. CASE EnterLoad(t) \/ EnterRetry(t) \/ EnterStopped(t) \/ EnterReload(t)
  BY <1>2 DEF EnterLoad, EnterRetry, EnterStopped, EnterReload
<1>3. CASE EnterLock(t) \/ EnterTest(t) \/ EnterBlock(t) \/ LeaveNotify(t)
  BY <1>3 DEF EnterLock, EnterTest, EnterBlock, LeaveNotify
<1>4. CASE RunQuiesced(t) \/ LockOperation(t)
  BY <1>4, ThreadsAssumption DEF RunQuiesced, LockOperation
<1>5. CASE DrainLock(t) \/ DrainTest(t) \/ DrainBlock(t)
  BY <1>5 DEF DrainLock, DrainTest, DrainBlock
<1>6. CASE ResumeNotify(t) \/ SpuriousWakeup(t)
  BY <1>6 DEF ResumeNotify, SpuriousWakeup
<1>7. CASE EnterCas(t) \/ (\E r \in BOOLEAN : Leave(t, r))
  BY <1>7 DEF EnterCas, Leave
<1>8. CASE SetQuiescing(t) \/ DrainDone(t)
  BY <1>8 DEF SetQuiescing, DrainDone
<1>9. CASE Resume(t)
  BY <1>9 DEF Resume
<1>10. CASE UnlockOperation(t)
  BY <1>10, ThreadsAssumption DEF UnlockOperation
<1> QED
  BY <1>1, <1>2, <1>3, <1>4, <1>5, <1>6, <1>7, <1>8, <1>9, <1>10 DEF Quiet

LEMMA CountStep ==
  ASSUME IInv, Next
  PROVE  CountIsLeases'
<1> USE DEF IInv, CountIsLeases, TypeOK, Words
<1>1. PICK t \in Threads :
        \/ Quiet(t) \/ EnterCas(t) \/ (\E r \in BOOLEAN : Leave(t, r))
        \/ SetQuiescing(t) \/ DrainDone(t) \/ Resume(t) \/ UnlockOperation(t)
  BY NextCases
<1>2. CASE Quiet(t)
  BY <1>2, QuietHolders
<1>3. CASE EnterCas(t)
  <2>1. state'.active = state.active + 1
    BY <1>3 DEF EnterCas
  <2> QED
    BY <1>3, <2>1, EnterHolders, HoldersFinite, FS_AddElement
<1>4. CASE \E r \in BOOLEAN : Leave(t, r)
  <2>1. PICK r \in BOOLEAN : Leave(t, r)
    BY <1>4
  <2>2. state'.active = state.active - 1
    BY <2>1 DEF Leave
  <2> QED
    BY <2>1, <2>2, LeaveHolders, HoldersFinite, FS_RemoveElement
<1>5. CASE SetQuiescing(t) \/ DrainDone(t) \/ UnlockOperation(t)
  <2>1. state'.active = state.active
    BY <1>5 DEF SetQuiescing, DrainDone, UnlockOperation
  <2> QED
    BY <1>5, <2>1, StopHolders
<1>6. CASE Resume(t)
  <2>1. state.active = 0
    BY <1>6 DEF Resume, CallbackCountsNone
  <2>2. LeaseHolders' = IF resume[t] THEN {t} ELSE {}
    BY <1>6, <2>1, ResumeHolders, NoCountNoHolder
  <2>3. Cardinality(LeaseHolders') = IF resume[t] THEN 1 ELSE 0
    BY <2>2, FS_EmptySet, FS_Singleton
  <2>4. state'.active = IF resume[t] THEN 1 ELSE 0
    BY <1>6 DEF Resume
  <2> QED
    BY <2>3, <2>4
<1> QED
  BY <1>1, <1>2, <1>3, <1>4, <1>5, <1>6

LEMMA CallbackStep ==
  ASSUME IInv, Next
  PROVE  CallbackCountsNone'
<1> USE DEF IInv, CallbackCountsNone, TypeOK, Words
<1>1. PICK t \in Threads :
        \/ Quiet(t) \/ EnterCas(t) \/ (\E r \in BOOLEAN : Leave(t, r))
        \/ SetQuiescing(t) \/ DrainDone(t) \/ Resume(t) \/ UnlockOperation(t)
  BY NextCases
<1>2. CASE Quiet(t)
  <2>1. \A u \in Threads : pc'[u] = "callback" => pc[u] = "callback"
    BY <1>2 DEF Quiet, EnterLoad, EnterRetry, EnterStopped, EnterLock, EnterTest,
       EnterBlock, EnterReload, LeaveNotify, RunQuiesced, LockOperation, DrainLock,
       DrainTest, DrainBlock, ResumeNotify, SpuriousWakeup
  <2> QED
    BY <1>2, <2>1, QuietHolders
<1>3. CASE EnterCas(t)
  <2>1. \A u \in Threads : pc[u] # "callback"
    BY <1>3 DEF EnterCas, OneStopAtATime, StopStates
  <2> QED
    BY <1>3, <2>1 DEF EnterCas
<1>4. CASE \E r \in BOOLEAN : Leave(t, r)
  <2>1. PICK r \in BOOLEAN : Leave(t, r)
    BY <1>4
  <2>2. \A u \in Threads : pc[u] # "callback"
    BY <2>1, LeaveHolders, NoCountNoHolder
  <2> QED
    BY <2>1, <2>2 DEF Leave
<1>5. CASE SetQuiescing(t)
  BY <1>5 DEF SetQuiescing
<1>6. CASE DrainDone(t)
  BY <1>6 DEF DrainDone
<1>7. CASE Resume(t)
  <2>1. \A u \in Threads \ {t} : pc[u] # "callback"
    BY <1>7 DEF Resume, OneStopAtATime, OwnerStates, StopStates
  <2> QED
    BY <1>7, <2>1 DEF Resume
<1>8. CASE UnlockOperation(t)
  BY <1>8 DEF UnlockOperation
<1> QED
  BY <1>1, <1>2, <1>3, <1>4, <1>5, <1>6, <1>7, <1>8

LEMMA InitInv ==
  ASSUME Init
  PROVE  IInv
<1>1. TypeOK
  BY DEF Init, TypeOK, Words, NoWord, States
<1>2. OneStopAtATime
  BY ThreadsAssumption DEF Init, OneStopAtATime, OwnerStates, StopStates
<1>3. CountIsLeases
  <2>1. LeaseHolders = {}
    BY DEF Init, LeaseHolders
  <2> QED
    BY <2>1, FS_EmptySet DEF Init, CountIsLeases
<1>4. CallbackCountsNone
  BY DEF Init, CallbackCountsNone
<1> QED
  BY <1>1, <1>2, <1>3, <1>4 DEF IInv

LEMMA StutterInv ==
  ASSUME IInv, UNCHANGED vars
  PROVE  IInv'
<1>1. LeaseHolders' = LeaseHolders
  BY DEF vars, LeaseHolders
<1> QED
  BY <1>1 DEF IInv, vars, TypeOK, OneStopAtATime, CountIsLeases, CallbackCountsNone

THEOREM Invariant == Spec => []IInv
<1>1. Init => IInv
  BY InitInv
<1>2. IInv /\ [Next]_vars => IInv'
  BY TypeStep, OneStopStep, CountStep, CallbackStep, StutterInv DEF IInv
<1> QED
  BY <1>1, <1>2, PTL DEF Spec

-----------------------------------------------------------------------------
\* The variables keep their types (in particular the active count never
\* becomes negative: Leave is only called with a lease).
THEOREM TypeCorrect == Spec => []TypeOK
<1>1. IInv => TypeOK
  BY DEF IInv
<1> QED
  BY <1>1, Invariant, PTL

\* The active count of m_state is the number of leases held.
THEOREM CountCorrect == Spec => []CountIsLeases
<1>1. IInv => CountIsLeases
  BY DEF IInv
<1> QED
  BY <1>1, Invariant, PTL

\* The quiescing bit and m_operationMutex agree, and stops do not overlap.
THEOREM StopsCorrect == Spec => []OneStopAtATime
<1>1. IInv => OneStopAtATime
  BY DEF IInv
<1> QED
  BY <1>1, Invariant, PTL

\* No guest code and no second callback runs beside a quiesced callback.
THEOREM CallbackExclusive == Spec => []CallbackIsExclusive
<1>1. IInv => CallbackIsExclusive
  <2> SUFFICES ASSUME IInv, NEW t \in Threads, pc[t] = "callback"
               PROVE  /\ LeaseHolders = {}
                      /\ state.active = 0
                      /\ \A u \in Threads \ {t} : pc[u] # "callback"
    BY DEF CallbackIsExclusive
  <2>1. state.active = 0
    BY DEF IInv, CallbackCountsNone
  <2>2. LeaseHolders = {}
    BY <2>1, NoCountNoHolder DEF IInv
  <2>3. \A u \in Threads \ {t} : pc[u] # "callback"
    BY DEF IInv, OneStopAtATime, OwnerStates, StopStates
  <2> QED
    BY <2>1, <2>2, <2>3
<1> QED
  BY <1>1, Invariant, PTL
-----------------------------------------------------------------------------
\* The refinement of GuestExclusion.

Idle == \A t \in Threads : pc[t] # "callback"

LEMMA StopperIs ==
  ASSUME OneStopAtATime
  PROVE  /\ \A t \in Threads : pc[t] = "callback" => Stopper = t
         /\ Idle => Stopper = NoThread
<1>1. \A t, u \in Threads : pc[t] = "callback" /\ pc[u] = "callback" => t = u
  BY DEF OneStopAtATime, OwnerStates, StopStates
<1> QED
  BY <1>1 DEF Stopper, Idle

LEMMA StopperIsNext ==
  ASSUME OneStopAtATime'
  PROVE  /\ \A t \in Threads : pc'[t] = "callback" => Stopper' = t
         /\ Idle' => Stopper' = NoThread
<1>1. \A t, u \in Threads : pc'[t] = "callback" /\ pc'[u] = "callback" => t = u
  BY DEF OneStopAtATime, OwnerStates, StopStates
<1> QED
  BY <1>1 DEF Stopper, Idle

\* A step that moves no thread into or out of the callback keeps the stopper.
LEMMA StopperKept ==
  ASSUME OneStopAtATime, OneStopAtATime',
         \A u \in Threads : pc'[u] = "callback" <=> pc[u] = "callback"
  PROVE  Stopper' = Stopper
<1>1. /\ \A t \in Threads : pc'[t] = "callback" => Stopper' = t
      /\ Idle' => Stopper' = NoThread
  BY StopperIsNext
<1> QED
  BY <1>1, StopperIs DEF Idle

LEMMA RefinedStep ==
  ASSUME IInv, IInv', Next
  PROVE  Exclusion!Next \/ UNCHANGED <<LeaseHolders, Stopper>>
<1> USE DEF IInv, TypeOK
<1>1. PICK t \in Threads :
        \/ Quiet(t) \/ EnterCas(t) \/ (\E r \in BOOLEAN : Leave(t, r))
        \/ SetQuiescing(t) \/ DrainDone(t) \/ Resume(t) \/ UnlockOperation(t)
  BY NextCases
<1>2. CASE Quiet(t)
  <2>1. \A u \in Threads : pc'[u] = "callback" <=> pc[u] = "callback"
    BY <1>2 DEF Quiet, EnterLoad, EnterRetry, EnterStopped, EnterLock, EnterTest,
       EnterBlock, EnterReload, LeaveNotify, RunQuiesced, LockOperation, DrainLock,
       DrainTest, DrainBlock, ResumeNotify, SpuriousWakeup
  <2> QED
    BY <1>2, <2>1, QuietHolders, StopperKept
<1>3. CASE EnterCas(t)
  <2>1. Idle
    BY <1>3 DEF EnterCas, OneStopAtATime, StopStates, Idle
  <2>2. \A u \in Threads : pc'[u] = "callback" <=> pc[u] = "callback"
    BY <1>3, <2>1 DEF EnterCas, Idle
  <2>3. Stopper = NoThread /\ Stopper' = Stopper
    BY <2>1, <2>2, StopperIs, StopperKept
  <2>4. Exclusion!Enter(t)
    BY <1>3, <2>3, EnterHolders DEF Exclusion!Enter
  <2> QED
    BY <2>4 DEF Exclusion!Next
<1>4. CASE \E r \in BOOLEAN : Leave(t, r)
  <2>1. PICK r \in BOOLEAN : Leave(t, r)
    BY <1>4
  <2>2. \A u \in Threads : pc'[u] = "callback" <=> pc[u] = "callback"
    BY <2>1 DEF Leave
  <2>3. Exclusion!Leave(t)
    BY <2>1, <2>2, LeaveHolders, StopperKept DEF Exclusion!Leave
  <2> QED
    BY <2>3 DEF Exclusion!Next
<1>5. CASE SetQuiescing(t) \/ UnlockOperation(t)
  <2>1. \A u \in Threads : pc'[u] = "callback" <=> pc[u] = "callback"
    BY <1>5 DEF SetQuiescing, UnlockOperation
  <2> QED
    BY <1>5, <2>1, StopHolders, StopperKept
<1>6. CASE DrainDone(t)
  <2>1. pc'[t] = "callback" /\ state.active = 0
    BY <1>6 DEF DrainDone
  <2>2. Idle
    BY <1>6 DEF DrainDone, OneStopAtATime, OwnerStates, StopStates, Idle
  <2>3. LeaseHolders = {} /\ LeaseHolders' = LeaseHolders
    BY <1>6, <2>1, NoCountNoHolder, StopHolders
  <2>4. Stopper = NoThread
    BY <2>2, StopperIs
  <2>5. Stopper' = t
    BY <2>1, StopperIsNext
  <2>6. Exclusion!Stop(t)
    BY <2>3, <2>4, <2>5 DEF Exclusion!Stop
  <2> QED
    BY <2>6 DEF Exclusion!Next
<1>7. CASE Resume(t)
  <2>1. pc[t] = "callback" /\ state.active = 0
    BY <1>7 DEF Resume, CallbackCountsNone
  <2>2. Idle'
    BY <1>7 DEF Resume, OneStopAtATime, OwnerStates, StopStates, Idle
  <2>3. Stopper = t
    BY <2>1, StopperIs
  <2>4. Stopper' = NoThread
    BY <2>2, StopperIsNext
  <2>5. LeaseHolders' \in {{}, {t}}
    BY <1>7, <2>1, ResumeHolders, NoCountNoHolder
  <2>6. Exclusion!Resume(t)
    BY <2>3, <2>4, <2>5 DEF Exclusion!Resume
  <2> QED
    BY <2>6 DEF Exclusion!Next
<1> QED
  BY <1>1, <1>2, <1>3, <1>4, <1>5, <1>6, <1>7

\* Leases are shared and quiesced callbacks exclusive: every behaviour of the
\* atomics, mutexes and condition variable is one of GuestExclusion.
THEOREM Refinement == Spec => ExclusionSpec
<1>1. Init => Exclusion!Init
  <2>1. ASSUME Init PROVE LeaseHolders = {} /\ Idle
    BY <2>1 DEF Init, LeaseHolders, Idle
  <2>2. ASSUME Init PROVE OneStopAtATime
    BY <2>2, InitInv DEF IInv
  <2> QED
    BY <2>1, <2>2, StopperIs DEF Exclusion!Init
<1>2. IInv /\ IInv' /\ [Next]_vars => [Exclusion!Next]_(Exclusion!vars)
  <2>1. ASSUME IInv, UNCHANGED vars PROVE UNCHANGED <<LeaseHolders, Stopper>>
    BY <2>1 DEF vars, LeaseHolders, Stopper
  <2> QED
    BY <2>1, RefinedStep DEF Exclusion!vars
<1> QED
  BY <1>1, <1>2, Invariant, PTL DEF Spec, ExclusionSpec, Exclusion!Spec
=============================================================================
