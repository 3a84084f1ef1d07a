--------------------------- MODULE GuestQuiescence ---------------------------
(***************************************************************************)
(* GuestExecutionQuiescence.cpp as the emulated cores of                   *)
(* coreinit_Thread.cpp use it.  One step per atomic access, mutex or       *)
(* condition variable operation, in program order.                         *)
(*                                                                         *)
(* A thread is a host thread that runs an emulated core.  It enters guest  *)
(* execution for a timeslice and leaves it again; it asks for a quiesced   *)
(* callback either from the host side (no lease, __OSProcessHostCpuTask)   *)
(* or from a guest call (lease held, resumeCurrentLease).                  *)
(***************************************************************************)
EXTENDS Integers, FiniteSets

CONSTANTS Threads, NoThread

ASSUME ThreadsAssumption == IsFiniteSet(Threads) /\ NoThread \notin Threads

VARIABLES
  state,           \* m_state: the quiescing bit and the active count, one atomic word
  seen,            \* the local copy of m_state in Enter, per thread
  operationMutex,  \* the owner of m_operationMutex, or NoThread
  waitMutex,       \* the owner of m_waitMutex, or NoThread
  waiting,         \* the threads blocked in m_stateChanged.wait, not yet notified
  resume,          \* resumeCurrentLease of the thread's RunQuiesced call
  pc               \* where each thread is

vars == <<state, seen, operationMutex, waitMutex, waiting, resume, pc>>

EnterStates == {"enter", "enterLock", "enterTest", "enterBlock", "enterReload"}
StopStates  == {"drainLock", "drainTest", "drainBlock", "callback"}
OwnerStates == StopStates \cup {"stop", "notifyResume", "unlock"}
States == {"host", "guest", "notifyLeave", "operation"}
            \cup EnterStates \cup OwnerStates

Words == [quiescing : BOOLEAN, active : Nat]

\* What seen[t] is while the local variable of Enter is not in use.
NoWord == [quiescing |-> FALSE, active |-> 0]

Init ==
  /\ state = [quiescing |-> FALSE, active |-> 0]
  /\ seen = [t \in Threads |-> NoWord]
  /\ operationMutex = NoThread
  /\ waitMutex = NoThread
  /\ waiting = {}
  /\ resume = [t \in Threads |-> FALSE]
  /\ pc = [t \in Threads |-> "host"]

Goto(t, from, to) == pc[t] = from /\ pc' = [pc EXCEPT ![t] = to]

\* m_stateChanged.notify_all(): every blocked thread becomes runnable and
\* competes for m_waitMutex.
NotifyAll == waiting' = {}

\* m_stateChanged.wait: the mutex is given up and the thread blocks in one step.
Block(t) ==
  /\ waitMutex' = NoThread
  /\ waiting' = waiting \cup {t}

\* m_waitMutex is taken, first by the unique_lock and again by wait() after
\* a notification.
LockWait(t) ==
  /\ t \notin waiting
  /\ waitMutex = NoThread
  /\ waitMutex' = t

-----------------------------------------------------------------------------
\* Enter

\* The load in front of the loop.
EnterLoad(t) ==
  /\ Goto(t, "host", "enter")
  /\ seen' = [seen EXCEPT ![t] = state]
  /\ UNCHANGED <<state, operationMutex, waitMutex, waiting, resume>>

\* Mutant of EnterCas: fetch_add, without looking at the word again.
MutantEnterFetchAdd(t) ==
  /\ ~seen[t].quiescing
  /\ state' = [state EXCEPT !.active = @ + 1]
  /\ seen' = [seen EXCEPT ![t] = NoWord]
  /\ Goto(t, "enter", "guest")
  /\ UNCHANGED <<operationMutex, waitMutex, waiting, resume>>

\* compare_exchange succeeds: the word is still the one loaded.
EnterCas(t) ==
  /\ ~seen[t].quiescing
  /\ state = seen[t]
  /\ state' = [state EXCEPT !.active = @ + 1]
  /\ seen' = [seen EXCEPT ![t] = NoWord]
  /\ Goto(t, "enter", "guest")
  /\ UNCHANGED <<operationMutex, waitMutex, waiting, resume>>

\* compare_exchange fails and reloads.  A spurious failure of the weak form
\* reloads the same word: a stuttering step.
EnterRetry(t) ==
  /\ pc[t] = "enter"
  /\ ~seen[t].quiescing
  /\ state # seen[t]
  /\ seen' = [seen EXCEPT ![t] = state]
  /\ UNCHANGED <<state, operationMutex, waitMutex, waiting, resume, pc>>

EnterStopped(t) ==
  /\ seen[t].quiescing
  /\ seen' = [seen EXCEPT ![t] = NoWord]
  /\ Goto(t, "enter", "enterLock")
  /\ UNCHANGED <<state, operationMutex, waitMutex, waiting, resume>>

EnterLock(t) ==
  /\ LockWait(t)
  /\ Goto(t, "enterLock", "enterTest")
  /\ UNCHANGED <<state, seen, operationMutex, waiting, resume>>

\* The predicate of wait(), with m_waitMutex held; nobody who changes m_state
\* holds that mutex, so the answer may be stale when the thread blocks.
EnterTest(t) ==
  /\ Goto(t, "enterTest", IF state.quiescing THEN "enterBlock" ELSE "enterReload")
  /\ UNCHANGED <<state, seen, operationMutex, waitMutex, waiting, resume>>

EnterBlock(t) ==
  /\ Block(t)
  /\ Goto(t, "enterBlock", "enterLock")
  /\ UNCHANGED <<state, seen, operationMutex, resume>>

\* The reload under the lock, which the end of the scope then drops.
EnterReload(t) ==
  /\ Goto(t, "enterReload", "enter")
  /\ seen' = [seen EXCEPT ![t] = state]
  /\ waitMutex' = NoThread
  /\ UNCHANGED <<state, operationMutex, waiting, resume>>

-----------------------------------------------------------------------------
\* Leave, on its own at the end of a timeslice (restore = FALSE) and as the
\* first act of RunQuiesced(callback, true) from a guest call (restore = TRUE).

AfterLeave(restore) == IF restore THEN "operation" ELSE "host"

\* Mutant of Leave: the loaded value is compared after the decrement.
MutantLeaveNotifiesLate(t, restore) ==
  /\ Goto(t, "guest", IF state.active = 2 THEN "notifyLeave" ELSE AfterLeave(restore))
  /\ state' = [state EXCEPT !.active = @ - 1]
  /\ resume' = [resume EXCEPT ![t] = restore]
  /\ UNCHANGED <<seen, operationMutex, waitMutex, waiting>>

\* fetch_sub; only the thread that took the count to zero notifies.
Leave(t, restore) ==
  /\ Goto(t, "guest", IF state.active = 1 THEN "notifyLeave" ELSE AfterLeave(restore))
  /\ state' = [state EXCEPT !.active = @ - 1]
  /\ resume' = [resume EXCEPT ![t] = restore]
  /\ UNCHANGED <<seen, operationMutex, waitMutex, waiting>>

\* notify_all after the decrement, without m_waitMutex.
LeaveNotify(t) ==
  /\ Goto(t, "notifyLeave", AfterLeave(resume[t]))
  /\ NotifyAll
  /\ UNCHANGED <<state, seen, operationMutex, waitMutex, resume>>

-----------------------------------------------------------------------------
\* RunQuiesced

\* Called by a thread that holds no lease.
RunQuiesced(t) ==
  /\ Goto(t, "host", "operation")
  /\ resume' = [resume EXCEPT ![t] = FALSE]
  /\ UNCHANGED <<state, seen, operationMutex, waitMutex, waiting>>

LockOperation(t) ==
  /\ Goto(t, "operation", "stop")
  /\ operationMutex = NoThread
  /\ operationMutex' = t
  /\ UNCHANGED <<state, seen, waitMutex, waiting, resume>>

\* fetch_or of the quiescing bit.
SetQuiescing(t) ==
  /\ Goto(t, "stop", "drainLock")
  /\ state' = [state EXCEPT !.quiescing = TRUE]
  /\ UNCHANGED <<seen, operationMutex, waitMutex, waiting, resume>>

DrainLock(t) ==
  /\ LockWait(t)
  /\ Goto(t, "drainLock", "drainTest")
  /\ UNCHANGED <<state, seen, operationMutex, waiting, resume>>

\* Mutant of DrainDone: one lease may be left (the caller's own, say).
MutantDrainOffByOne(t) ==
  /\ state.active <= 1
  /\ Goto(t, "drainTest", "callback")
  /\ waitMutex' = NoThread
  /\ UNCHANGED <<state, seen, operationMutex, waiting, resume>>

\* The count is zero: the callback runs once the wait scope has ended.
DrainDone(t) ==
  /\ state.active = 0
  /\ Goto(t, "drainTest", "callback")
  /\ waitMutex' = NoThread
  /\ UNCHANGED <<state, seen, operationMutex, waiting, resume>>

DrainTest(t) ==
  /\ state.active # 0
  /\ Goto(t, "drainTest", "drainBlock")
  /\ UNCHANGED <<state, seen, operationMutex, waitMutex, waiting, resume>>

DrainBlock(t) ==
  /\ Block(t)
  /\ Goto(t, "drainBlock", "drainLock")
  /\ UNCHANGED <<state, seen, operationMutex, resume>>

\* Mutant of Resume: the caller's lease is not restored with the store.
MutantResumeForgetsLease(t) ==
  /\ Goto(t, "callback", "notifyResume")
  /\ state' = [quiescing |-> FALSE, active |-> 0]
  /\ UNCHANGED <<seen, operationMutex, waitMutex, waiting, resume>>

\* The callback returned or threw: resume() publishes the end of the stop and
\* the caller's lease in a single store.
Resume(t) ==
  /\ Goto(t, "callback", "notifyResume")
  /\ state' = [quiescing |-> FALSE, active |-> IF resume[t] THEN 1 ELSE 0]
  /\ UNCHANGED <<seen, operationMutex, waitMutex, waiting, resume>>

ResumeNotify(t) ==
  /\ Goto(t, "notifyResume", "unlock")
  /\ NotifyAll
  /\ UNCHANGED <<state, seen, operationMutex, waitMutex, resume>>

\* The operation lock is dropped when RunQuiesced returns.
UnlockOperation(t) ==
  /\ Goto(t, "unlock", IF resume[t] THEN "guest" ELSE "host")
  /\ operationMutex' = NoThread
  /\ resume' = [resume EXCEPT ![t] = FALSE]
  /\ UNCHANGED <<state, seen, waitMutex, waiting>>

-----------------------------------------------------------------------------
\* std::condition_variable may wake a waiter nobody notified; it never has to.
SpuriousWakeup(t) ==
  /\ t \in waiting
  /\ waiting' = waiting \ {t}
  /\ UNCHANGED <<state, seen, operationMutex, waitMutex, resume, pc>>

Enter(t) ==
  \/ EnterCas(t) \/ EnterRetry(t) \/ EnterStopped(t)
  \/ EnterTest(t) \/ EnterBlock(t) \/ EnterReload(t)

Drain(t) == DrainDone(t) \/ DrainTest(t) \/ DrainBlock(t)

Publish(t) ==
  LeaveNotify(t) \/ SetQuiescing(t) \/ Resume(t) \/ ResumeNotify(t) \/ UnlockOperation(t)

LeaveAny(t) == \E restore \in BOOLEAN : Leave(t, restore)

Next ==
  \E t \in Threads :
    \/ EnterLoad(t) \/ RunQuiesced(t) \/ LockOperation(t)
    \/ EnterLock(t) \/ DrainLock(t)
    \/ Enter(t) \/ LeaveAny(t) \/ Drain(t) \/ Publish(t)
    \/ SpuriousWakeup(t)

\* A thread that can take its next step eventually does: the host schedules
\* every emulated core, a timeslice runs out of cycles (remainingCycles) and a
\* lifecycle callback returns.  A mutex that is free again and again is
\* eventually acquired.  Nobody has to enter guest execution or to ask for a
\* stop, and no spurious wakeup has to come.
Fairness ==
  \A t \in Threads :
    /\ WF_vars(Enter(t)) /\ WF_vars(Drain(t)) /\ WF_vars(Publish(t))
    /\ WF_vars(LeaveAny(t))
    /\ SF_vars(LockOperation(t)) /\ SF_vars(EnterLock(t)) /\ SF_vars(DrainLock(t))

Spec == Init /\ [][Next]_vars

FairSpec == Spec /\ Fairness

-----------------------------------------------------------------------------
\* The threads that count as executing guest code: t_guestExecutionLeaseHeld,
\* and the caller whose lease the end of its own stop has already restored.
LeaseHolders ==
  {t \in Threads :
     \/ pc[t] = "guest"
     \/ pc[t] \in {"notifyResume", "unlock"} /\ resume[t]}

TypeOK ==
  /\ state \in Words
  /\ seen \in [Threads -> Words]
  /\ operationMutex \in Threads \cup {NoThread}
  /\ waitMutex \in Threads \cup {NoThread}
  /\ waiting \subseteq Threads
  /\ resume \in [Threads -> BOOLEAN]
  /\ pc \in [Threads -> States]

\* While a quiesced callback runs no thread executes guest code and no lease
\* is counted (GuestExecutionQuiescence.cpp:33; the tests check ActiveCount()
\* from inside the callback).
CallbackIsExclusive ==
  \A t \in Threads :
    pc[t] = "callback" =>
      /\ LeaseHolders = {}
      /\ state.active = 0
      /\ \A u \in Threads \ {t} : pc[u] # "callback"

\* The active count is the number of leases at every moment: no retry of the
\* compare_exchange, no overwriting store at the end of a stop and no restored
\* lease is lost or counted twice (a lost one would let the next callback run
\* beside guest code, a surplus one would block every later stop forever).
CountIsLeases == state.active = Cardinality(LeaseHolders)

\* m_state shows the quiescing bit exactly while a thread is between fetch_or
\* and the store of resume(), and only the owner of m_operationMutex is there,
\* so the assertion that fetch_or found the bit clear never fires.
OneStopAtATime ==
  /\ \A t \in Threads : pc[t] \in OwnerStates <=> operationMutex = t
  /\ state.quiescing <=> \E t \in Threads : pc[t] \in StopStates

\* Leases are shared and stops are exclusive, as the abstract module says.
Stopper ==
  IF \E t \in Threads : pc[t] = "callback"
  THEN CHOOSE t \in Threads : pc[t] = "callback"
  ELSE NoThread

Exclusion == INSTANCE GuestExclusion WITH holders <- LeaseHolders, stopper <- Stopper

ExclusionSpec == Exclusion!Spec

-----------------------------------------------------------------------------
\* GuestExecutionQuiescenceTests.cpp:52-55 releases the last lease, joins the
\* coordinator and checks that its callback ran.
StopRuns ==
  \A t \in Threads : pc[t] = "drainLock" ~> pc[t] = "callback"
=============================================================================
