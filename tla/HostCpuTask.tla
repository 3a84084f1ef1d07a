----------------------------- MODULE HostCpuTask -----------------------------
(***************************************************************************)
(* Host threads that have guest code run on an emulated core               *)
(* (OSRunOnEmulatedCpuThread in coreinit_Thread.cpp): a queue of tasks     *)
(* that the cores work off between time slices, a wait for acceptance that *)
(* may time out, and a wait for completion that may not.  The scheduler    *)
(* ends and begins with each title.                                        *)
(*                                                                         *)
(* Each action is one critical section of sHostCpuTaskMutex.  A callback   *)
(* may call guest code that yields; its fiber then is parked, and is lost  *)
(* when the scheduler ends.  A caller that is on a core itself runs the    *)
(* callback at once and touches none of this.                              *)
(***************************************************************************)
EXTENDS Naturals, Sequences, SequencesExt

CONSTANTS
  Callers,   \* host threads
  Cores,     \* emulated cores
  LastTask,  \* bound: calls in a behaviour
  LastTitle  \* bound: titles in a behaviour

ASSUME ConstantsAssumption == LastTask \in Nat /\ LastTitle \in Nat

VARIABLES
  active,   \* sSchedulerActive
  ending,   \* OSSchedulerEnd holds sSchedulerStateMtx and joins the cores
  titles,   \* how often the scheduler was begun
  tasks,    \* the tasks ever made: [caller, state, callback]
  queue,    \* sHostCpuTasks
  caller,   \* per caller: the task it waits for, or 0
  core,     \* per core: the task whose callback it runs, or 0
  parked,   \* tasks whose callback was switched out
  lost,     \* tasks whose callback's fiber was deleted
  answers   \* per task: what its call returned, or "none"

vars == <<active, ending, titles, tasks, queue, caller, core, parked, lost, answers>>

Init ==
  /\ active = FALSE /\ ending = FALSE
  /\ titles = 0
  /\ tasks = <<>> /\ queue = <<>>
  /\ caller = [c \in Callers |-> 0]
  /\ core = [k \in Cores |-> 0]
  /\ parked = {} /\ lost = {}
  /\ answers = <<>>

SetState(t, state) == tasks' = [tasks EXCEPT ![t].state = state]

CancelAll ==
  /\ tasks' = [t \in DOMAIN tasks |->
                 IF Contains(queue, t) THEN [tasks[t] EXCEPT !.state = "Cancelled"] ELSE tasks[t]]
  /\ queue' = <<>>

-----------------------------------------------------------------------------
\* The scheduler

Begin ==
  /\ ~ending /\ ~active
  /\ titles < LastTitle
  /\ active' = TRUE
  /\ titles' = titles + 1
  /\ CancelAll
  /\ UNCHANGED <<ending, caller, core, parked, lost, answers>>

\* The tasks in the queue are left to the next title.
MutantEndKeepsQueue ==
  /\ ~ending
  /\ active
  /\ active' = FALSE /\ ending' = TRUE
  /\ UNCHANGED <<titles, tasks, queue, caller, core, parked, lost, answers>>

End ==
  /\ ~ending
  /\ active
  /\ active' = FALSE /\ ending' = TRUE
  /\ CancelAll
  /\ UNCHANGED <<titles, caller, core, parked, lost, answers>>

\* A core thread exits when what it runs ends or yields; the fibers are deleted.
Joined ==
  /\ ending
  /\ \A k \in Cores : core[k] = 0
  /\ ending' = FALSE
  /\ lost' = lost \cup parked
  /\ parked' = {}
  /\ UNCHANGED <<active, titles, tasks, queue, caller, core, answers>>

-----------------------------------------------------------------------------
\* The callers

\* sSchedulerStateMtx is held around the test and the enqueueing.
Call(c) ==
  /\ caller[c] = 0
  /\ ~ending
  /\ active
  /\ Len(tasks) < LastTask
  /\ tasks' = Append(tasks, [caller |-> c, state |-> "Queued", callback |-> "none"])
  /\ queue' = Append(queue, Len(tasks'))
  /\ caller' = [caller EXCEPT ![c] = Len(tasks')]
  /\ answers' = Append(answers, "none")
  /\ UNCHANGED <<active, ending, titles, core, parked, lost>>

Answer(c, t, succeeded) ==
  /\ answers' = [answers EXCEPT ![t] = succeeded]
  /\ caller' = [caller EXCEPT ![c] = 0]

\* The wait gives up without a look at the state.
MutantTimeoutUnconditional(c) ==
  LET t == caller[c] IN
  /\ t # 0
  /\ tasks[t].state \in {"Queued", "Running"}
  /\ queue' = SelectSeq(queue, LAMBDA u : u # t)
  /\ SetState(t, "Cancelled")
  /\ Answer(c, t, "false")
  /\ UNCHANGED <<active, ending, titles, core, parked, lost>>

\* The timed wait for acceptance; its predicate is tested once more when the
\* time is over.
Timeout(c) ==
  LET t == caller[c] IN
  /\ t # 0
  /\ tasks[t].state = "Queued"
  /\ \E i \in DOMAIN queue : queue[i] = t /\ queue' = RemoveAt(queue, i)
  /\ SetState(t, "Cancelled")
  /\ Answer(c, t, "false")
  /\ UNCHANGED <<active, ending, titles, core, parked, lost>>

\* A cancelled call is reported like a completed one.
MutantReturnAccepted(c) ==
  LET t == caller[c] IN
  /\ t # 0
  /\ tasks[t].state \in {"Completed", "Cancelled"}
  /\ Answer(c, t, IF tasks[t].callback # "threw" THEN "true" ELSE "false")
  /\ UNCHANGED <<active, ending, titles, tasks, queue, core, parked, lost>>

Return(c) ==
  LET t == caller[c] IN
  /\ t # 0
  /\ tasks[t].state \in {"Completed", "Cancelled"}
  /\ Answer(c, t, IF tasks[t].callback = "returned" THEN "true" ELSE "false")
  /\ UNCHANGED <<active, ending, titles, tasks, queue, core, parked, lost>>

-----------------------------------------------------------------------------
\* The cores: __OSProcessHostCpuTask

Take(k) ==
  /\ active \/ ending
  /\ core[k] = 0 /\ queue # <<>>
  /\ tasks' = [tasks EXCEPT ![Head(queue)].state = "Running", ![Head(queue)].callback = "begun"]
  /\ queue' = Tail(queue)
  /\ core' = [core EXCEPT ![k] = Head(queue)]
  /\ UNCHANGED <<active, ending, titles, caller, parked, lost, answers>>

\* An exception leaves the loop before the task is completed.
MutantCompleteOnlyReturned(k, how) ==
  LET t == core[k] IN
  /\ t # 0
  /\ tasks' = [tasks EXCEPT ![t].state = IF how = "returned" THEN "Completed" ELSE @,
                            ![t].callback = how]
  /\ core' = [core EXCEPT ![k] = 0]
  /\ UNCHANGED <<active, ending, titles, queue, caller, parked, lost, answers>>

Complete(k, how) ==
  LET t == core[k] IN
  /\ t # 0
  /\ tasks' = [tasks EXCEPT ![t].state = "Completed", ![t].callback = how]
  /\ core' = [core EXCEPT ![k] = 0]
  /\ UNCHANGED <<active, ending, titles, queue, caller, parked, lost, answers>>

Yield(k) ==
  /\ core[k] # 0
  /\ parked' = parked \cup {core[k]}
  /\ core' = [core EXCEPT ![k] = 0]
  /\ UNCHANGED <<active, ending, titles, tasks, queue, caller, lost, answers>>

Resume(k) ==
  /\ active
  /\ core[k] = 0
  /\ \E t \in parked :
       /\ core' = [core EXCEPT ![k] = t]
       /\ parked' = parked \ {t}
  /\ UNCHANGED <<active, ending, titles, tasks, queue, caller, lost, answers>>

-----------------------------------------------------------------------------
Core(k) == Take(k) \/ (\E how \in {"returned", "threw"} : Complete(k, how)) \/ Yield(k) \/ Resume(k)

Next ==
  \/ Begin \/ End \/ Joined
  \/ \E c \in Callers : Call(c) \/ Timeout(c) \/ Return(c)
  \/ \E k \in Cores : Core(k)

Spec == Init /\ [][Next]_vars

\* Callers return from their waits; a core ends what it runs, and a title runs
\* the fibers it parked again; OSSchedulerEnd joins cores that have stopped.
Fairness ==
  /\ WF_vars(Joined)
  /\ \A c \in Callers : WF_vars(Timeout(c)) /\ WF_vars(Return(c))
  /\ \A k \in Cores :
       /\ SF_vars(\E how \in {"returned", "threw"} : Complete(k, how))
       /\ SF_vars(Resume(k))

FairSpec == Spec /\ Fairness

-----------------------------------------------------------------------------
Tasks == DOMAIN tasks

TaskRecords == [caller : Callers,
                state : {"Queued", "Running", "Completed", "Cancelled"},
                callback : {"none", "begun", "returned", "threw"}]

TypeOK ==
  /\ active \in BOOLEAN /\ ending \in BOOLEAN
  /\ titles \in 0..LastTitle
  /\ tasks \in Seq(TaskRecords)
  /\ queue \in Seq(Tasks)
  /\ caller \in [Callers -> {0} \cup Tasks]
  /\ core \in [Cores -> {0} \cup Tasks]
  /\ parked \subseteq Tasks /\ lost \subseteq Tasks
  /\ answers \in Seq({"none", "true", "false"}) /\ Len(answers) = Len(tasks)

Runs(t) == t \in parked \/ \E k \in Cores : core[k] = t

\* The callback captures its caller's locals by reference (CemodRuntime.cpp:475,
\* 482): it runs on one core only, and only while that caller is in the call,
\* whatever the order of timeout, acceptance and the scheduler's end.
CallerOutlivesCallback ==
  \A t \in Tasks : Runs(t) =>
    /\ caller[tasks[t].caller] = t
    /\ \A k, l \in Cores : core[k] = t /\ core[l] = t => k = l
    /\ t \in parked => \A k \in Cores : core[k] # t

\* A call returns true if and only if its callback has run to the end, and false
\* only if it never began or threw.
AnswerIsTrue ==
  \A t \in Tasks :
    /\ answers[t] = "true" => tasks[t].callback = "returned"
    /\ answers[t] = "false" => tasks[t].callback \in {"none", "threw"}

\* The queue holds the tasks nobody has decided on, each once and in the order of
\* their calls; none is left for the next title.
QueueExact ==
  /\ \A t \in Tasks : Contains(queue, t) <=> tasks[t].state = "Queued"
  /\ \A i, j \in DOMAIN queue : i < j => queue[i] < queue[j]
  /\ ~active => queue = <<>>

\* A caller comes back, unless the scheduler ended while its callback was
\* switched out: nobody completes that task any more.
CallReturns == \A c \in Callers : caller[c] # 0 ~> (caller[c] = 0 \/ caller[c] \in lost)
=============================================================================
