------------------------- MODULE HostCpuTask_proofs -------------------------
(***************************************************************************)
(* Proofs about HostCpuTask for any callers, cores and bounds.             *)
(*                                                                         *)
(* That a callback never runs without its caller rests on the queue: what  *)
(* is in it is undecided and in it once, so the task a core takes is not   *)
(* one whose caller has given up, and no second core takes it again.  And  *)
(* on the callers: an undecided or running task still is what its caller   *)
(* waits for, because a call ends only with a decided one.                 *)
(***************************************************************************)
EXTENDS HostCpuTask, SequenceTheorems, TLAPS

\* A task in the queue is undecided, and is there once.
QueueSound ==
  /\ \A i \in DOMAIN queue : tasks[queue[i]].state = "Queued"
  /\ \A i, j \in DOMAIN queue : queue[i] = queue[j] => i = j

\* How far a callback is follows from the state of its task.
StatesSound ==
  \A t \in Tasks :
    /\ tasks[t].state \in {"Queued", "Cancelled"} => tasks[t].callback = "none"
    /\ tasks[t].state = "Running" => tasks[t].callback = "begun"
    /\ tasks[t].state = "Completed" => tasks[t].callback \in {"returned", "threw"}

\* A task that is not decided yet is the one its caller waits for; one that was
\* answered is decided.
CallersSound ==
  /\ \A t \in Tasks : tasks[t].state \in {"Queued", "Running"} => caller[tasks[t].caller] = t
  /\ \A t \in Tasks : answers[t] # "none" => tasks[t].state \in {"Completed", "Cancelled"}

\* A callback runs on one core or is parked, and its task is running.
RunsSound ==
  /\ \A t \in parked : tasks[t].state = "Running"
  /\ \A k \in Cores : core[k] # 0 => tasks[core[k]].state = "Running" /\ core[k] \notin parked
  /\ \A k, l \in Cores : core[k] # 0 /\ core[k] = core[l] => k = l

IInv == TypeOK /\ QueueSound /\ StatesSound /\ CallersSound /\ RunsSound /\ AnswerIsTrue

USE DEF Tasks, SetState, Answer

-----------------------------------------------------------------------------
\* What RemoveAt leaves of a sequence.
LEMMA RemoveAtProperties ==
  ASSUME NEW S, NEW s \in Seq(S), NEW i \in DOMAIN s
  PROVE  /\ RemoveAt(s, i) \in Seq(S)
         /\ Len(RemoveAt(s, i)) = Len(s) - 1
         /\ \A j \in DOMAIN RemoveAt(s, i) : RemoveAt(s, i)[j] = IF j < i THEN s[j] ELSE s[j + 1]
<1>1. DOMAIN s = 1..Len(s) /\ Len(s) \in Nat
  BY LenProperties
<1>2. /\ SubSeq(s, 1, i - 1) \in Seq(S)
      /\ Len(SubSeq(s, 1, i - 1)) = i - 1
      /\ \A j \in 1..(i - 1) : SubSeq(s, 1, i - 1)[j] = s[j]
  BY <1>1
<1>3. /\ SubSeq(s, i + 1, Len(s)) \in Seq(S)
      /\ Len(SubSeq(s, i + 1, Len(s))) = Len(s) - i
      /\ \A j \in 1..(Len(s) - i) : SubSeq(s, i + 1, Len(s))[j] = s[i + j]
  BY <1>1
<1>4. RemoveAt(s, i) = SubSeq(s, 1, i - 1) \o SubSeq(s, i + 1, Len(s))
  BY DEF RemoveAt
<1>5. /\ RemoveAt(s, i) \in Seq(S)
      /\ Len(RemoveAt(s, i)) = Len(s) - 1
      /\ \A j \in 1..(Len(s) - 1) :
           RemoveAt(s, i)[j] = IF j <= i - 1 THEN SubSeq(s, 1, i - 1)[j]
                               ELSE SubSeq(s, i + 1, Len(s))[j - (i - 1)]
  <2> DEFINE a == SubSeq(s, 1, i - 1)
             b == SubSeq(s, i + 1, Len(s))
  <2>1. a \in Seq(S) /\ b \in Seq(S) /\ Len(a) = i - 1 /\ Len(a) + Len(b) = Len(s) - 1
    <3>1. (i - 1) + (Len(s) - i) = Len(s) - 1
      BY <1>1
    <3> QED
      BY <1>2, <1>3, <3>1, Zenon
  <2>2. RemoveAt(s, i) = a \o b
    BY <1>4
  <2> HIDE DEF a, b
  <2>3. /\ a \o b \in Seq(S)
        /\ Len(a \o b) = Len(a) + Len(b)
        /\ \A j \in 1..(Len(a) + Len(b)) :
             (a \o b)[j] = IF j <= Len(a) THEN a[j] ELSE b[j - Len(a)]
    BY <2>1, ConcatProperties
  <2>4. /\ RemoveAt(s, i) \in Seq(S)
        /\ Len(RemoveAt(s, i)) = Len(s) - 1
        /\ \A j \in 1..(Len(s) - 1) :
             RemoveAt(s, i)[j] = IF j <= i - 1 THEN a[j] ELSE b[j - (i - 1)]
    BY <2>1, <2>2, <2>3
  <2> QED
    BY <2>4 DEF a, b
<1>6. DOMAIN RemoveAt(s, i) = 1..(Len(s) - 1)
  BY <1>5, LenProperties
<1>7. ASSUME NEW j \in 1..(Len(s) - 1)
      PROVE  RemoveAt(s, i)[j] = IF j < i THEN s[j] ELSE s[j + 1]
  <2>1. CASE j < i
    BY <2>1, <1>1, <1>2, <1>5
  <2>2. CASE ~(j < i)
    <3>1. j - (i - 1) \in 1..(Len(s) - i) /\ i + (j - (i - 1)) = j + 1 /\ ~(j <= i - 1)
      BY <2>2, <1>1
    <3>2. SubSeq(s, i + 1, Len(s))[j - (i - 1)] = s[i + (j - (i - 1))]
      BY <3>1, <1>3
    <3> QED
      BY <2>2, <3>1, <3>2, <1>5
  <2> QED
    BY <2>1, <2>2
<1> QED
  BY <1>5, <1>6, <1>7

\* What an update of one task leaves of the others.
LEMMA UpdateTask ==
  ASSUME TypeOK, NEW t \in Tasks, NEW r \in TaskRecords, tasks' = [tasks EXCEPT ![t] = r]
  PROVE  /\ tasks' \in Seq(TaskRecords)
         /\ Len(tasks') = Len(tasks)
         /\ DOMAIN tasks' = DOMAIN tasks
         /\ tasks'[t] = r
         /\ \A u \in Tasks : u # t => tasks'[u] = tasks[u]
  BY DEF TypeOK

\* What an answer to one call leaves of the others.
LEMMA UpdateAnswer ==
  ASSUME TypeOK, NEW t \in Tasks, NEW a \in {"none", "true", "false"},
         answers' = [answers EXCEPT ![t] = a]
  PROVE  /\ answers' \in Seq({"none", "true", "false"})
         /\ Len(answers') = Len(tasks)
         /\ answers'[t] = a
         /\ \A u \in Tasks : u # t => answers'[u] = answers[u]
<1>1. Tasks = 1..Len(tasks) /\ DOMAIN answers = 1..Len(tasks) /\ t \in 1..Len(answers)
  BY DEF TypeOK
<1> QED
  BY <1>1, ExceptSeq DEF TypeOK

-----------------------------------------------------------------------------
LEMMA InitInvariant == Init => IInv
<1> SUFFICES ASSUME Init PROVE IInv
  OBVIOUS
<1>1. tasks = <<>> /\ queue = <<>> /\ answers = <<>> /\ Tasks = {} /\ DOMAIN queue = {}
  BY DEF Init
<1>2. TypeOK
  <2>1. tasks \in Seq(TaskRecords) /\ queue \in Seq(Tasks) /\ answers \in Seq({"none", "true", "false"})
    BY <1>1, EmptySeq
  <2>2. titles \in 0..LastTitle
    BY ConstantsAssumption DEF Init
  <2> QED
    BY <1>1, <2>1, <2>2 DEF Init, TypeOK
<1>3. QueueSound /\ StatesSound /\ CallersSound /\ AnswerIsTrue
  BY <1>1 DEF QueueSound, StatesSound, CallersSound, AnswerIsTrue
<1>4. RunsSound
  BY DEF Init, RunsSound
<1> QED
  BY <1>2, <1>3, <1>4 DEF IInv

LEMMA CancelAllInvariant ==
  ASSUME IInv, CancelAll, UNCHANGED <<caller, core, parked, lost, answers>>,
         active' \in BOOLEAN, ending' \in BOOLEAN, titles' \in 0..LastTitle
  PROVE  IInv'
<1>1. /\ tasks' \in Seq(TaskRecords)
      /\ Len(tasks') = Len(tasks) /\ DOMAIN tasks' = DOMAIN tasks
  <2>1. Tasks = 1..Len(tasks) /\ Len(tasks) \in Nat /\ \A t \in Tasks : tasks[t] \in TaskRecords
    BY DEF IInv, TypeOK
  <2>2. \A t \in Tasks : [tasks[t] EXCEPT !.state = "Cancelled"] \in TaskRecords
    BY <2>1 DEF TaskRecords
  <2>3. tasks' \in [1..Len(tasks) -> TaskRecords]
    BY <2>1, <2>2 DEF CancelAll
  <2> QED
    BY <2>1, <2>3
<1>2. \A t \in Tasks : Contains(queue, t) => tasks[t].state = "Queued"
  BY DEF IInv, QueueSound, TypeOK, Contains
<1>3. \A t \in Tasks :
        /\ tasks'[t].caller = tasks[t].caller /\ tasks'[t].callback = tasks[t].callback
        /\ tasks'[t].state # tasks[t].state => tasks[t].state = "Queued" /\ tasks'[t].state = "Cancelled"
  BY <1>2 DEF CancelAll, IInv, TypeOK, TaskRecords
<1>4. queue' = <<>>
  BY DEF CancelAll
<1>5. TypeOK' /\ QueueSound'
  BY <1>1, <1>4 DEF IInv, TypeOK, QueueSound
<1>6. StatesSound' /\ AnswerIsTrue'
  BY <1>1, <1>3 DEF IInv, StatesSound, AnswerIsTrue
<1>7. CallersSound'
  BY <1>1, <1>3 DEF IInv, CallersSound
<1>8. RunsSound'
  <2>1. \A t \in Tasks : tasks[t].state = "Running" => tasks'[t].state = "Running"
    BY <1>3
  <2>2. parked \subseteq Tasks /\ \A k \in Cores : core[k] # 0 => core[k] \in Tasks
    BY DEF IInv, TypeOK
  <2> QED
    BY <2>1, <2>2 DEF IInv, RunsSound
<1> QED
  BY <1>5, <1>6, <1>7, <1>8 DEF IInv

LEMMA CallInvariant ==
  ASSUME IInv, NEW c \in Callers, Call(c)
  PROVE  IInv'
<1> DEFINE n == Len(tasks) + 1
<1>1. /\ tasks' \in Seq(TaskRecords) /\ Len(tasks') = n
      /\ tasks'[n] = [caller |-> c, state |-> "Queued", callback |-> "none"]
      /\ \A t \in Tasks : t \in DOMAIN tasks' /\ t # n /\ tasks'[t] = tasks[t]
      /\ \A t \in DOMAIN tasks' : t = n \/ t \in Tasks
      /\ n \in Nat \ {0} /\ DOMAIN tasks' = 1..n /\ Tasks = 1..(n - 1)
  BY DEF Call, IInv, TypeOK, TaskRecords
<1>2. /\ queue' \in Seq(DOMAIN tasks') /\ Len(queue') = Len(queue) + 1
      /\ queue'[Len(queue) + 1] = n
      /\ \A i \in DOMAIN queue : queue'[i] = queue[i] /\ queue[i] \in Tasks
      /\ \A i \in DOMAIN queue' : i \in DOMAIN queue \/ i = Len(queue) + 1
  BY <1>1 DEF Call, IInv, TypeOK
<1>3. /\ answers' \in Seq({"none", "true", "false"}) /\ Len(answers') = n
      /\ answers'[n] = "none" /\ \A t \in Tasks : answers'[t] = answers[t]
  BY <1>1 DEF Call, IInv, TypeOK
<1>4. /\ caller[c] = 0
      /\ caller' = [caller EXCEPT ![c] = n]
  BY <1>1 DEF Call
<1>5. TypeOK'
  BY <1>1, <1>2, <1>3, <1>4 DEF Call, IInv, TypeOK
<1>6. QueueSound'
  <2>1. \A i \in DOMAIN queue :
          queue'[i] = queue[i] /\ queue'[i] # n /\ tasks'[queue'[i]].state = "Queued"
    BY <1>1, <1>2 DEF IInv, QueueSound
  <2>2. tasks'[n].state = "Queued"
    BY <1>1
  <2>3. \A i \in DOMAIN queue' : i \in DOMAIN queue \/ (i = Len(queue) + 1 /\ queue'[i] = n)
    BY <1>2
  <2>4. \A i \in DOMAIN queue' : tasks'[queue'[i]].state = "Queued"
    BY <2>1, <2>2, <2>3
  <2>5. \A i, j \in DOMAIN queue' : queue'[i] = queue'[j] => i = j
    BY <2>1, <2>3 DEF IInv, QueueSound
  <2> QED
    BY <2>4, <2>5 DEF QueueSound
<1>7. StatesSound'
  BY <1>1 DEF IInv, StatesSound
<1>8. AnswerIsTrue'
  BY <1>1, <1>3 DEF IInv, AnswerIsTrue
<1>9. CallersSound'
  <2>1. ASSUME NEW u \in Tasks, tasks[u].state \in {"Queued", "Running"}
        PROVE  caller'[tasks[u].caller] = u
    BY <2>1, <1>1, <1>4 DEF IInv, TypeOK, CallersSound, TaskRecords
  <2>2. caller'[c] = n
    BY <1>4 DEF IInv, TypeOK
  <2> QED
    BY <2>1, <2>2, <1>1, <1>3 DEF IInv, CallersSound
<1>10. RunsSound'
  BY <1>1 DEF Call, IInv, TypeOK, RunsSound
<1> QED
  BY <1>5, <1>6, <1>7, <1>9, <1>10, <1>8 DEF IInv

LEMMA TimeoutInvariant ==
  ASSUME IInv, NEW c \in Callers, Timeout(c)
  PROVE  IInv'
<1> DEFINE t == caller[c]
<1>1. t \in Tasks /\ tasks[t].state = "Queued" /\ tasks[t] \in TaskRecords
  BY DEF Timeout, IInv, TypeOK
<1>2. tasks' = [tasks EXCEPT ![t] = [tasks[t] EXCEPT !.state = "Cancelled"]]
  BY DEF Timeout
<1>3. [tasks[t] EXCEPT !.state = "Cancelled"] \in TaskRecords
  BY <1>1 DEF TaskRecords
<1>4. /\ tasks' \in Seq(TaskRecords) /\ Len(tasks') = Len(tasks) /\ DOMAIN tasks' = Tasks
      /\ \A u \in Tasks : u # t => tasks'[u] = tasks[u]
  BY <1>1, <1>2, <1>3, UpdateTask DEF IInv
<1>5. tasks'[t] = [tasks[t] EXCEPT !.state = "Cancelled"]
  BY <1>1, <1>2, <1>3, UpdateTask DEF IInv
<1>6. PICK i \in DOMAIN queue : queue[i] = t /\ queue' = RemoveAt(queue, i)
  BY DEF Timeout
<1>7. /\ queue' \in Seq(Tasks)
      /\ Len(queue') = Len(queue) - 1
      /\ \A j \in DOMAIN queue' : queue'[j] = IF j < i THEN queue[j] ELSE queue[j + 1]
  BY <1>6, RemoveAtProperties DEF IInv, TypeOK
<1>8. DOMAIN queue' = 1..(Len(queue) - 1) /\ DOMAIN queue = 1..Len(queue)
  BY <1>7 DEF IInv, TypeOK
<1>9. answers' = [answers EXCEPT ![t] = "false"] /\ caller' = [caller EXCEPT ![c] = 0]
  BY DEF Timeout
<1>10. TypeOK'
  BY <1>1, <1>4, <1>7, <1>9, UpdateAnswer DEF Timeout, IInv, TypeOK
<1>11. QueueSound'
  <2>1. \A j \in DOMAIN queue' : \E l \in DOMAIN queue :
          l # i /\ queue'[j] = queue[l] /\ l = IF j < i THEN j ELSE j + 1
    BY <1>6, <1>7, <1>8
  <2>2. \A j \in DOMAIN queue' : queue'[j] \in Tasks /\ queue'[j] # t
    <3>1. \A l \in DOMAIN queue : queue[l] \in Tasks
      BY DEF IInv, TypeOK
    <3> QED
      BY <2>1, <3>1, <1>6 DEF IInv, QueueSound
  <2>3. \A j \in DOMAIN queue' : tasks'[queue'[j]].state = "Queued"
    BY <2>1, <2>2, <1>4 DEF IInv, QueueSound
  <2>4. \A j, l \in DOMAIN queue' : queue'[j] = queue'[l] => j = l
    BY <2>1, <1>6, <1>8 DEF IInv, QueueSound
  <2> QED
    BY <2>3, <2>4 DEF QueueSound
<1>12. /\ tasks'[t].state = "Cancelled" /\ tasks'[t].callback = tasks[t].callback
       /\ tasks'[t].caller = tasks[t].caller
  BY <1>1, <1>5 DEF TaskRecords
<1>13. answers'[t] = "false" /\ \A u \in Tasks : u # t => answers'[u] = answers[u]
  BY <1>1, <1>9, UpdateAnswer DEF IInv
<1>14. StatesSound'
  BY <1>1, <1>4, <1>12 DEF IInv, StatesSound
<1>15. AnswerIsTrue'
  BY <1>1, <1>4, <1>12, <1>13 DEF IInv, StatesSound, AnswerIsTrue
<1>16. CallersSound'
  <2>1. ASSUME NEW u \in Tasks, u # t, tasks[u].state \in {"Queued", "Running"}
        PROVE  caller'[tasks[u].caller] = u
    BY <2>1, <1>1, <1>9 DEF IInv, TypeOK, CallersSound, TaskRecords
  <2> QED
    BY <2>1, <1>4, <1>12, <1>13 DEF IInv, CallersSound
<1>17. RunsSound'
  BY <1>1, <1>4, <1>12 DEF Timeout, IInv, TypeOK, RunsSound
<1> QED
  BY <1>10, <1>11, <1>14, <1>16, <1>17, <1>15 DEF IInv

LEMMA ReturnInvariant ==
  ASSUME IInv, NEW c \in Callers, Return(c)
  PROVE  IInv'
<1> DEFINE t == caller[c]
           a == IF tasks[t].callback = "returned" THEN "true" ELSE "false"
<1>1. t \in Tasks /\ tasks[t].state \in {"Completed", "Cancelled"} /\ tasks[t] \in TaskRecords
  BY DEF Return, IInv, TypeOK
<1>2. /\ answers' = [answers EXCEPT ![t] = a] /\ caller' = [caller EXCEPT ![c] = 0]
      /\ UNCHANGED <<active, ending, titles, tasks, queue, core, parked, lost>>
  BY DEF Return
<1>3. TypeOK' /\ QueueSound' /\ StatesSound' /\ RunsSound'
  BY <1>1, <1>2 DEF IInv, TypeOK, QueueSound, StatesSound, RunsSound
<1>4. CallersSound'
  BY <1>1, <1>2 DEF IInv, TypeOK, CallersSound, TaskRecords
<1>5. AnswerIsTrue'
  BY <1>1, <1>2 DEF IInv, TypeOK, StatesSound, AnswerIsTrue
<1> QED
  BY <1>3, <1>4, <1>5 DEF IInv

LEMMA TakeInvariant ==
  ASSUME IInv, NEW k \in Cores, Take(k)
  PROVE  IInv'
<1> DEFINE t == Head(queue)
           r == [tasks[t] EXCEPT !.state = "Running", !.callback = "begun"]
<1>1. /\ t \in Tasks /\ t # 0 /\ tasks[t] \in TaskRecords
      /\ 1 \in DOMAIN queue /\ queue[1] = t
  BY DEF Take, IInv, TypeOK
<1>2. tasks[t].state = "Queued"
  BY <1>1 DEF IInv, QueueSound
<1>3. tasks' = [tasks EXCEPT ![t] = r]
  BY DEF Take
<1>4. r \in TaskRecords
  BY <1>1 DEF TaskRecords
<1>5. /\ tasks' \in Seq(TaskRecords) /\ Len(tasks') = Len(tasks) /\ DOMAIN tasks' = Tasks
      /\ \A u \in Tasks : u # t => tasks'[u] = tasks[u]
  BY <1>1, <1>3, <1>4, UpdateTask DEF IInv
<1>6. /\ queue' \in Seq(Tasks) /\ DOMAIN queue' = 1..(Len(queue) - 1)
      /\ DOMAIN queue = 1..Len(queue) /\ Len(queue) \in Nat
      /\ \A j \in DOMAIN queue' : queue'[j] = queue[j + 1] /\ j + 1 \in DOMAIN queue
  BY DEF Take, IInv, TypeOK
<1>7. /\ tasks'[t].state = "Running" /\ tasks'[t].callback = "begun"
      /\ tasks'[t].caller = tasks[t].caller
  <2>1. tasks'[t] = r
    BY <1>1, <1>3, <1>4, UpdateTask DEF IInv
  <2> QED
    BY <2>1, <1>1 DEF TaskRecords
<1>8. core' = [core EXCEPT ![k] = t] /\ UNCHANGED <<active, ending, titles, caller, parked, lost, answers>>
  BY DEF Take
<1>9. TypeOK'
  BY <1>1, <1>5, <1>6, <1>8 DEF IInv, TypeOK
<1>10. QueueSound'
  <2>1. \A j \in DOMAIN queue' : queue'[j] \in Tasks /\ queue'[j] # t
    BY <1>1, <1>6 DEF IInv, QueueSound
  <2>2. \A j \in DOMAIN queue' : tasks'[queue'[j]].state = "Queued"
    BY <2>1, <1>5, <1>6 DEF IInv, QueueSound
  <2>3. \A i, j \in DOMAIN queue' : queue'[i] = queue'[j] => i = j
    BY <1>6 DEF IInv, QueueSound
  <2> QED
    BY <2>2, <2>3 DEF QueueSound
<1>11. answers[t] = "none"
  BY <1>1, <1>2 DEF IInv, TypeOK, CallersSound
<1>12. StatesSound'
  BY <1>5, <1>7 DEF IInv, StatesSound
<1>13. AnswerIsTrue'
  BY <1>5, <1>8, <1>11 DEF IInv, AnswerIsTrue
<1>14. CallersSound'
  <2>1. \A u \in Tasks : tasks'[u].state \in {"Queued", "Running"} => caller'[tasks'[u].caller] = u
    BY <1>1, <1>2, <1>5, <1>7, <1>8 DEF IInv, CallersSound
  <2>2. \A u \in Tasks : answers'[u] # "none" => tasks'[u].state \in {"Completed", "Cancelled"}
    BY <1>5, <1>8, <1>11 DEF IInv, CallersSound
  <2> QED
    BY <2>1, <2>2, <1>5 DEF CallersSound
<1>15. RunsSound'
  BY <1>1, <1>2, <1>5, <1>7, <1>8 DEF Take, IInv, TypeOK, RunsSound
<1> QED
  BY <1>9, <1>10, <1>12, <1>14, <1>15, <1>13 DEF IInv

LEMMA CompleteInvariant ==
  ASSUME IInv, NEW k \in Cores, NEW how \in {"returned", "threw"}, Complete(k, how)
  PROVE  IInv'
<1> DEFINE t == core[k]
           r == [tasks[t] EXCEPT !.state = "Completed", !.callback = how]
<1>1. t \in Tasks /\ t # 0 /\ tasks[t] \in TaskRecords
  BY DEF Complete, IInv, TypeOK
<1>2. tasks[t].state = "Running" /\ t \notin parked
  BY <1>1 DEF IInv, RunsSound
<1>3. tasks' = [tasks EXCEPT ![t] = r]
  BY DEF Complete
<1>4. r \in TaskRecords
  BY <1>1 DEF TaskRecords
<1>5. /\ tasks' \in Seq(TaskRecords) /\ Len(tasks') = Len(tasks) /\ DOMAIN tasks' = Tasks
      /\ \A u \in Tasks : u # t => tasks'[u] = tasks[u]
  BY <1>1, <1>3, <1>4, UpdateTask DEF IInv
<1>6. /\ tasks'[t].state = "Completed" /\ tasks'[t].callback = how
      /\ tasks'[t].caller = tasks[t].caller
  <2>1. tasks'[t] = r
    BY <1>1, <1>3, <1>4, UpdateTask DEF IInv
  <2> QED
    BY <2>1, <1>1 DEF TaskRecords
<1>7. /\ core' = [core EXCEPT ![k] = 0]
      /\ UNCHANGED <<active, ending, titles, queue, caller, parked, lost, answers>>
  BY DEF Complete
<1>8. TypeOK'
  BY <1>1, <1>5, <1>7 DEF IInv, TypeOK
<1>9. QueueSound'
  <2>1. \A j \in DOMAIN queue : queue[j] \in Tasks /\ queue[j] # t
    BY <1>2 DEF IInv, TypeOK, QueueSound
  <2> QED
    BY <2>1, <1>5, <1>7 DEF IInv, QueueSound
<1>10. answers[t] = "none"
  BY <1>1, <1>2 DEF IInv, TypeOK, CallersSound
<1>11. StatesSound'
  BY <1>5, <1>6 DEF IInv, StatesSound
<1>12. AnswerIsTrue'
  BY <1>5, <1>7, <1>10 DEF IInv, AnswerIsTrue
<1>13. CallersSound'
  BY <1>1, <1>2, <1>5, <1>6, <1>7 DEF IInv, TypeOK, CallersSound
<1>14. RunsSound'
  BY <1>1, <1>2, <1>5, <1>6, <1>7 DEF IInv, TypeOK, RunsSound
<1> QED
  BY <1>8, <1>9, <1>11, <1>13, <1>14, <1>12 DEF IInv

\* The steps that move a callback between a core and its parking place.
LEMMA SwitchInvariant ==
  ASSUME IInv, NEW k \in Cores, Yield(k) \/ Resume(k)
  PROVE  IInv'
<1>1. UNCHANGED <<active, ending, titles, tasks, queue, caller, lost, answers>>
  BY DEF Yield, Resume
<1>2. QueueSound' /\ StatesSound' /\ CallersSound' /\ AnswerIsTrue'
  BY <1>1 DEF IInv, QueueSound, StatesSound, CallersSound, AnswerIsTrue
<1>3. CASE Yield(k)
  <2>1. TypeOK'
    BY <1>1, <1>3 DEF IInv, TypeOK, Yield
  <2>2. RunsSound'
    BY <1>1, <1>3 DEF IInv, TypeOK, RunsSound, Yield
  <2> QED
    BY <1>2, <2>1, <2>2 DEF IInv
<1>4. CASE Resume(k)
  <2>1. PICK t \in parked : core' = [core EXCEPT ![k] = t] /\ parked' = parked \ {t} /\ core[k] = 0
    BY <1>4 DEF Resume
  <2>2. t \in Tasks /\ t # 0 /\ tasks[t].state = "Running"
    BY <2>1 DEF IInv, TypeOK, RunsSound
  <2>3. TypeOK'
    BY <1>1, <2>1, <2>2 DEF IInv, TypeOK
  <2>4. RunsSound'
    BY <1>1, <2>1, <2>2 DEF IInv, TypeOK, RunsSound
  <2> QED
    BY <1>2, <2>3, <2>4 DEF IInv
<1> QED
  BY <1>3, <1>4

LEMMA JoinedInvariant ==
  ASSUME IInv, Joined
  PROVE  IInv'
<1>1. parked' = {} /\ lost' = lost \cup parked
      /\ ending' = FALSE /\ UNCHANGED <<active, titles, tasks, queue, caller, core, answers>>
  BY DEF Joined
<1>2. TypeOK'
  BY <1>1 DEF IInv, TypeOK
<1>3. QueueSound' /\ StatesSound' /\ CallersSound' /\ AnswerIsTrue'
  BY <1>1 DEF IInv, QueueSound, StatesSound, CallersSound, AnswerIsTrue
<1>4. RunsSound'
  BY <1>1 DEF IInv, RunsSound
<1> QED
  BY <1>2, <1>3, <1>4 DEF IInv

\* The inductive invariant.
THEOREM Invariant == Spec => []IInv
<1>1. ASSUME IInv, [Next]_vars
      PROVE  IInv'
  <2>1. CASE Begin
    BY <1>1, <2>1, CancelAllInvariant, ConstantsAssumption DEF Begin, IInv, TypeOK
  <2>2. CASE End
    BY <1>1, <2>2, CancelAllInvariant DEF End, IInv, TypeOK
  <2>3. CASE Joined
    BY <1>1, <2>3, JoinedInvariant
  <2>4. ASSUME NEW c \in Callers, Call(c) \/ Timeout(c) \/ Return(c)
        PROVE  IInv'
    BY <1>1, <2>4, CallInvariant, TimeoutInvariant, ReturnInvariant
  <2>5. ASSUME NEW k \in Cores, Core(k)
        PROVE  IInv'
    BY <1>1, <2>5, TakeInvariant, CompleteInvariant, SwitchInvariant DEF Core
  <2>6. CASE UNCHANGED vars
    BY <1>1, <2>6
    DEF vars, IInv, TypeOK, QueueSound, StatesSound, CallersSound, RunsSound, AnswerIsTrue
  <2> QED
    BY <1>1, <2>1, <2>2, <2>3, <2>4, <2>5, <2>6 DEF Next
<1> QED
  BY <1>1, InitInvariant, PTL DEF Spec

\* The data of the queue, the callers and the cores are well formed
\* (coreinit_Thread.cpp:73-95).
THEOREM TypeCorrect == Spec => []TypeOK
  BY Invariant, PTL DEF IInv

\* No order of timeout, acceptance, yield and scheduler end lets a callback run
\* after its caller has returned, or twice.
THEOREM CallbackHasCaller == Spec => []CallerOutlivesCallback
<1>1. ASSUME IInv
      PROVE  CallerOutlivesCallback
  <2>1. ASSUME NEW t \in Tasks, Runs(t)
        PROVE  tasks[t].state = "Running"
    BY <1>1, <2>1 DEF IInv, TypeOK, RunsSound, Runs
  <2> QED
    BY <1>1, <2>1 DEF IInv, TypeOK, RunsSound, CallersSound, CallerOutlivesCallback, Runs
<1> QED
  BY <1>1, Invariant, PTL

\* What OSRunOnEmulatedCpuThread returns tells whether the callback has run.
THEOREM AnswerCorrect == Spec => []AnswerIsTrue
  BY Invariant, PTL DEF IInv

-----------------------------------------------------------------------------
(* That the queue is exact is inductive relative to IInv: a task leaves the  *)
(* queue in the step that decides on it, and one that comes in has the       *)
(* highest number.                                                           *)

LEMMA ContainsIndex ==
  ASSUME NEW S, NEW s \in Seq(S), NEW e
  PROVE  Contains(s, e) <=> \E i \in DOMAIN s : s[i] = e
  BY LenProperties DEF Contains

\* A step that leaves the queue and its undecided tasks alone.
LEMMA QueueKept ==
  ASSUME IInv, QueueExact, queue' = queue, DOMAIN tasks' = DOMAIN tasks,
         \A t \in Tasks : tasks'[t].state = "Queued" <=> tasks[t].state = "Queued",
         active' = active
  PROVE  QueueExact'
  BY DEF QueueExact, Contains

LEMMA CancelAllQueue ==
  ASSUME IInv, QueueExact, CancelAll
  PROVE  QueueExact'
<1>1. queue' = <<>> /\ DOMAIN tasks' = DOMAIN tasks
  BY DEF CancelAll
<1>2. ASSUME NEW t \in Tasks
      PROVE  tasks'[t].state # "Queued"
  <2>1. tasks[t] \in TaskRecords
    BY DEF IInv, TypeOK
  <2>2. CASE Contains(queue, t)
    BY <2>1, <2>2 DEF CancelAll, TaskRecords
  <2>3. CASE ~Contains(queue, t)
    BY <2>3 DEF CancelAll, QueueExact
  <2> QED
    BY <2>2, <2>3
<1>3. \A t : ~Contains(queue', t)
  BY <1>1, EmptySeq DEF Contains
<1> QED
  BY <1>1, <1>2, <1>3 DEF QueueExact

LEMMA CallQueue ==
  ASSUME IInv, QueueExact, NEW c \in Callers, Call(c)
  PROVE  QueueExact'
<1> DEFINE n == Len(tasks) + 1
<1>1. /\ tasks'[n] = [caller |-> c, state |-> "Queued", callback |-> "none"]
      /\ \A t \in Tasks : t # n /\ tasks'[t] = tasks[t]
      /\ DOMAIN tasks' = 1..n /\ Tasks = 1..(n - 1) /\ n \in Nat
  BY DEF Call, IInv, TypeOK, TaskRecords
<1>2. /\ queue' = Append(queue, n) /\ queue \in Seq(1..n) /\ n \in 1..n
      /\ \A i \in DOMAIN queue : queue[i] \in 1..(n - 1)
  BY <1>1 DEF Call, IInv, TypeOK
<1>3. /\ DOMAIN queue = 1..Len(queue) /\ Len(queue) \in Nat
      /\ DOMAIN queue' = 1..(Len(queue) + 1)
      /\ queue' \in Seq(1..n)
      /\ \A i \in DOMAIN queue : queue'[i] = queue[i]
      /\ queue'[Len(queue) + 1] = n
  BY <1>2
<1>4. ASSUME NEW t \in DOMAIN tasks'
      PROVE  Contains(queue', t) <=> tasks'[t].state = "Queued"
  <2>1. Contains(queue', t) <=> \E i \in DOMAIN queue' : queue'[i] = t
    BY <1>3, ContainsIndex
  <2>2. CASE t = n
    BY <2>1, <2>2, <1>1, <1>3
  <2>3. CASE t # n
    <3>1. t \in Tasks
      BY <2>3, <1>1
    <3>2. Contains(queue, t) <=> \E i \in DOMAIN queue : queue[i] = t
      BY <1>2, ContainsIndex
    <3>3. (\E i \in DOMAIN queue' : queue'[i] = t) <=> \E i \in DOMAIN queue : queue[i] = t
      BY <1>3, <2>3
    <3> QED
      BY <3>1, <3>2, <3>3, <2>1, <1>1 DEF QueueExact
  <2> QED
    BY <2>2, <2>3
<1>5. ASSUME NEW i \in DOMAIN queue', NEW j \in DOMAIN queue', i < j
      PROVE  queue'[i] < queue'[j]
  <2>1. i \in DOMAIN queue /\ queue'[i] = queue[i] /\ queue[i] \in 1..(n - 1)
    BY <1>2, <1>3, <1>5
  <2>2. CASE j = Len(queue) + 1
    BY <2>1, <2>2, <1>1, <1>3
  <2>3. CASE j \in DOMAIN queue
    BY <2>1, <2>3, <1>3, <1>5 DEF QueueExact
  <2> QED
    BY <2>2, <2>3, <1>3
<1>6. active'
  BY DEF Call
<1> QED
  BY <1>4, <1>5, <1>6 DEF QueueExact

LEMMA TimeoutQueue ==
  ASSUME IInv, QueueExact, NEW c \in Callers, Timeout(c)
  PROVE  QueueExact'
<1> DEFINE t == caller[c]
<1>1. t \in Tasks /\ tasks[t] \in TaskRecords /\ queue \in Seq(Tasks)
  BY DEF Timeout, IInv, TypeOK
<1>2. /\ DOMAIN tasks' = Tasks
      /\ \A u \in Tasks : u # t => tasks'[u] = tasks[u]
      /\ tasks'[t].state = "Cancelled"
  BY <1>1 DEF Timeout, TaskRecords
<1>3. PICK i \in DOMAIN queue : queue[i] = t /\ queue' = RemoveAt(queue, i)
  BY DEF Timeout
<1>4. /\ queue' \in Seq(Tasks)
      /\ Len(queue') = Len(queue) - 1
      /\ \A j \in DOMAIN queue' : queue'[j] = IF j < i THEN queue[j] ELSE queue[j + 1]
  BY <1>1, <1>3, RemoveAtProperties
<1>5. /\ DOMAIN queue' = 1..(Len(queue) - 1) /\ DOMAIN queue = 1..Len(queue)
      /\ Len(queue) \in Nat /\ i \in 1..Len(queue)
  BY <1>1, <1>3, <1>4
<1>6. \A u : (\E j \in DOMAIN queue' : queue'[j] = u) <=> (\E l \in DOMAIN queue : l # i /\ queue[l] = u)
  <2>1. \A j \in DOMAIN queue' : \E l \in DOMAIN queue : l # i /\ queue'[j] = queue[l]
    BY <1>4, <1>5
  <2>2. ASSUME NEW l \in DOMAIN queue, l # i
        PROVE  \E j \in DOMAIN queue' : queue'[j] = queue[l]
    <3>1. CASE l < i
      BY <3>1, <1>4, <1>5
    <3>2. CASE l > i
      <4>1. l - 1 \in DOMAIN queue' /\ ~(l - 1 < i) /\ (l - 1) + 1 = l
        BY <3>2, <1>5
      <4> QED
        BY <4>1, <1>4
    <3> QED
      BY <3>1, <3>2, <2>2, <1>5
  <2> QED
    BY <2>1, <2>2
<1>7. \A l \in DOMAIN queue : queue[l] = t => l = i
  BY <1>3 DEF IInv, QueueSound
<1>8. ASSUME NEW u \in Tasks
      PROVE  Contains(queue', u) <=> tasks'[u].state = "Queued"
  <2>1. /\ Contains(queue', u) <=> \E j \in DOMAIN queue' : queue'[j] = u
        /\ Contains(queue, u) <=> \E j \in DOMAIN queue : queue[j] = u
    BY <1>1, <1>4, ContainsIndex
  <2>2. CASE u = t
    BY <2>1, <2>2, <1>2, <1>6, <1>7
  <2>3. CASE u # t
    <3>1. Contains(queue', u) <=> Contains(queue, u)
      BY <2>1, <2>3, <1>3, <1>6
    <3> QED
      BY <3>1, <2>3, <1>2 DEF QueueExact
  <2> QED
    BY <2>2, <2>3
<1>9. ASSUME NEW j \in DOMAIN queue', NEW l \in DOMAIN queue', j < l
      PROVE  queue'[j] < queue'[l]
  <2> DEFINE from(m) == IF m < i THEN m ELSE m + 1
  <2>1. from(j) \in DOMAIN queue /\ from(l) \in DOMAIN queue /\ from(j) < from(l)
    BY <1>5, <1>9
  <2>2. queue'[j] = queue[from(j)] /\ queue'[l] = queue[from(l)]
    BY <1>4
  <2> QED
    BY <2>1, <2>2 DEF QueueExact
<1>10. active' = active /\ ~active => queue' = <<>>
  <2>1. active
    BY <1>3 DEF QueueExact
  <2> QED
    BY <2>1 DEF Timeout
<1> QED
  BY <1>2, <1>8, <1>9, <1>10 DEF Timeout, QueueExact

LEMMA TakeQueue ==
  ASSUME IInv, QueueExact, NEW k \in Cores, Take(k)
  PROVE  QueueExact'
<1> DEFINE t == Head(queue)
<1>1. /\ queue \in Seq(Tasks) /\ queue # <<>> /\ queue' = Tail(queue)
      /\ t = queue[1] /\ t \in Tasks /\ tasks[t] \in TaskRecords
  BY DEF Take, IInv, TypeOK
<1>2. /\ DOMAIN tasks' = Tasks
      /\ \A u \in Tasks : u # t => tasks'[u] = tasks[u]
      /\ tasks'[t].state = "Running"
  BY <1>1 DEF Take, TaskRecords
<1>3. /\ queue' \in Seq(Tasks) /\ DOMAIN queue' = 1..(Len(queue) - 1)
      /\ DOMAIN queue = 1..Len(queue) /\ Len(queue) \in Nat \ {0}
      /\ \A j \in DOMAIN queue' : queue'[j] = queue[j + 1] /\ j + 1 \in DOMAIN queue
  BY <1>1
<1>4. \A u : (\E j \in DOMAIN queue' : queue'[j] = u) <=> (\E l \in DOMAIN queue : l # 1 /\ queue[l] = u)
  <2>1. ASSUME NEW l \in DOMAIN queue, l # 1
        PROVE  \E j \in DOMAIN queue' : queue'[j] = queue[l]
    <3>1. l - 1 \in DOMAIN queue' /\ (l - 1) + 1 = l
      BY <2>1, <1>3
    <3> QED
      BY <3>1, <1>3
  <2>2. \A j \in DOMAIN queue' : j + 1 # 1
    BY <1>3
  <2> QED
    BY <2>1, <2>2, <1>3
<1>5. \A l \in DOMAIN queue : queue[l] = t => l = 1
  BY <1>1, <1>3 DEF IInv, QueueSound
<1>6. ASSUME NEW u \in Tasks
      PROVE  Contains(queue', u) <=> tasks'[u].state = "Queued"
  <2>1. /\ Contains(queue', u) <=> \E j \in DOMAIN queue' : queue'[j] = u
        /\ Contains(queue, u) <=> \E j \in DOMAIN queue : queue[j] = u
    <3>1. queue \in Seq(Tasks) /\ queue' \in Seq(Tasks)
      BY <1>1, <1>3
    <3> QED
      BY <3>1, ContainsIndex
  <2>2. CASE u = t
    BY <2>1, <2>2, <1>2, <1>4, <1>5
  <2>3. CASE u # t
    <3>1. Contains(queue', u) <=> Contains(queue, u)
      BY <2>1, <2>3, <1>1, <1>4
    <3> QED
      BY <3>1, <2>3, <1>2 DEF QueueExact
  <2> QED
    BY <2>2, <2>3
<1>7. \A i, j \in DOMAIN queue' : i < j => queue'[i] < queue'[j]
  <2>1. \A i, j \in DOMAIN queue' : i < j => i + 1 < j + 1
    BY <1>3
  <2> QED
    BY <2>1, <1>3 DEF QueueExact
<1>8. active' = active /\ active
  BY <1>1 DEF Take, QueueExact
<1> QED
  BY <1>2, <1>6, <1>7, <1>8 DEF QueueExact

LEMMA CompleteQueue ==
  ASSUME IInv, QueueExact, NEW k \in Cores, NEW how \in {"returned", "threw"}, Complete(k, how)
  PROVE  QueueExact'
<1> DEFINE t == core[k]
<1>1. t \in Tasks /\ tasks[t] \in TaskRecords /\ tasks[t].state = "Running"
  BY DEF Complete, IInv, TypeOK, RunsSound
<1>2. /\ DOMAIN tasks' = Tasks /\ queue' = queue /\ active' = active
      /\ \A u \in Tasks : u # t => tasks'[u] = tasks[u]
      /\ tasks'[t].state = "Completed"
  BY <1>1 DEF Complete, TaskRecords
<1>3. \A u \in Tasks : tasks'[u].state = "Queued" <=> tasks[u].state = "Queued"
  BY <1>1, <1>2
<1> QED
  BY <1>2, <1>3, QueueKept

\* Nobody's call is forgotten in the queue, taken twice, overtaken, or left to
\* the next title (coreinit_Thread.cpp:97-141, 1690-1702).
THEOREM QueueCorrect == Spec => []QueueExact
<1>1. Init => QueueExact
  <2> SUFFICES ASSUME Init PROVE QueueExact
    OBVIOUS
  <2>1. Tasks = {} /\ DOMAIN queue = {} /\ queue = <<>>
    BY DEF Init
  <2> QED
    BY <2>1 DEF QueueExact
<1>2. ASSUME IInv, QueueExact, [Next]_vars
      PROVE  QueueExact'
  <2>1. CASE Begin
    BY <1>2, <2>1, CancelAllQueue DEF Begin
  <2>2. CASE End
    BY <1>2, <2>2, CancelAllQueue DEF End
  <2>3. CASE Joined
    BY <1>2, <2>3, QueueKept DEF Joined
  <2>4. ASSUME NEW c \in Callers, Call(c) \/ Timeout(c) \/ Return(c)
        PROVE  QueueExact'
    <3>1. CASE Return(c)
      BY <1>2, <3>1, QueueKept DEF Return
    <3> QED
      BY <1>2, <2>4, <3>1, CallQueue, TimeoutQueue
  <2>5. ASSUME NEW k \in Cores, Core(k)
        PROVE  QueueExact'
    <3>1. CASE Yield(k) \/ Resume(k)
      BY <1>2, <3>1, QueueKept DEF Yield, Resume
    <3> QED
      BY <1>2, <2>5, <3>1, TakeQueue, CompleteQueue DEF Core
  <2>6. CASE UNCHANGED vars
    BY <1>2, <2>6, QueueKept DEF vars
  <2> QED
    BY <1>2, <2>1, <2>2, <2>3, <2>4, <2>5, <2>6 DEF Next
<1> QED
  BY <1>1, <1>2, Invariant, PTL DEF Spec
=============================================================================
