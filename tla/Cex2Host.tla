------------------------------ MODULE Cex2Host ------------------------------
(***************************************************************************)
(* The CEX2 session host (Cex2Host.cpp): sessions, request admission, the  *)
(* bounded response queue, asynchronous storage, clipboard and capture     *)
(* requests, cancellation, deadlines, and permission revocation.           *)
(*                                                                         *)
(* Each action is one critical section of Impl::mutex, or one of           *)
(* workMutex.  Payloads, sizes and operation tables are abstracted to the  *)
(* kind of a request and the permission it needs.  That an owner is        *)
(* destroyed while a call or a session still refers to it is the subject   *)
(* of TrustedRuntime; here the memory of an owner stays readable.          *)
(***************************************************************************)
EXTENDS Integers, Sequences, FiniteSets

CONSTANTS
  Owners,        \* Cex2Owner instances; a restarted mod is a new one
  Correlations,  \* the nonzero correlation ids a guest uses
  Kinds,         \* the kinds of request a guest submits, a subset of AllKinds
  Workers,       \* the worker threads (two in Impl)
  MaxQueue,      \* kMaximumResponseQueue
  MaxSessions,   \* the limit on open sessions (16 in Open)
  MaxOpens,      \* calls an owner can have in Open at once: one per guest core
  LastSession,   \* bound: session ids handed out in a behaviour
  NoTask, NoCorrelation

AllKinds == {"core", "subscribe", "unsubscribe", "inject", "storage",
             "clipboard", "captureOpen", "captureClose"}

ASSUME ConstantsAssumption ==
  /\ Kinds \subseteq AllKinds
  /\ MaxQueue \in Nat \ {0} /\ MaxSessions \in Nat \ {0} /\ LastSession \in Nat
  /\ MaxOpens \in Nat
  /\ NoCorrelation \notin Correlations
  /\ IsFiniteSet(Correlations)

VARIABLES
  sessions,     \* open sessions: id -> session record
  nextSession,  \* nextSession
  granted,      \* GrantedPermissions() per owner
  services,     \* what IsServiceAllowed() admits per owner
  settling,     \* owners between SetServicePermissions and PermissionsChanged
  life,         \* "live" or "stopped" (IsStopped) per owner
  opening,      \* per owner: the calls in Open that have read IsStopped
  work,         \* the queue of storage tasks
  running,      \* per worker: its task, and whether phase 1 admitted it
  external      \* clipboard and screenshot callbacks that may still arrive

vars == <<sessions, nextSession, granted, services, settling, life, opening, work, running, external>>

-----------------------------------------------------------------------------
\* Sessions as values

NoCapture == [handle |-> NoCorrelation, pending |-> FALSE]

\* kOperations: the permission an operation of each kind needs.
PermissionOf(kind) ==
  CASE kind = "event" -> {"read"}
    [] kind = "inject" -> {"inject"}
    [] kind = "storage" -> {"read"}
    [] kind = "clipboard" -> {"clipboard"}
    [] kind \in {"captureOpen", "captureClose"} -> {"capture"}
    [] OTHER -> {}

\* The permissions that the requests and events of this instance need.
Permissions == UNION {PermissionOf(kind) : kind \in Kinds \cup {"event"}}

NewSession(o) ==
  [owner |-> o, responses |-> <<>>, reserved |-> 0, pending |-> <<>>,
   admitted |-> {}, delivered |-> {}, subscribed |-> FALSE,
   clipboardPending |-> FALSE, capture |-> NoCapture]

Response(c, kind, status) == [correlation |-> c, kind |-> kind, status |-> status]

Event == Response(NoCorrelation, "event", "Ok")

Allowed(o, kind) == PermissionOf(kind) \subseteq granted[o] \cap services[o]

Owns(o, s) == s \in DOMAIN sessions /\ sessions[s].owner = o /\ life[o] = "live"

SessionsOf(o) == {s \in DOMAIN sessions : sessions[s].owner = o}

\* The bound without the reservations.
MutantFullIgnoresReserved(x) == Len(x.responses) >= MaxQueue

Full(x) == Len(x.responses) + x.reserved >= MaxQueue

Push(x, r) == [x EXCEPT !.responses = Append(@, r)]

Elements(q) == {q[i] : i \in DOMAIN q}

\* The pending requests q are answered in this order: their entries, their
\* reservations and the state of their services go, and the responses take the
\* reserved places in the queue.
Settle(x, q, status, capture) ==
  [x EXCEPT
    !.responses = @ \o [i \in DOMAIN q |-> Response(q[i], x.pending[q[i]].kind, status)],
    !.pending = [d \in DOMAIN @ \ Elements(q) |-> @[d]],
    !.reserved = @ - Len(q),
    !.clipboardPending = @ /\ \A c \in Elements(q) : x.pending[c].kind # "clipboard",
    !.capture = capture]

\* A cancelled or late capture stays pending in the session.
MutantAbortKeepsCapture(x, q, status) == Settle(x, q, status, x.capture)

\* A request answered without a result leaves the clipboard busy.
MutantAbortKeepsClipboard(x, q, status) ==
  [Settle(x, q, status,
     IF \E c \in Elements(q) : x.pending[c].kind = "captureOpen" THEN NoCapture ELSE x.capture)
     EXCEPT !.clipboardPending = x.clipboardPending]

\* Without a result: a capture is dropped with the request for it.
Abort(x, q, status) ==
  Settle(x, q, status,
    IF \E c \in Elements(q) : x.pending[c].kind = "captureOpen" THEN NoCapture ELSE x.capture)

\* Complete(): permission is checked again, success keeps the capture.
Complete(x, c, status) ==
  IF ~Allowed(x.owner, x.pending[c].kind) THEN Abort(x, <<c>>, "PermissionDenied")
  ELSE IF status = "Ok" THEN Settle(x, <<c>>, status, x.capture)
  ELSE Abort(x, <<c>>, status)

\* An unordered map is walked in any order.
Orders(S) ==
  {q \in [1..Cardinality(S) -> S] : \A i, j \in DOMAIN q : i # j => q[i] # q[j]}

Reserve(x, c, kind) ==
  [x EXCEPT
    !.reserved = @ + 1,
    !.pending = [d \in DOMAIN @ \cup {c} |->
                   IF d = c THEN [kind |-> kind, expired |-> FALSE] ELSE @[d]]]

\* EmitEvent: dropped without permission, subscription or room.
Emit(x) ==
  IF Allowed(x.owner, "event") /\ x.subscribed /\ ~Full(x) THEN Push(x, Event) ELSE x

\* The session with id s is still the one a completion was started for.  Ids are
\* not reused in a behaviour, and the address space and generation checked with
\* the id are fixed per owner.
Waits(s, c) == s \in DOMAIN sessions /\ c \in DOMAIN sessions[s].pending

Update(s, x) == sessions' = [sessions EXCEPT ![s] = x]

Erase(S) == sessions' = [s \in DOMAIN sessions \ S |-> sessions[s]]

Task(s, c, kind) == [session |-> s, correlation |-> c, kind |-> kind]

Idle == [task |-> NoTask, started |-> FALSE]

Init ==
  /\ sessions = <<>>
  /\ nextSession = 1
  /\ granted = [o \in Owners |-> Permissions]
  /\ services = [o \in Owners |-> Permissions]
  /\ settling = {}
  /\ life = [o \in Owners |-> "live"]
  /\ opening = [o \in Owners |-> 0]
  /\ work = <<>>
  /\ running = [w \in Workers |-> Idle]
  /\ external = {}

OwnersUnchanged == UNCHANGED <<granted, services, settling, life, opening>>
AsyncUnchanged == UNCHANGED <<work, running, external>>

-----------------------------------------------------------------------------
\* Open, Close and the ends of owners

\* Open reads IsStopped before it takes the mutex, and not again under it.  (Once
\* the ids of the bound are used up, calls that can only be refused are left out.)
BeginOpen(o) ==
  /\ life[o] = "live"
  /\ opening[o] < MaxOpens
  /\ nextSession <= LastSession
  /\ opening' = [opening EXCEPT ![o] = @ + 1]
  /\ UNCHANGED <<sessions, nextSession, granted, services, settling, life>> /\ AsyncUnchanged

EndOpen(o) ==
  /\ opening[o] > 0
  /\ opening' = [opening EXCEPT ![o] = @ - 1]
  /\ UNCHANGED <<granted, services, settling, life>> /\ AsyncUnchanged

\* Options the host does not accept, or one of the limits below.
RefuseOpen(o) == EndOpen(o) /\ UNCHANGED <<sessions, nextSession>>

\* No check for a session the owner already has.
MutantOpenAnother(o) ==
  /\ EndOpen(o)
  /\ Cardinality(DOMAIN sessions) < MaxSessions
  /\ nextSession <= LastSession
  /\ nextSession' = nextSession + 1
  /\ sessions' = [s \in DOMAIN sessions \cup {nextSession} |->
                    IF s = nextSession THEN NewSession(o) ELSE sessions[s]]

\* The id of a session that was closed is given out again.
MutantOpenReusesId(o) ==
  /\ EndOpen(o)
  /\ \A s \in DOMAIN sessions : ~Owns(o, s)
  /\ \E id \in 1..nextSession \ DOMAIN sessions :
       /\ id <= LastSession
       /\ sessions' = [s \in DOMAIN sessions \cup {id} |->
                         IF s = id THEN NewSession(o) ELSE sessions[s]]
       /\ nextSession' = IF id = nextSession THEN id + 1 ELSE nextSession

\* A stopped owner owns no session: it passes the test for one it has.
Open(o) ==
  /\ EndOpen(o)
  /\ Cardinality(DOMAIN sessions) < MaxSessions
  /\ \A s \in DOMAIN sessions : ~Owns(o, s)
  /\ nextSession <= LastSession
  /\ nextSession' = nextSession + 1
  /\ sessions' = [s \in DOMAIN sessions \cup {nextSession} |->
                    IF s = nextSession THEN NewSession(o) ELSE sessions[s]]

Close(o, s) ==
  /\ Owns(o, s)
  /\ Erase({s})
  /\ UNCHANGED nextSession /\ OwnersUnchanged /\ AsyncUnchanged

\* Stop: a fault or an exhausted quota, or the end of the owner's mods.
StopOwner(o) ==
  /\ life[o] = "live"
  /\ life' = [life EXCEPT ![o] = "stopped"]
  /\ UNCHANGED <<sessions, nextSession, granted, services, settling, opening>> /\ AsyncUnchanged

\* CloseOwner, which the owner's end calls before Stop, after it or without it.
\* The runtime's own mutex keeps it apart from a grant change.
CloseOwner(o) ==
  /\ o \notin settling
  /\ Erase(SessionsOf(o))
  /\ UNCHANGED nextSession /\ OwnersUnchanged /\ AsyncUnchanged

\* CloseAll, at the end of a title.
CloseAll ==
  /\ Erase(DOMAIN sessions)
  /\ UNCHANGED nextSession /\ OwnersUnchanged /\ AsyncUnchanged

-----------------------------------------------------------------------------
\* Submit.  A full queue answers Busy and changes nothing.

\* AdmitCorrelation: an id is taken once per session.
Admit(x, c) == [x EXCEPT !.admitted = @ \cup {c}]

\* The request is answered before Submit returns.
Answer(x, c, kind, status) == Push(Admit(x, c), Response(c, kind, status))

CanSubmit(o, s) == Owns(o, s) /\ ~Full(sessions[s])

\* A malformed header, or an id that was used before: the session is reaped.
SubmitProtocolError(o, s) ==
  /\ CanSubmit(o, s)
  /\ Erase({s})
  /\ UNCHANGED nextSession /\ OwnersUnchanged /\ AsyncUnchanged

\* A request that is admitted for the first time.
\* (Without AdmitCorrelation.)
MutantSubmitAgain(o, s, c) == CanSubmit(o, s) /\ c \notin DOMAIN sessions[s].pending

SubmitNew(o, s, c) == CanSubmit(o, s) /\ c \notin sessions[s].admitted

SubmitDenied(o, s, c, kind) ==
  /\ SubmitNew(o, s, c)
  /\ ~Allowed(o, kind)
  /\ Update(s, Answer(sessions[s], c, kind, "PermissionDenied"))
  /\ UNCHANGED nextSession /\ OwnersUnchanged /\ AsyncUnchanged

\* A request whose payload does not decode.
SubmitInvalid(o, s, c, kind) ==
  /\ SubmitNew(o, s, c)
  /\ Allowed(o, kind)
  /\ Update(s, Answer(sessions[s], c, kind, "InvalidArgument"))
  /\ UNCHANGED nextSession /\ OwnersUnchanged /\ AsyncUnchanged

\* Dispatch holds a reservation for the response while a handler runs, so the
\* event an injected input emits cannot take its place.
SubmitInject(o, s, c) ==
  /\ SubmitNew(o, s, c)
  /\ Allowed(o, "inject")
  /\ LET held == [Admit(sessions[s], c) EXCEPT !.reserved = @ + 1]
         emitted == [Emit(held) EXCEPT !.reserved = @ - 1]
     IN  Update(s, Push(emitted, Response(c, "inject", "Ok")))
  /\ UNCHANGED nextSession /\ OwnersUnchanged /\ AsyncUnchanged

SubmitCore(o, s, c) ==
  /\ SubmitNew(o, s, c)
  /\ Update(s, Answer(sessions[s], c, "core", "Ok"))
  /\ UNCHANGED nextSession /\ OwnersUnchanged /\ AsyncUnchanged

\* Subscribe and Unsubscribe need no permission themselves; the service does.
SubmitSubscription(o, s, c, kind) ==
  /\ SubmitNew(o, s, c)
  /\ LET x == sessions[s] IN
       Update(s, IF Allowed(o, "event")
                 THEN [Answer(x, c, kind, "Ok") EXCEPT !.subscribed = kind = "subscribe"]
                 ELSE Answer(x, c, kind, "PermissionDenied"))
  /\ UNCHANGED nextSession /\ OwnersUnchanged /\ AsyncUnchanged

\* The capture as Submit and Dispatch see it: one that was stored more than 30
\* seconds ago is dropped first.
CaptureNow(x) == {x.capture} \cup (IF x.capture.handle = NoCorrelation THEN {} ELSE {NoCapture})

SubmitCaptureClose(o, s, c, handle) ==
  /\ SubmitNew(o, s, c)
  /\ Allowed(o, "captureClose")
  /\ \E capture \in CaptureNow(sessions[s]) :
       LET x == [sessions[s] EXCEPT !.capture = capture] IN
         Update(s, IF capture.handle = handle
                   THEN [Answer(x, c, "captureClose", "Ok") EXCEPT !.capture = NoCapture]
                   ELSE Answer(x, c, "captureClose", "NotFound"))
  /\ UNCHANGED nextSession /\ OwnersUnchanged /\ AsyncUnchanged

\* Configuration and File requests go to the workers.
SubmitStorage(o, s, c) ==
  /\ SubmitNew(o, s, c)
  /\ Allowed(o, "storage")
  /\ Update(s, Reserve(Admit(sessions[s], c), c, "storage"))
  /\ work' = Append(work, Task(s, c, "storage"))
  /\ UNCHANGED <<nextSession, running, external>> /\ OwnersUnchanged

\* One clipboard request at a time; the window system calls back.
SubmitClipboard(o, s, c) ==
  /\ SubmitNew(o, s, c)
  /\ Allowed(o, "clipboard")
  /\ IF sessions[s].clipboardPending
     THEN /\ Update(s, Answer(sessions[s], c, "clipboard", "Busy"))
          /\ UNCHANGED external
     ELSE /\ Update(s, [Reserve(Admit(sessions[s], c), c, "clipboard")
                          EXCEPT !.clipboardPending = TRUE])
          /\ external' = external \cup {Task(s, c, "clipboard")}
  /\ UNCHANGED <<nextSession, work, running>> /\ OwnersUnchanged

\* One capture at a time, requested or stored; the renderer calls back.
SubmitCapture(o, s, c) ==
  /\ SubmitNew(o, s, c)
  /\ Allowed(o, "captureOpen")
  /\ \E capture \in CaptureNow(sessions[s]) :
       LET x == [sessions[s] EXCEPT !.capture = capture] IN
         IF capture # NoCapture
         THEN /\ Update(s, Answer(x, c, "captureOpen", "Busy"))
              /\ UNCHANGED external
         ELSE /\ Update(s, [Reserve(Admit(x, c), c, "captureOpen")
                              EXCEPT !.capture.pending = TRUE])
              /\ external' = external \cup {Task(s, c, "captureOpen")}
  /\ UNCHANGED <<nextSession, work, running>> /\ OwnersUnchanged

Submit(o, s) ==
  \/ SubmitProtocolError(o, s)
  \/ \E c \in Correlations :
       \/ \E kind \in Kinds : SubmitDenied(o, s, c, kind) \/ SubmitInvalid(o, s, c, kind)
       \/ "core" \in Kinds /\ SubmitCore(o, s, c)
       \/ "inject" \in Kinds /\ SubmitInject(o, s, c)
       \/ "storage" \in Kinds /\ SubmitStorage(o, s, c)
       \/ "clipboard" \in Kinds /\ SubmitClipboard(o, s, c)
       \/ "captureOpen" \in Kinds /\ SubmitCapture(o, s, c)
       \/ \E kind \in Kinds \cap {"subscribe", "unsubscribe"} : SubmitSubscription(o, s, c, kind)
       \/ "captureClose" \in Kinds /\ \E h \in Correlations : SubmitCaptureClose(o, s, c, h)

-----------------------------------------------------------------------------
\* Poll and Cancel

\* The deadline of five seconds passes.
Expire(s, c) ==
  /\ Waits(s, c)
  /\ ~sessions[s].pending[c].expired
  /\ Update(s, [sessions[s] EXCEPT !.pending[c].expired = TRUE])
  /\ UNCHANGED nextSession /\ OwnersUnchanged /\ AsyncUnchanged

Expired(x) == {c \in DOMAIN x.pending : x.pending[c].expired}

Deliver(x) ==
  [x EXCEPT !.responses = Tail(@),
            !.delivered = @ \cup ({Head(x.responses).correlation} \ {NoCorrelation})]

\* Deadlines are left to the worker or callback that answers late.
MutantPollWithoutDeadlines(o, s, fits) ==
  /\ Owns(o, s)
  /\ sessions[s].responses # <<>>
  /\ Update(s, IF fits THEN Deliver(sessions[s]) ELSE sessions[s])
  /\ UNCHANGED nextSession /\ OwnersUnchanged /\ AsyncUnchanged

\* Poll first answers what has expired, then takes the oldest response out, or
\* leaves it when the output is too small for it.
PollWith(o, s, fits) ==
  /\ Owns(o, s)
  /\ \E q \in Orders(Expired(sessions[s])) :
       LET x == Abort(sessions[s], q, "TimedOut") IN
         x.responses # <<>> /\ Update(s, IF fits THEN Deliver(x) ELSE x)
  /\ UNCHANGED nextSession /\ OwnersUnchanged /\ AsyncUnchanged

Poll(o, s) == PollWith(o, s, TRUE)

PollTooSmall(o, s) == PollWith(o, s, FALSE)

\* A request that is still pending is answered Cancelled; one that was answered
\* but not yet delivered has its response emptied in place.
CancelPending(o, s, c) ==
  /\ Owns(o, s)
  /\ c \in DOMAIN sessions[s].pending
  /\ Update(s, Abort(sessions[s], <<c>>, "Cancelled"))
  /\ UNCHANGED nextSession /\ OwnersUnchanged /\ AsyncUnchanged

CancelAnswered(o, s, c) ==
  /\ Owns(o, s)
  /\ c \notin DOMAIN sessions[s].pending
  /\ \E i \in DOMAIN sessions[s].responses :
       /\ sessions[s].responses[i].correlation = c
       /\ \A j \in 1..(i - 1) : sessions[s].responses[j].correlation # c
       /\ Update(s, [sessions[s] EXCEPT !.responses[i].status = "Cancelled"])
  /\ UNCHANGED nextSession /\ OwnersUnchanged /\ AsyncUnchanged

-----------------------------------------------------------------------------
\* The storage workers

TakeTask(w) ==
  /\ running[w].task = NoTask
  /\ work # <<>>
  /\ running' = [running EXCEPT ![w].task = Head(work)]
  /\ work' = Tail(work)
  /\ UNCHANGED <<sessions, nextSession, external>> /\ OwnersUnchanged

Finish(w) == running' = [running EXCEPT ![w] = Idle]

\* A late task is dropped; the guest is left to its next Poll.
MutantStartDropsLate(w) ==
  /\ running[w].task # NoTask
  /\ ~running[w].started
  /\ LET s == running[w].task.session
         c == running[w].task.correlation
     IN  /\ IF Waits(s, c) /\ ~sessions[s].pending[c].expired /\ Allowed(sessions[s].owner, "storage")
            THEN running' = [running EXCEPT ![w].started = TRUE]
            ELSE Finish(w)
         /\ UNCHANGED sessions
  /\ UNCHANGED <<nextSession, work, external>> /\ OwnersUnchanged

\* Phase 1: the request may be gone, late or no longer permitted.
StartStorage(w) ==
  /\ running[w].task # NoTask
  /\ ~running[w].started
  /\ LET s == running[w].task.session
         c == running[w].task.correlation
     IN  IF ~Waits(s, c)
         THEN Finish(w) /\ UNCHANGED sessions
         ELSE IF sessions[s].pending[c].expired
         THEN Finish(w) /\ Update(s, Abort(sessions[s], <<c>>, "TimedOut"))
         ELSE IF ~Allowed(sessions[s].owner, "storage")
         THEN Finish(w) /\ Update(s, Abort(sessions[s], <<c>>, "PermissionDenied"))
         ELSE running' = [running EXCEPT ![w].started = TRUE] /\ UNCHANGED sessions
  /\ UNCHANGED <<nextSession, work, external>> /\ OwnersUnchanged

\* Phase 2, after Cex2Storage::Dispatch ran without the lock.
FinishStorage(w) ==
  /\ running[w].started
  /\ Finish(w)
  /\ LET s == running[w].task.session
         c == running[w].task.correlation
     IN  IF Waits(s, c)
         THEN \E status \in {"Ok", "IoError"} :
                Update(s, Complete(sessions[s], c, status))
         ELSE UNCHANGED sessions
  /\ UNCHANGED <<nextSession, work, external>> /\ OwnersUnchanged

-----------------------------------------------------------------------------
\* The window system and the renderer call back, late, or never.

CallbackArrives(t, status) ==
  /\ external' = external \ {t}
  /\ IF Waits(t.session, t.correlation)
     THEN Update(t.session, Complete(sessions[t.session], t.correlation, status))
     ELSE UNCHANGED sessions
  /\ UNCHANGED <<nextSession, work, running>> /\ OwnersUnchanged

ClipboardReturns(t) ==
  /\ t.kind = "clipboard"
  /\ \E status \in {"Ok", "IoError"} : CallbackArrives(t, status)

\* The renderer refuses the screenshot.
CaptureRefused(t) == t.kind = "captureOpen" /\ CallbackArrives(t, "Busy")

\* The screenshot callback has two critical sections: the image is stored in
\* the session, then the request is completed.
CaptureStored(t) ==
  /\ t.kind = "captureOpen"
  /\ IF Waits(t.session, t.correlation) /\ sessions[t.session].capture.pending
     THEN \/ /\ Update(t.session, [sessions[t.session] EXCEPT
                    !.capture = [handle |-> t.correlation, pending |-> FALSE]])
             /\ external' = (external \ {t}) \cup {[t EXCEPT !.kind = "captureStored"]}
          \/ /\ external' = (external \ {t}) \cup {[t EXCEPT !.kind = "captureFailed"]}
             /\ UNCHANGED sessions
     ELSE external' = external \ {t} /\ UNCHANGED sessions
  /\ UNCHANGED <<nextSession, work, running>> /\ OwnersUnchanged

CaptureReported(t) ==
  \/ t.kind = "captureStored" /\ CallbackArrives(t, "Ok")
  \/ t.kind = "captureFailed" /\ CallbackArrives(t, "ProtocolError")

-----------------------------------------------------------------------------
\* Host events and permissions

\* A host input event reaches every subscribed session.
InputEvent ==
  /\ sessions' = [s \in DOMAIN sessions |-> Emit(sessions[s])]
  /\ UNCHANGED nextSession /\ OwnersUnchanged /\ AsyncUnchanged

\* The first half of a grant change: the owner's service masks, which are read
\* under the host's lock but written outside it.
SetServices(o, P) ==
  /\ o \notin settling
  /\ settling' = settling \cup {o}
  /\ services' = [services EXCEPT ![o] = P]
  /\ UNCHANGED <<sessions, nextSession, granted, life, opening>> /\ AsyncUnchanged

May(kind, P) == PermissionOf(kind) \subseteq P

\* The positions in K, in increasing order.
InOrder(K) ==
  [n \in 1..Cardinality(K) |-> CHOOSE i \in K : Cardinality({j \in K : j <= i}) = n]

\* The queue without the events, and without the results, that P does not permit.
Censored(responses, P) ==
  LET kept == InOrder({i \in DOMAIN responses :
                         responses[i].kind = "event" => May("event", P)})
      censor(r) == IF May(r.kind, P) THEN r ELSE [r EXCEPT !.status = "PermissionDenied"]
  IN  [n \in DOMAIN kept |-> censor(responses[kept[n]])]

\* Pending requests are left to the check in Complete.
MutantRevokeKeepsPending(x, q, P) ==
  [x EXCEPT
     !.subscribed = @ /\ May("event", P),
     !.responses = Censored(@, P),
     !.capture = IF May("captureOpen", P) THEN @ ELSE NoCapture]

\* What revocation makes of one session, where P is now permitted.
Revoke(x, q, P) ==
  Abort([x EXCEPT
           !.subscribed = @ /\ May("event", P),
           !.responses = Censored(@, P),
           !.capture = IF May("captureOpen", P) THEN @ ELSE NoCapture],
        q, "PermissionDenied")

\* The second half, PermissionsChanged.
PermissionsChanged(o, P) ==
  LET now == P \cap services[o]
      Denied(x) == {c \in DOMAIN x.pending : ~May(x.pending[c].kind, now)}
  IN
  /\ o \in settling
  /\ settling' = settling \ {o}
  /\ granted' = [granted EXCEPT ![o] = P]
  /\ \E order \in [SessionsOf(o) -> UNION {Orders(S) : S \in SUBSET Correlations}] :
       /\ \A s \in SessionsOf(o) : order[s] \in Orders(Denied(sessions[s]))
       /\ sessions' = [s \in DOMAIN sessions |->
                         IF s \in SessionsOf(o)
                         THEN Revoke(sessions[s], order[s], now)
                         ELSE sessions[s]]
  /\ UNCHANGED <<nextSession, services, life, opening>> /\ AsyncUnchanged

-----------------------------------------------------------------------------
GuestCall(o) ==
  \/ BeginOpen(o) \/ RefuseOpen(o) \/ Open(o)
  \/ \E s \in DOMAIN sessions :
       \/ Submit(o, s) \/ Poll(o, s) \/ PollTooSmall(o, s) \/ Close(o, s)
       \/ \E c \in Correlations : CancelPending(o, s, c) \/ CancelAnswered(o, s, c)

Worker(w) == TakeTask(w) \/ StartStorage(w) \/ FinishStorage(w)

HostCallback ==
  \E t \in external :
    ClipboardReturns(t) \/ CaptureRefused(t) \/ CaptureStored(t) \/ CaptureReported(t)

GrantChange(o) ==
  \E P \in SUBSET Permissions : SetServices(o, P) \/ PermissionsChanged(o, P)

Next ==
  \/ \E o \in Owners : GuestCall(o) \/ StopOwner(o) \/ CloseOwner(o) \/ GrantChange(o)
  \/ \E w \in Workers : Worker(w)
  \/ \E s \in DOMAIN sessions, c \in Correlations : Expire(s, c)
  \/ HostCallback \/ InputEvent \/ CloseAll

Spec == Init /\ [][Next]_vars

\* The workers run and storage operations return (no action of the guest, of
\* the window system or of the renderer is needed).
WorkersFair == \A w \in Workers : WF_vars(Worker(w))

\* A guest with a session polls it, and time passes.
PollersFair ==
  /\ \A o \in Owners : WF_vars(\E s \in DOMAIN sessions : Poll(o, s))
  /\ \A s \in 1..LastSession, c \in Correlations : WF_vars(Expire(s, c))

-----------------------------------------------------------------------------
\* Properties

Statuses == {"Ok", "PermissionDenied", "InvalidArgument", "Busy", "NotFound",
             "TimedOut", "Cancelled", "IoError", "ProtocolError"}

Responses == [correlation : Correlations \cup {NoCorrelation},
              kind : AllKinds \cup {"event"}, status : Statuses]

PendingTables ==
  UNION {[S -> [kind : AllKinds, expired : BOOLEAN]] : S \in SUBSET Correlations}

SessionRecords ==
  [owner : Owners, responses : Seq(Responses), reserved : Nat, pending : PendingTables,
   admitted : SUBSET Correlations, delivered : SUBSET Correlations,
   subscribed : BOOLEAN, clipboardPending : BOOLEAN,
   capture : [handle : Correlations \cup {NoCorrelation}, pending : BOOLEAN]]

Tasks == [session : Nat, correlation : Correlations,
          kind : {"storage", "clipboard", "captureOpen", "captureStored", "captureFailed"}]

TypeOK ==
  /\ DOMAIN sessions \subseteq 1..LastSession
  /\ \A s \in DOMAIN sessions : sessions[s] \in SessionRecords
  /\ nextSession \in 1..(LastSession + 1)
  /\ granted \in [Owners -> SUBSET Permissions]
  /\ services \in [Owners -> SUBSET Permissions]
  /\ settling \subseteq Owners
  /\ life \in [Owners -> {"live", "stopped"}]
  /\ opening \in [Owners -> 0..MaxOpens]
  /\ work \in Seq(Tasks)
  /\ running \in [Workers -> [task : Tasks \cup {NoTask}, started : BOOLEAN]]
  /\ external \subseteq Tasks

\* The queue never outgrows kMaximumResponseQueue, the bound Query reports to
\* guests: every pending request holds exactly one reservation, so a completion,
\* a timeout, a cancellation and a revocation always find room, and the event
\* of an injected input cannot take the place of the response (Cex2Host.cpp:458,
\* 933, 1141).
QueueBounded ==
  \A s \in DOMAIN sessions :
    LET x == sessions[s] IN
      /\ x.reserved = Cardinality(DOMAIN x.pending)
      /\ Len(x.responses) + x.reserved <= MaxQueue

\* Every admitted request is in exactly one place: pending, answered in the
\* queue, or delivered.  No order of completions, timeouts, cancellations,
\* revocations and polls answers one twice or loses one.
Answered(x) == {x.responses[i].correlation : i \in DOMAIN x.responses} \ {NoCorrelation}

ExactlyOnce ==
  \A s \in DOMAIN sessions :
    LET x == sessions[s] IN
      /\ x.admitted = DOMAIN x.pending \cup Answered(x) \cup x.delivered
      /\ DOMAIN x.pending \cap Answered(x) = {}
      /\ x.delivered \cap (DOMAIN x.pending \cup Answered(x)) = {}
      /\ \A i, j \in DOMAIN x.responses :
           x.responses[i].correlation = x.responses[j].correlation =>
             i = j \/ x.responses[i].kind = "event"

\* Once a grant change is complete, nothing that was queued, requested or
\* subscribed under a permission since revoked is left for the guest: no Ok
\* response, event, pending request, subscription or stored capture.
RevocationComplete ==
  \A s \in DOMAIN sessions :
    LET x == sessions[s] IN
      x.owner \notin settling =>
        /\ \A i \in DOMAIN x.responses :
             x.responses[i].status = "Ok" => Allowed(x.owner, x.responses[i].kind)
        /\ \A c \in DOMAIN x.pending : Allowed(x.owner, x.pending[c].kind)
        /\ x.subscribed => Allowed(x.owner, "event")
        /\ x.capture # NoCapture => Allowed(x.owner, "captureOpen")

\* An owner that runs has at most one session, although several of its threads
\* may be in Open and any of them may be past the test of IsStopped when the
\* owner is closed and stopped.  A stopped owner may be left with sessions, and
\* with more than one (Cex2Host.cpp:894 and 910), but only with as many as the
\* calls that were under way insert beside the one it had.
OneSessionPerOwner ==
  \A o \in Owners :
    /\ life[o] = "live" => Cardinality(SessionsOf(o)) <= 1
    /\ Cardinality(SessionsOf(o)) + opening[o] <= MaxOpens + 1

\* The flag that makes a second clipboard request Busy is set exactly while one
\* is pending; a flag left set would refuse the clipboard for the rest of the
\* session.
ClipboardFlag ==
  \A s \in DOMAIN sessions :
    LET x == sessions[s]
        asked == {c \in DOMAIN x.pending : x.pending[c].kind = "clipboard"}
    IN  /\ Cardinality(asked) <= 1
        /\ x.clipboardPending <=> asked # {}

\* A capture that waits for its image has its request pending, and a stored one
\* is that of an admitted request: what a late screenshot callback of a
\* cancelled or timed out request finds is never its own leftover.
CaptureOwned ==
  \A s \in DOMAIN sessions :
    LET x == sessions[s]
        asked == {c \in DOMAIN x.pending : x.pending[c].kind = "captureOpen"}
    IN  /\ ~(x.capture.pending /\ x.capture.handle # NoCorrelation)
        /\ x.capture.pending => asked # {}
        /\ x.capture.handle # NoCorrelation =>
             x.capture.handle \in asked \cup Answered(x) \cup x.delivered

\* The host keeps the contract of Cex2Contract: no step answers or delivers a
\* request again, takes an answer back, or revives a closed session.
How(s, c) ==
  IF s \notin DOMAIN sessions \/ c \notin sessions[s].admitted THEN "new"
  ELSE IF c \in DOMAIN sessions[s].pending THEN "accepted"
  ELSE IF c \in sessions[s].delivered THEN "delivered"
  ELSE "answered"

Contract == INSTANCE Cex2Contract WITH
  Sessions <- 1..LastSession,
  Requests <- Correlations,
  session <- [s \in 1..LastSession |->
                IF s \in DOMAIN sessions THEN "open"
                ELSE IF s < nextSession THEN "closed" ELSE "unopened"],
  request <- [s \in 1..LastSession |-> [c \in Correlations |-> How(s, c)]]

ContractSpec == Contract!Spec

\* A storage request is answered by the workers alone, unless its session is
\* closed: whatever the deadline, the grant and the guest do.
StorageAnswered ==
  WorkersFair => \A s \in 1..LastSession, c \in Correlations :
    (Waits(s, c) /\ sessions[s].pending[c].kind = "storage") ~> ~Waits(s, c)

\* A guest that polls gets every request answered, although the clipboard or
\* the renderer may never call back, as long as its owner runs.
EveryRequestAnswered ==
  PollersFair => \A s \in 1..LastSession, c \in Correlations :
    Waits(s, c) ~> (~Waits(s, c) \/ life[sessions[s].owner] # "live")
=============================================================================
