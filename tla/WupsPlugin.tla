------------------------------ MODULE WupsPlugin ------------------------------
(***************************************************************************)
(* The lifecycle of one WUPS plugin (WupsPluginRuntime in                  *)
(* WupsRuntime.cpp): it is mapped, its initializers run and are noted in a *)
(* journal, it gets events, its application ends, it is unloaded.  Hooks   *)
(* are guest code that runs without the runtime's mutex and may call the   *)
(* runtime again; an application end or unload that cannot happen now is   *)
(* left to whoever leaves the last hook.                                   *)
(*                                                                         *)
(* A thread is a stack of frames, the innermost first: a frame is a C++    *)
(* call with the place it is at.  Each action is one critical section of   *)
(* Impl::mutex, together with the service calls in front of it that no     *)
(* other thread can tell apart from it.                                    *)
(***************************************************************************)
EXTENDS Naturals, Sequences, SequencesExt, FiniteSets

CONSTANTS
  Threads,   \* host threads that call the runtime
  Inits,     \* the initializer hooks of the plugin that have a finalizer, in order
  Hooks,     \* the other hooks it has: "start", "end", "release", "acquire", "exit"
  Calls,     \* what threads call: "start", "release", "acquire", "exit", "end", "unload"
  Reenters,  \* what hooks call
  LastStart, LastGeneration  \* bounds: starts, and revocations by UnloadChecked

ASSUME ConstantsAssumption ==
  /\ IsFiniteSet(Threads) /\ Inits \in Seq(STRING) /\ IsInjective(Inits)
  /\ Hooks \subseteq {"start", "end", "release", "acquire", "exit"}
  /\ Range(Inits) \cap {"start", "end", "release", "acquire", "exit"} = {}
  /\ Calls \cup Reenters \subseteq
       {"start", "release", "acquire", "exit", "end", "unload"}
  /\ LastStart \in Nat /\ LastGeneration \in Nat

VARIABLES
  plugin,   \* the members of Impl
  mapped,   \* the loader has the module
  stack,    \* per thread: its frames
  title,    \* "running"; "stopped": the emulated cores are gone; "abandoning"; "over"
  starts,   \* how often a start was begun
  history   \* what a reader of the log knows, see below

vars == <<plugin, mapped, stack, title, starts, history>>

Revoked == {"Unloading", "Unloaded", "Failed"}

\* history.owed: noted initializers whose finalizer was not invoked yet;
\* history.ends: APPLICATION_ENDS hooks begun since the last start;
\* history.active: that start succeeded;
\* history.cutShort: an unload began while a start or an application end was
\* under way;
\* history.doubled: an application end began while another one was under way.
Init ==
  /\ plugin = [state |-> "Installed", generation |-> 0, inFlight |-> 0, module |-> FALSE,
               journal |-> <<>>, released |-> FALSE, deactivated |-> TRUE,
               teardown |-> FALSE, deferredUnload |-> FALSE,
               endsPending |-> FALSE, deferredEnd |-> FALSE, transition |-> FALSE,
               foregroundReleased |-> FALSE, foregroundTransition |-> FALSE,
               exitRequested |-> FALSE, exitInProgress |-> FALSE]
  /\ mapped = FALSE
  /\ stack = [t \in Threads |-> <<>>]
  /\ title = "running"
  /\ starts = 0
  /\ history = [owed |-> <<>>, ends |-> 0, active |-> FALSE, cutShort |-> FALSE,
                doubled |-> FALSE]

-----------------------------------------------------------------------------
\* Frames

\* op: the operation; hook, final: the hook and whether it is part of a
\* teardown; gen: the generation seen at the begin; todo: the initializers or
\* finalizers left; keep: a failed start is being unloaded; result: what the
\* last Invoke returned, "invoked" or "true" or "false".
Frame(op, at) == [op |-> op, at |-> at, hook |-> "", final |-> FALSE, gen |-> 0,
                  todo |-> <<>>, keep |-> FALSE, result |-> "false"]

Top(t) == Head(stack[t])

At(t, at) == stack[t] # <<>> /\ Top(t).at = at

Replace(t, frames) == stack' = [stack EXCEPT ![t] = frames \o Tail(@)]

Go(t, at) == Replace(t, <<[Top(t) EXCEPT !.at = at]>>)

Push(t, frame) == stack' = [stack EXCEPT ![t] = <<frame>> \o @]

Pop(t) == stack' = [stack EXCEPT ![t] = Tail(@)]

\* An Invoke is over and its caller sees the result.
Return(t, result) ==
  stack' = [stack EXCEPT ![t] = <<[@[2] EXCEPT !.result = result]>> \o Tail(Tail(@))]

\* s_activeWupsRuntime is this runtime: the thread is in a call of Invoke that
\* counts as in flight.
Inside(t) == \E i \in DOMAIN stack[t] : stack[t][i].at \in {"prepare", "hook", "leave"}

\* A hook runs and holds a lease of the module.
Leased == \E t \in Threads : \E i \in DOMAIN stack[t] : stack[t][i].at = "hook"

\* One of these operations is under way.
UnderWay(ops) == \E t \in Threads : \E i \in DOMAIN stack[t] : stack[t][i].op \in ops

\* A thread or a hook may call.
CanCall(t, call) ==
  /\ title = "running"
  /\ IF stack[t] = <<>> THEN call \in Calls ELSE At(t, "hook") /\ call \in Reenters

UnloadFrame(keep) == [Frame("unload", "unload") EXCEPT !.keep = keep]

-----------------------------------------------------------------------------
\* Invoke

Permitted(final) ==
  /\ plugin.module
  /\ plugin.state \notin (IF final THEN {"Installed", "Mapped", "Unloaded"} ELSE Revoked)

\* The caller goes on as the frame caller when the hook is done; a hook the
\* plugin does not have is done at once.
Invoke(t, caller, hook, final) ==
  IF hook \notin Hooks \cup Range(Inits)
  THEN Replace(t, <<[caller EXCEPT !.result = "true"]>>) /\ UNCHANGED plugin
  ELSE IF ~Permitted(final)
  THEN Replace(t, <<[caller EXCEPT !.result = "false"]>>) /\ UNCHANGED plugin
  ELSE /\ plugin' = [plugin EXCEPT !.inFlight = @ + 1]
       /\ Replace(t, <<[Frame("invoke", "prepare") EXCEPT
                          !.hook = hook, !.final = final, !.gen = plugin.generation],
                       caller>>)

\* The arguments are prepared and, for a hook that is not part of a teardown,
\* the generation is checked again; the loader takes a lease of the module.
\* Invoke returns false for a hook the services skip, as for one they refuse.
Prepare(t) ==
  LET f == Top(t)
      authorized == f.final \/ (plugin.generation = f.gen /\ plugin.state \notin Revoked)
  IN
  /\ At(t, "prepare")
  /\ \/ authorized /\ mapped /\ Go(t, "hook")
     \/ Go(t, "leave")
  /\ history' = [history EXCEPT
                   !.owed = IF f.final THEN RemoveFirst(@, f.hook) ELSE @,
                   !.ends = IF f.hook = "end" THEN @ + 1 ELSE @]
  /\ UNCHANGED <<plugin, mapped, title, starts>>

\* The guest code returns: successfully, or with an exception or a result that counts
\* as an error.
HookReturns(t) ==
  /\ title = "running"
  /\ At(t, "hook")
  /\ \E result \in {"true", "false"} :
       Replace(t, <<[Top(t) EXCEPT !.at = "leave", !.result = result]>>)
  /\ UNCHANGED <<plugin, mapped, title, starts, history>>

Leave(t) ==
  LET f == Top(t)
      kept == f.final \/ (plugin.generation = f.gen /\ plugin.state # "Unloading")
  IN
  /\ At(t, "leave")
  /\ Replace(t, <<[f EXCEPT !.at = "left",
                            !.result = IF @ = "true" /\ kept THEN "invoked" ELSE "false"]>>)
  /\ UNCHANGED <<plugin, mapped, title, starts, history>>

\* A bug the code does not have: the last one out looks at the end only.
MutantLeftForgetsUnload(t) ==
  /\ At(t, "left")
  /\ plugin' = [plugin EXCEPT !.inFlight = @ - 1]
  /\ IF plugin.inFlight = 1 /\ ~plugin.teardown /\ plugin.deferredEnd /\ plugin.endsPending
     THEN Replace(t, <<Frame("end", "end"), [Top(t) EXCEPT !.at = "return"]>>)
     ELSE Return(t, Top(t).result)
  /\ UNCHANGED <<mapped, title, starts, history>>

\* ~InvocationActivity: the last one out does what was postponed before it
\* returns to the caller of Invoke.
Left(t) ==
  LET last == plugin.inFlight = 1 /\ ~plugin.teardown
      f == Top(t)
  IN
  /\ At(t, "left")
  /\ plugin' = [plugin EXCEPT !.inFlight = @ - 1]
  /\ IF last /\ plugin.deferredEnd /\ plugin.endsPending
     THEN Replace(t, <<Frame("end", "end"), [f EXCEPT !.at = "return"]>>)
     ELSE IF last /\ plugin.deferredUnload
     THEN Replace(t, <<UnloadFrame(FALSE), [f EXCEPT !.at = "return"]>>)
     ELSE Return(t, f.result)
  /\ history' = [history EXCEPT
                   !.doubled = @ \/ (/\ last /\ plugin.deferredEnd /\ plugin.endsPending
                                    /\ UnderWay({"end"}))]
  /\ UNCHANGED <<mapped, title, starts>>

InvokeReturns(t) ==
  /\ At(t, "return")
  /\ Return(t, Top(t).result)
  /\ UNCHANGED <<plugin, mapped, title, starts, history>>

-----------------------------------------------------------------------------
\* OnApplicationStarts

\* A start that is not allowed now changes nothing.
Start(t) ==
  /\ CanCall(t, "start")
  /\ plugin.state \in {"Installed", "Deinitialized"}
  /\ ~plugin.transition
  /\ starts < LastStart
  /\ starts' = starts + 1
  /\ plugin' = [plugin EXCEPT !.transition = TRUE, !.released = FALSE,
                              !.foregroundReleased = FALSE, !.exitRequested = FALSE]
  /\ Push(t, [Frame("start", IF plugin.state = "Installed" THEN "map" ELSE "activate")
                EXCEPT !.gen = plugin.generation])
  /\ history' = [history EXCEPT !.ends = 0, !.active = FALSE]
  /\ UNCHANGED <<mapped, title>>

\* The runtime was told to unload since this start began.
StartRevoked(t) == plugin.generation # Top(t).gen \/ plugin.state = "Unloading"

\* The start fails; its frame goes on as FinishUnload(true).
FailStart(t) ==
  /\ plugin' = [plugin EXCEPT !.state = "Failed", !.generation = @ + 1, !.transition = FALSE,
                              !.foregroundTransition = FALSE, !.exitInProgress = FALSE]
  /\ Replace(t, <<UnloadFrame(TRUE)>>)
  /\ UNCHANGED <<mapped, history>>

\* The start goes on in the new state unless it was revoked: then its frame
\* goes on as FinishUnload(false).
Advance(t, state, at) ==
  IF StartRevoked(t)
  THEN UNCHANGED plugin /\ Replace(t, <<UnloadFrame(FALSE)>>)
  ELSE plugin' = [plugin EXCEPT !.state = state] /\ Go(t, at)

Map(t) ==
  /\ At(t, "map")
  /\ \/ FailStart(t)
     \/ /\ mapped' = TRUE
        /\ IF StartRevoked(t)
           THEN /\ plugin' = [plugin EXCEPT !.module = TRUE]
                /\ Replace(t, <<UnloadFrame(FALSE)>>)
           ELSE /\ plugin' = [plugin EXCEPT !.module = TRUE, !.state = "Mapped"]
                /\ Go(t, "relocate")
        /\ UNCHANGED history
  /\ UNCHANGED <<title, starts>>

Relocate(t) ==
  /\ At(t, "relocate")
  /\ \/ FailStart(t)
     \/ Advance(t, "Relocated", "activate") /\ UNCHANGED <<mapped, history>>
  /\ UNCHANGED <<title, starts>>

\* The patches are resolved and activated.
Activate(t) ==
  /\ At(t, "activate")
  /\ \/ FailStart(t)
     \/ /\ plugin' = [plugin EXCEPT !.deactivated = FALSE]
        /\ Replace(t, <<[Top(t) EXCEPT !.at = "init", !.todo = Inits]>>)
        /\ UNCHANGED <<mapped, history>>
  /\ UNCHANGED <<title, starts>>

InvokeInit(t) ==
  /\ At(t, "init") /\ Top(t).todo # <<>>
  /\ Invoke(t, [Top(t) EXCEPT !.at = "inited"], Head(Top(t).todo), FALSE)
  /\ UNCHANGED <<mapped, title, starts, history>>

\* What was invoked is noted, in a critical section of its own.
Inited(t) ==
  LET f == Top(t) IN
  /\ At(t, "inited")
  /\ IF f.result = "false"
     THEN FailStart(t)
     ELSE /\ Replace(t, <<[f EXCEPT !.at = "init", !.todo = Tail(@)]>>)
          /\ plugin' = [plugin EXCEPT !.journal = Append(@, Head(f.todo))]
          /\ history' = [history EXCEPT !.owed = Append(@, Head(f.todo))]
          /\ UNCHANGED mapped
  /\ UNCHANGED <<title, starts>>

Initialized(t) ==
  /\ At(t, "init") /\ Top(t).todo = <<>>
  /\ Advance(t, "Initialized", "starting")
  /\ UNCHANGED <<mapped, title, starts, history>>

InvokeStart(t) ==
  /\ At(t, "starting")
  /\ Invoke(t, [Top(t) EXCEPT !.at = "started"], "start", FALSE)
  /\ UNCHANGED <<mapped, title, starts, history>>

Started(t) ==
  /\ At(t, "started")
  /\ IF Top(t).result = "false"
     THEN FailStart(t)
     ELSE IF StartRevoked(t)
     THEN Replace(t, <<UnloadFrame(FALSE)>>) /\ UNCHANGED <<plugin, mapped, history>>
     ELSE /\ plugin' = [plugin EXCEPT !.state = "Active", !.transition = FALSE]
          /\ Pop(t)
          /\ history' = [history EXCEPT !.active = TRUE]
          /\ UNCHANGED mapped
  /\ UNCHANGED <<title, starts>>

-----------------------------------------------------------------------------
\* OnReleaseForeground, OnAcquiredForeground, OnApplicationRequestsExit

Busy(event) == IF event = "exit" THEN "exitInProgress" ELSE "foregroundTransition"

Done(event) == IF event = "exit" THEN "exitRequested" ELSE "foregroundReleased"

Event(t, event) ==
  /\ CanCall(t, event)
  /\ plugin.state = "Active"
  /\ ~plugin[Busy(event)]
  /\ plugin[Done(event)] = (event = "acquire")
  /\ plugin' = [plugin EXCEPT ![Busy(event)] = TRUE]
  /\ Push(t, [Frame("event", "event") EXCEPT !.hook = event])
  /\ UNCHANGED <<mapped, title, starts, history>>

InvokeEvent(t) ==
  /\ At(t, "event")
  /\ Invoke(t, [Top(t) EXCEPT !.at = "evented"], Top(t).hook, FALSE)
  /\ UNCHANGED <<mapped, title, starts, history>>

Evented(t) ==
  LET f == Top(t) IN
  /\ At(t, "evented")
  /\ plugin' = [plugin EXCEPT
                  ![Busy(f.hook)] = FALSE,
                  ![Done(f.hook)] = IF f.result = "false" THEN @ ELSE f.hook # "acquire"]
  /\ Pop(t)
  /\ UNCHANGED <<mapped, title, starts, history>>

-----------------------------------------------------------------------------
\* OnApplicationEnds, UnloadChecked

\* From inside a hook the end is left to the last one out.
ApplicationEnds(t) ==
  /\ CanCall(t, "end")
  /\ plugin.state \in {"Active", "Initialized"}
  /\ ~plugin.transition
  /\ plugin' = [plugin EXCEPT !.transition = TRUE, !.state = "Deinitialized",
                              !.endsPending = TRUE, !.deferredEnd = @ \/ Inside(t)]
  /\ IF Inside(t) THEN UNCHANGED stack ELSE Push(t, Frame("end", "end"))
  /\ UNCHANGED <<mapped, title, starts, history>>

\* Bugs the code does not have: an application that ended ends again; an unload from
\* inside a hook waits for that hook.
MutantUnloadEndsAgain(t) ==
  LET p == [plugin EXCEPT !.state = "Unloading", !.generation = @ + 1, !.endsPending = TRUE]
  IN
  /\ CanCall(t, "unload")
  /\ plugin.state # "Unloaded" /\ ~plugin.teardown
  /\ p.generation <= LastGeneration
  /\ IF Inside(t) \/ plugin.transition
     THEN plugin' = [p EXCEPT !.deferredUnload = TRUE] /\ UNCHANGED stack
     ELSE plugin' = p /\ Push(t, UnloadFrame(FALSE))
  /\ UNCHANGED <<mapped, title, starts, history>>

MutantUnloadWaitsForItself(t) ==
  LET p == [plugin EXCEPT !.state = "Unloading", !.generation = @ + 1,
                          !.endsPending = @ \/ plugin.state \in {"Active", "Initialized"}]
  IN
  /\ CanCall(t, "unload")
  /\ plugin.state # "Unloaded" /\ ~plugin.teardown
  /\ p.generation <= LastGeneration
  /\ IF plugin.transition
     THEN plugin' = [p EXCEPT !.deferredUnload = TRUE] /\ UNCHANGED stack
     ELSE plugin' = p /\ Push(t, UnloadFrame(FALSE))
  /\ UNCHANGED <<mapped, title, starts, history>>

\* The generation is revoked at once; the rest waits for a start or an application
\* end under way, and for the hook that asks.
UnloadChecked(t) ==
  LET revoked == [plugin EXCEPT
                    !.state = "Unloading", !.generation = @ + 1,
                    !.endsPending = @ \/ plugin.state \in {"Active", "Initialized"}]
      p == IF plugin.state = "Unloading" THEN plugin ELSE revoked
  IN
  /\ CanCall(t, "unload")
  /\ plugin.state # "Unloaded"
  /\ ~plugin.teardown
  /\ p.generation <= LastGeneration
  /\ IF Inside(t) \/ plugin.transition
     THEN plugin' = [p EXCEPT !.deferredUnload = TRUE] /\ UNCHANGED stack
     ELSE plugin' = p /\ Push(t, UnloadFrame(FALSE))
  /\ UNCHANGED <<mapped, title, starts, history>>

-----------------------------------------------------------------------------
\* FinishApplicationEnd, FinishUnload

\* No hook is in flight: whoever ends or unloads takes what is pending.
Drain(t, p) ==
  /\ plugin' = [p EXCEPT !.endsPending = FALSE, !.deferredEnd = FALSE]
  /\ Go(t, IF Top(t).op = "end" \/ p.endsPending THEN "ends" ELSE "swap")

\* A bug the code does not have: nobody waits for the hooks in flight.
MutantNoWait(t, p) == Drain(t, p)

DrainOrWait(t, p) ==
  IF p.inFlight = 0 THEN Drain(t, p) ELSE plugin' = p /\ Go(t, "drain")

EnterEnd(t) ==
  /\ At(t, "end")
  /\ IF ~plugin.endsPending
     THEN UNCHANGED plugin /\ Pop(t)
     ELSE IF Inside(t)
     THEN plugin' = [plugin EXCEPT !.deferredEnd = TRUE] /\ Pop(t)
     ELSE DrainOrWait(t, plugin)
  /\ UNCHANGED <<mapped, title, starts, history>>

EnterUnload(t) ==
  /\ At(t, "unload")
  /\ IF plugin.state = "Unloaded" \/ plugin.teardown
     THEN Pop(t) /\ UNCHANGED <<plugin, history>>
     ELSE /\ DrainOrWait(t, [plugin EXCEPT
                               !.teardown = TRUE,
                               !.state = IF Top(t).keep THEN "Failed" ELSE "Unloading"])
          /\ history' = [history EXCEPT
                           !.cutShort = @ \/ UnderWay({"start", "end"})]
  /\ UNCHANGED <<mapped, title, starts>>

\* The wait is over; what holds now is not looked at again.
Drained(t) ==
  /\ At(t, "drain")
  /\ plugin.inFlight = 0
  /\ Drain(t, plugin)
  /\ UNCHANGED <<mapped, title, starts, history>>

InvokeEnds(t) ==
  /\ At(t, "ends")
  /\ Invoke(t, [Top(t) EXCEPT !.at = "swap"], "end", TRUE)
  /\ UNCHANGED <<mapped, title, starts, history>>

\* A bug the code does not have: the finalizers run in the initializers' order.
MutantTakeJournalForward(t) ==
  /\ At(t, "swap")
  /\ plugin' = [plugin EXCEPT !.journal = <<>>]
  /\ Replace(t, <<[Top(t) EXCEPT !.at = "fini", !.todo = plugin.journal]>>)
  /\ UNCHANGED <<mapped, title, starts, history>>

\* TeardownInitializers takes the journal ...
TakeJournal(t) ==
  /\ At(t, "swap")
  /\ plugin' = [plugin EXCEPT !.journal = <<>>]
  /\ Replace(t, <<[Top(t) EXCEPT !.at = "fini", !.todo = Reverse(plugin.journal)]>>)
  /\ UNCHANGED <<mapped, title, starts, history>>

\* A bug the code does not have: the first finalizer that fails is the last.
MutantFiniStopsOnFailure(t) ==
  LET f == Top(t) IN
  /\ At(t, "fini")
  /\ IF f.todo = <<>> \/ (f.result = "false" /\ Len(f.todo) < Len(Inits))
     THEN Go(t, "backend") /\ UNCHANGED plugin
     ELSE Invoke(t, [f EXCEPT !.todo = Tail(@)], Head(f.todo), TRUE)
  /\ UNCHANGED <<mapped, title, starts, history>>

\* ... and invokes the finalizers, the last initializer's first, whatever they return.
InvokeFini(t) ==
  LET f == Top(t) IN
  /\ At(t, "fini")
  /\ IF f.todo = <<>>
     THEN Go(t, "backend") /\ UNCHANGED plugin
     ELSE Invoke(t, [f EXCEPT !.todo = Tail(@)], Head(f.todo), TRUE)
  /\ UNCHANGED <<mapped, title, starts, history>>

\* A failure ends the unload; another attempt may follow.
UnloadFails(t) ==
  /\ plugin' = [plugin EXCEPT !.teardown = FALSE, !.deferredUnload = FALSE,
                              !.transition = FALSE, !.state = "Failed"]
  /\ Pop(t)

\* DeactivateBackend: a test, the call of the service, an assignment.
Deactivate(t) ==
  /\ At(t, "backend")
  /\ Go(t, IF ~plugin.deactivated THEN "deactivating"
           ELSE IF Top(t).op = "end" THEN "ended" ELSE "release")
  /\ UNCHANGED <<plugin, mapped, title, starts, history>>

Deactivated(t) ==
  LET f == Top(t) IN
  /\ At(t, "deactivating")
  /\ \/ /\ plugin' = [plugin EXCEPT !.deactivated = TRUE]
        /\ Go(t, IF f.op = "end" THEN "ended" ELSE "release")
     \/ IF f.op = "end"
        THEN Replace(t, <<[f EXCEPT !.at = "ended", !.keep = TRUE]>>) /\ UNCHANGED plugin
        ELSE UnloadFails(t)
  /\ UNCHANGED <<mapped, title, starts, history>>

\* The application has ended; a postponed unload follows.
Ended(t) ==
  LET state == IF Top(t).keep THEN "Failed"
               ELSE IF plugin.state \in {"Unloading", "Unloaded"} THEN plugin.state
               ELSE "Deinitialized"
  IN
  /\ At(t, "ended")
  /\ plugin' = [plugin EXCEPT !.state = state, !.transition = FALSE,
                              !.foregroundReleased = FALSE]
  /\ IF plugin.deferredUnload /\ plugin.inFlight = 0 /\ ~plugin.teardown
     THEN Replace(t, <<UnloadFrame(FALSE)>>)
     ELSE Pop(t)
  /\ UNCHANGED <<mapped, title, starts, history>>

\* ReleaseBackendResources, likewise.
Release(t) ==
  /\ At(t, "release")
  /\ Go(t, IF plugin.released THEN "unmap" ELSE "releasing")
  /\ UNCHANGED <<plugin, mapped, title, starts, history>>

Released(t) ==
  /\ At(t, "releasing")
  /\ \/ plugin' = [plugin EXCEPT !.released = TRUE] /\ Go(t, "unmap")
     \/ UnloadFails(t)
  /\ UNCHANGED <<mapped, title, starts, history>>

\* The loader refuses to unload a module that is leased, and may fail otherwise.
Unmap(t) ==
  /\ At(t, "unmap")
  /\ \/ /\ plugin.module => mapped /\ ~Leased
        /\ mapped' = (mapped /\ ~plugin.module)
        /\ Replace(t, <<[Top(t) EXCEPT !.at = "unloaded", !.result = "true"]>>)
     \/ /\ plugin.module
        /\ Replace(t, <<[Top(t) EXCEPT !.at = "unloaded", !.result = "false"]>>)
        /\ UNCHANGED mapped
  /\ UNCHANGED <<plugin, title, starts, history>>

Unloaded(t) ==
  LET f == Top(t)
      unloaded == f.result = "true"
  IN
  /\ At(t, "unloaded")
  /\ plugin' = [plugin EXCEPT
                  !.module = @ /\ ~unloaded, !.teardown = FALSE, !.deferredUnload = FALSE,
                  !.transition = FALSE, !.foregroundTransition = FALSE,
                  !.exitInProgress = FALSE,
                  !.state = IF unloaded /\ ~f.keep THEN "Unloaded" ELSE "Failed"]
  /\ Pop(t)
  /\ UNCHANGED <<mapped, title, starts, history>>

-----------------------------------------------------------------------------
\* The end of the title

\* OSSchedulerEnd joins the cores, which can only leave threads in guest code
\* behind: these are lost with their frames.
StopTitle ==
  /\ title = "running"
  /\ \A t \in Threads : stack[t] = <<>> \/ At(t, "hook")
  /\ title' = "stopped"
  /\ UNCHANGED <<plugin, mapped, stack, starts, history>>

Abandon ==
  /\ title = "stopped"
  /\ IF plugin.state = "Unloaded"
     THEN title' = "over" /\ UNCHANGED plugin
     ELSE /\ title' = "abandoning"
          /\ plugin' = [plugin EXCEPT !.state = "Unloading", !.generation = @ + 1]
  /\ UNCHANGED <<mapped, stack, starts, history>>

\* The backend is deactivated and released if it will; the loader discards the
\* module later.
Abandoned ==
  /\ title = "abandoning"
  /\ plugin.inFlight = 0
  /\ title' = "over"
  /\ \E deactivates, releases \in BOOLEAN :
       plugin' = [plugin EXCEPT
                    !.deactivated = @ \/ deactivates, !.released = @ \/ releases,
                    !.module = FALSE, !.endsPending = FALSE, !.deferredEnd = FALSE,
                    !.deferredUnload = FALSE, !.teardown = FALSE, !.transition = FALSE,
                    !.foregroundTransition = FALSE, !.exitInProgress = FALSE,
                    !.state = "Unloaded"]
  /\ UNCHANGED <<mapped, stack, starts, history>>

-----------------------------------------------------------------------------
\* What a thread does once it called.
Step(t) ==
  \/ Prepare(t) \/ Leave(t) \/ Left(t) \/ InvokeReturns(t)
  \/ Map(t) \/ Relocate(t) \/ Activate(t)
  \/ InvokeInit(t) \/ Inited(t) \/ Initialized(t) \/ InvokeStart(t) \/ Started(t)
  \/ InvokeEvent(t) \/ Evented(t)
  \/ EnterEnd(t) \/ EnterUnload(t) \/ Drained(t)
  \/ InvokeEnds(t) \/ TakeJournal(t) \/ InvokeFini(t)
  \/ Deactivate(t) \/ Deactivated(t) \/ Ended(t)
  \/ Release(t) \/ Released(t) \/ Unmap(t) \/ Unloaded(t)

Next ==
  \/ \E t \in Threads :
       \/ Start(t) \/ ApplicationEnds(t) \/ UnloadChecked(t)
       \/ \E event \in {"release", "acquire", "exit"} : Event(t, event)
       \/ Step(t)
       \/ HookReturns(t)
  \/ StopTitle \/ Abandon \/ Abandoned

Spec == Init /\ [][Next]_vars

\* Threads run, a hook does not call for ever, and the user interface's thread
\* goes on when it can.  Nobody has to call, and the title need not stop.
Fairness ==
  /\ \A t \in Threads : WF_vars(Step(t)) /\ SF_vars(HookReturns(t))
  /\ WF_vars(Abandon) /\ WF_vars(Abandoned)

FairSpec == Spec /\ Fairness

-----------------------------------------------------------------------------
\* Properties

TypeOK ==
  /\ plugin.state \in {"Installed", "Mapped", "Relocated", "Initialized", "Active",
                       "Deinitialized"} \cup Revoked
  /\ plugin.generation \in 0..LastStart + LastGeneration + 1
  /\ plugin.inFlight \in Nat
  /\ Range(plugin.journal) \subseteq Range(Inits)
  /\ plugin.deferredEnd => plugin.endsPending
  /\ title \in {"running", "stopped", "abandoning", "over"}

\* While an unload tears the plugin down, nobody is in one of its hooks but the
\* thread that unloads, unless the unload began inside a start or an application
\* end (FinishUnload revokes and drains before it goes on).
TeardownAlone ==
  ~history.cutShort =>
    \A t, u \in Threads :
      (/\ \E i \in DOMAIN stack[t] : /\ stack[t][i].op = "unload"
                                     /\ stack[t][i].at \notin {"unload", "drain"}
       /\ t # u)
      => \A i \in DOMAIN stack[u] : stack[u][i].at # "hook"

\* The application has ended, or the module was unloaded.
AtRest ==
  \/ plugin.state = "Deinitialized" /\ ~plugin.transition
  \/ ~mapped

\* Nobody went on with what another one was doing: neither an unload that began inside
\* a start or an application end, nor an application end that two threads took, as
\* FinishApplicationEnd does not look at applicationEndsPending again after its wait.
Orderly == ~history.cutShort /\ ~history.doubled

\* When an application end or an unload is over, every initializer that was noted
\* had its finalizer invoked, if both went orderly (TeardownInitializers works through
\* the journal once).
FinalizersRun == AtRest /\ Orderly => history.owed = <<>>

\* Between two starts APPLICATION_ENDS is invoked at most once, however ends and
\* unloads are called or postponed, and it is invoked when the start succeeded, with the
\* same exception (applicationEndsPending has one taker).
EndsOnce ==
  Orderly =>
    /\ history.ends <= 1
    /\ AtRest /\ history.active /\ "end" \in Hooks => history.ends = 1

\* Finalizers are invoked in the reverse order of the initializers and once for each,
\* with the same exception.
FinalizersInOrder ==
  [][history'.owed # history.owed /\ Orderly =>
       \/ Len(history'.owed) = Len(history.owed) + 1
       \/ history.owed # <<>> /\ history'.owed = Front(history.owed)]_vars

\* An application end or an unload that was postponed is done by someone (the
\* last one out of a hook, the start or the end under way), unless the title stops
\* or an unload cut a start or an end short.
PostponedIsDone ==
  (plugin.deferredEnd \/ plugin.deferredUnload) ~>
    (\/ ~(plugin.deferredEnd \/ plugin.deferredUnload)
     \/ title # "running" \/ history.cutShort)

\* Every call returns, with the same exceptions: nobody waits for a hook that waits
\* for him, and new hooks do not keep an end or an unload waiting.
CallsReturn ==
  \A t \in Threads :
    stack[t] # <<>> ~> (stack[t] = <<>> \/ title # "running" \/ history.cutShort)

\* What the log of ShutdownTitle says: modules whose shutdown callbacks could not
\* run are discarded after the scheduler has stopped.  AbandonForTitleShutdown waits
\* for hooks that are gone.
Discarded == title = "stopped" ~> title = "over"
=============================================================================
