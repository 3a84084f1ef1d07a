# Verification of the CemuExtend mod system

CemuExtend adds a mod system to a Wii U emulator: native and sandboxed mods
(`.cemod` packages), Aroma plugins (WUPS) and the modules they import from
(WUMS), a host interface for them (CEX2), and the machinery that loads, patches,
stops and removes them while emulated cores, host threads, the window system and
the renderer run. This directory holds TLA+
modules of the concurrent core of that system, TLC configurations that check
them on small instances, and TLAPS proofs for every instance. Paths below are
relative to the repository; `E/` stands for `src/Cafe/HW/Espresso/`, `L/` for
`src/Cafe/OS/libs/cemuextend/` and `T/` for
`src/Cafe/OS/libs/coreinit/coreinit_Thread.cpp`.

`PROJECT.json` lists the components, the runs, for each definition the source
lines it stands for, for each property a mutant of the code that breaks it, the
findings, the hazards and the theorems.

Contents: 1 the system, 2 the modules, 3 the runs, 4 fairness, 5 proofs,
6 findings, 7 what is not modelled, 8 plan.

## 1. The system

### 1.1 Inventory

| Component | Source | State | Operations | Hard behaviour | What makes it correct |
| --- | --- | --- | --- | --- | --- |
| Guest execution quiescence | `E/GuestExecutionQuiescence.*` | one atomic word (quiescing bit, active count), two mutexes, a condition variable | `Enter`, `Leave`, `RunQuiesced` | lock-free entry against a stop, a stop asked for by a core that is inside itself, missed notifications | a quiesced callback is alone; no lease is lost; a stop that is asked for happens |
| Host tasks on cores | `T/` 60-135, 1611-1750 | queue of tasks, per task state, `sSchedulerActive` | `OSRunOnEmulatedCpuThread`, `__OSProcessHostCpuTask`, `OSSchedulerBegin`, `OSSchedulerEnd` | timeout against acceptance, callbacks that yield, end of the scheduler, exceptions | a callback never outlives its caller; the answer is true; a call returns |
| CEX2 host | `L/Cex2Host.cpp` | sessions: response queue, reservations, pending table, admitted ids, capture, subscriptions; a queue of storage tasks | `Open`, `Submit`, `Poll`, `Cancel`, `Close`, `CloseOwner`, `CloseAll`, `PermissionsChanged`, `InputEvent`; workers; clipboard and screenshot callbacks | requests answered by a worker, a callback, a deadline, a cancellation or a revocation, whichever is first; the session is gone meanwhile; the bound of the queue | each request is answered once; the queue stays in its bound; revocation leaves nothing; an owner that runs has one session |
| Ids of requests | `L/Cex2Host.cpp` 386-426 | ordered map of ranges | `AdmitCorrelation` | joining ranges at both sides, the largest id, the limit on ranges | stands for exactly the ids used |
| Mod execution context | `E/ModExecutionContext.*` | stopped flag, masks, quotas, first fault | `Stop`, `SetServicePermissions`, charging | written by one thread, read by others | first fault wins; a stopped mod does nothing more |
| Sandboxed mods | `E/CemodRuntime.*` | instances with a sandbox and a context | load, tick, event, fault, unload, permissions | the runtime's mutex against the host's; calls onto cores | no call into an instance that is gone |
| Trusted native mods | `E/TrustedCemodRuntime.*` | instances, claimed sites, codecaves, one shared owner | `Load`, `PrepareUnload`, `FinishUnload`, `Unload`, `UnloadAll`, `AbandonAllForTitleShutdown`, `Owner` | shutdown handlers run without the lock; two threads unload; the title ends in the middle | exact patches; handler phases in order; cave and owner held as long as needed |
| CEX2 entry points | `L/cemuextend.cpp` | none of its own | the guest's CEX2 calls, `RPLUnmapped` | the raw pointer of `Owner()` | no call with an owner that is gone |
| Title shutdown | `src/Cafe/CafeSystem.cpp` 1105-1153 | none of its own | `PrepareTitleShutdown`, then the end of the scheduler | the orderly way fails and the abandonment follows | the next title starts clean |
| WUPS plugin runtime | `E/WupsRuntime.cpp` 78-1115 | lifecycle state, generation, callbacks in flight, journal of initializers, several pending flags | start, foreground and exit events, application end, unload, abandonment | hooks run without the lock and call back; end and unload are postponed to whoever leaves last | the journal is undone once, in reverse, before the module is unmapped |
| WUPS payload runtime | `E/WupsRuntime.cpp` 1118-1525 | the plugins by owner | dispatch in order, unload in reverse, reload with rollback | one plugin of several fails | the others are left in order |
| WUMS runtime | `E/WumsRuntime.*` | the module graph in load order, state of each module, `applicationStarted`, `exitRequested`, an operation flag | `Load`, `Reload`, `AddOrReplace`, `Unload`, application start, exit request and end | hooks and links fail half way and are undone in reverse; a reload is several operations | starts are paired with ends; nothing is left behind; a reload whose load or start fails restores what was there |
| Module exports | `E/ModuleExportRegistry.*` | export records by provider, leases by importer | publish, resolve, pin, release, unpublish | a provider leaves while a plugin or a module pins it | no import points to a module that is gone |
| Function patcher | `E/WupsFunctionPatcher*.cpp` | ledger of patches, requests that wait for their module, claims of targets, revisions of modules; handles of the dynamic API | activate and deactivate a plugin, again and again, `AddPatch`, `RemovePatch`, `ReleaseOwner`, module loaded and unloaded | preflights without the mutex, committed after anything happened; writes and restores that fail | one patch per target; the title's code is what the ledger says; no request and no trampoline is lost |
| Guest memory ownership | `E/WupsGuestMemoryOwnership.cpp`, `E/WupsOwnerScopedHeap.cpp`, `E/WupsPluginHeap.cpp` | allocations by owner | allocate, free, reclaim | an owner ends while another holds its memory | everything is reclaimed once |
| WUPS services | `E/WupsServices.cpp` and others | tokens, callbacks, configuration | the WUPS API | callbacks after the plugin | mostly formats |
| Storage and HTTP | `L/Cex2Storage.cpp`, `L/Cex2Http.cpp` | files, quotas, handles | one exchange per request | two workers on one namespace | quotas hold |
| Packages | `E/CemodPackage.cpp`, `E/WupsBinary.cpp`, `E/WumsBinary.cpp` | none | parse, validate | bytes | tested and fuzzed |
| Everything else | `src/Cafe/HW/Latte`, `src/Cafe/IOSU`, `src/gui`, ... | - | - | inherited from the emulator | - |

### 1.2 How the parts interact

* An emulated core is a host thread. It holds a lease of the quiescence object
  for each time slice (`T/` 1301-1500), gives it up between slices, and there
  works off one host task (`__OSProcessHostCpuTask`).
* A host thread that wants guest code run (the user interface that unloads a
  mod, the shutdown of a title) enqueues a task and waits. A task may ask for
  quiescence: `RunQuiesced` keeps all cores out while the callback runs, and a
  guest call that asks for it gives up its own lease first.
* A guest calls CEX2 from a core. `CurrentOwner` finds the owner: the context of
  a sandboxed mod, or the raw pointer to the shared owner of the trusted mods,
  which `Owner()` lets out of its critical section. The CEX2 host has one mutex
  for its sessions and one for the queue of its two workers; clipboard and
  screenshot callbacks come from the window system and the renderer.
* A change of grants writes the owner's service masks under the runtime's mutex
  and then calls `PermissionsChanged` of the CEX2 host, which takes its own.
* The start of a WUPS plugin resolves its imports from the export registry, with
  a lease for each, and applies its replacements through the function patcher;
  its code may add and remove more through the facade. The RPL loader tells the
  patcher about modules that load and unload, one event at a time.
* The WUMS runtime publishes what its modules export, and links its modules and
  the plugins to one another by leases.
* Unloading a trusted mod takes a quiesced host task, a run of the mod's handler
  on a core, and the CEX2 host, in that order; the runtime's mutex is held for
  the critical sections only. At the end of a title whatever is left is
  abandoned after the cores have stopped.

## 2. The modules

| Module | Stands for | Extends or uses |
| --- | --- | --- |
| `GuestExclusion` | abstract: shared leases, exclusive stops | |
| `GuestQuiescence` | `GuestExecutionQuiescence.cpp`, one step per atomic, mutex or condition variable operation | implements `GuestExclusion` |
| `MCGuestQuiescence` | the run with the history variable `missed` | `GuestQuiescence` |
| `HostCpuTask` | the host tasks of `coreinit_Thread.cpp` | |
| `Cex2Contract` | abstract: a request is accepted, answered and delivered once, a session opened and closed once | |
| `Cex2Host` | `Cex2Host.cpp`, one action per critical section | implements `Cex2Contract` |
| `MCCex2Host` | symmetry of ids and workers | `Cex2Host` |
| `CorrelationRanges` | `AdmitCorrelation` as the map of ranges it keeps | |
| `TrustedRuntime` | `TrustedCemodRuntime.cpp` and the CEX2 entry points | |
| `MCTrustedRuntime` | three mods on two sites | `TrustedRuntime` |
| `WupsPlugin` | the lifecycle of one plugin in `WupsRuntime.cpp`, one action per critical section | |
| `MCWupsPlugin` | a plugin with two initializers | `WupsPlugin` |
| `FunctionPatcher` | `WupsFunctionPatcher.cpp` and `WupsFunctionPatcherFacade.cpp` | |
| `MCFunctionPatcher` | two plugins and five requests for two functions | `FunctionPatcher` |
| `WumsRuntime` | `WumsRuntime.cpp` with the registry of `ModuleExportRegistry.cpp` | |
| `MCWumsRuntime` | a module, one linked to it and initialized before it, and one that cannot take the first one's place | `WumsRuntime` |
| `*_proofs` | theorems about the module of that name | the module, `TLAPS` |

Operators named `Mutant...` are bugs the code does not have, kept beside the
definition they change; no specification uses them.

**GuestQuiescence.** `state` is the word `m_state`, `seen` the local copy in
`Enter`, `pc` the place in the code. The compare-exchange is `EnterCas` (the word
is still `seen`) or `EnterRetry`; the wait with a predicate is a loop of `EnterLock`,
`EnterTest`, `EnterBlock` and `EnterReload`. `Leave` decrements, and only in a
later step, without the mutex, does `LeaveNotify` notify. `RunQuiesced` is
`LockOperation`, `SetQuiescing`, the drain loop, the callback, and `Resume`,
which stores the end of the stop and the caller's own lease at once. Waiters may
wake without a notification. A thread calls `RunQuiesced` from the host side
(no lease) or from a guest call (lease given up and restored), the two uses in
`T/`.

**HostCpuTask.** A task is `[caller, state, callback]` in a sequence that never
shrinks, so that what became of each is visible. `Call` is the enqueueing, `Timeout` the
wait for acceptance whose predicate is still false, `Return` the end of the wait
for completion. `Take`, `Complete`, `Yield` and `Resume` are the core;
`End`, `Joined` and `Begin` the scheduler. `lost` holds the tasks whose callback
was switched out when the scheduler ended and deleted its fibers.

**Cex2Host.** A session is a record with the members of the C++ struct the
properties need. `Open` reads `IsStopped` before it takes the mutex and not again
(`L/Cex2Host.cpp:894` and 906), so it is two steps, `BeginOpen` and then `Open` or
`RefuseOpen`; `opening` counts the calls of an owner in between, at most `MaxOpens`.
`StopOwner` and `CloseOwner` are steps of their own too, in any order, as the
several ends of an owner call them. `Submit` is split by what becomes of the request (`SubmitDenied`,
`SubmitInvalid`, `SubmitStorage`, ...); all begin with the same guards, in the
order of the code. `Reserve`, `Settle`, `Abort` and `Complete` are what the code
does to a session when a request becomes pending or is answered. A worker
is `TakeTask`, `StartStorage` (first critical section), the dispatch without a
lock, and `FinishStorage` (second one). The screenshot callback has two critical
sections (`CaptureStored`, `CaptureReported`). A grant change has two halves
(`SetServices`, `PermissionsChanged`) with anything in between. Payloads are
abstracted to the kind of a request; a kind stands for the operations that take
the same path and need the same permission.

**CorrelationRanges.** `ranges` is the ordered map; the iterators around
`upper_bound` are `IsPrevious` and `IsNext`. The four ways the map can change are four actions,
a refusal (which makes `Submit` reap the session) the fifth. `Cex2Host` uses the
set of admitted ids instead, which `HistoryExact` justifies up to the limit on
ranges; a session reaped at the limit is `SubmitProtocolError` there.

**TrustedRuntime.** `code` and `patchAddresses` say what is written at each
matched instruction and which are claimed. An unload is four critical sections
(`PrepareUnload`, `Prepared`, `FinishUnload`, `Finished`) with the mod's handler
between them (`calls` records its arguments), and `ReleaseLast` because
`ReleaseLocked` calls the CEX2 host half way. A core's CEX2 call is `FetchOwner`
and `UseOwner`. `SchedulerEnd` may fall between any two steps of an unload and
takes its thread away; `AbandonAllForTitleShutdown` follows.

**WupsPlugin.** `plugin` is the C++ `Impl`. A thread is a stack of frames,
innermost first, because a hook may call the runtime again and because the
destructor of `InvocationActivity` runs a postponed end or unload before
`Invoke` returns; `at` is the place in the code. `Invoke` pushes a frame that
goes through `prepare`, `hook`, `leave`, `left` and, if something was
postponed, `return`. `FailStart` and a revoked start turn the frame into that of
`FinishUnload`. Hooks are named; which have a finalizer is `Inits`, and the
finalizer goes by the name of its initializer. `Inside` is the thread-local
`s_activeWupsRuntime`. `StopTitle` takes the emulated cores away, with any
hook that is in guest code, and `Abandon` and `Abandoned` are the title's
shutdown after it. `history` belongs to the properties: which finalizers are
owed, how often the application ended, and two flags for what the code lets happen
(see 3 and 6): `cutShort`, set when an unload begins while a start or an application
end is under way, and `doubled`, set when the last one out begins an application end
while another is under way.

**FunctionPatcher.** A patch request is a record (`Request`); what the code does
with machine words comes down to which request's branch is at an address
(`word`), which trampoline a call-through word points to (`storage`), and which
blocks of the code cave are held (`allocated`). `call` has, for each plugin, the
facade and the loader, the transaction it prepares: `ReadRevision` and then
`PrepareBuild` for each request, without the ledger's mutex, and then one commit,
`CommitApply`, `CommitAdd` or `CommitLoaded`. `Commit` and `RollBack` are the two
ends of `CommitBuild`: all items are written, or those written are restored
again, and an item whose restore fails stays in the ledger. A plugin goes through
starts and ends (`stage`): `Apply` begins its first start or, after `RemoveOwner` of an
application end, another start of the same generation; `CommitApply` commits it, fails,
or is refused because the owner is `Registered`, that is, its code added a patch since the
end; `Fails` is what `FailStart` makes of it. The facade's handles outlive the
records an end removes (`ended`), as in the code. `RemoveOwner`,
`RemovePatch`, `ReleaseNext` and `ModuleUnloads` share `RestoreOrKeep`.
`failures` bounds the writes that fail. Four variables belong to the properties: `ended`;
`unrestored` says that a restore has failed, after which the ledger keeps what it
could not restore and promises less; `stale` holds the addresses whose patch was
prepared from an instruction that was itself another patch's branch (see 6); and
`layered` the requests patched over a trampoline in their own call-through word.

**WumsRuntime.** An operation is a script, the sequence of steps that the loops
of the C++ function run through: mapping, linking, hooks, withdrawing, unmapping.
`Load`, `Unload` and the application events write the script of their thread and
take the operation flag; each further action takes the next step off it (`Rest`; within
a module mapping and linking, and the four phases of a cleanup, follow one another by
`Follows`); "skip" stands for a hook no module of the load has; a step that
fails replaces what is left (`Undo`, `UndoStart`) or only spoils the result of a
cleanup (`Soils`). `Reload` and `AddOrReplace` are a sequence of such operations
(`stage`), during which other threads may come in between. `Resolve` and
`ReleasePlugin` are the plugins' side of the registry. `orphans`, `stuck` and
`troubles` belong to the properties: instances unmapped under a plugin's pin,
instances the loader refused to unmap, and what went wrong in a reload (one for a
step of a load or a start, two for anything else).
`WumsModuleRuntime` itself is so far instantiated by the tests only; the registry
is also used by the plugins' import resolution.

## 3. The runs

| Run | Distinct states | What it asks |
| --- | --- | --- |
| `quiescence` | 14 875 | is a stop exclusive, the count exact, the abstraction implemented, and does a stop happen unless a notification was missed |
| `quiescence_lost_wakeup` | 539 | does a stop always happen (it does not: 6.1) |
| `cpu_tasks` | 48 592 | does a callback need its caller, is the answer true, does a call return |
| `cex2_sessions` | 673 572 | queue, answers, clipboard and contract over two sessions of one owner, with events, subscriptions, late callbacks and opens that race with the owner's end |
| `cex2_progress` | 226 308 | captures and storage against closing, cancelling, deadlines and revocation; do workers alone answer every storage request, and does a guest that polls see every answer although callbacks never come |
| `correlation_ranges` | 493 | is the compact map exact |
| `trusted_mods` | 35 045 | patches, handler phases, codecaves and owner through unloads and ends of titles |
| `trusted_owner_session` | 106 | can a session outlive the shared owner (it can: 6.2) |
| `wups_lifecycle` | 259 794 | order and completeness of finalizers, one application end, no one else in a teardown, postponed work done, calls that return |
| `function_patcher` | 2 031 609 | do ledger, code, code cave and waiting requests agree through every order of preflights, commits, removals, restarts, failures and module events |
| `wums_runtime` | 617 728 | are imports held, starts and ends paired, finalizers in order, and is nothing left behind, whatever fails |
| `wups_discard` | 1 568 | does the shutdown of a title finish whatever a plugin does (it does not: 6.3) |

**Properties worth a comment.**

* `CountIsLeases` is what `CallbackIsExclusive` rests on, with the fact that stops
  do not overlap, which is proved (`StopsCorrect`) and not checked again.
* `ExclusionSpec` says that no sequence of atomic steps shows anything that a
  lock with shared leases would not.
* `StopRunsUnlessMissed` is the strongest liveness the code has: the only way a
  stop is held up is the lost notification of 6.1.
* `QueueBounded` ties the reservations to the pending table, so that each of the
  five ways a request is answered finds the place that was kept for it.
* `ExactlyOnce` and `ContractSpec` are two views of one promise: where each
  admitted request is, and which steps it may take.
* `OneSessionPerOwner` says what the code keeps although `Open` does not test
  `IsStopped` under the mutex: an owner that runs has one session, and one that is
  stopped or closed meanwhile can be left with sessions, but only with those that calls under way
  insert beside the one it had. That a session may outlive its owner this way is
  finding 6.2.
* `RevocationComplete` is stated for every owner whose grant change is complete;
  between the two halves (`settling`) the code promises nothing. `cex2_progress` has
  no events and no subscriptions; the parts about them rest on the theorem `Revoked`.
* `StorageAnswered` needs no fairness of the guest, `EveryRequestAnswered` none
  of the workers, the window system or the renderer.
* `RefusalExact` compares the tests on neighbours in the map with a definition on
  the set of ids.
* `CaptureOwned` is about the two critical sections of a screenshot: an image
  stored in the first is reported for the request that asked for it, or dropped,
  whatever happened to request, handle and session in between.
* `PatchesExact`, `ShutdownInOrder`, `CaveWhileNeeded` and `OwnerWhileLoaded`
  hold between any two critical sections, with any thread inside a handler.
* `FinalizersRun`, `FinalizersInOrder`, `EndsOnce` and `TeardownAlone` of
  `WupsPlugin` except `history.cutShort`: an unload that is postponed during an
  application end begins in the destructor of the first finalizer that returns,
  finds the journal already taken, unmaps the module, and the finalizers left are
  refused; one that is postponed during a start begins before the initializer that
  ran is in the journal. The first three also except `history.doubled`: an
  application end that two threads took (section 6). Everything else, failures at any place included, keeps
  them. `PostponedIsDone` and `CallsReturn` also stop at the end of the title.
* `OnePatchPerTarget` and `LifetimeCurrent` are what the claims and the revisions
  of the patcher are for: a preflight may be committed after another plugin took
  its target, or after its module went and came back.
* `TitleCodeExact` relates memory to the ledger in both directions: no branch
  without its record and, for a function looked up by name, no record without its
  branch. A patch at a fixed address is lost when the module under it is loaded
  anew; the code does not follow modules for those.
* `CaveExact` counts trampolines over the ledger and all transactions under way;
  its last conjunct holds even after restores have failed, except for requests in
  `layered`. The proof found this exception: a roll-back cannot restore a patch and
  leaves the branch, the module is loaded again, the request is patched over the
  leftover in its own call-through word, and that record saves the address of the leftover's
  trampoline; a later restore writes it back after a retry has freed it. It takes four failures
  (`MaxFailures = 4`), so the run, which has one, does not reach it; the proof covers it.
* `RequestsKept` follows a request through loads and unloads of its module and through the
  ends and starts of its plugin. An end removes the records and waiting requests of the plugin's
  handles but not the handles; such a request never comes back, neither by a module event
  nor by the next start, and its handle can still be removed. The static requests are there while the
  plugin is active only, and a plugin which failed to start or is gone has left nothing, including what its
  code added while the unload was already under way.
* `ImportsHeld` and `NothingLeft` except `orphans` and `stuck`: a rollback unmaps a
  module although a plugin's pin has just kept it published, and the loader may
  refuse to unmap. `ApplicationPaired` and `NothingLeft` are stated between
  operations, `FinalizedFirst` at every step. `FinalizedFirst` speaks of modules in the
  graph: that the roll-back of a failed load finalizes what it had initialized is in
  the model but in no property.
* `ReloadKeepsGraph` is a promise over several operations: if nothing fails but one step of
  a load or a start, and no other operation comes in between, the graph is the new one or the
  old one, all of it mapped, and the application as it was. It says nothing of a
  reload in which a finalizer, an unmapping or a withdrawal fails: there the code
  ends without a graph (section 6).
* `CallerOutlivesCallback` is why callbacks may capture their caller's locals by
  reference, as `E/CemodRuntime.cpp` 475 and 482 do.

**Bounds and why they are enough.**

* `Threads`: three. A stop by one thread while a second enters and a third stops
  as well is the most the code tells apart: one word, one operation mutex.
  The violation needs two.
* `Callers` three, `Cores` two, `LastTask = 3`, `LastTitle = 2`: a queue with
  more than one task, two callbacks at once, and a task from the first title in
  the second.
* `MaxQueue = 2` with two ids and events: the queue is full, has one place left, or
  has a reserved one. `LastSession = 2` in `cex2_sessions`: a session after a
  closed one of the same owner, whose late answers find the other one; or one that a stopped
  owner is left with. `MaxOpens = 1`: one call of `Open` between its test and its
  insertion, which is all that the two ids leave room for. The run has one
  owner; that owners do not disturb each other, and `OneSessionPerOwner` for any
  number of owners and of calls in `Open`, is proved (section 5).
* `Correlations` two: one request answered while another is pending, or a handle
  asked for, closed and asked for again. The kinds of requests are divided between
  the two runs by what they share: the queue and the clipboard flag in one, the
  workers and the capture in the other. A run of captures alone with three ids
  (123 656 states) holds as well.
* `MaxId = 8`, `MaxRanges = 3`: all ways to join ranges, the ends of the
  interval, and the limit before and after a join.
* `LastHandle = 4` with three mods: a mod that is loaded again after an unload or
  an end of the title, on a site another mod had. Two unloaders, two cores.
* `WupsPlugin`: two threads that each may be inside a hook, two initializers (an
  order to mirror), `LastStart = 2` (a start after an application end),
  `LastGeneration = 1` (an unload after at most one that failed, or a start that
  did). The run has the exit event; the foreground events differ in the
  flag only, but two threads can be in hooks at once only with two events. Instances
  with the release event as well were checked once and hold; they are too long to be runs: all six
  properties with `LastStart = 1` (796 137 states), the safety properties with `LastStart = 2` and unloads
  that hooks do not ask for (2 185 801 states) and with a second revocation (1 618 844).
* `FunctionPatcher`: two plugins that both want both functions of one module,
  statically, dynamically, by name, by address and with a name the module does not
  export; three trampolines for five requests, so that the cave is exhausted;
  `MaxEvents = 4`: the module is loaded, unloaded, loaded and unloaded again;
  `Restarting = {p}`: the plugin with a dynamic request starts again after each
  application end, while the other one starts once; `MaxFailures = 1`: one write or one restore fails. The
  same instance with two failures and three module events (3 958 882 states, too long for a run) holds as
  well.
* `WumsRuntime`: two modules, of which one depends on the other, is linked to it
  and is initialized before it, and a replacement of the first that has no order beside the
  second and misses its import without it; two
  threads, one of which reloads; two failures, so that the answer to a failure can
  fail as well. The numbers of instances are reused once nothing of an
  instance is left, which keeps the run finite without a bound on loads.
* A bound on a counter (`LastStart`, `LastGeneration`, `LastSession`, `LastHandle`, `LastTask`, `LastTitle`, `MaxEvents`, `MaxFailures`) is
  a guard of the action that counts. None of the ids wraps in the model.

Deadlock is checked except where the system may stop: when no task and no
title are left (`cpu_tasks`), when a session was reaped
(`correlation_ranges`), when all plugins are gone and all module events used up
(`function_patcher`), and when the title is over (`wups_lifecycle`,
`wups_discard`).

## 4. Fairness

* `GuestQuiescence!Fairness`: each thread takes its next step, mutexes that are
  free again and again are acquired (strong), a time slice ends. The host
  schedules core threads and a slice has a budget of cycles
  (`remainingCycles`). Nobody has to enter or to ask for a stop, and no
  spurious wakeup is assumed.
* `HostCpuTask!Fairness`: waits return, a callback that is on a core again and
  again ends (strong: it may yield in between), parked fibers are resumed while
  the title runs, the scheduler's joins return. `Take` and `End` need not happen: the
  timed wait covers the first.
* `Cex2Host!WorkersFair`: the two worker threads run, and a storage operation
  returns.
* `Cex2Host!PollersFair`: a guest with a session polls, and the deadline of five
  seconds passes. Callbacks of the window system and the renderer are never
  assumed. Both are antecedents of the properties that need them
  (`StorageAnswered`, `EveryRequestAnswered`), so that one run asks both.
* `WupsPlugin!Fairness`: a thread inside the runtime takes its next step, a hook
  that is in guest code again and again returns (strong, since it may call the
  runtime in between: it does not do so for ever), and the thread that shuts the title down goes on when its condition holds. Nobody has
  to call the runtime and the title need not stop.

## 5. Proofs

Each proof module states its inductive invariant `IInv` first and says why the
properties alone are not inductive.

* **GuestQuiescence_proofs**: any finite set of threads. `IInv` adds that a
  callback sees a count of zero: the store that ends a stop overwrites the
  count, which is only right if it is zero, which holds because no
  compare-exchange succeeds while the bit is set, which holds because one thread
  owns the bit. `Refinement` maps the lease holders and the one callback to
  `GuestExclusion`; each concrete step is an abstract one or a stutter.
* **HostCpuTask_proofs**: any callers, cores and bounds. `IInv` adds that a
  queued task is undecided and in the queue once, that the progress of a
  callback follows from its task's state, and that an undecided or running task
  is the one its caller still waits for. So the task a core takes is not one
  whose caller left, and a timeout only finds a task nobody took. `QueueCorrect`
  adds that the queue is in the order of the calls.
* **CorrelationRanges_proofs**: any width of ids and any limit. The invariant is
  that the ranges are apart and stand for the admitted ids. Lemmas show that the
  tests on the two neighbours are tests on the ids `c`, `c - 1` and `c + 1`;
  `RefusalCorrect` counts ranges and runs by a bijection.
* **TrustedRuntime_proofs**: any mods, sites, threads, cores and handles. `IInv`
  adds that an instance that is being prepared or finished is so by one thread
  (`Unloading`), that the phases called follow from the state of the instance
  (`Phases`), that handles are fresh (`Handles`), and the patches instance by
  instance (`Patches`). One lemma per action.

* **Cex2Host_proofs**: any owners, requests, kinds, workers and limits. `Sound` says
  of one session record by itself that its queue keeps its bound, that each admitted
  request is in one place, and that the clipboard flag is exact; lemmas show that
  each operation on a record preserves it, for every order in which requests are
  answered. `Lawful` says what revoked permissions leave in a session, and
  `IInv` adds whose session it is. A step of the host is then a few facts about
  the record it writes. `OneEach` and `Revoked` hold for any number of owners. `OneEach` is
  inductive because a stopped owner never runs again: a session can only be added to it by a call that has
  read `IsStopped` before, and each such call ends with its insertion, so sessions and calls under
  way together never exceed the calls there can be and the one session from before.
  The rest of the module is two further arguments. For `Implements` the contract sees how far each request of each
  session is; each operation on a record is a move of the contract (`Advances`), a
  step of the host that writes a record is a step of the contract, and the rest
  are stutters. The fairness of the contract plays no part. `CaptureOwned` needs more than the state of sessions.
  `CInv` adds that every task a worker or the renderer still has was sent for
  an admitted request of the same kind (`Sent`), that no request has two callbacks,
  and that a capture which waits has a callback still to come. So a late
  callback never completes a request that was not its own.
* **FunctionPatcher_proofs**: any plugins, modules, addresses, requests,
  trampolines and bounds. The properties end with the first restore that fails, so
  the invariant is `Typed /\ (~unrestored => Good)`. Without such a failure every
  step does one of three things to the ledger (`Same`, `Added`, `TakenOff`), and the
  lemmas about these moves do not mention the operations; `Fresh` and `Parted` say
  what a transaction under way knows, `Kept` and `Asked` where each request may be
  and who works on it. A start that is not the first may find what the plugin's code has added since; its
  refusal has lemmas of its own (`RefusalPlaces`, `RefusalAccounts`). The argument about revisions is in `CallsNext`: what was
  read before an event of its module has a smaller revision than the module has after it.
  `CaveExact` has an invariant of its own, `CaveIInv`, that goes on after failed
  restores: which trampolines a transaction has built and not yet given to the ledger
  (`Preparations`), which blocks are held and by whom (`Blocks`), and what each call-through word may
  point to (`Words`); while no restore has failed, `Accounted` counts every block. A step
  builds, places or restores, or is quiet.
* **WumsRuntime_proofs**: any definitions, links, threads and failures. What an
  operation has still to do is its script, so `IInv` says, for the one thread
  that operates (`Exclusive`), which of seven kinds its script is (`Working`: `Loading`,
  `RollingBack`, `Emptying`, `Stopping`, `Ending`, `Exiting`, `Starting`), and what
  graph, modules and registry owe to the steps that are left. The registry
  has one form for all of them: of a sequence of modules the first `n` are still to be unmapped and
  the first `m` to be withdrawn, and a module that is still to be cleaned up imports
  only from modules that come later in the cleanup (`Registry`, `Behind`); between
  operations (`Held`, `Paired`) that sequence is the graph. The initialized modules are the first
  of the graph (`Cut`), which is `FinalizedFirst`; whoever runs has its end in the script
  (`Covered`), which is `ApplicationPaired`. One lemma per action and kind.
  `ReloadKeepsGraph` spans the several operations of a reload, so it needs more: `RInv` adds that
  what is in the graph, what is being loaded and what a reload may have to restore can be
  loaded again (`Loadable`: there is an order, and each dependency is of the same set or published
  by a module that no operation will take away), and that a reload with at most one trouble, hence none in
  a cleanup, is
  where its stage says (`Reloading`: between its operations `Ready`, within one `Underway`, which
  fixes how the script must end). That the restore is never refused follows from the first, that
  the graph is all there from the second. The steps inside an operation are treated alike
  (`Carries`): they keep its aim, or turn a load or a start into its roll-back at the price of a
  trouble. Only the steps that begin and end an operation have lemmas of their own.
* **WupsPlugin_proofs**: any threads, initializers, hooks, calls and bounds. A thread's
  stack may be of any depth, so a frame is named by its thread and its height from the
  bottom (`Where`, `Deep`): a call or a return then changes the top two heights of one
  thread and moves no other frame. `Shaped` holds always: which frame may be above
  which (`Framed`), that `inFlight` is the number of frames in flight (`Counted`), and
  that who begins an application end is not inside a hook (`Outside`). Two more parts
  hold as long as the code's exceptions have not happened. Unless an unload cut a start or an end
  short, a teardown is the only work there is, `teardown` keeps others from
  beginning one, and after its wait all frames in flight are above it (`Torn`), which is
  `TeardownAlone`. Unless an end was doubled as well, one start, end or teardown works at a time
  (`Good`), and for each place of it `Working` says what state, journal, flags and history are: the
  journal is what is owed while a start goes on, and the finalizers left mirror what is
  owed while a teardown goes on (`Mirrors`), but for the one that is just prepared.
  `Resting` says the same for the time between them. What the histories owe at rest (`FinalizersRun`,
  `EndsOnce`) and at each step (`FinalizersInOrder`) follows. The lemmas about stacks come
  first (`ShapeCall`, `ShapeChange`, `ShapePop` and those of `Torn` and `Good`), then one
  lemma per action. After `StopTitle` the frames are those of hooks that never
  return, and only the properties themselves are kept.

The assumptions are those of the modules (`ConstantsAssumption`,
`ThreadsAssumption`): finite sets of threads and requests, natural bounds, one site
per mod, one module per patched address, and names that are apart. The types of the state are proved with
the invariants (`TypeCorrect`, `Typed`), so that no run spends a property on
them. `TypeOK` of `WupsPlugin` also bounds the generation by the bounds of the model; TLC
finds it true on the instance of `wups_lifecycle`, and `IInv` has the types without that bound.
Before they were proved, the invariants were checked by TLC on small instances, `IInv` of `WupsPlugin` on one
of 796 137 states with two events.

Only model-checked: the liveness properties, which need fairness and `ENABLED`
(`StopRunsUnlessMissed`, `CallReturns`, `StorageAnswered`, `EveryRequestAnswered`,
`PostponedIsDone`, `CallsReturn`). Every other property of the passing runs is a theorem. What a
fold or a recursive definition computes is nowhere needed in a proof.

## 6. Findings

1. **A stop can wait for ever** (`quiescence_lost_wakeup`). `Leave` decrements
   the word and notifies without `m_waitMutex`
   (`E/GuestExecutionQuiescence.cpp:29-30`). The coordinator tests its predicate
   under that mutex (lines 49-52), finds one lease, and before it blocks the
   lease is left and the notification sent. The count is zero, the quiescing bit
   keeps every core out, nobody notifies again. The test in
   `src/Cafe/tests/GuestExecutionQuiescenceTests.cpp:52-55` joins the coordinator
   after the last lease is left. Taking the mutex between the decrement and the
   notification would close the window; `StopRunsUnlessMissed` shows that it is
   the only one.
2. **A session can outlive the trusted owner** (`trusted_owner_session`).
   `ReleaseLocked` closes the owner's sessions and then stops and destroys it
   (`E/TrustedCemodRuntime.cpp:618-627`), and its comment says no CEX2 operation
   follows. A core that fetched the raw pointer before (`L/cemuextend.cpp:60`)
   may open a session between the two or after them; the latter reads an object
   that is gone. `Open` itself leaves a window as well: it reads `IsStopped` at
   `L/Cex2Host.cpp:894`, takes the mutex at 906 and does not test again, so that an owner which is stopped and
   closed in between is left with the session (`BeginOpen` and `Open` of `Cex2Host`).
   WUPS owners are exposed to this too, although they are stopped first
   (`E/WupsServices.cpp:1409-1410`) and closed after it (1337-1338, `E/WupsRplLoader.cpp:341-343`). The session then keeps
   a pointer to the owner, which `HasPermission` follows (`L/Cex2Host.cpp:350-357`). A test of
   `IsStopped` under the mutex closes the second window for owners that are stopped before they are closed.
3. **The shutdown of a title can wait for ever** (`wups_discard`).
   `AbandonForTitleShutdown` waits for `callbacksInFlight == 0`
   (`E/WupsRuntime.cpp:1090`) after `OSSchedulerEnd` has deleted the fibers
   (`T/` 1660-1664), so that a hook parked in guest code never counts down. The
   unload that `PrepareTitleShutdown` tries first does not help: the start that
   runs the hook defers it. The log of `ShutdownTitle`
   (`src/Cafe/CafeSystem.cpp:1125-1126`) says that such modules are discarded
   after the scheduler stops.

Also met, and visible in the definitions of `WupsPlugin` but without a run of
their own:

* The exception `history.cutShort` of section 3: finalizers refused or forgotten
  when an unload falls into an application end or a start, although
  `docs/wups-support-design.md:406-407` lets the application end walk the whole journal.
* An application end can be done twice, `history.doubled`. A hook of one event asks for the end and is
  the last one out, so its thread does the postponed end. Before it waits for the hooks in flight, a
  thread whose event was admitted earlier invokes its hook. The first thread waits
  (`E/WupsRuntime.cpp:372`); the second leaves its hook as the last one out, finds
  `deferredApplicationEnd` and `applicationEndsPending` still set (lines 144-146) and does the
  end as well; the wait of the first is over, and it does not look at
  `applicationEndsPending` again. Both call `APPLICATION_ENDS`, although
  `docs/wups-support-design.md:406` says that it runs once, and either may take the
  journal. A test of the flag behind the wait would close it.
* `Invoke` returns false for a hook the services skip (lines 270-271), so a
  start fails on a plugin of an old ABI, where the design (lines 403-405) leaves
  the hook out.
* `FailStart` after an unload from inside the start's own hook makes an unloaded
  plugin `Failed`; `FinishApplicationEnd` may turn a `Failed` left by a nested unload
  into `Deinitialized`.
* The application end, foreground and exit events have no caller outside the
  tests; the start, the unload and the abandonment do.

Also met in `FunctionPatcher`:

* The preflight reads the target's instruction without the mutex
  (`E/WupsFunctionPatcher.cpp:396`). If another owner's patch is on the target then, and
  is removed before the commit, its branch is recorded as the original
  instruction and comes back when the second patch is restored. The test of the
  revision does not see it, since no module event happened; `TitleCodeExact` excepts the
  addresses this happened to (`stale`).
* An optional request whose module loads between its preflight and its commit
  joins the waiting ones without a test of the revision (line 574), after the event
  that would have applied it, and waits for the next load, where
  `docs/wups-support-design.md:515-516` has the post-load re-resolve it.
* A start is refused as already registered (lines 661-672) when the plugin's code has added a patch
  since the application end, which the services allow as long as the owner is open. The plugin
  is `Failed` with that patch in place until its resources are released.
* An application end removes the records of the facade's handles and leaves the handles. After the next start
  they stand for nothing; removing one succeeds (`E/WupsFunctionPatcherFacade.cpp:108-116`
  expects this), and `RequestsKept` says that the old patch does not come back.
* The waiting requests of a module are one transaction of all owners (line 840):
  one that cannot be applied keeps the others waiting, where the design (lines
  763-764) isolates the failure of one owner.

In `WumsRuntime`:

* `Rollback` unmaps a module although `Unpublish` has just refused because a
  plugin pins it (`E/WumsRuntime.cpp:374`); lease and record then name code that is
  gone. The design (lines 458-460) lets the unload fail instead. `orphans` marks them. A
  second `Unload` clears the memory of a module that is not mapped any more.
* `Reload` unloads the old graph before it loads the new one. If a finalizer, an
  unmapping or, for a plugin's pin, a withdrawal fails in that, it returns (lines 627-633) with the
  old graph unmapped (351-396) and the application stopped, and neither graph is tried again.
  `docs/wups-support-design.md:480-481` has a reload construct the complete new graph and swap only after it
  has succeeded. `ReloadKeepsGraph` leaves these failures out.
* The start of an empty runtime sets `applicationStarted` (line 736); modules
  loaded afterwards never get their start hooks, but do get the ends.
* `OnApplicationEnds` is lost when another operation holds the flag: it is refused
  and not asked again.

Also met, and visible in a model: a call onto a core never returns when its
callback had yielded at the end of the scheduler (`CallReturns` excludes exactly
that case), because nobody completes or cancels the task any more.

## 7. Not modelled

* In modelled components: the direct path of `OSRunOnEmulatedCpuThread` on a
  core, which runs the callback in place; the rest of the guest scheduler;
  payload formats, quotas, mapped VPAD and text input of the CEX2 host, and what
  one storage or HTTP dispatch does; ELF parsing, relocation and the bootstrap
  table of trusted mods, and a refused load, which changes nothing; reuse of
  session ids after 2^32 of them. Request ids do not wrap in the model; in the code they need not be
  kept from it, since `Submit` refuses the id 0 and no range begins there.
* The destruction of a CEX2 owner: `Cex2Host` knows that it is stopped and closed, and what happens to
  a session afterwards is in `TrustedRuntime`.
* In `HostCpuTask`, a core that is past its last test of the scheduler's flag may still resume a
  fiber after `OSSchedulerEnd` has cleared it (`T/` 1408-1459); `Resume` needs the scheduler. It would be a `Resume` just
  before `End`.
* In `WupsPlugin`, a finalizer counts as run when its turn comes, also if its preparation
  fails or the services skip it: `FinalizersRun` is about the walk of the journal.
* Of a plugin: the refusals before a start, hook arguments, `QueryMappedLayout`, and
  fibers that move between host threads inside a hook while
  `s_activeWupsRuntime` stays with the thread. Its patch requests are in
  `FunctionPatcher`, which knows of the plugin its starts, ends and release, but not what makes it
  start or end; the two modules are not composed.
* Of the patcher: how instructions, trampolines and bridges are built,
  `RemoveAll` in the destructor, `IsPatchApplied`, and the facade's test of
  the generation, which no caller can fail because owner ids are not reused.
* Of the WUMS runtime and the registry: parsing, versions of dependencies, hook
  arguments, kinds of providers, several exports of one provider, and
  `UnpublishOwner`, which only tests call. The initializers of a module are one hook: of one
  whose third initializer fails the code keeps the first two and runs their finalizers
  (`E/WumsRuntime.cpp:322-323`), the model none. The end hooks are not refused by a module's
  state (806-815) as the others are; no module of a started graph is in such a state. `AddOrReplace` reads the definitions
  once for the new graph (658-662) and `Reload` again for the old one (622-626); the model reads both at once.
* Undefined behaviour is modelled where it matters: in `TrustedRuntime`, a CEX2 call with a
  dangling owner may change or not change the sessions.
* The mod system is about four percent of the repository's code. The rest is the
  emulator it is built into: instruction decoders and code generators, the
  graphics processor with its shader compilers and renderers, OpenGL headers,
  video decoder tables, the console's libraries and services, file systems, audio
  and windows. It is data, generated code, drivers and I/O, mostly without state
  that several actors share in a way a model could decide; nothing of it is
  modelled.
* `WupsServices.cpp` and the package parsers are formats and files: their tests
  and fuzzers reach them better than a state machine does.

Hazards of the code that no property covers are in `PROJECT.json` with the reason;
those the models show (sections 6 and 3) are the ones a property would be
refuted by.

## 8. Plan

Done: the modules of section 2, in the order quiescence, CEX2 host, ids,
trusted mods, host tasks, WUPS plugin, function patcher, WUMS runtime, with proofs for
each.

Left, in this order:

1. **WupsPayload**: order over several plugins, reload and rollback; abstract
   specification: plugins as units that are up or down.
2. **GuestMemoryOwnership**, small, with proofs: owners, leases and reclaiming.
3. **Cex2Input**: subscriptions, pressed keys and their releases when focus is
   lost or the queue is full, pointer policy, mapped VPAD, text input.
4. **ModContext**: quotas, first fault, calls of sandboxed mods.
5. **Cex2Storage**: handles and quotas under two workers.
6. The composition of `WupsPlugin` and `FunctionPatcher`.

Runs of one module are merged where they ask related questions, so that the
number of runs stays small.
