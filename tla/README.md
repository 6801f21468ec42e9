# A TLA+ model of openforge-aio

openforge-aio is a game trainer: a Tauri desktop app (`crates/app`) injects a
DLL into a running game (`crates/batman-lod-dll` for UE5 games,
`crates/glacier-007-dll` for Glacier games), talks to it over a named pipe, and
through it reads, patches and freezes the game's memory, calls the game's own
functions and runs Lua scripts inside it. Beside it is a developer's tool
(`crates/discover`). This directory models the parts in which order, failure and
concurrency decide whether the program is correct, model-checks them with TLC on
small instances, and proves their safety with TLAPS for every instance.

All source paths are relative to `src/`; "commands.rs" and other bare names are
files of `crates/app/src-tauri/src`, unless a directory says otherwise.

## 1. The system

### 1.1 How the parts interact

```
 React UI ── Tauri commands ──> host app ── named pipe ──> DLL worker thread ──> game memory
    ^   <──── events ─────────    |  ^                      |   |                     ^
    |                             |  hotkeys (global)       |   freeze thread 60 Hz ──┤
    store (zustand)               |                         |   Lua runtime threads   |
                                  process watcher,          |     └── game-thread executor
                                  exit watch, loops,        registry of patches       |
                                  retry, Lua polling        └── game-thread executor ─┘
 discover (developer's tool) ── debugger / ReadProcessMemory / the same pipe ──────────┘
```

* The UI calls synchronous Tauri commands, which run on the app's main thread
  one after another, and asynchronous ones (`attach`), which do not. It mirrors
  what it sent into its own store.
* Hotkeys come in on the app's main thread as well, but their work is done on a
  blocking worker (`spawn_blocking`), concurrently with the clicks.
* The session of an attached game is an `Arc` shared by the attached state, the
  loops (freeze, read probe), the retry task, the polling task of a script and any
  command in flight. The pipe closes when the last of them lets go.
* The DLL serves one pipe client at a time and one request at a time on one worker
  thread. When the client goes, it restores every patch and, on UE5, drops the
  client's Lua runtime, and only then creates the next pipe instance.
* Beside that thread the DLL has a freeze thread (Glacier), the Lua worker with
  its timer and key threads (UE5), and code that runs on the game's own threads:
  the vectored exception handlers of the executor and of the write watch, and the
  ProcessEvent detour, which drains the Lua queue of the game thread.
* Objects of a UE5 game are found by walking GUObjectArray while the game changes
  it, and their properties by walking classes; both ends cache what they find.
* Hotkeys, settings, addresses, the tool's session and its engine layouts are files,
  written by one command and read by a later one, perhaps after a restart.

### 1.2 Inventory

| Component | Source | State | Operations | Hard about it | Correct when | Module |
|---|---|---|---|---|---|---|
| In-DLL code patcher | `glacier-007-dll/code_patch.rs`, `batman-lod-dll/ops/{code_patch,state}.rs` | registry address → original bytes | patch, restore, restore_all | writes that fail; the client vanishing; re-patching; update of the game | after the client is gone all code is original; only original bytes are overwritten | `CodePatch` |
| Code-patch features on the host | `attach.rs`, `runtime/feature.rs`, `keybinds.rs`, UI hooks and store | address cache, resolutions, drawn switches | locate, retry, read, toggle, reply, detach | decisions taken on a read that is old when used; stale cache; stale UI | what is drawn, what is read and what the DLL has recorded agree | `PatchToggle` |
| Game-thread executor | `*/gthread.rs` | ARMED, CLAIMED, DONE, JOB_*, GAME_TID, DR0 of the threads, the handler | call, trap handler | lock-free hand-off, deadline against a late execution, teardown order, two callers | at most once, its own answer, nothing after a timeout, the game undisturbed | `GameThreadPromise`, `GameThreadCall` |
| Attach and detach | `commands.rs`, `attach.rs`, `watch.rs`, `state.rs` | attached, watcher pause, exit watch, UI attach state | attach, do_detach, exit watch, retry | every way out of a long asynchronous command; exits and detaches racing it | the watcher resumes, a dead game is detached, the pipe closes | `AttachLifecycle` |
| Host-side loops | `freeze.rs`, `commands.rs` | freeze_handles, probe handles, retry task, badges | spawn, register, abort, tick | registration after the lock is released; what one task writes over another | no loop without an owner; cards settle | `AttachLifecycle` (lives), `FeatureCards`, `ReflectionFreeze`, `MatchingFreeze`, `LuaConsole` (what they do) |
| DLL-side freeze | `glacier-007-dll/freeze.rs`, `worker.rs`, `commands.rs` | slots, dll_freeze_handles, locks | start, stop, tick, drain | a snapshot of the list stamped after a stop; three locks; handle numbers reused | switch and freeze agree; a stop stops; nobody starves | `DllFreeze` |
| Process watcher | `watcher.rs`, `core/process.rs` | pause flag, last seen | poll, pause, resume | pause while busy | runs whenever idle | partly: `AttachLifecycle` |
| Pipe worker, transport, protocol | `*-dll/{lib,pipe,worker}.rs`, `*-host/{transport,client}.rs`, `*-protocol` | the instance, the bytes in it, the handshake | create, accept, serve, answer, restore, flush | torn and broken reads, panics, two hosts, a refused frame leaves its body unread | an answer belongs to its request; who waits is answered | `PipeCall`, `PipeSession`, `PipeProtocol` |
| Host sessions | `ue5-host/session.rs`, `glacier-host/backend.rs` | the pipe behind a mutex, caches | open, request, drop | shared by tasks | closes with the last holder; caches answer for the right class | partly: `PipeSession`, `AttachLifecycle`, `PropertyLayout`, `ObjectSearch` |
| DLL injector | `host-common/injector.rs` | the DLL in the game, its references | inject, eject | eject while the worker serves | hosts find an answer or a broken pipe | `PipeSession` |
| Lua runtime | `ue5-lua`, `batman-lod-dll/{ops/lua,lua_host}.rs` | VM, queues, timer heap, callbacks, output ring | run, stop, delayed, keys, game-thread closures, print | five threads and a VM that is replaced | nothing of a stopped script runs; its threads end; no loss of output unseen | `LuaRuntime`, `LuaConsole` |
| ProcessEvent hook | `batman-lod-dll/game_thread_hook.rs` | trampoline, re-entrance flag | detour | drain under the game's own calls | no cycle with the Lua worker | partly: `LuaRuntime` |
| Feature strategies | `runtime/{feature,signature}.rs`, `freeze.rs` | freeze_originals, snapshots, reflection cache | validate, resolve, read, write, freeze, restore, call | objects freed between two requests; a snapshot that outlives its object | nothing is written into a freed object; OFF gives back what the game had | partly: `FeatureSpec`, `ReflectionFreeze`, `MatchingFreeze`, `ProgressGrants`, `PatchToggle`, `MemoryScan` |
| Keybinds | `keybinds.rs`, `commands.rs` | two indices, the file, the system's registrations | set, clear, steal, load, press | three records kept in step by hand | a press reaches the feature that shows the chord | `KeybindStore`; dispatch in `PatchToggle`, `AttachLifecycle` |
| Scanners | `*-dll` scan files, `core/pattern.rs`, `discover/pointer_scan.rs` | a cursor over the memory | heap scan, pointer scan, AOB, bind | windows, holes, tails | all words are found, bound is unique | `MemoryScan` |
| Engine reflection | `ue5-engine`, `batman-lod-dll/ops/reflection.rs`, `walker.rs`, `discover/ue5/locate.rs` | GUObjectArray, caches per class, the layout file | find, resolve, call, locate | the array changes under the walk; classes walked before they are linked; a file of an earlier launch | what is found is what was asked for | partly: `ObjectSearch`, `PropertyLayout`, `UnrealLocate` |
| Watchpoint tool | `glacier-007-dll/find_writer.rs`, `discover/watch_write.rs` | DR0 of every thread, HIT | arm, hit, clear, detach | threads that start and end meanwhile | no thread is left armed | `WriterWatch` |
| Discover tool | `discover` | the session file | scan, narrow, pick, capture, extract, emit | values of an earlier process | the wanted place is never narrowed away | partly: `DiscoverSession` |
| Games | `games` | constant data | - | - | - | partly: constants of `MCPatchToggle`, `FeatureSpec` |
| Desktop UI | `app/src` | store | clicks, events | edge-triggered events and stale values | see the modules | partly |
| Settings, profile, Lua script files | `settings.rs`, `profile.rs`, ... | files | load, save | - | - | no |
| Manifests, registry, engine selection | `registry`, ... | constant data | - | - | - | no |
| Developer CLI | `cli` | - | - | - | - | no |

`PROJECT.json` lists the same components with their files, and under "hazards"
what in this code a test would hardly reach, each at its line.

## 2. Modules

| Module | What it models |
|---|---|
| `CodePatch` | the DLL's patcher and its single client |
| `PatchToggle` | EXTENDS `CodePatch`: locating, toggling, drawing; the composition of DLL, host and UI |
| `MCPatchToggle` | its instance for TLC: two patches, two sites, two builds of the game |
| `PatchToggle_proofs` | the theorems about it; likewise `DllFreeze_proofs`, `GameThreadCall_proofs`, `AttachLifecycle_proofs` |
| `Features_proofs` | the theorems about `MatchingFreeze`, `FeatureSpec`, `FeatureCards`, `KeybindStore` |
| `Threads_proofs` | the theorems about `LuaConsole`, `LuaRuntime`, `PipeSession`, `ReflectionFreeze`, and `MCThreads`, which composes them |
| `Tools_proofs` | the theorems about `WriterWatch`, `UnrealLocate`, `DiscoverSession`, `ObjectSearch`, `ProgressGrants`, `PropertyLayout`, `MemoryScan` |
| `Parts_proofs` | the theorems about `MCParts`: its parts behave as their modules say |
| `GameThreadPromise` | abstract: what a call on the game's thread promises its caller |
| `GameThreadCall` | detailed: the statics, the handler, the caller; implements the promise |
| `AttachLifecycle` | attach, detach, exit watch, retry task, loops, who holds which session |
| `MCAttach` | its instance for TLC: in each execution either the UI or the hotkeys toggle |
| `DllFreeze` | freeze thread, slots, host handles, switch, and the locks between them |
| `LuaRuntime` | the five threads of a script: pipe worker, Lua worker, timer, keys, game thread |
| `LuaConsole` | the ring of printed lines, the task that polls it, the run button |
| `ReflectionFreeze` | a feature found by reflection over objects that the game frees |
| `MatchingFreeze` | the freeze of all objects of a class, with the originals it remembers |
| `FeatureSpec` | what `validate()` lets through, and what each operation then does |
| `ProgressGrants` | the "unlock everything" button: list, read, find, call |
| `FeatureCards` | pending features, their retries, probes and badges |
| `PipeProtocol` | which reply belongs to which request, in both DLLs and both clients |
| `PipeCall` | abstract: what a session with the DLL promises for each request |
| `PipeSession` | EXTENDS `PipeProtocol`: injection, pipe, frames, worker, two hosts, eject; implements `PipeCall` |
| `WriterWatch` | the write watch, by the DLL's handler and by a debugger |
| `DiscoverSession` | the tool's session file from scan to emit |
| `MemoryScan` | the four scanners and the binding of a heap-scan feature |
| `ObjectSearch` | find_uobject and find_all_uobjects over a changing array |
| `PropertyLayout` | the caches of properties and functions per class |
| `UnrealLocate` | finding the engine's tables from outside, and the file that remembers them |
| `KeybindStore` | the store's two indices, its file and the system's registrations |
| `MCParts` | the instance of eleven parts that share no state (2.6) |
| `MCThreads` | the instance of four parts whose threads must go on (2.6) |
| `MCPipe` | the instance of `PipeSession` alone, with one host |

### 2.1 CodePatch and PatchToggle

A *site* is an address with the few bytes that a patch replaces there; its content
is one value of `Code`. That is enough because the shipped sites do not overlap,
writes are of one site, and the code only ever compares a content with
`original_bytes` (all of it) or with the first byte of `patched_bytes` (on a
read: `FirstIsRepl`). `Builds` are the versions of the game that may be started:
what each site holds, and where each feature's AOB pattern matches.

| Model | Code |
|---|---|
| `PatchOk/PatchErr` | `Request::CodePatch`: verify, write, record, with each error |
| `RestoreOk/RestoreErr` | `Request::RestorePatch`: unverified write, forget on success only |
| `Drop`, `RestoreOne`, `Closed` | the end of `serve_client`, then `restore_all` in HashMap order |
| `Attach` | `resolve_all` for this strategy: cached address if its bytes are original, else scan; the cache written back; on UE5 the initial read sweep |
| `RetryResolve` | `retry_resolve`, offered for unresolved features only |
| `HotkeyRead`, `Click`, `Send`, `Reply` | `toggle_code_patch`, the card's switch, `set_code_patch`, the event or the mirror in the store |
| `Detach`, `AppExit`, `GameRestart` | do_detach; the app dying; the game exiting and coming back, updated perhaps |

A toggle is in three steps, so that a detach, a restart or another toggle can
come between the read, the request and the reply. `Fragile` sites are those whose
write can fail (`VirtualProtect` or the copy); `InitialSweep` tells the UE5 build
from the Glacier build. The key of the address cache contains the module base,
taken to be the same in each run (no ASLR), which makes the cache as dangerous as
it can be. `RetryResolve` is one step: it holds its own handle of the session
while it scans, so that no other attach can connect before it has returned.

### 2.2 GameThreadCall

Each load and store of a static that another thread could separate from the next
is a step. `Grace` and `Caches` are TRUE for the UE5 DLL and FALSE for the Glacier
DLL, whose executor has neither the grace period nor the cached thread. The
probe mode of the Glacier handler has no caller and is left out.

An execution is either *steady* or *raced* (`pace`, chosen at its start). A raced one
takes any interleaving. A steady one leaves out four, each a race of a few
instructions or a very slow job, which the code does not exclude either:

* a caller, who looks every 2 ms, ends its wait while a thread is between its look at
  DONE and its exchange on CLAIMED;
* a handler is entered between the caller's last look and its store of ARMED;
* a trap of one call's teardown is still to be dispatched when the next call
  installs its handler;
* the engine call outlasts the grace period of 2 s.

The teardown itself (`Ungate`, `Disarm`, `Remove`) and the traps have no guard at
either pace: a thread that has trapped may find the handler gone (`Unhandled`), and the
game then dies. Of a raced execution `KeepsPromise` says nothing, and `OncePerCall`
speaks of its first call only: a thread that the teardown has caught may meet the
flags of the next call, and run a job out of turn or a second time.

`GameThreadPromise` is the abstract view: a call goes *new → pending → executed →
ran*, or *pending → timeout*. The refinement mapping `StateOf` reads the state of
each job off the counters and outcomes of the detailed model, and gives every bad
history (run twice, run after a timeout, somebody else's answer) a state that the
promise does not have.

### 2.3 AttachLifecycle

A session is numbered by the attach call that opened it, a process by a number
never reused. `Held(s)` is the reference count of the `Arc` by its holders: the
attached state, an attach in flight, the loops, a toggle between its clone and
its spawn, a retry task that resolves. `call` is the step of each attach
(connect, resolve, publish, watch, sweep, probe) with each failing return and
each panic of a worker; `det` is do_detach step by step, run by the user or by an
exit watch; `Watch` stores the watch in *whatever is attached by then*, as the code
does.

Timing that is assumed: starting the game takes longer than what follows at once
on its exit (requests of an attach in flight fail, the exit watch runs do_detach);
the UI's synchronous commands are taken in the order of its clicks (`InTurn`).

`MCAttach` adds to it who toggles in this execution (`by`), so that one run checks the
UI's clicks and the hotkeys and a property can tell them apart, and a bound on the
loops of the hotkeys (`MaxPressed`).

### 2.4 DllFreeze

Slots are numbered by the handles the DLL gives out, from 1 in each process. A
pass of the freeze thread drops the stopped slots and copies the rest (`Pass`),
then visits the copies one at a time (`Visit`), whatever has been stopped since;
a box is "held", "hurt" by the game, or "gone". On the host, set_freeze and
do_detach are split where they take or release `state.attached` (a parking_lot
RwLock whose readers queue behind a waiting writer) or `dll_freeze_handles`; the
guard of an `if let` lives to the end of its body, as in Rust 2021. `retry_resolve`
is a third party that takes the write lock. `orphans` is a history variable: the
freezes that were active when their pipe or their app was lost.

Assumed: an attach takes seconds, and does not overtake a toggle or do_detach that
was in flight when it began (`Quiet`). The direct write that precedes a freeze
("prime") and the read-only statistics are left out.

### 2.5 Lua: LuaRuntime and LuaConsole

A VM is named by the order in which it was built; a registered callback is the VM
it belongs to, so that "the callback of a script that is gone" can be said. What a
script does is left open: it registers callbacks, calls a UFunction, fails, or ends.

| Model | Code |
|---|---|
| `Ensure`, `Ask`, `ClientLeaves`, `Joined` | the pipe worker: `ensure_runtime`, `run`/`stop`, the drop with its joins |
| `FirstBuild` … `Swap`, `Dispatch`, `Body*` | `worker_loop`: the channel, the new VM built outside the lock, the swap under it, the main chunk and callbacks |
| `Timer*`, `Key*` | the delayed thread (pop, then send) and the key poll |
| `Tick`, `Drain*`, `Closure*`, `PutBack`, `GameJoined` | the detour on the game's thread: a clone of ACTIVE_LUA, `drain_game_thread_queue`, and the drop if the clone was the last |
| `ScriptPrints`, `Pushed`, `Drains` | `OutputBuffer::push` with its drop marker, `drain` |
| `RunClicked` … `Install`, `StopClicked`, `Halted` | `run_lua_script`, `stop_lua_script` and the store |
| `Wakes`, `Emits`, `AsksStatus`, `TellsStopped` | the polling task of a run, which drains, emits, asks for the state, and says "stopped" once |

`quiet` (the newest VM that an acknowledged stop has ended) and `gap` (a line was
dropped and no marker has reached the host since) are history variables. The
console keeps of the runtime its state only. The user waits for one Lua command to
return before the next.

### 2.6 The other parts

Each is one component, with its own `Init`, `Next` and type predicate. As they share
no state with one another, their product would say no more than their sum: `MCParts`
and `MCThreads` hold all variables, the initial state picks the part that runs,
and every step leaves the other parts' variables alone. The states of a run add up,
and each property speaks of its own part. In the four parts of `MCThreads` something
must go on, so their liveness is checked there; of those in `MCParts` only the
cards have a liveness property.

* **ReflectionFreeze** (`MCThreads`). The heap is a set of objects with a slot, a
  value and a mirror. Levels are entered, a pawn is spawned (`Possess`), the root's slot
  seated on it some time later (`Reseat`), and any object freed at any time with the
  pointers to it left behind (`Frees`), between any two requests of a tick: check the
  cached object (`Check`: vtable and class), find anew (`Find`), walk the chain
  (`Walk`), write (`WriteValue`) or call (`CallReceiver`).
  Assumed: a freed object's memory has been reused so that its vtable is out of the
  module, or is unmapped; an object freed *during* the tick is excepted (`old`). The
  receiver of a call, which the code takes from its slot and compares with null
  only, may be a freed one in the model as in the code; no property covers it (5).
* **MatchingFreeze**. A tick finds the class's objects, then captures and stamps them one
  by one; OFF takes the map of originals whole and writes it back; a detach only
  aborts. `raced` remembers that a tick in flight overlapped a restore.
* **FeatureSpec**. A signature is its strategy and the set of what its file has;
  `Parse` chooses any of them. `Valid` is `validate()`, `Does` the requests of an
  operation and whether it can reach an `expect()`.
* **ProgressGrants**. The entries are loaded and freed between any two requests; listing
  (cut at MAX_INSTANCES), reading the tag of each, finding the two receivers, and
  the calls. The array of one loaded asset does not change while it is loaded.
* **FeatureCards**. resolve_all, the finalize pass, the read sweep, the badges the window
  forgets at "attached", probe loops, the retry task of each round and the user's
  own retry, while the player goes between menu, foot and vehicle. The image is at
  the same base in each launch, all requests succeed, and two empty cycles of the
  retry task outlast a retry of the user's.
* **PipeSession and PipeProtocol** (`MCThreads`). A frame is its kind, the number of
  the request it answers (history: nothing on the wire says it) and whether it fits
  the limit. `Inside` are the steps in which the worker is in the DLL's code; an eject
  unmaps it wherever it is, which is a crash of the game if it is inside.
  An answer that does not fit fills the pipe's buffer: the worker waits in WriteFile
  ("write") until a host has read it. A host that refuses it leaves the body unread and
  is out of step (`torn`) until it connects again: what it reads is a length from the
  middle (`ReceivedTorn`), which is refused, or met, or more than there is, so that it
  waits for the rest; what the worker writes behind such a body (`Behind`) is one with it.
  `PipeProtocol` is the table of replies per request of both DLLs, and of what both
  clients take. Oversize *requests* (256 MiB) are left out.
  `PipeCall` sees of all this a call per host: asked, running, answered, or lost.
  `CallOf` reads it off the host's step, the two directions of the pipe and the
  worker; a host whose connection has broken, or that has left a body unread, has
  lost its call, so an answer to another request, or a second one, maps to a step
  that the promise does not have.
* **WriterWatch**. Threads are born, run, trap and end while the watcher visits them
  one after the other. Assumed: a write of debug registers to a living, suspended
  thread takes effect.
* **DiscoverSession**. Values are integers or NaN, the file keeps them as doubles
  (`Double`); pages come and go between commands; `seen` is what the user has seen.
* **MemoryScan**. Memory is a sequence of bytes in pages, one of which may be
  unreadable; the four scanners go over it window by window, at any alignment of
  `Aligns`, which is the caller's to set; `Binds` is the choice of the only
  survivor. The widths keep the ratios word ≤ page ≤ window.
* **ObjectSearch**. The array's header, a slot, the class, the predicate are each a
  read; the game allocates, frees, reuses and adds chunks in between.
* **PropertyLayout**. Two workers walk classes without a lock and insert under one; a
  class is linked some time after it appears; names can fail to decode. Assumed: no
  class is unloaded.
* **UnrealLocate**. A launch puts the tables somewhere and goes from boot to loaded;
  lookalikes pass the cheap checks. Pattern, fingerprint and string search for
  the array, pattern and structure for the pool, the probes, the file.
* **KeybindStore**. Both indices as two functions, the file as one, the system's
  registrations as a set, other programs taking chords, refused registrations,
  saves that fail, restarts. The file is one that `save` wrote.

## 3. What is checked

Runs that must pass, with the states TLC finds:

| Run | Instance | Shows |
|---|---|---|
| `PatchToggle` (11,813) | 2 patches, 2 sites, one fragile, 2 builds, 2 toggles in flight | `DetachRestores`, `ChangesRecorded`, `ReadAgrees`, `OffReachable`, `OnlyKnownCode`, `RestoredInTheEnd` |
| `GameThreadCall` (243,954) | 1 caller, 2 calls, 3 game threads, UE5, steady and raced | the promise is implemented (`KeepsPromise`), `BreakpointsOwned`, `LeftClean`, `OncePerCall`, `CallAnswered` |
| `AttachLifecycle` (361,108) | 2 processes, 2 attach calls; the UI with 3 loops, or the hotkeys with 2 | `PausedWhileBusy`, `ExitNoticed`, `ClicksClosePipe` |
| `DllFreeze` (53,392) | 2 features, 2 slots, UI clicks | `SwitchShowsFreeze`, `StopsItsOwn`, `StoppedStaysOut`, `FreezeHolds`, `TogglesEnd`; also free of deadlock |
| `Parts` (238,070) | the eleven parts of `MCParts` | see below |
| `Threads` (228,530) | the four parts of `MCThreads` | see below |

| Property | Part | What it says |
|---|---|---|
| `OffUnstamps` | MatchingFreeze | switched off and at rest, every living object has its own value, whatever spawned, died and was detached, unless a tick in flight overlapped a restore |
| `OperationsServed` | FeatureSpec | no signature that validate() accepts leads an operation to an expect() or to a request that its engine does not serve |
| `WatchLeavesClean` | WriterWatch | once a watch is over no living thread keeps an armed register |
| `TargetKept` | DiscoverSession | with true predicates the wanted place stays a candidate with its last value (64-bit values above 2^53 excepted) |
| `ScanComplete` | MemoryScan | Glacier's scan and the pointer scan find the word only; the first all of them at the alignment of a word, at one that divides the page all but those across two windows or beside a hole, the second all up to a hole; a pattern that is there is found; a bound address is the only one that passes (the UE5 scan: `HeapScanComplete`) |
| `StayedIsFound` | ObjectSearch | an object that stays in the array throughout is not missed |
| `ServedFits` | PropertyLayout | a cached property, and a function called, is the class's own or a super's, of that name, with a large enough buffer |
| `ReportsReal` | UnrealLocate | the tables reported are those of this launch |
| `PressReachesOwner` | KeybindStore | between commands the indices, the file's reader and the system agree |
| `GrantComplete` | ProgressGrants | a grant that reports success has granted every tagged entry loaded throughout, if it was not cut short and the pipe held |
| `CardsSettle` | FeatureCards | a feature whose level is loaded does not stay pending, and no badge stays on "waiting" once the player can be read |
| `NothingLeftOver` | LuaRuntime | after an acknowledged stop no older script runs on any thread, and no left-over dispatch runs a new callback early |
| `RuntimeMovesOn` | LuaRuntime | a dropped runtime ends its threads; a call into the game returns |
| `NotIntoFreed`, `FreezeFollows` | ReflectionFreeze | no tick writes into, or goes on through, an object freed before it; a freeze finds the new object after each level change |
| `AnswersOwn`, `HostAnswered` | PipeSession | the next frame is the answer to this request, of a kind its client takes; a host in step that waits is answered or finds the pipe broken |
| `RequestIsCall` | PipeSession | a request is taken up at most once, and its caller gets an answer to it or an error (implements `PipeCall`) |
| `LossShown` | LuaConsole | a lost line is announced by a marker that is in the ring, due, or on its way |
| `ButtonTurnsBack` | LuaConsole | the button of the last script turns back once it no longer runs |

`PatchToggle!TypeOK` is the one type invariant that a run checks as well; those of
all modules (`TypeOK`, and of the parts `MatchTypeOK`, `LuaTypeOK` and so on) are
proved (4).

Why these bounds are enough:

* `PatchToggle`: the second build moves one site onto the other's old address, so
  that every confusion of a stale cache is there, and two toggles suffice for a
  decision to be overtaken by another; the model itself has no counter to bound.
* `GameThreadCall` needs three threads (one late, one claiming, one trapped by the
  teardown) and a second call (stale flags and the cached thread of a call, forgotten by
  the next).
* `AttachLifecycle` needs two processes of one game and two calls, so that an exit
  watch, a retry task or a loop can outlive its attach and meet the next; one loop
  that is left and one that is started are enough for the hotkeys (`MaxPressed`).
* `DllFreeze` needs two features for a handle number to name a freeze of another
  feature after a restart, and two slots for one box to be gone while another is hurt.
* `LuaRuntime`: three VMs are the first, the one of a run and the one of a stop (or of a
  second run); one delayed id, one waiting command and one closure can each
  still be of the VM before, which is the case in question.
* `LuaConsole`: a ring of two holds a line and the marker, or two of either; a drain of one
  leaves something behind; two runs of two scripts overlap.
* `ReflectionFreeze`: four objects are two levels with a root and a pawn each, or one
  with three pawns; at most two live at once (`MaxLive`), so that a
  pawn comes once the last has been freed, to which the root's slot still points.
* `PipeSession`: two hosts, one of which reconnects. A host's second and third request
  may find what the first has left in the pipe. In `PipeTorn` one host suffices, with
  Hello, a request whose answer it refuses, and one more.
* `MatchingFreeze`, `WriterWatch`: one object or thread that is there at the start of
  a pass, and one that comes or goes during it; a third thread for the watch (one
  armed, one that ends, one that is born).
* `MemoryScan`: a word is two bytes, a page one word, a window two pages and the region
  up to seven bytes: two windows, a word across their border, a tail shorter than a word.
  Alignments 1, 2 and 3 are less than a word, a word, and no divisor of the page.
* `ObjectSearch`: two slots in two chunks, two addresses, a result list of one: a
  hole, a missing chunk, a reused slot and a cut list. `PropertyLayout`: a class, one
  derived from it that overrides the function, and an unrelated one with the same
  names.
* `UnrealLocate`, `FeatureCards`, `ProgressGrants`: two launches at two places with
  two builds; two attaches, so that a retry task outlives its round; three entries,
  one excluded, with room for two.
* `KeybindStore`: two features and three chords: a chord to steal, one to take
  instead, and one that another program takes.
* `DiscoverSession`: two places, values up to three, doubles exact up to one.

Runs that must fail; each is a divergence between a documented promise and the
code ("findings" quotes both):

| Run | Violated | In short |
|---|---|---|
| `GameThreadLate` | `TimedOutNeverRuns` | Glacier: a job claimed before the deadline runs after its caller was told that it did not |
| `GameThreadTwo` | `OwnAnswer` | UE5: Lua and the pipe worker share the executor's statics without a lock; one gets the other's answer |
| `AttachHotkey` | `DetachClosesPipe` | a freeze hotkey that registers its loop just after do_detach has drained the handles keeps the session, and the pipe, for ever |
| `HeapScan` | `HeapScanComplete` | the UE5 heap scan steps from the first byte of each window, and windows overlap by a word less one byte: aligned words behind the first window are missed |
| `PipeTorn` | `SendFrameReturns` | a host that has refused an answer takes a length from the middle of its body, and may wait for ever for bytes that nobody sends |
| `ReflectRestore` | `OffRestores` | switching off a freeze behind a pointer writes the snapshot over the pointer, and leaves the value |

Every property of a passing run has a mutant in `PROJECT.json`: an operator marked
"A deliberate error" in its module, which changes a definition the way a bug of
that code would; with it TLC finds the property violated.

**Fairness.** Weak fairness where the code is a loop or a thread that always proceeds:
restore_all and a request in flight (`PatchToggle`), a thread inside the exception
handler and a caller, whose waits all have deadlines (`GameThreadCall`), commands and
tasks once started (`AttachLifecycle`, in `MCAttach` as far as its bound lets them
start a loop, `CardsFairness`, `ConsoleFairness`), the 60 Hz thread (`DllFreeze`), the
interval of a freeze (`ReflFairness`), the pipe worker and a host in step that has
something to read, but not what follows from a host that is out of step
(`PipeFairness`), the threads of a runtime and the game's thread (`LuaFairness`).
Strong fairness for the steps of `DllFreeze` that take a lock, because a lock is
handed on even if others keep taking it, and for the end of a Lua chunk or callback
and the return of its call: a script is assumed to end (one that does not is under
Known divergences). Nothing is assumed of the user, of exits and launches, of what the
game loads, or of the game reaching the executor's rendezvous. `CHECK_DEADLOCK FALSE`
where the calls are bounded and the system ends: all runs but `PatchToggle` and
`DllFreeze`.

## 4. What is proved

Every invariant and every action property of a passing run, and both refinements,
are theorems that TLAPS checks, for every value of the constants that satisfies the
named assumptions: any number of patches, features, hosts, threads, scripts,
objects, any capacity. Beside them there are theorems that no run checks: that the
parts composed by `MCParts` and `MCThreads` behave as their modules say, that nobody
waits in a circle (the locks of the DLL-side freeze, the threads of the Lua
runtime, the two ends of the pipe), and for which features OFF does restore.

| Module | Theorem | States |
|---|---|---|
| `PatchToggle_proofs` | `Invariance`, `TypeCorrect` | `IInv`, `TypeOK` |
| | `Recorded_Changes`, `Restored` | `ChangesRecorded`, `DetachRestores` |
| | `Agreement`, `Reachability`, `KnownCode` | `ReadAgrees`, `OffReachable`, `OnlyKnownCode` |
| `DllFreeze_proofs` | `TypeCorrect`, `SwitchCorrect` (`OnlyUi`) | `TypeOK`, `SwitchShowsFreeze` |
| | `StopsCorrect`, `StoppedCorrect` | `StopsItsOwn`, `StoppedStaysOut` |
| | `NoCircleCorrect` (`OnlyUi`) | `NoCircle`: no deadlock of the locks |
| `GameThreadCall_proofs` | `TypeCorrect`, `OwnedCorrect` | `TypeOK`, `BreakpointsOwned` |
| | `OnceRaced` (`Alone`) | of the first call of each caller, what `OncePerCall` says, at any pace |
| | `OnceSerial` (`Serial`) | `OncePerCall` |
| | `CleanCorrect`, `PromiseKept` (`Serial`) | `LeftClean`, `KeepsPromise` (the refinement) |
| | `AnswersSerial` (`Serial`, steady) | `TimedOutNeverRuns` and `OwnAnswer`, which runs of other instances violate |
| `AttachLifecycle_proofs` | `TypeCorrect`, `PausedCorrect` | `TypeOK`, `PausedWhileBusy` |
| `Features_proofs` | `MatchTypeCorrect`, `OffCorrect` | `MatchTypeOK`, `OffUnstamps` |
| | `SpecTypeCorrect`, `ServedCorrect` | `SpecTypeOK`, `OperationsServed` |
| | `CardsTypeCorrect` | `CardsTypeOK` |
| | `KeysTypeCorrect`, `PressCorrect`, `FileCorrect` | `KeysTypeOK`, `PressReachesOwner`, no chord twice in the file |
| `Threads_proofs` | `ConsoleTypeCorrect`, `LossCorrect` | `ConsoleTypeOK`, `LossShown` |
| | `LuaTypeCorrect`, `NothingLeftCorrect` | `LuaTypeOK`, `NothingLeftOver` |
| | `NoLuaCircleCorrect` | `NoLuaCircle`: the five threads never wait in a circle |
| | `PipeTypeCorrect`, `OwnCorrect` | `PipeTypeOK`, `AnswersOwn` |
| | `CallImplemented` | `RequestIsCall` (the refinement) |
| | `NeverBothCorrect` | `NeverBothWait`: a host in step and the worker never block on each other |
| | `ReflTypeCorrect`, `FreedCorrect` | `ReflTypeOK`, `NotIntoFreed` |
| | `DirectRestores` (see 4.1) | `OffRestores`, which a run of the other shape violates |
| | `ThreadsTypeCorrect`, `ThreadsCorrect` | the type and the four invariants of the run `Threads` |
| `Tools_proofs` | `WatchTypeCorrect`, `CleanWatch` | `WatchTypeOK`, `WatchLeavesClean` |
| | `LocateTypeCorrect`, `RealTables` | `LocateTypeOK`, `ReportsReal` |
| | `DiscTypeCorrect`, `TargetCorrect` | `DiscTypeOK`, `TargetKept` |
| | `SearchTypeCorrect`, `StayedCorrect` | `SearchTypeOK`, `StayedIsFound` |
| | `GrantTypeCorrect`, `GrantedCorrect` | `GrantTypeOK`, `GrantComplete` |
| | `LayoutTypeCorrect`, `FitCorrect` | `LayoutTypeOK`, `ServedFits` |
| | `ScanTypeCorrect`, `CompleteCorrect` | `ScanTypeOK`, `ScanComplete` |
| `Parts_proofs` | `PartsTypeCorrect`, `PartsCorrect` | the type and the ten invariants of the run `Parts` |

### 4.1 Hypotheses

A theorem rests on the assumption that its module names, which every run evaluates,
and where the table says so on one more:

* `CodeAssumption`, `PatchAssumption`: "no value" is neither an address nor code; no
  patch leaves the bytes that another (or the same) feature takes for original, two
  features do not share their original bytes, and a patch's first byte is not that of
  its original. The two shipped code patches
  (`games/glacier-007/signatures/{no_reload,inf_ammo}.ron`) satisfy them; a third one
  has to be checked against them.
* `OnlyUi`: the card is the only one that toggles. The hotkey asks for "on" whatever is
  there, and a second "on" leaves a slot behind that no handle names (5). It
  also closes the circle of locks that `NoCircleCorrect` excludes. The other theorems
  about the DLL's freeze hold whoever toggles. `NobodyAssumption`: the mark of a lock
  that nobody holds is not the name of an actor.
* `Alone`: one caller, the premise the code states for its statics ("single
  concurrent call"). That Lua and the pipe worker can break it is a finding
  (`GameThreadTwo`). `Serial` adds the grace period of the UE5 DLL, which the promise
  needs; what the promise says, it says of steady executions (2.2). `OnceRaced` does
  without either, for first calls: any length of the job, any interleaving, both
  DLLs. `OwnedCorrect` has no hypothesis: any number of callers, at any pace.
* `DirectRestores` is about features of the shape "direct" (the value is in the root
  object), and of behaviours in which no freeze is on before its snapshot is taken
  (`[](loop.on => bound.taken)`): the snapshot is taken by resolve_all and by the retry
  task, but not by the user's own retry. Without either it is false: `ReflectRestore`
  is the run of the other shape, section 5 has the missing snapshot. The model takes a
  snapshot once; the one that the retry task takes again while the value is frozen
  (section 5) is therefore outside the theorem.
* `ScanAssumption`: a page is a whole number of words, a window of pages, and larger
  than a word (8 bytes, 4096, 256 KiB or 4 MiB); the alignments include a word's and
  leave room for a word in a window.
* `LayoutAssumption` says only what the constants are: neither that the supers end
  within the limit of hops (a list is then cut short), nor that no member replaces
  a super's.

*What the theorems do not say.* `original_bytes` may be as short as two bytes
(`89 0A`). After a game update the cached address can hold those two bytes by
chance: `quick_check` accepts it, and another instruction than the feature's is
patched. `KnownCode` says that only original bytes are overwritten, which is what the
code compares, not that they are the feature's instruction. `OffCorrect` excepts, as
its property does, a tick that overlapped a restore.

### 4.2 Arguments

None of the properties is inductive. Each proof module defines the strengthening (an
invariant whose parts are named), shows that it holds initially and is kept by
each action, one lemma per group of actions, and reads the property off it.

* **PatchToggle** (`IInv`). `DetachRestores` needs to know what the registry holds
  (`ChangesRecorded`), which needs that a restore, which verifies nothing, is only
  ever sent to a site of its feature (`FoundRight`: what is found is a site that
  started with this feature's original bytes, or holds its patch on record), that each
  record is the bytes from before the patch (`RecordsRight`), that text is only ever
  original or that site's patch (`KnownText`), and that the lists are empty in the
  phases in which they must be (`Phases`). The heart is `LocateSound`: an address,
  cached or scanned, is taken only while it holds the feature's original bytes.
* **DllFreeze** (`IInv`). The switch, the host's handle and the toggle in flight
  together name the one slot that runs for a feature (`Accounts`); a detach has
  stopped what it has drained (`DetachAccounts`); without a pipe, what still runs was
  left behind by its loss (`Orphaned`). That handles count from 1 again in a new
  process is why `Started` and `Orphaned` are needed. `LocksHeld` says who holds which
  lock at which step; who waits for whom (`WaitsFor`) is then a relation of at most
  a reader, a writer, the holder of the map and who waits for the main thread, and
  each set of actors has one that waits for none of the others.
* **GameThreadCall**. `Handled`: a breakpoint belongs to a caller that still has to
  disarm it, and its handler is there from before its first until after its last one.
  `OnceInv`: of the threads past the claim there is one, and it holds this call's job.
  `SerialInv`: where a game thread can be, by where its caller is; from it follow
  `LeftClean` and that every step maps to a step of `GameThreadPromise` or a stutter.
* **AttachLifecycle** (`IInv`). `PausedWhileBusy` is nearly inductive; what is missing is
  that a watch which is about to resume is not overwritten (`Unwatched`). There is no
  safety core of `ClicksClosePipe` among the theorems: that each loop of a living
  session is registered with the attached one is an invariant of the UI's executions
  in the run `AttachLifecycle`, with two calls of attach, but not for every overlap of
  more of them.
* **KeybindStore** (`KeysInv`). While a command is half-way, the system's registrations are
  those of the index to come (`Coming`), but for one chord that is being released.
* **MatchingFreeze** (`MatchInv`). Every stamp has its original in one of the two maps, and
  none of these is a stamp of our own, as long as no tick and restore have overlapped
  (`Remembered`). **ReflectionFreeze** (`ReflInv`): what a tick holds was alive when the
  tick began, whichever address it came from; `old` only has the dead. For
  `DirectRestores`: until the snapshot nothing has been frozen, so that what it holds
  is the game's own value (`SnapIsStock`), and no later tick or transition overwrites it.
* **LuaConsole** (`ConsoleInv`). Lines are with a task only between taking and
  telling them (`Taken`), and the task of a new run replaces one that never ran
  (`Fresh`). **LuaRuntime** (`LuaInv`): the VM in the slot, and each VM at work, is
  newer than any a stop has ended (`Newest`), code runs under the VM's lock
  (`Locking`), and an id once popped is never given again (`Popped`).
  `NoLuaCircle`: who waits for an acknowledgement is owed it, by the worker or by
  one command in the channel (`OwedAnswer`), and who joins the threads has told them
  to end (`ToldToEnd`); so the waiting goes from the pipe worker or the game's thread
  to the Lua worker, from there to the lock, the channel or the game, and never back.
* **PipeSession** (`PipeInv`). Between a host that has left no body unread and the
  worker there is one frame or none: its request, or the answer to it (`Owns`). That
  needs to know whom the instance is for (`Hosting`), that a host before its
  welcome has sent its Hello alone (`Greeting`), that no Hello comes after
  it and that an answer the worker waits to have read is one that does not fit
  (`Gated`), and who can have left a body unread (`Tearing`). `CallImplemented` is
  read off the same invariant: each step changes the mapped call of one host as
  `PipeCall` allows, and leaves those of the others, whose frames it does not touch;
  the closing of the connection loses the call of whoever waits. `NeverBothWait`
  needs that a host in step which waits has its frame in the pipe, unless the worker is
  on its way out (`Attended`).
* **WriterWatch**. The armed threads are among those the watcher still answers for
  (`Answerable`). **UnrealLocate**: from the pool on, what is found is real, as long as
  the launch that was opened goes on. **DiscoverSession**: the place looked for is mapped
  and a number whenever the file is written. **ObjectSearch**: a staying object is
  in a slot that the walk has yet to come to, at hand, or found.
* **ProgressGrants** (`GrantInv`). What an entry is owed stays with the command: it is
  listed, or its tag is read, or it is answered (`Covered`).
* **PropertyLayout** (`LayoutInv`). A walk never leaves the supers of its class, and a
  member keeps the class it was seen in, so whose list is stored first does not matter.
* **MemoryScan** (`ScanInv`). Where the scan has been, all words are found (`Passed`). The
  windows of the Glacier scan stay aligned to pages and words, so a word at its own
  alignment never crosses one, and at a smaller one only those across a border are
  missed (`Across`); those of the pointer scan do not, but overlap by a word less one byte
  and count their first place from the address. Both are lemmas about quotients and
  remainders; the pattern scan needs that a set of numbers has a least element.
* **MCThreads, MCParts** (`ThreadsCompose`, `PartsCompose`). An initial state of the whole
  is one of each part, and each step of the whole is a step or a stutter of each part,
  because it leaves the variables of the others alone; what is proved of a part
  then holds of the whole.

### 4.3 What is left to TLC

Liveness under fairness and ENABLED are out of the prover's reach: `RestoredInTheEnd`,
`CallAnswered`, `ExitNoticed`, `ClicksClosePipe`, `FreezeHolds`, `TogglesEnd`,
`CardsSettle`, `RuntimeMovesOn`, `FreezeFollows`, `HostAnswered`, `ButtonTurnsBack`.
So is induction through the library's theorems; no module declares a RECURSIVE
operator, and what is recursive in the code (the chain of supers, a sorted list) is
defined by what it is: the least set closed under a step, the listing in increasing
order. Of `TogglesEnd`, `HostAnswered` and `RuntimeMovesOn` the half that is safety is
proved (nobody waits in a circle); that each who can go on does is the fairness of
section 3, and TLC's.

## 5. Known divergences

What the code does where a comment, a name or a user would expect something else.
The six runs that must fail show the first kind; the rest was met while reading the
code for its model, which follows the code, and is stated in the comments of
the module or excepted in its property.

*Patches and freezes.*
* Glacier reads nothing at attach, so after a detach and an attach the switch of a patch
  is drawn on (`app-store.ts:268`, drawn by `feature-card.tsx:448`) over code that the
  detach has restored; its first click changes nothing.
* The hotkey of a DLL-side freeze (`keybinds.rs:342`) does not look at
  `dll_freeze_handles`: it can only switch the freeze on, registers a second slot,
  and overwrites the handle of the first.
* With that hotkey as a second toggler, `TogglesEnd` of `DllFreeze` is violated by a
  cycle of three: set_freeze(off) holds the handle map and waits to read `attached`,
  set_freeze(on) reads and waits for the map, a writer is queued between them.
* Freezes of the DLL go on after a lost pipe or a crash of the app, with no handle to
  stop them (glacier `freeze.rs` means this to be so); commands.rs:945 says that the
  disconnect "would reap the DLL freeze thread anyway". Attaching to a second
  game replaces the slot without do_detach, so that its loops are never aborted.
* A freeze behind a deref chain is not undone (`ReflectRestore`). Neither is one
  whose feature was resolved by the user's retry (no snapshot is taken), nor one
  whose snapshot was taken, or overwritten by the retry task, while the value was
  frozen. `set_freeze(false)` with no address writes at 0.
* Matching freeze: a tick in flight when OFF restores can stamp its object again; the
  originals outlive a detach and even the process, and are then written to
  addresses of another one (feature.rs:262-264 says that the feature is dropped on detach).
* The receiver of a call is checked for null only (feature.rs:1004-1016, 1425-1440),
  though feature.rs:583-590 says that during a transition a slot can point to an object
  that is freed or half built: the call may go to a freed one. The montage list is read once
  and stays cached after a detach; the pawn's class is read at a hard-coded 0x10.

*Cards.*
* Matching and montage features attached at the main menu are classified Failed and
  never retried (feature.rs:1896-1899 and 1925-1928 are not on the list of
  attach.rs:203-218; contradicts attach.rs:160-176 and commands.rs:658-665).
* `App.tsx:179-186` clears the badge that the initial sweep has just emitted, and an
  edge-triggered probe does not emit it again (contradicts commands.rs:545-554). A feature
  promoted by the retry task gets no probe loop (contradicts commands.rs:1075-1077).
* A `per_feature` reply computed before the sweep may overwrite a promoted card; a
  card set to pending by hand after the task has ended is not retried; two tasks may
  run at once after a quick re-attach. attach.rs:250 ("Same process (module_base
  match)") does not follow from the base alone.

*Lua.*
* When script B replaces A, or fails over it, or after a detach, A's button stays on Stop
  and Stop does nothing (commands.rs:2025-2093, 2097-2150; contradicts 2174-2176 and
  attach.rs:113-114). Lines left in the ring appear under the next script.
* output.rs:116-118 promises one marker; once the ring is saturated there are several,
  and an evicted marker loses its count.
* A dispatch of an id that is no longer known sets the state to Stopped though another
  script runs. A main chunk that does not end blocks the worker, and with it stop and
  drop, for ever. There is a window between `detour.enable()` and the store of HOOK.
* A closure of ExecuteInGameThread that calls a UFunction always times out, since it
  is on the game's thread already (contradicts game_thread_hook.rs:11-15).

*Pipe.*
* ERROR_PIPE_CONNECTED is compared with a wrong HRESULT (glacier worker.rs:134-135,
  and batman's): the pipe of a client that opens the instance before ConnectNamedPipe
  is closed, and the client has to come again.
* A reply beyond MAX_FRAME_BYTES leaves its body in the pipe (glacier worker.rs:427,
  transport.rs:233), and the host reads lengths from the middle of it until it
  reconnects, or waits for ever for the bytes one of them announces (`PipeTorn`). No
  request has a timeout; FlushFileBuffers waits for the host.
* SHUTDOWN is looked at only before the loop and after ConnectNamedPipe; an eject
  while a client is connected unmaps the code under the worker and crashes the game.
  The doc of `eject` (injector.rs:266-271) says that the worker keeps the DLL loaded;
  nothing gives it a reference.

*The executor on the game's thread.*
* A trap that is raised before the teardown disarms, but dispatched after
  RemoveVectoredExceptionHandler (batman gthread.rs:349-355), finds no handler, and the
  game dies: nothing makes the teardown wait for it. The comment at line 158 has the
  threads that lost the claim "cleared by teardown or by their own (post-DONE) trap". The
  model has the step (`Unhandled`), and `BreakpointsOwned` says what does hold: each trap
  is *raised* with its handler in place.
* A thread that the teardown has caught between its look at DONE and its exchange on
  CLAIMED may find the flags of the next call: it executes the call that is over once
  more, or the next one out of turn (2.2, raced executions).

*Scanners, reflection, tool.*
* The UE5 heap scanner counts alignment from the window, and windows overlap by seven
  bytes: aligned words beyond the first 4 MiB of a region are missed (`HeapScan`;
  `heap_scan.rs:21,65-66` promise the contrary). Glacier's scan at an alignment below a
  word misses the words across two windows, or across two pages of a window with a hole
  (scan.rs:199-203). Its AOB search stops at `.text` if it has a hit there.
* An object freed and reused between the check of its class and of its name can be
  reported by a search.
* A property list cut short by an unlinked class is cached for good (contradicts
  session.rs:242-246 and reflection.rs:15), a failed read of an offset as 0. The
  function cache keeps a super's function over an override that is linked later. An
  error of call_ufunction that contains "not found" becomes `Ok(None)`.
* ue5-locate saves a partial probe and never repeats it; the weak check of the first pattern
  pre-empts the fingerprint; one shipped game's pair of field offsets is not among
  the candidates.
* The write watch sets HIT before the registers that go with it; a trap may be pending when
  the handler is removed; the debugger swallows the exceptions of its first 800 ms.
* The tool's session saves NaN as null, which no later command can read; 64-bit values
  above 2^53 lose their last bits; emit can pair an old pattern with newer bytes;
  narrow re-attaches by name, whatever the process.

*Grants, keybinds, signatures.*
* A grant skips entries whose tag cannot be read, and reports success with none
  granted if none can (feature.rs:717-720, 886-892); it ignores that its list was cut
  at 4096; nothing is rolled back. `unlock_all_fast_travel.toml` sends 3 where its
  description says 2.
* Rebinding a feature to the chord it has does not ask the system again, so a refused
  chord stays refused. Between the swap in the system and the write of the store a
  press reaches the previous owner. A file edited by hand with one chord for two
  features gives it to the one that a HashMap yields last.
* validate() accepts `also_write` together with a deref chain, which the comment at
  feature.rs:2317-2320 says it refuses; the mirrors are then not written. It accepts
  reflection together with a pointer chain as well. `quick_check` trusts cached
  addresses of the strategies that are neither patches nor reflection.

## 6. What is not modelled

* Settings, profile and script files, manifests and the registry, the developer CLI: no
  concurrency and no state beyond a file written whole, or data fixed at build time.
* The polling of the process list (`watcher.rs`): a comparison of two lists, whose
  only shared state, the pause, is in `AttachLifecycle`.
* The montage tick, and the status lines of features.
* The type walk of the Glacier engine and the locator inside the UE5 DLL (the tool's is
  modelled); the detour library and its patching of ProcessEvent; the listing of memory
  regions; the Win32 calls within one injection.
* Dumps and listings of `discover`, which print what they read.
* In the modelled parts: the contents of messages and errors, logging, progress
  events; the addresses that attach resolves in `AttachLifecycle`; panics inside the
  DLLs' handlers other than as the end of a client. Attaching to a second game while one
  is attached is allowed by `AttachLifecycle`, whose runs have one game.

## 7. Plan

The model is as broad as the code's own logic, but for section 6, and its safety
is proved. What would say more:

1. Abstract specifications of two more components: the freezes as a map from features
   to "on" or "off" (`DllFreeze`), the registered hotkeys as one map (`KeybindStore`).
   Their content is what `SwitchCorrect` and `PressCorrect` state.
2. A safety core of `DetachClosesPipe` for overlapping calls of attach (4.2).
