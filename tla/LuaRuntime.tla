----------------------------- MODULE LuaRuntime -----------------------------
(***************************************************************************)
(* The Lua runtime of a pipe client inside the UE5 game.                   *)
(*                                                                         *)
(*   src/crates/ue5-lua/src/runtime.rs, workers.rs, bindings.rs            *)
(*   src/crates/batman-lod-dll/src/ops/lua.rs, lua_host.rs                 *)
(*   src/crates/batman-lod-dll/src/game_thread_hook.rs                     *)
(*                                                                         *)
(* Five threads meet here: the pipe worker (conn), which calls run and     *)
(* stop and drops the runtime; the Lua worker, which takes commands from   *)
(* one channel; the timer and the key poll, which send to it; and the      *)
(* game's own thread, which drains the game-thread queue from the          *)
(* ProcessEvent detour.  A VM is named by the order in which it was built. *)
(* What a script does is left open: it may register callbacks, call a      *)
(* UFunction, fail or end.                                                 *)
(***************************************************************************)
EXTENDS Naturals, Sequences

CONSTANTS
    MaxVms,      \* bound: the VMs ever built
    MaxDelayed,  \* bound: the ids of delayed callbacks ever given out
    MaxInbox,    \* bound: the commands waiting in the channel
    MaxQueue     \* bound: the closures waiting for the game thread

ASSUME LuaAssumption == {MaxVms, MaxDelayed, MaxInbox, MaxQueue} \subseteq Nat \ {0}

Vms == 1 .. MaxVms
NoVm == 0
Ids == 1 .. MaxDelayed

\* The messages to the Lua worker.
Command ==
    [kind : {"run", "stop", "shutdown", "key"}] \cup [kind : {"delayed"}, id : Ids]

VARIABLES
    lua,        \* RuntimeInner.lua: the VM in the slot, or NoVm
    lock,       \* who holds its mutex: "free", "worker" or "game"
    built,      \* the VMs built so far
    script,     \* RuntimeInner.state: "Idle", "Running" or "Stopped"
    inbox,      \* the channel of commands
    workers,    \* Workers: the tables of callbacks, with the VM of each key
    shutdown,   \* the shutdown flag
    worker,     \* the Lua worker: its step, its command, the VM whose code it runs
    timer,      \* the delayed thread: alive, and the id it has popped, or 0
    keys,       \* the key poll thread is alive
    game,       \* the game's thread: its step, what it drained, the VM whose code it runs
    conn,       \* the pipe worker: its step
    active,     \* ACTIVE_LUA holds the runtime
    quiet       \* history: the newest VM that an acknowledged stop has ended

luaVars == <<lua, lock, built, script, inbox, workers, shutdown, worker, timer,
             keys, game, conn, active, quiet>>

LuaTypeOK ==
    /\ {lua, built, quiet} \subseteq {NoVm} \cup Vms
    /\ lock \in {"free", "worker", "game"}
    /\ script \in {"Idle", "Running", "Stopped"}
    /\ inbox \in Seq(Command)
    /\ workers \in [delayed : SUBSET Ids, callbacks : [Ids -> {NoVm} \cup Vms],
                    keybind : {NoVm} \cup Vms, gameThread : Seq(Vms), next : 1 .. MaxDelayed + 1]
    /\ worker \in [at : {"off", "start", "degraded", "recv", "build", "swap", "lock",
                         "body", "call", "gone"},
                   cmd : Command, runs : {NoVm} \cup Vms]
    /\ timer \in [alive : BOOLEAN, due : {0} \cup Ids]
    /\ game \in [at : {"engine", "clone", "drain", "body", "call", "put", "join"},
                 pending : Seq(Vms), runs : {NoVm} \cup Vms]
    /\ conn \in {"new", "idle", "asked", "join", "gone"}
    /\ {shutdown, keys, active} \subseteq BOOLEAN

NoWorkers == [delayed |-> {}, callbacks |-> [i \in Ids |-> NoVm], keybind |-> NoVm,
              gameThread |-> << >>, next |-> 1]

LuaInit ==
    /\ lua = NoVm /\ lock = "free" /\ built = 0 /\ script = "Idle"
    /\ inbox = << >> /\ workers = NoWorkers /\ shutdown = FALSE
    /\ worker = [at |-> "off", cmd |-> [kind |-> "shutdown"], runs |-> NoVm]
    /\ timer = [alive |-> FALSE, due |-> 0] /\ keys = FALSE
    /\ game = [at |-> "engine", pending |-> << >>, runs |-> NoVm]
    /\ conn = "new" /\ active = FALSE /\ quiet = NoVm

-----------------------------------------------------------------------------
(* The tables of callbacks.                                                 *)

\* Workers::clear.  The ids given out so far are not given out again.
Cleared(w) == [NoWorkers EXCEPT !.next = w.next]

\* What one registration by a script in VM v leaves in the tables:
\* RegisterKeyBind, ExecuteInGameThread or ExecuteWithDelay.
Registrations(w, v) ==
    {[w EXCEPT !.keybind = v]}
    \cup {[w EXCEPT !.gameThread = Append(@, v)] : n \in {Len(w.gameThread)} \cap 0 .. MaxQueue - 1}
    \cup {[w EXCEPT !.next = i + 1, !.callbacks[i] = v, !.delayed = @ \cup {i}] :
              i \in {w.next} \cap Ids}

-----------------------------------------------------------------------------
(* The pipe worker.                                                         *)

\* LuaState::ensure: the runtime with its three threads, ACTIVE_LUA, the detour.
Ensure ==
    /\ conn = "new"
    /\ conn' = "idle" /\ active' = TRUE
    /\ worker' = [worker EXCEPT !.at = "start"]
    /\ timer' = [timer EXCEPT !.alive = TRUE] /\ keys' = TRUE
    /\ UNCHANGED <<lua, lock, built, script, inbox, workers, shutdown, game, quiet>>

Send(c) == inbox' = Append(inbox, c)

\* LuaRuntime::run and stop: they wait for the acknowledgement.
Ask(kind) ==
    /\ conn = "idle" /\ built < MaxVms /\ Len(inbox) < MaxInbox
    /\ Send([kind |-> kind]) /\ conn' = "asked"
    /\ UNCHANGED <<lua, lock, built, script, workers, shutdown, worker, timer, keys,
                   game, active, quiet>>

\* LuaRuntime::drop, before it joins the three threads.
Teardown == Send([kind |-> "shutdown"]) /\ shutdown' = TRUE

\* The game's thread holds a clone of ACTIVE_LUA.
GameHolds == game.at \in {"clone", "drain", "body", "call", "put"}

\* ConnState is dropped with its client: ACTIVE_LUA is cleared, then the
\* connection's reference goes.  Whoever drops the last one tears down.
ClientLeaves ==
    /\ conn = "idle"
    /\ active' = FALSE
    /\ IF GameHolds
         THEN conn' = "gone" /\ UNCHANGED <<inbox, shutdown>>
         ELSE conn' = "join" /\ Teardown
    /\ UNCHANGED <<lua, lock, built, script, workers, worker, timer, keys, game, quiet>>

Ended == worker.at = "gone" /\ ~timer.alive /\ ~keys

Joined ==
    /\ conn = "join" /\ Ended
    /\ conn' = "gone"
    /\ UNCHANGED <<lua, lock, built, script, inbox, workers, shutdown, worker, timer,
                   keys, game, active, quiet>>

-----------------------------------------------------------------------------
(* The Lua worker: worker_loop.                                             *)

Goto(step) == worker' = [worker EXCEPT !.at = step, !.runs = NoVm]

\* After each command the flag is looked at, unless the arm ended in `continue`.
NextCommand == Goto(IF shutdown THEN "gone" ELSE "recv")

WorkerOnly == UNCHANGED <<shutdown, timer, keys, game, active>>

FirstBuild ==
    /\ worker.at = "start" /\ lock = "free"
    /\ \/ lua' = built + 1 /\ built' = built + 1 /\ Goto("recv") /\ UNCHANGED script
       \/ script' = "Stopped" /\ Goto("degraded") /\ UNCHANGED <<lua, built>>
    /\ UNCHANGED <<lock, inbox, workers, conn, quiet>> /\ WorkerOnly

\* Without a VM a command is dropped, which the caller sees as an error.
Refuse ==
    /\ worker.at = "degraded" /\ inbox # << >>
    /\ inbox' = Tail(inbox)
    /\ Goto(IF Head(inbox).kind = "shutdown" THEN "gone" ELSE "degraded")
    /\ conn' = IF Head(inbox).kind \in {"run", "stop"} THEN "idle" ELSE conn
    /\ UNCHANGED <<lua, lock, built, script, workers, quiet>> /\ WorkerOnly

\* A Run or a Stop empties the tables before the new VM is built.
Receive ==
    /\ worker.at = "recv" /\ inbox # << >>
    /\ inbox' = Tail(inbox)
    /\ LET c == Head(inbox) IN
         /\ worker' = [worker EXCEPT !.cmd = c,
                          !.at = CASE c.kind = "shutdown" -> "gone"
                                   [] c.kind \in {"run", "stop"} -> "build"
                                   [] OTHER -> "lock"]
         /\ workers' = IF c.kind \in {"run", "stop"} THEN Cleared(workers) ELSE workers
    /\ UNCHANGED <<lua, lock, built, script, conn, quiet>> /\ WorkerOnly

\* The new VM is built outside the lock.
Build ==
    /\ worker.at = "build" /\ built < MaxVms
    /\ built' = built + 1 /\ Goto("swap")
    /\ script' = IF worker.cmd.kind = "run" THEN "Running" ELSE script
    /\ UNCHANGED <<lua, lock, inbox, workers, conn, quiet>> /\ WorkerOnly

BuildFails ==
    /\ worker.at = "build" /\ lock = "free"
    /\ script' = "Stopped" /\ lua' = NoVm /\ conn' = "idle" /\ Goto("recv")
    /\ UNCHANGED <<lock, built, inbox, workers, quiet>> /\ WorkerOnly

Swapped ==
    /\ lua' = built
    /\ IF worker.cmd.kind = "run"
         THEN /\ lock' = "worker"
              /\ worker' = [worker EXCEPT !.at = "body", !.runs = built]
              /\ UNCHANGED <<script, conn, quiet>>
         ELSE /\ script' = "Idle" /\ conn' = "idle" /\ quiet' = built - 1
              /\ NextCommand /\ UNCHANGED lock
    /\ UNCHANGED <<built, inbox, workers>> /\ WorkerOnly

\* A deliberate error: the VM is replaced under the hands of the game's thread.
SwapUnlocked == worker.at = "swap" /\ Swapped

\* The old VM is dropped and the new one put in its place under the lock, which
\* a Run keeps for the main chunk.
Swap == worker.at = "swap" /\ lock = "free" /\ Swapped

\* dispatch_delayed and dispatch_key: the callback's key must be of this VM.
Dispatch ==
    /\ worker.at = "lock" /\ lock = "free"
    /\ LET c == worker.cmd
           key == IF c.kind = "delayed" THEN workers.callbacks[c.id] ELSE workers.keybind
           nothing == lua = NoVm \/ (c.kind = "key" /\ key = NoVm)
       IN  /\ workers' = IF c.kind = "delayed" /\ lua # NoVm
                           THEN [workers EXCEPT !.callbacks[c.id] = NoVm] ELSE workers
           /\ CASE nothing -> NextCommand /\ UNCHANGED <<lock, script>>
                [] ~nothing /\ key = lua ->
                     /\ lock' = "worker" /\ UNCHANGED script
                     /\ worker' = [worker EXCEPT !.at = "body", !.runs = lua]
                [] ~nothing /\ key # lua ->
                     script' = "Stopped" /\ NextCommand /\ UNCHANGED lock
    /\ UNCHANGED <<lua, built, inbox, conn, quiet>> /\ WorkerOnly

\* What a chunk or a callback does while it runs.
BodyRegisters ==
    /\ worker.at = "body"
    /\ workers' \in Registrations(workers, worker.runs)
    /\ UNCHANGED <<lua, lock, built, script, inbox, worker, conn, quiet>> /\ WorkerOnly

BodyCalls ==
    /\ worker.at = "body"
    /\ worker' = [worker EXCEPT !.at = "call"]
    /\ UNCHANGED <<lua, lock, built, script, inbox, workers, conn, quiet>> /\ WorkerOnly

\* run_process_event_on_game_thread, from the worker: the game reaches
\* ProcessEvent and runs the job, or cannot, and the call times out.
BodyReturns ==
    /\ worker.at = "call" /\ game.at \in {"engine", "join"}
    /\ worker' = [worker EXCEPT !.at = "body"]
    /\ UNCHANGED <<lua, lock, built, script, inbox, workers, conn, quiet>> /\ WorkerOnly

BodyEnds(ok) ==
    /\ worker.at = "body"
    /\ lock' = "free" /\ NextCommand
    /\ script' = IF ok THEN script ELSE "Stopped"
    /\ workers' = IF ~ok /\ worker.cmd.kind = "run" THEN Cleared(workers) ELSE workers
    /\ conn' = IF worker.cmd.kind = "run" THEN "idle" ELSE conn
    /\ UNCHANGED <<lua, built, inbox, quiet>> /\ WorkerOnly

-----------------------------------------------------------------------------
(* The timer and the key poll.                                              *)

PollOnly == UNCHANGED <<lua, lock, built, script, shutdown, worker, game, conn, active,
                        quiet>>

\* A deadline passes.  Which one comes first is left open.
TimerPops ==
    /\ timer.alive /\ timer.due = 0
    /\ \E i \in workers.delayed :
         /\ timer' = [timer EXCEPT !.due = i]
         /\ workers' = [workers EXCEPT !.delayed = @ \ {i}]
    /\ UNCHANGED <<inbox, keys>> /\ PollOnly

\* Sending fails, and ends the thread, once the worker has gone.
TimerSends ==
    /\ timer.alive /\ timer.due # 0
    /\ worker.at = "gone" \/ Len(inbox) < MaxInbox
    /\ IF worker.at = "gone"
         THEN timer' = [alive |-> FALSE, due |-> 0] /\ UNCHANGED inbox
         ELSE timer' = [timer EXCEPT !.due = 0] /\ Send([kind |-> "delayed", id |-> timer.due])
    /\ UNCHANGED <<workers, keys>> /\ PollOnly

TimerStops ==
    /\ timer.alive /\ timer.due = 0 /\ shutdown
    /\ timer' = [timer EXCEPT !.alive = FALSE]
    /\ UNCHANGED <<inbox, workers, keys>> /\ PollOnly

\* A bound key goes down.
KeyPress ==
    /\ keys /\ workers.keybind # NoVm /\ worker.at # "gone" /\ Len(inbox) < MaxInbox
    /\ Send([kind |-> "key"])
    /\ UNCHANGED <<workers, timer, keys>> /\ PollOnly

KeysStop ==
    /\ keys /\ (shutdown \/ worker.at = "gone")
    /\ keys' = FALSE
    /\ UNCHANGED <<inbox, workers, timer>> /\ PollOnly

-----------------------------------------------------------------------------
(* The game's thread: process_event_detour, drain_active_lua and            *)
(* LuaRuntime::drain_game_thread.  A nested ProcessEvent finds IN_DRAIN set *)
(* and drains nothing, so a tick begins in the engine only.                 *)

GameOnly == UNCHANGED <<built, script, worker, timer, keys, conn, active, quiet>>

Tick ==
    /\ game.at = "engine" /\ active
    /\ game' = [game EXCEPT !.at = "clone"]
    /\ UNCHANGED <<lua, lock, inbox, workers, shutdown>> /\ GameOnly

Drain ==
    /\ lock' = "game"
    /\ game' = [game EXCEPT !.at = "drain", !.pending = workers.gameThread]
    /\ workers' = [workers EXCEPT !.gameThread = << >>]

\* A deliberate error: the VM is waited for.
DrainLocks ==
    /\ game.at = "clone" /\ lock = "free"
    /\ Drain /\ UNCHANGED <<lua, inbox, shutdown>> /\ GameOnly

\* try_lock: a VM in use, or none, and the tick is over.
DrainBegins ==
    /\ game.at = "clone"
    /\ IF lock = "free" /\ lua # NoVm
         THEN Drain
         ELSE game' = [game EXCEPT !.at = "put"] /\ UNCHANGED <<lock, workers>>
    /\ UNCHANGED <<lua, inbox, shutdown>> /\ GameOnly

\* The next closure, if its key is of this VM.
DrainNext ==
    /\ game.at = "drain" /\ game.pending # << >>
    /\ game' = [game EXCEPT !.pending = Tail(@),
                   !.at = IF Head(game.pending) = lua THEN "body" ELSE "drain",
                   !.runs = IF Head(game.pending) = lua THEN lua ELSE NoVm]
    /\ UNCHANGED <<lua, lock, inbox, workers, shutdown>> /\ GameOnly

ClosureRegisters ==
    /\ game.at = "body"
    /\ workers' \in Registrations(workers, game.runs)
    /\ UNCHANGED <<lua, lock, inbox, game, shutdown>> /\ GameOnly

ClosureCalls ==
    /\ game.at = "body"
    /\ game' = [game EXCEPT !.at = "call"]
    /\ UNCHANGED <<lua, lock, inbox, workers, shutdown>> /\ GameOnly

\* The executor arms every thread but its caller and sleeps until one of them
\* has run the job: the caller is the game's thread itself, so none does.
ClosureCallTimesOut ==
    /\ game.at = "call"
    /\ game' = [game EXCEPT !.at = "body"]
    /\ UNCHANGED <<lua, lock, inbox, workers, shutdown>> /\ GameOnly

ClosureEnds ==
    /\ game.at = "body"
    /\ game' = [game EXCEPT !.at = "drain", !.runs = NoVm]
    /\ UNCHANGED <<lua, lock, inbox, workers, shutdown>> /\ GameOnly

DrainEnds ==
    /\ game.at = "drain" /\ game.pending = << >>
    /\ lock' = "free" /\ game' = [game EXCEPT !.at = "put"]
    /\ UNCHANGED <<lua, inbox, workers, shutdown>> /\ GameOnly

\* The clone is dropped.  If the connection has gone, it was the last one, and
\* the game's thread tears the runtime down.
PutBack ==
    /\ game.at = "put"
    /\ IF conn = "gone"
         THEN game' = [game EXCEPT !.at = "join"] /\ Teardown
         ELSE game' = [game EXCEPT !.at = "engine"] /\ UNCHANGED <<inbox, shutdown>>
    /\ UNCHANGED <<lua, lock, workers>> /\ GameOnly

GameJoined ==
    /\ game.at = "join" /\ Ended
    /\ game' = [game EXCEPT !.at = "engine"]
    /\ UNCHANGED <<lua, lock, inbox, workers, shutdown>> /\ GameOnly

-----------------------------------------------------------------------------
CommandMoves == FirstBuild \/ Refuse \/ Receive \/ Build \/ BuildFails \/ Swap \/ Dispatch

WorkerMoves == CommandMoves \/ BodyReturns
GameMoves ==
    DrainBegins \/ DrainNext \/ ClosureCallTimesOut \/ DrainEnds \/ PutBack \/ GameJoined

LuaNext ==
    \/ Ensure \/ ClientLeaves \/ Joined
    \/ \E kind \in {"run", "stop"} : Ask(kind)
    \/ WorkerMoves \/ BodyRegisters \/ BodyCalls \/ \E ok \in BOOLEAN : BodyEnds(ok)
    \/ TimerPops \/ TimerSends \/ TimerStops \/ KeyPress \/ KeysStop
    \/ Tick \/ GameMoves \/ ClosureRegisters \/ ClosureCalls \/ ClosureEnds

\* The threads go on.  A script that runs comes to an end (nothing but its own end
\* makes the worker let go of the VM), and an armed game thread traps on its next
\* ProcessEvent, whatever it does in between.
LuaFairness ==
    /\ WF_luaVars(WorkerMoves) /\ SF_luaVars(BodyReturns) /\ WF_luaVars(GameMoves) /\ WF_luaVars(Joined)
    /\ SF_luaVars(\E ok \in BOOLEAN : BodyEnds(ok)) /\ SF_luaVars(ClosureEnds)
    /\ WF_luaVars(TimerSends) /\ WF_luaVars(TimerStops) /\ WF_luaVars(KeysStop)

LuaSpec == LuaInit /\ [][LuaNext]_luaVars /\ LuaFairness

-----------------------------------------------------------------------------
(* Properties.                                                              *)

Silenced == {worker.runs, game.runs} \cap 1 .. quiet = {}

NotEarly ==
    worker.at \in {"body", "call"} /\ worker.cmd.kind = "delayed"
        => worker.cmd.id \notin workers.delayed

\* A script leaves nothing behind.  Once stop() has returned, no code of an older
\* script runs on any thread, neither by a dispatch still in the channel nor as a
\* closure the game has drained; and no dispatch left over from it runs a callback
\* of the next script ahead of its deadline.
NothingLeftOver == Silenced /\ NotEarly

\* When the connection is dropped, the three threads of its runtime end, also
\* when the game's thread is the one to drop it and the worker waits for the game.
RuntimeEnds == (conn \in {"join", "gone"}) ~> Ended

\* A UFunction call of the Lua worker returns: the game's thread never waits for
\* the VM that the caller holds.
CallReturns == (worker.at = "call") ~> (worker.at # "call")

\* The threads of a runtime never wait for each other for good.
RuntimeMovesOn == RuntimeEnds /\ CallReturns
=============================================================================
